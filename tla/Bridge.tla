------------------------------- MODULE Bridge -------------------------------
(***************************************************************************)
(* What a conduit promises to the people on its two sides, in the terms of *)
(* what they see: changelists in Perforce, a mirror of them, and an answer *)
(* to each push.                                                           *)
(***************************************************************************)
EXTENDS Naturals, Sequences, SequencesExt

CONSTANTS
    UserEdit,   \* the edits of Perforce users
    Push,       \* the pushes to the conduit
    Parts,      \* the edits of each push, a set for each changelist it makes
    Carrying    \* whether a push can bring what one before it failed to submit

VARIABLES
    history,    \* the edits in Perforce after each changelist
    taken,      \* the changelist up to which the mirror took them over
    answer,     \* what each push was told
    broken      \* the conduit was cut off where it does not recover

vars == <<history, taken, answer, broken>>

Now == Last(history)
EditsIn(p) == UNION Range(Parts[p])

Init ==
    /\ history = <<{}>>
    /\ taken = 1
    /\ answer = [p \in Push |-> "none"]
    /\ broken = FALSE

UserSubmits(e) ==
    /\ history' = Append(history, Now \cup {e})
    /\ UNCHANGED <<taken, answer, broken>>

\* A part of a push is accepted as a whole, once, after the parts before it and
\* before the push is answered; what others submitted stays. Once broken, what was
\* there may get lost, and what got lost may come back.
AcceptPart(p) == \E q \in Push : \E k \in DOMAIN Parts[q] :
    /\ answer[p] = "none"
    /\ q = p \/ (Carrying /\ answer[q] = "failed")
    /\ IF broken
       THEN \E left \in SUBSET UNION Range(history) :
                history' = Append(history, left \cup Parts[q][k])
       ELSE /\ Parts[q][k] \cap Now = {}
            /\ \A j \in 1..(k - 1) : Parts[q][j] \subseteq Now
            /\ history' = Append(history, Now \cup Parts[q][k])
    /\ UNCHANGED <<taken, answer, broken>>

\* The mirror takes one changelist after the other.
TakeOver ==
    /\ taken < Len(history)
    /\ taken' = taken + 1
    /\ UNCHANGED <<history, answer, broken>>

\* Who is told ok has all edits in Perforce, who is told that the push failed does
\* not have the last part there, and only a push without edits brings nothing. A
\* crash may leave a push without an answer.
TellTruth(p, v) ==
    /\ answer[p] = "none"
    /\ v = "ok" => EditsIn(p) \subseteq Now
    /\ v = "failed" => broken' \/ Last(Parts[p]) \cap Now = {}
    /\ v = "nothing" => EditsIn(p) = {}
    /\ answer' = [answer EXCEPT ![p] = v]
    /\ broken => broken'
    /\ UNCHANGED <<history, taken>>

Break ==
    /\ broken' = TRUE
    /\ UNCHANGED <<history, taken, answer>>

Next ==
    \/ \E e \in UserEdit : UserSubmits(e)
    \/ \E p \in Push : AcceptPart(p)
    \/ TakeOver
    \/ \E p \in Push, v \in {"ok", "failed", "nothing", "lost"} : TellTruth(p, v)
    \/ Break

Spec == Init /\ [][Next]_vars
=============================================================================
