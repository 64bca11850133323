---------------------------- MODULE PushService -----------------------------
(***************************************************************************)
(* What a conduit promises the people who push to it, and no more: every   *)
(* push that is accepted is settled once, in the order of acceptance, and  *)
(* nothing that was settled is ever accepted again or changed.             *)
(***************************************************************************)
EXTENDS Naturals, Sequences

CONSTANT Push

VARIABLES
    backlog,    \* the accepted pushes, oldest first
    outcome     \* what became of each push

Outcomes == {"succeeded", "nothing", "failed"}

Init == /\ backlog = <<>>
        /\ outcome = [p \in Push |-> "none"]

Accept(p) ==
    /\ outcome[p] = "none"
    /\ outcome' = [outcome EXCEPT ![p] = "pending"]
    /\ backlog' = Append(backlog, p)

Settle(o) ==
    /\ backlog # <<>>
    /\ outcome' = [outcome EXCEPT ![Head(backlog)] = o]
    /\ backlog' = Tail(backlog)

Next == \/ \E p \in Push : Accept(p)
        \/ \E o \in Outcomes : Settle(o)

Spec == Init /\ [][Next]_<<backlog, outcome>>
=============================================================================
