------------------------ MODULE CommandRunnerProofs -------------------------
(***************************************************************************)
(* Whatever a command prints and reads, however small its pipes are and    *)
(* wherever it fails: what run returns is the whole output.                *)
(*                                                                         *)
(* The argument goes from the end backwards. A caller that is past a join  *)
(* has found that copying thread at its end (PastJoins); the thread ended  *)
(* when nothing was left in the pipe and the process could print no more   *)
(* (EndedIsDrained), or died because the client was gone, which a pump's   *)
(* command has none of (DiedIsGone); and a process that exits with 0 has   *)
(* printed everything (GoodExit).                                          *)
(***************************************************************************)
EXTENDS CommandRunner, TLAPS

EndedIsDrained == \A s \in Stream :
    conduit[s] = "ended" => process = "exited" /\ copied[s] = printed[s]

DiedIsGone == \A s \in Stream : conduit[s] = "died" => Gone

GoodExit == process = "exited" /\ code = 0 =>
    took = job.reads /\ \A s \in Stream : printed[s] = Length(s)

Copied(s) == conduit[s] \in {"ended", "died"}

PastJoins ==
    /\ pc \in {"join out", "join err", "join in", "wait", "returned", "reported"} =>
          \A s \in Stream : conduit[s] # "none"
    /\ pc \in {"join err", "join in", "wait", "returned", "reported"} => Copied("out")
    /\ pc \in {"join in", "wait", "returned", "reported"} => Copied("err")
    /\ pc \in {"returned", "reported"} => process = "exited"

\* A command that was not started has printed nothing, and one whose run threw was
\* not started or is at its end.
NotStarted ==
    /\ pc = "start" => process = "none"
    /\ process = "none" => copied = printed /\ \A s \in Stream : conduit[s] = "none"
    /\ pc = "thrown" =>
          job.caller = "pump" /\ (process = "none" \/ (Copied("out") /\ Copied("err")))
    /\ pc = "returned" => job.caller = "pump" /\ code = 0

WholeInv == TypeOK /\ EndedIsDrained /\ DiedIsGone /\ GoodExit /\ PastJoins /\ NotStarted

-----------------------------------------------------------------------------
LEMMA JobFacts == job \in Job =>
    /\ Capacity \in Nat \ {0}
    /\ job.caller \in {"pump", "ssh"} /\ job.hasInput \in BOOLEAN
    /\ job.reads \in Nat /\ InputLength \in Nat
    /\ \A s \in Stream : Length(s) \in Nat
  BY JobAssumption DEF Length, InputLength

LEMMA SameJob == job' = job =>
    InputLength' = InputLength /\ \A s \in Stream : Length(s)' = Length(s)
  BY DEF Length, InputLength

LEMMA InitType == Init => TypeOK
  <1> SUFFICES ASSUME Init PROVE TypeOK
    OBVIOUS
  <1>1. /\ Capacity \in Nat \ {0} /\ job.caller \in {"pump", "ssh"}
        /\ job.reads \in Nat /\ InputLength \in Nat
        /\ \A s \in Stream : Length(s) \in Nat
    BY JobFacts DEF Init
  <1> QED
    BY <1>1 DEF Init, TypeOK, ControlOK, OutputOK, InputOK

LEMMA NextControl == ControlOK /\ [Next]_vars => ControlOK'
  <1> SUFFICES ASSUME ControlOK, [Next]_vars PROVE ControlOK'
    OBVIOUS
  <1> USE DEF ControlOK
  <1>1. CASE Start
    BY <1>1 DEF Start, clientVars
  <1>2. CASE StartFails
    BY <1>2 DEF StartFails, processVars, copyVars, clientVars
  <1>3. ASSUME NEW s \in Stream \cup {"in"}, Join(s) PROVE ControlOK'
    <2>1. pc' = AfterJoin[s] /\ s \in {"out", "err", "in"}
      BY <1>3 DEF Join, Stream
    <2>2. pc' \in {"join err", "join in", "wait"}
      <3>1. CASE s = "out"
        BY <2>1, <3>1 DEF AfterJoin
      <3>2. CASE s = "err"
        BY <2>1, <3>2 DEF AfterJoin
      <3>3. CASE s = "in"
        BY <2>1, <3>3 DEF AfterJoin
      <3> QED
        BY <2>1, <3>1, <3>2, <3>3
    <2> QED
      BY <1>3, <2>2 DEF Join, processVars, copyVars, clientVars
  <1>4. CASE WaitFor
    BY <1>4 DEF WaitFor, processVars, copyVars, clientVars
  <1>5. ASSUME NEW s \in Stream, Prints(s) PROVE ControlOK'
    BY <1>5 DEF Prints, copyVars, clientVars
  <1>6. ASSUME NEW c \in {0, 1}, Exit(c) PROVE ControlOK'
    BY <1>6 DEF Exit, copyVars, clientVars
  <1>7. CASE TakeInput
    BY <1>7 DEF TakeInput, copyVars, clientVars
  <1>8. ASSUME NEW s \in Stream, Copy(s) PROVE ControlOK'
    BY <1>8 DEF Copy, processVars, clientVars
  <1>9. CASE Feed
    BY <1>9 DEF Feed, processVars, clientVars
  <1>10. CASE Send \/ Close \/ Leave
    BY <1>10 DEF Send, Close, Leave, processVars, copyVars
  <1>11. CASE UNCHANGED vars
    BY <1>11 DEF vars, processVars, copyVars, clientVars
  <1> QED
    BY <1>1, <1>2, <1>3, <1>4, <1>5, <1>6, <1>7, <1>8, <1>9, <1>10, <1>11
    DEF Next, Caller, Process, Client, ExitWell, ExitBadly

LEMMA NextOutput == ControlOK /\ OutputOK /\ [Next]_vars => OutputOK'
  <1> SUFFICES ASSUME ControlOK, OutputOK, [Next]_vars PROVE OutputOK'
    OBVIOUS
  <1>0. Capacity \in Nat \ {0} /\ \A s \in Stream : Length(s) \in Nat
    BY JobFacts DEF ControlOK
  <1>1. ASSUME UNCHANGED <<job, printed, copied>> PROVE OutputOK'
    BY <1>1, SameJob DEF OutputOK
  <1>2. ASSUME NEW s \in Stream, Prints(s) PROVE OutputOK'
    <2>1. UNCHANGED <<job, copied>>
      BY <1>2 DEF Prints, copyVars
    <2>2. /\ printed' = [printed EXCEPT ![s] = printed[s] + 1]
          /\ printed[s] < Length(s) /\ printed[s] < copied[s] + Capacity
      BY <1>2 DEF Prints
    <2> QED
      BY <1>0, <2>1, <2>2, SameJob DEF OutputOK
  <1>3. ASSUME NEW s \in Stream, Copy(s) PROVE OutputOK'
    <2>1. CASE UNCHANGED <<job, printed, copied>>
      BY <2>1, <1>1
    <2>2. CASE /\ UNCHANGED <<job, printed>>
               /\ copied' = [copied EXCEPT ![s] = copied[s] + 1]
               /\ copied[s] < printed[s]
      BY <1>0, <2>2, SameJob DEF OutputOK
    <2> QED
      BY <1>3, <2>1, <2>2 DEF Copy, processVars
  <1> QED
    BY <1>1, <1>2, <1>3
    DEF Next, Caller, Process, Client, Start, StartFails, Join, WaitFor, TakeInput, ExitWell,
        ExitBadly, Exit, Feed, Send, Close, Leave, vars, processVars, copyVars, clientVars

LEMMA NextInput == ControlOK /\ InputOK /\ [Next]_vars => InputOK'
  <1> SUFFICES ASSUME ControlOK, InputOK, [Next]_vars PROVE InputOK'
    OBVIOUS
  <1>0. job.reads \in Nat /\ InputLength \in Nat
    BY JobFacts DEF ControlOK
  <1>1. ASSUME UNCHANGED <<job, took, sent, fed>> PROVE InputOK'
    BY <1>1, SameJob DEF InputOK
  <1>2. CASE TakeInput
    <2>1. UNCHANGED <<job, sent, fed>> /\ took < job.reads /\ took' = took + 1
      BY <1>2 DEF TakeInput, copyVars, clientVars
    <2> QED
      BY <1>0, <2>1, SameJob DEF InputOK
  <1>3. CASE Feed
    <2>1. UNCHANGED <<job, took, sent>> /\ (fed' = fed \/ (fed < sent /\ fed' = fed + 1))
      BY <1>3 DEF Feed, processVars, clientVars
    <2> QED
      BY <1>0, <2>1, SameJob DEF InputOK
  <1>4. CASE Send
    <2>1. UNCHANGED <<job, took, fed>> /\ sent < InputLength /\ sent' = sent + 1
      BY <1>4 DEF Send, processVars, copyVars
    <2> QED
      BY <1>0, <2>1, SameJob DEF InputOK
  <1> QED
    BY <1>1, <1>2, <1>3, <1>4
    DEF Next, Caller, Process, Client, Start, StartFails, Join, WaitFor, Prints, ExitWell,
        ExitBadly, Exit, Copy, Close, Leave, vars, processVars, copyVars, clientVars

\* The type invariant is inductive by itself.
LEMMA NextType == TypeOK /\ [Next]_vars => TypeOK'
  BY NextControl, NextOutput, NextInput DEF TypeOK
-----------------------------------------------------------------------------
LEMMA InitWhole == Init => WholeInv
  BY InitType
  DEF Init, WholeInv, EndedIsDrained, DiedIsGone, GoodExit, PastJoins, NotStarted, Stream

\* One case for each action. What a caller, a client or the input's thread does
\* leaves the outputs alone; what matters are Exit, Copy and the joins.
LEMMA NextWhole == WholeInv /\ [Next]_vars => WholeInv'
  <1> SUFFICES ASSUME WholeInv, [Next]_vars PROVE WholeInv'
    OBVIOUS
  <1>0. TypeOK' /\ ControlOK /\ printed \in [Stream -> Nat] /\ copied \in [Stream -> Nat]
    BY NextType DEF WholeInv, TypeOK, OutputOK
  <1> USE <1>0 DEF WholeInv, EndedIsDrained, DiedIsGone, GoodExit, PastJoins, NotStarted, Copied
  <1>1. CASE Start
    <2>1. /\ pc = "start" /\ pc' = "join out" /\ process' = "running"
          /\ UNCHANGED <<job, code, printed, copied>>
      BY <1>1 DEF Start
    <2>2. \A s \in Stream : conduit'[s] = "copying"
      BY <1>1 DEF Start, Stream
    <2> QED
      BY <2>1, <2>2
  <1>2. CASE StartFails
    <2>1. /\ pc = "start" /\ UNCHANGED <<job, process, code, printed, took, conduit, copied, client>>
          /\ pc' \in {"silent", "thrown"} /\ (pc' = "thrown" => job.caller = "pump")
      BY <1>2, JobFacts DEF StartFails, processVars, copyVars, clientVars, ControlOK
    <2> QED
      BY <2>1, SameJob DEF Gone
  <1>3. ASSUME NEW s \in Stream \cup {"in"}, Join(s) PROVE WholeInv'
    <2>1. /\ conduit[s] # "copying"
          /\ UNCHANGED <<job, process, code, printed, took, conduit, copied, client>>
      BY <1>3 DEF Join, processVars, copyVars, clientVars
    <2>2. \/ s = "out" /\ pc = "join out" /\ pc' = "join err"
          \/ s = "err" /\ pc = "join err" /\ pc' = "join in"
          \/ s = "in" /\ pc = "join in" /\ pc' = "wait"
      <3>1. pc = Joining[s] /\ pc' = AfterJoin[s] /\ s \in {"out", "err", "in"}
        BY <1>3 DEF Join, Stream
      <3>2. CASE s = "out"
        BY <3>1, <3>2 DEF Joining, AfterJoin
      <3>3. CASE s = "err"
        BY <3>1, <3>3 DEF Joining, AfterJoin
      <3>4. CASE s = "in"
        BY <3>1, <3>4 DEF Joining, AfterJoin
      <3> QED
        BY <3>1, <3>2, <3>3, <3>4
    <2>3. s \in Stream /\ pc \in {"join out", "join err"} => Copied(s)
      BY <2>1 DEF ControlOK
    <2> QED
      BY <2>1, <2>2, <2>3, SameJob DEF Gone, Stream
  <1>4. CASE WaitFor
    <2>1. /\ pc = "wait" /\ process = "exited"
          /\ UNCHANGED <<job, process, code, printed, took, conduit, copied, client>>
          /\ pc' \in {"reported", "returned", "thrown"}
          /\ pc' = "returned" => job.caller = "pump" /\ code = 0
          /\ pc' = "thrown" => job.caller = "pump"
      BY <1>4, JobFacts DEF WaitFor, processVars, copyVars, clientVars, ControlOK
    <2> QED
      BY <2>1, SameJob DEF Gone
  <1>5. ASSUME NEW s \in Stream, Prints(s) PROVE WholeInv'
    <2>1. /\ process = "running" /\ pc # "start"
          /\ UNCHANGED <<job, pc, process, code, conduit, copied, client>>
      BY <1>5 DEF Prints, copyVars, clientVars
    <2> QED
      BY <2>1 DEF Gone
  <1>6. ASSUME NEW c \in {0, 1}, Exit(c), c = 0 => ExitWell PROVE WholeInv'
    <2>1. /\ process = "running" /\ process' = "exited" /\ code' = c
          /\ UNCHANGED <<job, pc, printed, took, conduit, copied, client>>
      BY <1>6 DEF Exit, copyVars, clientVars
    <2>2. c = 0 => took = job.reads /\ \A s \in Stream : printed[s] = Length(s)
      BY <1>6 DEF ExitWell
    <2>3. pc # "returned"
      BY <2>1
    <2> QED
      BY <2>1, <2>2, <2>3, SameJob DEF Gone
  <1>7. CASE TakeInput
    <2>1. /\ process = "running"
          /\ UNCHANGED <<job, pc, process, code, printed, conduit, copied, client>>
      BY <1>7 DEF TakeInput, copyVars, clientVars
    <2> QED
      BY <2>1 DEF Gone
  <1>8. ASSUME NEW s \in Stream, Copy(s) PROVE WholeInv'
    <2>1. conduit[s] = "copying" /\ UNCHANGED <<job, pc, process, code, printed, took, client>>
      BY <1>8 DEF Copy, processVars, clientVars
    <2>2. process # "none"
      BY <2>1
    <2>3. CASE UNCHANGED conduit /\ copied' = [copied EXCEPT ![s] = copied[s] + 1]
      <3>1. EndedIsDrained'
        BY <2>1, <2>3 DEF ControlOK
      <3>2. DiedIsGone' /\ GoodExit' /\ PastJoins'
        BY <2>1, <2>3, SameJob DEF Gone
      <3>3. NotStarted'
        BY <2>1, <2>2, <2>3
      <3> QED
        BY <1>0, <3>1, <3>2, <3>3
    <2>4. CASE /\ UNCHANGED copied
               /\ \/ conduit' = [conduit EXCEPT ![s] = "died"] /\ Gone
                  \/ conduit' = [conduit EXCEPT ![s] = "ended"]
                     /\ copied[s] = printed[s] /\ process = "exited"
      <3>1. \A t \in Stream : /\ t # s => conduit'[t] = conduit[t]
                              /\ conduit'[s] \in {"ended", "died"}
                              /\ conduit'[s] = "died" => Gone
                              /\ conduit'[s] = "ended" =>
                                    copied[s] = printed[s] /\ process = "exited"
        BY <2>4, <1>0 DEF ControlOK
      <3>2. EndedIsDrained'
        BY <2>1, <2>4, <3>1
      <3>3. DiedIsGone' /\ GoodExit'
        BY <2>1, <3>1, SameJob DEF Gone
      <3>4. PastJoins'
        BY <2>1, <3>1 DEF Stream
      <3>5. NotStarted'
        BY <2>1, <2>2, <2>4, <3>1 DEF Stream
      <3> QED
        BY <1>0, <3>2, <3>3, <3>4, <3>5
    <2> QED
      BY <1>8, <2>3, <2>4 DEF Copy
  <1>9. CASE Feed
    <2>1. /\ UNCHANGED <<job, pc, process, code, printed, took, copied, client>>
          /\ \A s \in Stream : conduit'[s] = conduit[s]
      BY <1>9 DEF Feed, processVars, clientVars, ControlOK, Stream
    <2> QED
      BY <2>1, SameJob DEF Gone, Stream
  <1>10. CASE Send \/ Close \/ Leave
    <2>1. /\ UNCHANGED <<job, pc, process, code, printed, took, conduit, copied>>
          /\ client = "gone" => client' = "gone"
      BY <1>10 DEF Send, Close, Leave, processVars, copyVars
    <2> QED
      BY <2>1, SameJob DEF Gone
  <1>11. CASE UNCHANGED vars
    BY <1>11, SameJob DEF vars, processVars, copyVars, clientVars, Gone
  <1> QED
    <2> HIDE DEF WholeInv
    <2>1. ExitWell => WholeInv'
      BY <1>6 DEF ExitWell
    <2>2. ExitBadly => WholeInv'
      BY <1>6 DEF ExitBadly
    <2> QED
      BY <1>1, <1>2, <1>3, <1>4, <1>5, <2>1, <2>2, <1>7, <1>8, <1>9, <1>10, <1>11
      DEF Next, Caller, Process, Client

LEMMA InvGivesWhole == WholeInv => WholeOutput
  <1> SUFFICES ASSUME WholeInv PROVE WholeOutput
    OBVIOUS
  <1> USE DEF WholeInv
  <1>1. ASSUME pc = "returned" \/ pc = "thrown" PROVE copied = printed
    <2>1. CASE process = "none"
      BY <2>1 DEF NotStarted
    <2>2. CASE process # "none"
      <3>1. job.caller = "pump" /\ Copied("out") /\ Copied("err")
        BY <1>1, <2>2 DEF NotStarted, PastJoins
      <3>2. \A s \in Stream : copied[s] = printed[s]
        BY <3>1 DEF EndedIsDrained, DiedIsGone, Copied, Gone, Stream
      <3> QED
        BY <3>2 DEF TypeOK, OutputOK
    <2> QED
      BY <2>1, <2>2
  <1>2. ASSUME pc = "returned" \/ (pc = "reported" /\ code = 0 /\ client # "gone")
        PROVE  took = job.reads /\ \A s \in Stream : copied[s] = Length(s)
    <2>1. process = "exited" /\ code = 0
      BY <1>2 DEF PastJoins, NotStarted
    <2>2. ~Gone
      BY <1>2 DEF NotStarted, Gone
    <2>3. \A s \in Stream : copied[s] = printed[s]
      BY <1>2, <2>2 DEF PastJoins, EndedIsDrained, DiedIsGone, Copied, Stream
    <2> QED
      BY <2>1, <2>3 DEF GoodExit
  <1> QED
    BY <1>1, <1>2 DEF WholeOutput

-----------------------------------------------------------------------------
\* Every variable of CommandRunner keeps its type: no thread copies more than there
\* is, and no pipe holds more than its capacity.
THEOREM RunnerTypeCorrect == Spec => []TypeOK
  <1>1. Init => TypeOK
    BY InitType
  <1> QED
    BY <1>1, NextType, PTL DEF Spec

\* Whatever the command, its texts and the size of its pipes: what run returns or
\* quotes is everything the process printed, it returns only after exit code 0,
\* and a client that stays and is told 0 has received everything.
THEOREM OutputIsWhole == Spec => []WholeOutput
  <1>1. Spec => []WholeInv
    BY InitWhole, NextWhole, PTL DEF Spec
  <1> QED
    BY <1>1, InvGivesWhole, PTL
=============================================================================
