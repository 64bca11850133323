--------------------------- MODULE CommandRunner ----------------------------
(***************************************************************************)
(* How the conduit runs a command: CommandRunnerImpl for the p4, git and   *)
(* bzr commands of the pumps, and ShellCommand for the git and bzr         *)
(* commands that an SSH client asks for. A thread per stream, a            *)
(* StreamConduit, copies between the process and the conduit, and the      *)
(* caller joins these threads and then waits for the process.              *)
(*                                                                         *)
(* A text is a sequence of pieces. A pipe holds at most Capacity of them.  *)
(***************************************************************************)
EXTENDS Naturals, Sequences

CONSTANTS
    Job,     \* the commands that may be run
    Capacity \* of a pipe between a process and the conduit

Stream == {"out", "err"}

\* A job says who runs it, what it prints (text), the input it is given, if any,
\* how much of it it reads, the end counting as a piece, and how much before each
\* piece of its output.
ASSUME JobAssumption ==
    /\ Capacity \in Nat \ {0}
    /\ \A j \in Job :
          /\ j.caller \in {"pump", "ssh"}
          /\ j.hasInput \in BOOLEAN
          /\ \A s \in Stream : Len(j.text[s]) \in Nat
          /\ Len(j.input) \in Nat
          /\ j.reads \in 0..(Len(j.input) + 1)
          /\ \A k \in 1..Len(j.text["out"]) : j.before[k] \in 0..j.reads

VARIABLES
    job,     \* the command that is run
    pc,      \* where the thread is that runs it
    process, \* "none", "running" or "exited"
    code,    \* what it exited with
    printed, \* the pieces it has printed to each stream
    took,    \* the pieces it has read of its input
    conduit, \* the threads that copy out, err and in
    copied,  \* the pieces that they have copied from each stream
    fed,     \* and to the process
    client,  \* the other end of the input: "open", "eof" or "gone"
    sent     \* the pieces that came from there

processVars == <<process, code, printed, took>>
copyVars    == <<conduit, copied, fed>>
clientVars  == <<client, sent>>
vars == <<job, pc, processVars, copyVars, clientVars>>

Length(s)   == Len(job.text[s])
InputLength == Len(job.input)

Done == pc \in {"returned", "thrown", "reported", "silent"}

\* The pumps' input is a byte array, an SSH client's arrives piece by piece.
Init ==
    /\ job \in Job
    /\ pc = "start"
    /\ process = "none"
    /\ code = 0
    /\ printed = [s \in Stream |-> 0]
    /\ took = 0
    /\ conduit = [s \in Stream \cup {"in"} |-> "none"]
    /\ copied = [s \in Stream |-> 0]
    /\ fed = 0
    /\ client = IF job.caller = "ssh" THEN "open" ELSE "eof"
    /\ sent = IF job.caller = "ssh" THEN 0 ELSE InputLength

-----------------------------------------------------------------------------
(* The caller                                                               *)

Start ==
    /\ pc = "start"
    /\ process' = "running"
    /\ conduit' = [s \in Stream \cup {"in"} |->
                       IF s = "in" /\ ~job.hasInput THEN "none" ELSE "copying"]
    /\ pc' = "join out"
    /\ UNCHANGED <<job, code, printed, took, copied, fed, clientVars>>

\* There is no such command. CommandRunnerImpl throws; the thread of ShellCommand
\* ends without a call of the exit callback.
StartFails ==
    /\ pc = "start"
    /\ pc' = IF job.caller = "ssh" THEN "silent" ELSE "thrown"
    /\ UNCHANGED <<job, processVars, copyVars, clientVars>>

Joining   == [out |-> "join out", err |-> "join err", in |-> "join in"]
AfterJoin == [out |-> "join err", err |-> "join in", in |-> "wait"]

\* Mutant: the end of the process is taken for the end of its output.
JoinProcess(s) ==
    /\ pc = Joining[s]
    /\ process = "exited"
    /\ pc' = AfterJoin[s]
    /\ UNCHANGED <<job, processVars, copyVars, clientVars>>

\* A thread that died of an exception is joined like one that ended.
Join(s) ==
    /\ pc = Joining[s]
    /\ conduit[s] # "copying"
    /\ pc' = AfterJoin[s]
    /\ UNCHANGED <<job, processVars, copyVars, clientVars>>

\* run throws if the command did not return 0, ShellCommand passes the code on.
WaitFor ==
    /\ pc = "wait"
    /\ process = "exited"
    /\ pc' = IF job.caller = "ssh" THEN "reported"
             ELSE IF code = 0 THEN "returned" ELSE "thrown"
    /\ UNCHANGED <<job, processVars, copyVars, clientVars>>

-----------------------------------------------------------------------------
(* The process                                                              *)

Prints(s) ==
    /\ process = "running"
    /\ printed[s] < Length(s)
    /\ s = "out" => took >= job.before[printed[s] + 1]
    /\ printed[s] < copied[s] + Capacity
    /\ printed' = [printed EXCEPT ![s] = @ + 1]
    /\ UNCHANGED <<job, pc, process, code, took, copyVars, clientVars>>

Exit(c) ==
    /\ process = "running"
    /\ process' = "exited"
    /\ code' = c
    /\ UNCHANGED <<job, pc, printed, took, copyVars, clientVars>>

ExitWell ==
    /\ took = job.reads
    /\ \A s \in Stream : printed[s] = Length(s)
    /\ Exit(0)

TakeInput ==
    /\ process = "running"
    /\ took < job.reads
    /\ took < fed \/ (conduit["in"] = "ended" /\ fed = InputLength)
    /\ took' = took + 1
    /\ UNCHANGED <<job, pc, process, code, printed, copyVars, clientVars>>

\* The command fails; it may at any time, and does if its input ends too early.
ExitBadly == Exit(1)

InputCut == /\ took < job.reads
            /\ took = fed
            /\ conduit["in"] = "ended"
            /\ fed < InputLength

-----------------------------------------------------------------------------
(* The StreamConduits                                                       *)

Gone == job.caller = "ssh" /\ client = "gone"

\* Mutant: one thread copies the two streams, one after the other.
CopyInTurn(s) ==
    /\ s = "err" => conduit["out"] # "copying"
    /\ conduit[s] = "copying"
    /\ \/ /\ copied[s] < printed[s]
          /\ copied' = [copied EXCEPT ![s] = @ + 1]
          /\ UNCHANGED conduit
       \/ /\ copied[s] = printed[s]
          /\ process = "exited"
          /\ conduit' = [conduit EXCEPT ![s] = "ended"]
          /\ UNCHANGED copied
    /\ UNCHANGED <<job, pc, processVars, fed, clientVars>>

\* To write to a client that is gone throws.
Copy(s) ==
    /\ conduit[s] = "copying"
    /\ \/ /\ copied[s] < printed[s]
          /\ ~Gone
          /\ copied' = [copied EXCEPT ![s] = @ + 1]
          /\ UNCHANGED conduit
       \/ /\ copied[s] < printed[s]
          /\ Gone
          /\ conduit' = [conduit EXCEPT ![s] = "died"]
          /\ UNCHANGED copied
       \/ /\ copied[s] = printed[s]
          /\ process = "exited"
          /\ conduit' = [conduit EXCEPT ![s] = "ended"]
          /\ UNCHANGED copied
    /\ UNCHANGED <<job, pc, processVars, fed, clientVars>>

\* Mutant: the process's input is not closed when the caller's ends.
FeedUnclosed ==
    /\ conduit["in"] = "copying"
    /\ fed < sent
    /\ process = "running" /\ fed < took + Capacity
    /\ fed' = fed + 1
    /\ UNCHANGED <<job, pc, processVars, conduit, copied, clientVars>>

\* Mutant: the -1 that marks the end is written too.
FeedEnd ==
    /\ conduit["in"] = "copying"
    /\ IF fed < sent
       THEN /\ process = "running" /\ fed < took + Capacity
            /\ fed' = fed + 1
            /\ UNCHANGED conduit
       ELSE /\ client # "open"
            /\ conduit' = [conduit EXCEPT !["in"] = "ended"]
            /\ fed' = fed + 1
    /\ UNCHANGED <<job, pc, processVars, copied, clientVars>>

\* To write to a process that has exited throws. At the end of the input the
\* process's input is closed.
Feed ==
    /\ conduit["in"] = "copying"
    /\ \/ /\ fed < sent
          /\ process = "running" /\ fed < took + Capacity
          /\ fed' = fed + 1
          /\ UNCHANGED conduit
       \/ /\ fed < sent
          /\ process = "exited"
          /\ conduit' = [conduit EXCEPT !["in"] = "died"]
          /\ UNCHANGED fed
       \/ /\ fed = sent
          /\ client # "open"
          /\ conduit' = [conduit EXCEPT !["in"] = "ended"]
          /\ UNCHANGED fed
    /\ UNCHANGED <<job, pc, processVars, copied, clientVars>>

-----------------------------------------------------------------------------
(* The SSH client                                                           *)

Send ==
    /\ job.caller = "ssh"
    /\ client = "open"
    /\ sent < InputLength
    /\ sent' = sent + 1
    /\ UNCHANGED <<job, pc, processVars, copyVars, client>>

\* It has sent and received everything, or sees that no more comes.
Close ==
    /\ job.caller = "ssh"
    /\ client = "open"
    /\ \/ sent = InputLength /\ copied["out"] = Length("out")
       \/ conduit["out"] = "ended"
    /\ client' = "eof"
    /\ UNCHANGED <<job, pc, processVars, copyVars, sent>>

Leave ==
    /\ job.caller = "ssh"
    /\ client # "gone"
    /\ client' = "gone"
    /\ UNCHANGED <<job, pc, processVars, copyVars, sent>>

-----------------------------------------------------------------------------
Caller  == Start \/ StartFails \/ WaitFor \/ \E s \in Stream \cup {"in"} : Join(s)
Process == (\E s \in Stream : Prints(s)) \/ TakeInput \/ ExitWell \/ (InputCut /\ ExitBadly)
Client  == Send \/ Close

Next == Caller \/ Process \/ ExitBadly \/ (\E s \in Stream : Copy(s)) \/ Feed
        \/ Client \/ Leave

Spec == Init /\ [][Next]_vars

\* Threads and the process run on, and a client that stays does its part.
FairSpec == /\ Spec
            /\ WF_vars(Caller) /\ WF_vars(Process) /\ WF_vars(Feed) /\ WF_vars(Client)
            /\ \A s \in Stream : WF_vars(Copy(s))

-----------------------------------------------------------------------------
(* Properties                                                               *)

ControlOK ==
    /\ job \in Job
    /\ pc \in {"start", "join out", "join err", "join in", "wait",
               "returned", "thrown", "reported", "silent"}
    /\ process \in {"none", "running", "exited"}
    /\ code \in {0, 1}
    /\ conduit \in [Stream \cup {"in"} -> {"none", "copying", "ended", "died"}]
    /\ client \in {"open", "eof", "gone"}

OutputOK ==
    /\ printed \in [Stream -> Nat] /\ copied \in [Stream -> Nat]
    /\ \A s \in Stream : /\ copied[s] <= printed[s]
                         /\ printed[s] <= Length(s)
                         /\ printed[s] <= copied[s] + Capacity

InputOK == took \in 0..job.reads /\ sent \in 0..InputLength /\ fed \in 0..sent

TypeOK == ControlOK /\ OutputOK /\ InputOK

\* What the caller of run gets is everything the command printed, and it gets it
\* only if the command did all it had to. What is thrown quotes everything that a
\* command that failed had printed. And an SSH client that is told 0 and is still
\* there has received everything.
WholeOutput ==
    /\ pc \in {"returned", "thrown"} => copied = printed
    /\ pc = "returned" \/ (pc = "reported" /\ code = 0 /\ client # "gone") =>
          /\ took = job.reads
          /\ \A s \in Stream : copied[s] = Length(s)

\* A command of a pump that waits for input is given none: its standard input
\* stays open and empty.
Starved == conduit["in"] = "none" /\ process = "running" /\ took < job.reads

\* However full its pipes are, a command of a pump comes to its end, unless it
\* waits for an input that nobody gives it.
CommandEnds == job.caller = "pump" ~> Done \/ Starved

\* An SSH client whose command was started is told how it ended, unless it leaves.
ClientReleased == job.caller = "ssh" /\ process # "none" ~> pc = "reported" \/ client = "gone"
=============================================================================
