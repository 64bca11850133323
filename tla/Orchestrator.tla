---------------------------- MODULE Orchestrator ----------------------------
(***************************************************************************)
(* One conduit of the server: ConduitOrchestrator with its push sessions   *)
(* (CodeSubmissionSession), the HTTP handler that answers the hooks that   *)
(* poll a session (ConduitHttpResource, post-receive.py) and the temporary *)
(* directories of the sessions (TempDirAllocatorImpl).                     *)
(*                                                                         *)
(* Four kinds of threads share this state with hardly a lock between them: *)
(*   - the SSH daemon creates a session for every authentication;          *)
(*   - the HTTP handler of a poll reads a session's state and then acts;   *)
(*   - the pump thread takes queued pushes and executes them, one by one;  *)
(*   - the cleanup thread removes finished sessions and their directories. *)
(* An atomic step here is one access to a shared field, or one section     *)
(* under a lock.                                                           *)
(***************************************************************************)
EXTENDS Naturals, Sequences, FiniteSets

CONSTANTS
    Session,    \* the sessions that may be created
    Id,         \* the ids findAvailableId draws from (1000 .. 64999)
    Poller,     \* the hooks, each a client that polls for one push
    Target,     \* the session the hook was installed for
    Rare,       \* which rare events a run includes, of RareEvents
    None        \* no session, no id

RareEvents == {"id reuse", "map race", "io failure", "lost poll", "deletion"}

ASSUME ConstantsAssumption ==
    /\ Target \in [Poller -> Session]
    /\ Rare \subseteq RareEvents
    /\ None \notin Session
    /\ None \notin Id

VARIABLES
    state,          \* CodeSubmissionSession.state ("NEW": not created yet,
                    \* "ABANDONED": its constructor threw)
    id,             \* CodeSubmissionSession.pushId
    hadErrors,      \* CodeSubmissionSession.hadErrors
    explanation,    \* CodeSubmissionSession.explanation
    pushes,         \* ConduitOrchestrator.pushes, the sessions by id
    allocated,      \* the sessions whose temporary directory exists
    requestQueue,   \* ConduitOrchestrator.requestQueue
    pc,             \* where the pump thread is
    current,        \* the request it executes
    verdict,        \* how that request ended
    keepRunning,    \* ConduitOrchestrator.keepRunning
    ppc,            \* where each hook, or the handler of its poll, is
    seen,           \* the session the handler found
    sawErrors,      \* the hadErrors the handler read
    told,           \* the answer that ended each hook's polling
    cpc,            \* where the cleanup thread is
    todo,           \* the finished sessions it found
    victim,         \* the session it is removing
    executed        \* history: the sessions whose request was executed

sessionVars == <<state, id, hadErrors, explanation>>
pumpVars    == <<current, verdict, executed>>
pollVars    == <<ppc, seen, sawErrors, told>>
cleanVars   == <<cpc, todo, victim>>
vars == <<sessionVars, pushes, allocated, requestQueue, pc, pumpVars,
          keepRunning, pollVars, cleanVars>>

Texts    == {"null", "IT WORKED", "There was nothing to push", "THE PUSH FAILED"}
Verdicts == {"none", "succeeded", "nothing", "failed"}

\* Mutant: the verdict itself is stored, without its sentence.
BareText(v) == v

\* The text a verdict's listener method stores.
TextOf(v) == CASE v = "succeeded" -> "IT WORKED"
               [] v = "nothing"   -> "There was nothing to push"
               [] OTHER           -> "THE PUSH FAILED"

Answers == [kind : {"none", "LOST", "NOT_FOUND", "OK", "ERROR"},
            text : Texts]
Answer(k) == [kind |-> k, text |-> "null"]

Init ==
    /\ state = [s \in Session |-> "NEW"]
    /\ id = [s \in Session |-> None]
    /\ hadErrors = [s \in Session |-> FALSE]
    /\ explanation = [s \in Session |-> "null"]
    /\ pushes = [i \in Id |-> None]
    /\ allocated = {}
    /\ requestQueue = <<>>
    /\ pc = "check"
    /\ current = None
    /\ verdict = "none"
    /\ keepRunning = TRUE
    /\ ppc = [p \in Poller |-> "off"]
    /\ seen = [p \in Poller |-> None]
    /\ sawErrors = [p \in Poller |-> FALSE]
    /\ told = [p \in Poller |-> Answer("none")]
    /\ cpc = "scan"
    /\ todo = {}
    /\ victim = None
    /\ executed = <<>>

-----------------------------------------------------------------------------
(* New sessions: ConduitSshDaemon.setCredentials -> newSession              *)

\* findAvailableId takes any id that maps to no session or to a finished one.
Available(i) == pushes[i] # None => state[pushes[i]] = "FINISHED"

\* No session ever had this id: what a draw from 64,000 nearly always gives.
Fresh(i) == \A s \in Session : id[s] # i

CanDraw(i) == Available(i) /\ ("id reuse" \notin Rare => Fresh(i))

\* Constructing the session: its directory is allocated and prepared.
Construct(s, i) ==
    /\ state[s] = "NEW"
    /\ CanDraw(i)
    /\ state' = [state EXCEPT ![s] = "WAITING_FOR_INPUT"]
    /\ id' = [id EXCEPT ![s] = i]
    /\ allocated' = allocated \cup {s}

NewSession(s, i) ==
    /\ Construct(s, i)
    /\ pushes' = [pushes EXCEPT ![i] = s]
    /\ UNCHANGED <<hadErrors, explanation, requestQueue, pc, pumpVars,
                   keepRunning, pollVars, cleanVars>>

\* Preparing the directory fails (the clone or the branch): the directory
\* stays allocated, and no map ever learns of the session.
NewSessionThrows(s) ==
    /\ "io failure" \in Rare
    /\ state[s] = "NEW"
    /\ state' = [state EXCEPT ![s] = "ABANDONED"]
    /\ allocated' = allocated \cup {s}
    /\ UNCHANGED <<id, hadErrors, explanation, pushes, requestQueue, pc, pumpVars,
                   keepRunning, pollVars, cleanVars>>

\* newSession holds the orchestrator's lock, the cleanup thread does not:
\* the HashMap is changed while the other thread walks it or changes it.
RacingPut(s, i) ==
    /\ "map race" \in Rare
    /\ Construct(s, i)
    /\ \/ /\ cpc = "scan"       \* ConcurrentModificationException
          /\ cpc' = "dead"
          /\ pushes' = [pushes EXCEPT ![i] = s]
          /\ UNCHANGED <<todo, victim>>
       \/ /\ cpc = "remove"     \* one of the two updates of a bucket is lost
          /\ \E v \in todo :
                /\ victim' = v
                /\ \/ pushes' = [pushes EXCEPT ![i] = s]
                   \/ pushes' = [pushes EXCEPT ![id[v]] = None]
          /\ cpc' = "dispose"
          /\ UNCHANGED todo
    /\ UNCHANGED <<hadErrors, explanation, requestQueue, pc, pumpVars,
                   keepRunning, pollVars>>

-----------------------------------------------------------------------------
(* A hook and the HTTP handler of its polls                                 *)

Goto(p, l) == ppc' = [ppc EXCEPT ![p] = l]

\* The push of the hook's session was received and git runs the hook.
StartHook(p) ==
    /\ ppc[p] = "off"
    /\ Target[p] \in allocated
    /\ state[Target[p]] # "ABANDONED"
    /\ Goto(p, "get")
    /\ UNCHANGED <<sessionVars, pushes, allocated, requestQueue, pc, pumpVars,
                   keepRunning, seen, sawErrors, told, cleanVars>>

\* Mutant: the hook takes NOT_FOUND for "not yet" and polls on.
LookupRetries(p) ==
    /\ ppc[p] = "get"
    /\ keepRunning /\ pushes[id[Target[p]]] # None
    /\ seen' = [seen EXCEPT ![p] = pushes[id[Target[p]]]]
    /\ Goto(p, "read")
    /\ UNCHANGED <<sessionVars, pushes, allocated, requestQueue, pc, pumpVars,
                   keepRunning, sawErrors, told, cleanVars>>

\* A GET that reaches the server looks its id up. The server stops relaying
\* polls to a conduit that is being deleted.
Lookup(p) ==
    /\ ppc[p] = "get"
    /\ LET s == pushes[id[Target[p]]] IN
       IF keepRunning /\ s # None
       THEN /\ seen' = [seen EXCEPT ![p] = s]
            /\ Goto(p, "read")
            /\ UNCHANGED told
       ELSE /\ told' = [told EXCEPT ![p] = Answer("NOT_FOUND")]
            /\ Goto(p, "done")
            /\ UNCHANGED seen
    /\ UNCHANGED <<sessionVars, pushes, allocated, requestQueue, pc, pumpVars,
                   keepRunning, sawErrors, cleanVars>>

\* A GET that does not: the hook exits on any exception of its HTTP client.
GiveUp(p) ==
    /\ "lost poll" \in Rare
    /\ ppc[p] = "get"
    /\ told' = [told EXCEPT ![p] = Answer("LOST")]
    /\ Goto(p, "done")
    /\ UNCHANGED <<sessionVars, pushes, allocated, requestQueue, pc, pumpVars,
                   keepRunning, seen, sawErrors, cleanVars>>

\* The handler reads the state once and branches on what it read; on WORKING
\* it answers so, and the hook polls again.
ReadState(p) ==
    /\ ppc[p] = "read"
    /\ Goto(p, CASE state[seen[p]] = "WAITING_FOR_INPUT" -> "input"
                 [] state[seen[p]] = "WORKING"           -> "get"
                 [] state[seen[p]] = "FINISHED"          -> "errors")
    /\ seen' = IF state[seen[p]] = "WORKING"
               THEN [seen EXCEPT ![p] = None]
               ELSE seen
    /\ UNCHANGED <<sessionVars, pushes, allocated, requestQueue, pc, pumpVars,
                   keepRunning, sawErrors, told, cleanVars>>

\* Mutant: the state is left to the pump thread.
InputUnmarked(p) ==
    /\ ppc[p] = "input"
    /\ Goto(p, "submit")
    /\ UNCHANGED <<sessionVars, pushes, allocated, requestQueue, pc, pumpVars,
                   keepRunning, seen, sawErrors, told, cleanVars>>

\* inputReceived sets the state before it submits the push.
InputReceived(p) ==
    /\ ppc[p] = "input"
    /\ state' = [state EXCEPT ![seen[p]] = "WORKING"]
    /\ Goto(p, "submit")
    /\ UNCHANGED <<id, hadErrors, explanation, pushes, allocated, requestQueue,
                   pc, pumpVars, keepRunning, seen, sawErrors, told, cleanVars>>

\* submitPush: add to the queue and wake the pump thread if it waits.
SubmitPush(p) ==
    /\ ppc[p] = "submit"
    /\ requestQueue' = Append(requestQueue, seen[p])
    /\ pc' = IF pc = "idle" THEN "check" ELSE pc
    /\ seen' = [seen EXCEPT ![p] = None]
    /\ Goto(p, "get")
    /\ UNCHANGED <<sessionVars, pushes, allocated, pumpVars, keepRunning,
                   sawErrors, told, cleanVars>>

ReadErrors(p) ==
    /\ ppc[p] = "errors"
    /\ sawErrors' = [sawErrors EXCEPT ![p] = hadErrors[seen[p]]]
    /\ Goto(p, "text")
    /\ UNCHANGED <<sessionVars, pushes, allocated, requestQueue, pc, pumpVars,
                   keepRunning, seen, told, cleanVars>>

\* Mutant: the session is trashed once its end was reported.
ReadAndTrash(p) ==
    /\ ppc[p] = "text"
    /\ pushes' = [pushes EXCEPT ![id[seen[p]]] = None]
    /\ told' = [told EXCEPT ![p] =
                   [kind |-> IF sawErrors[p] THEN "ERROR" ELSE "OK",
                    text |-> explanation[seen[p]]]]
    /\ sawErrors' = [sawErrors EXCEPT ![p] = FALSE]
    /\ seen' = [seen EXCEPT ![p] = None]
    /\ Goto(p, "done")
    /\ UNCHANGED <<sessionVars, allocated, requestQueue, pc, pumpVars,
                   keepRunning, cleanVars>>

ReadExplanation(p) ==
    /\ ppc[p] = "text"
    /\ told' = [told EXCEPT ![p] =
                   [kind |-> IF sawErrors[p] THEN "ERROR" ELSE "OK",
                    text |-> explanation[seen[p]]]]
    /\ sawErrors' = [sawErrors EXCEPT ![p] = FALSE]
    /\ seen' = [seen EXCEPT ![p] = None]
    /\ Goto(p, "done")
    /\ UNCHANGED <<sessionVars, pushes, allocated, requestQueue, pc, pumpVars,
                   keepRunning, cleanVars>>

-----------------------------------------------------------------------------
(* The pump thread: ConduitOrchestrator.start, PushRequest.exec             *)

\* What every step of the pump thread leaves alone.
OthersRest == UNCHANGED <<id, pushes, allocated, keepRunning, pollVars, cleanVars>>

\* The head of the loop.
CheckKeepRunning ==
    /\ pc = "check"
    /\ IF keepRunning
       THEN pc' = "pull"
       ELSE pc' = "stopped"
    /\ UNCHANGED <<state, hadErrors, explanation, requestQueue, pumpVars>>
    /\ OthersRest

\* readFromPerforce returns.
PullSucceeds ==
    /\ pc = "pull"
    /\ pc' = "pop"
    /\ UNCHANGED <<state, hadErrors, explanation, requestQueue, pumpVars>>
    /\ OthersRest

\* readFromPerforce throws: the queue is not looked at in this round.
PullFails ==
    /\ pc = "pull"
    /\ pc' = "asleep"
    /\ UNCHANGED <<state, hadErrors, explanation, requestQueue, pumpVars>>
    /\ OthersRest

\* sleepMillis(FIVE_SECONDS) ends.
Awake ==
    /\ pc = "asleep"
    /\ pc' = "check"
    /\ UNCHANGED <<state, hadErrors, explanation, requestQueue, pumpVars>>
    /\ OthersRest

\* Mutant: the newest request first.
PopNewest ==
    /\ pc = "pop"
    /\ requestQueue # <<>>
    /\ current' = requestQueue[Len(requestQueue)]
    /\ requestQueue' = SubSeq(requestQueue, 1, Len(requestQueue) - 1)
    /\ executed' = Append(executed, current')
    /\ pc' = "push"
    /\ UNCHANGED <<state, hadErrors, explanation, verdict>>
    /\ OthersRest

\* popNextRequest finds a request, exec starts.
PopRequest ==
    /\ pc = "pop"
    /\ requestQueue # <<>>
    /\ current' = Head(requestQueue)
    /\ requestQueue' = Tail(requestQueue)
    /\ executed' = Append(executed, Head(requestQueue))
    /\ pc' = "push"
    /\ UNCHANGED <<state, hadErrors, explanation, verdict>>
    /\ OthersRest

\* popNextRequest finds none. The lock is released before wait takes it again.
PopNothing ==
    /\ pc = "pop"
    /\ requestQueue = <<>>
    /\ pc' = "waiting"
    /\ UNCHANGED <<state, hadErrors, explanation, requestQueue, pumpVars>>
    /\ OthersRest

StartWaiting ==
    /\ pc = "waiting"
    /\ pc' = "idle"
    /\ UNCHANGED <<state, hadErrors, explanation, requestQueue, pumpVars>>
    /\ OthersRest

\* Mutant: wait() with no time limit, so only a submitPush ends it.
WaitForNotify ==
    /\ pc = "idle"
    /\ FALSE
    /\ UNCHANGED vars

\* wait(FIVE_SECONDS) times out.
WaitTimesOut ==
    /\ pc = "idle"
    /\ pc' = "check"
    /\ UNCHANGED <<state, hadErrors, explanation, requestQueue, pumpVars>>
    /\ OthersRest

\* scmPump.pushChangesToPerforce, whose source is the session's directory. It
\* returns whether there were changes, or throws.
PushChanges ==
    /\ pc = "push"
    /\ \/ current \in allocated /\ pc' = "commit" /\ UNCHANGED verdict
       \/ current \in allocated /\ pc' = "finish" /\ verdict' = "nothing"
       \/ pc' = "rollback" /\ UNCHANGED verdict
    /\ UNCHANGED <<state, hadErrors, explanation, requestQueue, current,
                   executed>>
    /\ OthersRest

Commit ==
    /\ pc = "commit"
    /\ \/ pc' = "finish" /\ verdict' = "succeeded"
       \/ pc' = "rollback" /\ UNCHANGED verdict
    /\ UNCHANGED <<state, hadErrors, explanation, requestQueue, current,
                   executed>>
    /\ OthersRest

\* An error of the rollback is only added to the text.
Rollback ==
    /\ pc = "rollback"
    /\ pc' = "finish"
    /\ verdict' = "failed"
    /\ UNCHANGED <<state, hadErrors, explanation, requestQueue, current,
                   executed>>
    /\ OthersRest

\* Mutant: nothingToPush does not finish the session.
FinishUnlessNothing ==
    /\ pc = "finish"
    /\ state' = IF verdict = "nothing" THEN state
                ELSE [state EXCEPT ![current] = "FINISHED"]
    /\ pc' = "finish errors"
    /\ UNCHANGED <<hadErrors, explanation, requestQueue, pumpVars>>
    /\ OthersRest

\* markAsFinished, field by field.
FinishState ==
    /\ pc = "finish"
    /\ state' = [state EXCEPT ![current] = "FINISHED"]
    /\ pc' = "finish errors"
    /\ UNCHANGED <<hadErrors, explanation, requestQueue, pumpVars>>
    /\ OthersRest

\* Mutant: only a push that changed something is free of errors.
FinishUnlessSucceeded ==
    /\ pc = "finish errors"
    /\ hadErrors' = [hadErrors EXCEPT ![current] = (verdict # "succeeded")]
    /\ pc' = "finish text"
    /\ UNCHANGED <<state, explanation, requestQueue, pumpVars>>
    /\ OthersRest

FinishErrors ==
    /\ pc = "finish errors"
    /\ hadErrors' = [hadErrors EXCEPT ![current] = (verdict = "failed")]
    /\ pc' = "finish text"
    /\ UNCHANGED <<state, explanation, requestQueue, pumpVars>>
    /\ OthersRest

\* exec never throws, so the loop goes on.
FinishExplanation ==
    /\ pc = "finish text"
    /\ explanation' = [explanation EXCEPT ![current] = TextOf(verdict)]
    /\ current' = None
    /\ verdict' = "none"
    /\ pc' = "check"
    /\ UNCHANGED <<state, hadErrors, requestQueue, executed>>
    /\ OthersRest

\* DELETE of the conduit: taken out of the server's list, then stop.
Stop ==
    /\ "deletion" \in Rare
    /\ keepRunning
    /\ keepRunning' = FALSE
    /\ UNCHANGED <<sessionVars, pushes, allocated, requestQueue, pc, pumpVars,
                   pollVars, cleanVars>>

-----------------------------------------------------------------------------
(* The cleanup thread: ConduitCleanupThread                                 *)

CleanerRests == UNCHANGED <<sessionVars, requestQueue, pc, pumpVars,
                            keepRunning, pollVars>>

\* Mutant: every session that got its input counts as finished.
FindStarted ==
    /\ cpc = "scan"
    /\ todo' = {s \in Session : /\ state[s] \in {"WORKING", "FINISHED"}
                                /\ \E i \in Id : pushes[i] = s}
    /\ cpc' = "sleep"
    /\ UNCHANGED <<pushes, allocated, victim>>
    /\ CleanerRests

\* Mutant: failed sessions are kept for inspection.
FindSucceeded ==
    /\ cpc = "scan"
    /\ todo' = {s \in Session : /\ state[s] = "FINISHED" /\ ~hadErrors[s]
                                /\ \E i \in Id : pushes[i] = s}
    /\ cpc' = "sleep"
    /\ UNCHANGED <<pushes, allocated, victim>>
    /\ CleanerRests

\* findFinishedSessions, then a sleep of 60 seconds begins.
FindFinished ==
    /\ cpc = "scan"
    /\ todo' = {s \in Session : /\ state[s] = "FINISHED"
                                /\ \E i \in Id : pushes[i] = s}
    /\ cpc' = "sleep"
    /\ UNCHANGED <<pushes, allocated, victim>>
    /\ CleanerRests

SleepEnds ==
    /\ cpc = "sleep"
    /\ cpc' = IF todo = {} THEN "scan" ELSE "remove"
    /\ UNCHANGED <<pushes, allocated, todo, victim>>
    /\ CleanerRests

\* Mutant: pushes.remove(session), which compiles and finds no such key.
RemoveByValue(s) ==
    /\ cpc = "remove"
    /\ s \in todo
    /\ victim' = s
    /\ cpc' = "dispose"
    /\ UNCHANGED <<pushes, allocated, todo>>
    /\ CleanerRests

\* pushes.remove goes by the id alone.
RemoveSession(s) ==
    /\ cpc = "remove"
    /\ s \in todo
    /\ pushes' = [pushes EXCEPT ![id[s]] = None]
    /\ victim' = s
    /\ cpc' = "dispose"
    /\ UNCHANGED <<allocated, todo>>
    /\ CleanerRests

\* temps.dispose
Dispose ==
    /\ cpc = "dispose"
    /\ victim \in allocated
    /\ allocated' = allocated \ {victim}
    /\ todo' = todo \ {victim}
    /\ victim' = None
    /\ cpc' = IF todo = {victim} THEN "scan" ELSE "remove"
    /\ UNCHANGED pushes
    /\ CleanerRests

\* temps.dispose throws, and nothing catches it: not allocated, or the
\* directory cannot be deleted.
DisposeThrows ==
    /\ cpc = "dispose"
    /\ victim \notin allocated \/ "io failure" \in Rare
    /\ cpc' = "dead"
    /\ UNCHANGED <<pushes, allocated, todo, victim>>
    /\ CleanerRests

-----------------------------------------------------------------------------
Create == \E s \in Session :
    \/ NewSessionThrows(s)
    \/ \E i \in Id : NewSession(s, i) \/ RacingPut(s, i)

Hook(p) == StartHook(p) \/ Lookup(p) \/ GiveUp(p)

Handler(p) == \/ ReadState(p) \/ InputReceived(p) \/ SubmitPush(p)
              \/ ReadErrors(p) \/ ReadExplanation(p)

Pump == \/ CheckKeepRunning \/ PullSucceeds \/ PullFails \/ Awake
        \/ PopRequest \/ PopNothing \/ StartWaiting \/ WaitTimesOut
        \/ PushChanges \/ Commit \/ Rollback
        \/ FinishState \/ FinishErrors \/ FinishExplanation

Cleaner == \/ FindFinished \/ SleepEnds \/ Dispose \/ DisposeThrows
           \/ \E s \in Session : RemoveSession(s)

Next == \/ Create
        \/ \E p \in Poller : Hook(p) \/ Handler(p)
        \/ Pump
        \/ Stop
        \/ Cleaner

Spec == Init /\ [][Next]_vars

\* The threads of the server run on: a handler that was called, the pump
\* thread and the cleanup thread take their next step, and a hook that polls
\* gets through or gives up. Nobody has to push, and nobody has to delete.
FairSpec ==
    /\ Spec
    /\ \A p \in Poller : WF_vars(Handler(p)) /\ WF_vars(Lookup(p))
    /\ WF_vars(Pump)
    /\ WF_vars(Cleaner)

-----------------------------------------------------------------------------
(* Properties                                                               *)

TypeOK ==
    /\ state \in [Session -> {"NEW", "ABANDONED", "WAITING_FOR_INPUT",
                              "WORKING", "FINISHED"}]
    /\ id \in [Session -> Id \cup {None}]
    /\ hadErrors \in [Session -> BOOLEAN]
    /\ explanation \in [Session -> Texts]
    /\ pushes \in [Id -> Session \cup {None}]
    /\ allocated \subseteq Session
    /\ requestQueue \in Seq(Session)
    /\ pc \in {"check", "pull", "asleep", "pop", "waiting", "idle", "push",
               "commit", "rollback", "finish", "finish errors",
               "finish text", "stopped"}
    /\ current \in Session \cup {None}
    /\ verdict \in Verdicts
    /\ keepRunning \in BOOLEAN
    /\ ppc \in [Poller -> {"off", "get", "read", "input", "submit", "errors",
                           "text", "done"}]
    /\ seen \in [Poller -> Session \cup {None}]
    /\ sawErrors \in [Poller -> BOOLEAN]
    /\ told \in [Poller -> Answers]
    /\ cpc \in {"scan", "sleep", "remove", "dispose", "dead"}
    /\ todo \subseteq Session
    /\ victim \in Session \cup {None}
    /\ executed \in Seq(Session)

Queued(s) == \E k \in 1..Len(requestQueue) : requestQueue[k] = s
Count(s, q) == Cardinality({k \in 1..Len(q) : q[k] = s})
\* The pump thread is at a request and has not marked its session finished.
Unsettled == {"push", "commit", "rollback", "finish"}
Submitting(s) == \E p \in Poller : ppc[p] = "submit" /\ seen[p] = s

\* A push that the server said it is WORKING on is never forgotten: its request
\* is in the queue, or the pump thread is at it and has yet to store its end,
\* or a handler is about to submit it. Whatever the races, ids and failures.
NoLostPush ==
    \A s \in Session : state[s] = "WORKING" =>
        \/ Queued(s)
        \/ current = s /\ pc \in Unsettled
        \/ Submitting(s)

\* The premises of what follows: every push has a hook of its own, and no
\* draw repeats an id.
OneHookEach == \A p, q \in Poller : Target[p] = Target[q] => p = q
HooksApart  == OneHookEach /\ "id reuse" \notin Rare

\* A push is submitted and executed once, however often its hook polls.
PushedOnce ==
    HooksApart => \A s \in Session : Count(s, requestQueue) + Count(s, executed) <= 1

\* The directory a push is read from is there as long as its request is
\* queued or executed: the cleanup thread never gets ahead of the pump.
SourceKept ==
    HooksApart => \A s \in Session :
        Queued(s) \/ (current = s /\ pc \in {"push", "commit"}) => s \in allocated

\* The answer that ends a hook's polling is about its own push, executed by
\* then: a text, if there is one, is that of its push, and an ERROR is never
\* reported for a push that did not fail. (An OK may be: the handler can read
\* the fields between the writes of markAsFinished.)
AnswersAreOwn ==
    HooksApart => \A p \in Poller : told[p].kind \in {"OK", "ERROR"} =>
        LET s == Target[p] IN
        /\ Count(s, executed) = 1
        /\ told[p].text \in {"null", explanation[s]}
        /\ told[p].kind = "ERROR" => explanation[s] \in {"null", "THE PUSH FAILED"}

\* The conduit as its users see it: the pushes that are accepted and not yet
\* marked finished, and what became of the others.
Backlog == IF pc \in Unsettled THEN <<current>> \o requestQueue ELSE requestQueue

Pending(s) == \E k \in 1..Len(Backlog) : Backlog[k] = s

\* The verdict a text was stored for.
VerdictOf(t) == CASE t = "IT WORKED"                 -> "succeeded"
                  [] t = "There was nothing to push" -> "nothing"
                  [] OTHER                           -> "failed"

Outcome == [s \in Session |->
    IF Pending(s) THEN "pending"
    ELSE IF Count(s, executed) = 0 THEN "none"
    ELSE IF current = s THEN verdict
    ELSE VerdictOf(explanation[s])]

Pushes == INSTANCE PushService WITH
              Push <- Session, backlog <- Backlog, outcome <- Outcome

\* With a hook for every push and ids that do not repeat, the orchestrator is
\* such a service: one outcome for each push, in the order of submission, and
\* the one its session keeps.
ImplementsPushService == Pushes!Spec

\* A session that can be found by its id has its directory, except in the
\* one case the rare map race makes: a removal that is lost.
FoundHasDirectory ==
    "map race" \notin Rare =>
        \A i \in Id : pushes[i] # None => pushes[i] \in allocated

\* The final status is there for the hook until the cleanup thread, 60 seconds
\* after it found the session finished, takes it away: "let sessions sit around
\* for while so that people have a chance to get the final status".
FinalStatusStays ==
    [][\A i \in Id : (pushes[i] # None /\ pushes'[i] # pushes[i]) =>
            cpc = "remove" /\ cpc' = "dispose" /\ victim' = pushes[i]]_vars

\* The conduit is not deleted, and if it polls Perforce for ever then again and
\* again a pull gets through. (A pull that keeps failing starves the queue.)
PerforceRecovers == []keepRunning /\ ([]<>(pc = "pull") => []<>(pc = "pop"))

\* "Working" is no final word: then such pushes finish, all of them.
PushAnswered ==
    PerforceRecovers => (\E s \in Session : state[s] = "WORKING")
                            ~> (\A s \in Session : state[s] # "WORKING")

\* And the hooks stop polling.
HookReleased ==
    PerforceRecovers => (\E p \in Poller : ppc[p] = "get")
                            ~> (\A p \in Poller : ppc[p] \in {"off", "done"})

\* somethingThatShouldBeDeletedEventually: the directories of finished pushes.
FinishedDirectoryDeleted ==
    OneHookEach /\ Rare = {} =>
        (\E s \in Session : state[s] = "FINISHED")
            ~> (\A s \in Session : state[s] = "FINISHED" => s \notin allocated)
=============================================================================
