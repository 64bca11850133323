------------------------- MODULE OrchestratorProofs -------------------------
(***************************************************************************)
(* What holds of every conduit, whatever the number of sessions, ids and   *)
(* hooks.                                                                  *)
(*                                                                         *)
(* The first part is of every conduit, whichever rare events happen; the   *)
(* second is about those where each push has a hook of its own and ids do  *)
(* not repeat: a push is executed once, from its own directory, its hook   *)
(* is told its own end, and the conduit implements PushService, with every *)
(* other rare event: the race of the map, failing disks, lost polls, the   *)
(* deletion of the conduit.                                                *)
(***************************************************************************)
EXTENDS Orchestrator, FiniteSetTheorems, TLAPS

Live == {"WAITING_FOR_INPUT", "WORKING", "FINISHED"}
Handling == {"read", "input", "submit", "errors", "text"}

-----------------------------------------------------------------------------
(* Sequences                                                                *)

\* A sequence over a set has its elements in it.
LEMMA ElementsIn ==
    ASSUME NEW S, NEW q \in Seq(S)
    PROVE  Len(q) \in Nat /\ \A k \in 1..Len(q) : q[k] \in S
  OBVIOUS

\* An element queued before an Append is queued after it, and so is the new one.
LEMMA AppendKeeps ==
    ASSUME NEW S, NEW q \in Seq(S), NEW e \in S
    PROVE  /\ Append(q, e) \in Seq(S)
           /\ Len(Append(q, e)) = Len(q) + 1
           /\ \A k \in 1..Len(q) : Append(q, e)[k] = q[k]
           /\ Append(q, e)[Len(q) + 1] = e
  OBVIOUS

\* What a non-empty queue holds is its head and what its tail holds.
LEMMA HeadAndTail ==
    ASSUME NEW S, NEW q \in Seq(S), q # <<>>
    PROVE  /\ Head(q) \in S
           /\ Head(q) = q[1]
           /\ Tail(q) \in Seq(S)
           /\ Len(Tail(q)) = Len(q) - 1
           /\ Len(q) \in Nat \ {0}
           /\ \A k \in 1..Len(Tail(q)) : Tail(q)[k] = q[k + 1]
  OBVIOUS

-----------------------------------------------------------------------------
(* Types. A handler works on a session that exists, the pump thread on a    *)
(* session, and a hook polls an id that was given out.                      *)

HandlersHaveSessions ==
    \A p \in Poller : ppc[p] \in Handling =>
        seen[p] \in Session /\ state[seen[p]] \in Live

HooksHaveIds == \A p \in Poller : ppc[p] # "off" => state[Target[p]] \in Live

LiveHaveIds == \A s \in Session : state[s] \in Live => id[s] \in Id

AllocatedExist == \A s \in allocated : state[s] # "NEW"

MappedLive == \A i \in Id : pushes[i] # None => state[pushes[i]] \in Live

PumpHasRequest ==
    pc \in {"push", "commit", "rollback", "finish", "finish errors", "finish text"}
        => current \in Session /\ state[current] \in Live

QueuedLive == \A k \in 1..Len(requestQueue) : state[requestQueue[k]] \in Live

TypeInv == /\ TypeOK
           /\ HandlersHaveSessions
           /\ HooksHaveIds
           /\ LiveHaveIds
           /\ AllocatedExist
           /\ MappedLive
           /\ PumpHasRequest
           /\ QueuedLive

LEMMA TypeInit == Init => TypeInv
  BY ConstantsAssumption
  DEF Init, TypeInv, TypeOK, HandlersHaveSessions, HooksHaveIds, LiveHaveIds,
      AllocatedExist, MappedLive, PumpHasRequest, QueuedLive, Texts, Verdicts, Answers,
      Answer, Handling, Live

\* A session that once exists stays, so the queue stays one of such sessions.
LEMMA QueuedStay ==
    ASSUME TypeInv, requestQueue' = requestQueue,
           \A s \in Session : state[s] \in Live => state'[s] \in Live
    PROVE  QueuedLive'
  <1>1. \A k \in 1..Len(requestQueue) : requestQueue[k] \in Session
    <2>1. requestQueue \in Seq(Session) BY DEF TypeInv, TypeOK
    <2> QED BY <2>1, ElementsIn
  <1>2. QueuedLive BY DEF TypeInv
  <1>3. \A k \in 1..Len(requestQueue) : state'[requestQueue[k]] \in Live
    BY <1>1, <1>2 DEF QueuedLive
  <1> QED BY <1>3 DEF QueuedLive

LEMMA TypeCreate ==
    ASSUME TypeInv, Create
    PROVE  TypeInv'
  <1> USE DEF TypeInv
  <1>1. ASSUME NEW s \in Session, NewSessionThrows(s) PROVE TypeInv'
    <2> USE <1>1 DEF NewSessionThrows, pumpVars, pollVars, cleanVars
    <2>1. TypeOK' BY DEF TypeOK
    <2>2. (HandlersHaveSessions /\ HooksHaveIds)'
      BY ConstantsAssumption DEF TypeOK, HandlersHaveSessions, HooksHaveIds, Live
    <2>3. (LiveHaveIds /\ AllocatedExist /\ MappedLive /\ PumpHasRequest)'
      BY DEF TypeOK, LiveHaveIds, AllocatedExist, MappedLive, PumpHasRequest, Live
    <2>4. QueuedLive' BY QueuedStay DEF TypeOK, Live
    <2> QED BY <2>1, <2>2, <2>3, <2>4
  <1>2. ASSUME NEW s \in Session, NEW i \in Id, Construct(s, i),
               UNCHANGED <<hadErrors, explanation, requestQueue, pc, pumpVars,
                           keepRunning, pollVars>>,
               pushes' \in [Id -> Session \cup {None}],
               \A j \in Id : pushes'[j] \in {s, None, pushes[j]},
               cpc' \in {"scan", "sleep", "remove", "dispose", "dead"},
               todo' = todo, victim' \in todo \cup {victim}
        PROVE TypeInv'
    <2> USE <1>2 DEF Construct, pumpVars, pollVars
    <2>0. /\ state[s] = "NEW"
          /\ state' = [state EXCEPT ![s] = "WAITING_FOR_INPUT"]
          /\ id' = [id EXCEPT ![s] = i]
          /\ allocated' = allocated \cup {s}
      OBVIOUS
    <2>1. TypeOK'
      <3>3. /\ state' \in [Session -> {"NEW", "ABANDONED", "WAITING_FOR_INPUT",
                                      "WORKING", "FINISHED"}]
            /\ id' \in [Session -> Id \cup {None}]
            /\ allocated' \subseteq Session
        BY <2>0 DEF TypeOK
      <3>4. todo' \subseteq Session /\ victim' \in Session \cup {None}
        BY DEF TypeOK
      <3> QED BY <3>3, <3>4 DEF TypeOK
    <2>2. (HandlersHaveSessions /\ HooksHaveIds)'
      BY <2>0, ConstantsAssumption
      DEF TypeOK, HandlersHaveSessions, HooksHaveIds, Live
    <2>3. (LiveHaveIds /\ AllocatedExist /\ PumpHasRequest)'
      BY <2>0 DEF TypeOK, LiveHaveIds, AllocatedExist, PumpHasRequest, Live
    <2>5. QueuedLive' BY <2>0, QueuedStay DEF TypeOK, Live
    <2>4. MappedLive'
      <3> SUFFICES ASSUME NEW j \in Id, pushes'[j] # None
                   PROVE  state'[pushes'[j]] \in Live
        BY DEF MappedLive
      <3>1. pushes'[j] = s \/ pushes'[j] = pushes[j] OBVIOUS
      <3>2. state'[s] \in Live BY <2>0 DEF TypeOK, Live
      <3>3. pushes[j] # None => state'[pushes[j]] \in Live
        BY <2>0 DEF TypeOK, MappedLive, Live
      <3> QED BY <3>1, <3>2, <3>3
    <2> QED BY <2>1, <2>2, <2>3, <2>4, <2>5
  <1>3. ASSUME NEW s \in Session, NEW i \in Id, pushes' = [pushes EXCEPT ![i] = s]
        PROVE  /\ pushes' \in [Id -> Session \cup {None}]
               /\ \A j \in Id : pushes'[j] \in {s, None, pushes[j]}
    BY <1>3 DEF TypeOK
  <1>4. ASSUME NEW s \in Session, NEW x, pushes' = [pushes EXCEPT ![x] = None]
        PROVE  /\ pushes' \in [Id -> Session \cup {None}]
               /\ \A j \in Id : pushes'[j] \in {s, None, pushes[j]}
    BY <1>4 DEF TypeOK
  <1>5. ASSUME NEW s \in Session, NEW i \in Id, NewSession(s, i) PROVE TypeInv'
    <2>1. pushes' = [pushes EXCEPT ![i] = s] BY <1>5 DEF NewSession
    <2>2. cpc \in {"scan", "sleep", "remove", "dispose", "dead"} BY DEF TypeOK
    <2> QED BY <1>2, <1>3, <1>5, <2>1, <2>2 DEF NewSession, cleanVars
  <1>6. ASSUME NEW s \in Session, NEW i \in Id, RacingPut(s, i) PROVE TypeInv'
    <2>1. \/ pushes' = [pushes EXCEPT ![i] = s]
          \/ \E x : pushes' = [pushes EXCEPT ![x] = None]
      BY <1>6 DEF RacingPut
    <2>2. /\ pushes' \in [Id -> Session \cup {None}]
          /\ \A j \in Id : pushes'[j] \in {s, None, pushes[j]}
      BY <1>3, <1>4, <2>1
    <2>3. /\ cpc' \in {"scan", "sleep", "remove", "dispose", "dead"}
          /\ todo' = todo
          /\ victim' \in todo \cup {victim}
      BY <1>6 DEF RacingPut
    <2> QED BY <1>2, <1>6, <2>2, <2>3 DEF RacingPut
  <1> QED BY <1>1, <1>5, <1>6 DEF Create

\* No other thread makes or unmakes a session, or gives or takes an id.
LEMMA TypeHook ==
    ASSUME TypeInv, NEW p \in Poller, Hook(p)
    PROVE  TypeInv'
  <1> USE ConstantsAssumption DEF TypeInv, sessionVars, pumpVars, cleanVars, Goto
  <1>1. CASE StartHook(p)
    <2> USE <1>1 DEF StartHook
    <2>1. TypeOK' BY DEF TypeOK
    <2>2. state[Target[p]] \in Live BY DEF TypeOK, AllocatedExist, Live
    <2>3. (HandlersHaveSessions /\ HooksHaveIds)'
      BY <2>2 DEF TypeOK, HandlersHaveSessions, HooksHaveIds, Handling
    <2>4. (LiveHaveIds /\ AllocatedExist /\ MappedLive /\ PumpHasRequest /\ QueuedLive)'
      BY DEF LiveHaveIds, AllocatedExist, MappedLive, PumpHasRequest, QueuedLive
    <2> QED BY <2>1, <2>3, <2>4
  <1>2. CASE Lookup(p)
    <2> USE <1>2 DEF Lookup
    <2>1. id[Target[p]] \in Id BY DEF TypeOK, HooksHaveIds, LiveHaveIds
    <2>2. told' \in [Poller -> Answers]
      <3>1. Answer("NOT_FOUND") \in Answers BY DEF Answer, Answers, Texts
      <3>2. told \in [Poller -> Answers] BY DEF TypeOK
      <3> QED BY <3>1, <3>2
    <2>3. seen' \in [Poller -> Session \cup {None}] BY <2>1 DEF TypeOK
    <2>4. TypeOK' BY <2>2, <2>3 DEF TypeOK
    <2>5. HandlersHaveSessions'
      <3>1. CASE keepRunning /\ pushes[id[Target[p]]] # None
        BY <2>1, <3>1 DEF TypeOK, HandlersHaveSessions, MappedLive, Handling
      <3>2. CASE ~(keepRunning /\ pushes[id[Target[p]]] # None)
        BY <3>2 DEF TypeOK, HandlersHaveSessions, Handling
      <3> QED BY <3>1, <3>2
    <2>6. HooksHaveIds' BY DEF TypeOK, HooksHaveIds
    <2>7. (LiveHaveIds /\ AllocatedExist /\ MappedLive /\ PumpHasRequest /\ QueuedLive)'
      BY DEF LiveHaveIds, AllocatedExist, MappedLive, PumpHasRequest, QueuedLive
    <2> QED BY <2>4, <2>5, <2>6, <2>7
  <1>3. CASE GiveUp(p)
    <2> USE <1>3 DEF GiveUp
    <2>1. TypeOK' BY DEF TypeOK, Answer, Answers, Texts
    <2>2. (HandlersHaveSessions /\ HooksHaveIds)'
      BY DEF TypeOK, HandlersHaveSessions, HooksHaveIds, Handling
    <2>3. (LiveHaveIds /\ AllocatedExist /\ MappedLive /\ PumpHasRequest /\ QueuedLive)'
      BY DEF LiveHaveIds, AllocatedExist, MappedLive, PumpHasRequest, QueuedLive
    <2> QED BY <2>1, <2>2, <2>3
  <1> QED BY <1>1, <1>2, <1>3 DEF Hook

LEMMA TypeHandler ==
    ASSUME TypeInv, NEW p \in Poller, Handler(p)
    PROVE  TypeInv'
  <1> USE ConstantsAssumption DEF TypeInv, sessionVars, pumpVars, cleanVars, Goto
  <1>0. ppc[p] \in Handling => seen[p] \in Session /\ state[seen[p]] \in Live
    BY DEF HandlersHaveSessions
  <1>1. CASE ReadState(p)
    <2> USE <1>0, <1>1 DEF ReadState, Handling
    <2>1. ppc' \in [Poller -> {"off", "get", "read", "input", "submit", "errors",
                               "text", "done"}]
      BY DEF TypeOK, Live
    <2>2. TypeOK' BY <2>1 DEF TypeOK
    <2>3. HandlersHaveSessions'
      BY DEF TypeOK, HandlersHaveSessions, Live
    <2>4. (HooksHaveIds /\ LiveHaveIds /\ AllocatedExist /\ MappedLive /\ PumpHasRequest /\ QueuedLive)'
      BY DEF TypeOK, HooksHaveIds, LiveHaveIds, AllocatedExist, MappedLive, PumpHasRequest, QueuedLive
    <2> QED BY <2>2, <2>3, <2>4
  <1>2. CASE InputReceived(p)
    <2> USE <1>0, <1>2 DEF InputReceived, Handling
    <2>1. TypeOK' BY DEF TypeOK
    <2>2. (HandlersHaveSessions /\ HooksHaveIds)'
      BY DEF TypeOK, HandlersHaveSessions, HooksHaveIds, Live
    <2>3. (LiveHaveIds /\ AllocatedExist /\ MappedLive /\ PumpHasRequest)'
      BY DEF TypeOK, LiveHaveIds, AllocatedExist, MappedLive, PumpHasRequest, Live
    <2>4. QueuedLive' BY QueuedStay DEF TypeOK, Live
    <2> QED BY <2>1, <2>2, <2>3, <2>4
  <1>3. CASE SubmitPush(p)
    <2> USE <1>0, <1>3 DEF SubmitPush, Handling
    <2>1. requestQueue' \in Seq(Session) BY AppendKeeps DEF TypeOK
    <2>2. TypeOK' BY <2>1 DEF TypeOK
    <2>3. (HandlersHaveSessions /\ HooksHaveIds)'
      BY DEF TypeOK, HandlersHaveSessions, HooksHaveIds
    <2>4. (LiveHaveIds /\ AllocatedExist /\ MappedLive /\ PumpHasRequest)'
      BY DEF LiveHaveIds, AllocatedExist, MappedLive, PumpHasRequest
    <2>5. QueuedLive'
      <3>1. /\ Len(requestQueue) \in Nat
            /\ Len(requestQueue') = Len(requestQueue) + 1
            /\ \A k \in 1..Len(requestQueue) : requestQueue'[k] = requestQueue[k]
            /\ requestQueue'[Len(requestQueue) + 1] = seen[p]
        <4>1. /\ requestQueue \in Seq(Session) /\ seen[p] \in Session
              /\ requestQueue' = Append(requestQueue, seen[p])
          BY DEF TypeOK
        <4> QED BY ONLY <4>1, AppendKeeps, ElementsIn
      <3>2. \A k \in 1..Len(requestQueue') :
                k \in 1..Len(requestQueue) \/ k = Len(requestQueue) + 1
        BY <3>1
      <3>3. state' = state OBVIOUS
      <3>4. \A k \in 1..Len(requestQueue) : state[requestQueue[k]] \in Live
        BY DEF QueuedLive
      <3> QED BY <3>1, <3>2, <3>3, <3>4 DEF QueuedLive
    <2> QED BY <2>2, <2>3, <2>4, <2>5
  <1>4. CASE ReadErrors(p)
    <2> USE <1>0, <1>4 DEF ReadErrors, Handling
    <2>1. TypeOK' BY DEF TypeOK
    <2>2. (HandlersHaveSessions /\ HooksHaveIds)'
      BY DEF TypeOK, HandlersHaveSessions, HooksHaveIds
    <2>3. (LiveHaveIds /\ AllocatedExist /\ MappedLive /\ PumpHasRequest /\ QueuedLive)'
      BY DEF LiveHaveIds, AllocatedExist, MappedLive, PumpHasRequest, QueuedLive
    <2> QED BY <2>1, <2>2, <2>3
  <1>5. CASE ReadExplanation(p)
    <2> USE <1>0, <1>5 DEF ReadExplanation, Handling
    <2>1. told' \in [Poller -> Answers] BY DEF TypeOK, Answers
    <2>2. TypeOK' BY <2>1 DEF TypeOK
    <2>3. (HandlersHaveSessions /\ HooksHaveIds)'
      BY DEF TypeOK, HandlersHaveSessions, HooksHaveIds
    <2>4. (LiveHaveIds /\ AllocatedExist /\ MappedLive /\ PumpHasRequest /\ QueuedLive)'
      BY DEF LiveHaveIds, AllocatedExist, MappedLive, PumpHasRequest, QueuedLive
    <2> QED BY <2>2, <2>3, <2>4
  <1> QED BY <1>1, <1>2, <1>3, <1>4, <1>5 DEF Handler

LEMMA TypePump ==
    ASSUME TypeInv, Pump
    PROVE  TypeInv'
  <1> USE DEF TypeInv, pumpVars, pollVars, cleanVars, OthersRest
  <1> DEFINE Sessions == HandlersHaveSessions /\ HooksHaveIds /\ LiveHaveIds
                         /\ AllocatedExist /\ MappedLive
  <1>1. ASSUME UNCHANGED <<state, id, pushes, allocated, pollVars>> PROVE Sessions'
    BY <1>1 DEF HandlersHaveSessions, HooksHaveIds, LiveHaveIds, AllocatedExist, MappedLive
  <1>2. CASE CheckKeepRunning \/ PullSucceeds \/ PullFails \/ Awake \/ PopNothing
             \/ StartWaiting \/ WaitTimesOut
    <2> USE <1>2 DEF CheckKeepRunning, PullSucceeds, PullFails, Awake, PopNothing,
            StartWaiting, WaitTimesOut
    <2>1. TypeOK' BY DEF TypeOK
    <2>2. (PumpHasRequest /\ QueuedLive)' BY DEF TypeOK, PumpHasRequest, QueuedLive
    <2>3. Sessions' BY <1>1
    <2> QED BY <2>1, <2>2, <2>3
  <1>3. CASE PopRequest
    <2> USE <1>3 DEF PopRequest
    <2>1. /\ Head(requestQueue) \in Session
          /\ Tail(requestQueue) \in Seq(Session)
          /\ Append(executed, Head(requestQueue)) \in Seq(Session)
      BY HeadAndTail, AppendKeeps DEF TypeOK
    <2>2. TypeOK' BY <2>1 DEF TypeOK
    <2>3. /\ Len(requestQueue) \in Nat \ {0}
          /\ Len(Tail(requestQueue)) = Len(requestQueue) - 1
          /\ Head(requestQueue) = requestQueue[1]
          /\ \A k \in 1..Len(Tail(requestQueue)) :
                Tail(requestQueue)[k] = requestQueue[k + 1]
      BY HeadAndTail DEF TypeOK
    <2>4. PumpHasRequest' BY <2>1, <2>3 DEF PumpHasRequest, QueuedLive
    <2>5. QueuedLive'
      <3> SUFFICES ASSUME NEW k \in 1..Len(Tail(requestQueue))
                   PROVE  state[Tail(requestQueue)[k]] \in Live
        BY DEF QueuedLive
      <3>1. k + 1 \in 1..Len(requestQueue) BY <2>3
      <3> QED BY <2>3, <3>1 DEF QueuedLive
    <2>6. Sessions' BY <1>1
    <2> QED BY <2>2, <2>4, <2>5, <2>6
  <1>4. CASE PushChanges \/ Commit \/ Rollback \/ FinishErrors \/ FinishExplanation
    <2> USE <1>4 DEF PushChanges, Commit, Rollback, FinishErrors, FinishExplanation
    <2>1. TypeOK' BY DEF TypeOK, PumpHasRequest, Verdicts, Texts, TextOf
    <2>2. (PumpHasRequest /\ QueuedLive)' BY DEF TypeOK, PumpHasRequest, QueuedLive
    <2>3. Sessions' BY <1>1
    <2> QED BY <2>1, <2>2, <2>3
  <1>5. CASE FinishState
    <2> USE <1>5 DEF FinishState
    <2>1. current \in Session /\ state[current] \in Live BY DEF PumpHasRequest
    <2>2. TypeOK' BY <2>1 DEF TypeOK
    <2>3. (HandlersHaveSessions /\ HooksHaveIds)'
      BY <2>1, ConstantsAssumption DEF TypeOK, HandlersHaveSessions, HooksHaveIds, Live
    <2>4. (AllocatedExist /\ MappedLive /\ PumpHasRequest)'
      BY <2>1 DEF TypeOK, AllocatedExist, MappedLive, PumpHasRequest, Live
    <2>5. LiveHaveIds' BY <2>1 DEF TypeOK, LiveHaveIds
    <2>6. QueuedLive' BY <2>1, QueuedStay DEF TypeOK, Live
    <2> QED BY <2>2, <2>3, <2>4, <2>5, <2>6
  <1> QED BY <1>2, <1>3, <1>4, <1>5 DEF Pump

LEMMA TypeCleaner ==
    ASSUME TypeInv, Cleaner
    PROVE  TypeInv'
  <1> USE DEF TypeInv, sessionVars, pumpVars, pollVars, CleanerRests
  <1>1. CASE FindFinished \/ SleepEnds \/ DisposeThrows
    <2> USE <1>1 DEF FindFinished, SleepEnds, DisposeThrows
    <2>1. TypeOK' BY DEF TypeOK
    <2>2. (/\ HandlersHaveSessions /\ HooksHaveIds /\ LiveHaveIds
           /\ AllocatedExist /\ MappedLive /\ PumpHasRequest /\ QueuedLive)'
      BY DEF HandlersHaveSessions, HooksHaveIds, LiveHaveIds, AllocatedExist,
             MappedLive, PumpHasRequest, QueuedLive
    <2> QED BY <2>1, <2>2
  <1>2. CASE Dispose
    <2> USE <1>2 DEF Dispose
    <2>1. TypeOK' BY DEF TypeOK
    <2>2. (/\ HandlersHaveSessions /\ HooksHaveIds /\ LiveHaveIds
           /\ AllocatedExist /\ MappedLive /\ PumpHasRequest /\ QueuedLive)'
      BY DEF HandlersHaveSessions, HooksHaveIds, LiveHaveIds, AllocatedExist,
             MappedLive, PumpHasRequest, QueuedLive
    <2> QED BY <2>1, <2>2
  <1>3. ASSUME NEW s \in Session, RemoveSession(s) PROVE TypeInv'
    <2> USE <1>3 DEF RemoveSession
    <2>1. TypeOK' BY DEF TypeOK
    <2>2. MappedLive' BY DEF TypeOK, MappedLive
    <2>3. (/\ HandlersHaveSessions /\ HooksHaveIds /\ LiveHaveIds
           /\ AllocatedExist /\ PumpHasRequest /\ QueuedLive)'
      BY DEF HandlersHaveSessions, HooksHaveIds, LiveHaveIds, AllocatedExist,
             PumpHasRequest, QueuedLive
    <2> QED BY <2>1, <2>2, <2>3
  <1> QED BY <1>1, <1>2, <1>3 DEF Cleaner

LEMMA TypeStep == TypeInv /\ [Next]_vars => TypeInv'
  <1> SUFFICES ASSUME TypeInv, [Next]_vars PROVE TypeInv' OBVIOUS
  <1>1. CASE Stop
    BY <1>1 DEF Stop, TypeInv, TypeOK, sessionVars, pumpVars, pollVars, cleanVars,
       HandlersHaveSessions, HooksHaveIds, LiveHaveIds, AllocatedExist, MappedLive,
       PumpHasRequest, QueuedLive
  <1>2. CASE UNCHANGED vars
    BY <1>2 DEF vars, TypeInv, TypeOK, sessionVars, pumpVars, pollVars, cleanVars,
       HandlersHaveSessions, HooksHaveIds, LiveHaveIds, AllocatedExist, MappedLive,
       PumpHasRequest, QueuedLive
  <1> QED BY <1>1, <1>2, TypeCreate, TypeHook, TypeHandler, TypePump, TypeCleaner
          DEF Next

\* Every variable keeps its type: a handler never works on a session that was
\* not found, and the pump thread never finishes a request it does not have.
THEOREM TypeCorrect == Spec => []TypeOK
  <1>1. Spec => []TypeInv BY TypeInit, TypeStep, PTL DEF Spec
  <1>2. TypeInv => TypeOK BY DEF TypeInv
  <1> QED BY <1>1, <1>2, PTL

-----------------------------------------------------------------------------
(* No push is lost                                                          *)

\* Most steps keep a push in whichever hands it is.
LEMMA HandsKept ==
    ASSUME NoLostPush, requestQueue' = requestQueue,
           \A s \in Session : state'[s] = "WORKING" => state[s] = "WORKING",
           pc \in Unsettled => current' = current /\ pc' \in Unsettled,
           \A p \in Poller : ppc[p] = "submit" =>
                ppc'[p] = "submit" /\ seen'[p] = seen[p]
    PROVE  NoLostPush'
  BY DEF NoLostPush, Queued, Submitting

LEMMA LostCreate ==
    ASSUME TypeInv, NoLostPush, Create
    PROVE  NoLostPush'
  <1>1. ASSUME NEW s \in Session, NEW i \in Id,
               NewSession(s, i) \/ RacingPut(s, i)
        PROVE  NoLostPush'
    <2>1. /\ state' = [state EXCEPT ![s] = "WAITING_FOR_INPUT"]
          /\ UNCHANGED <<requestQueue, pc, current, ppc, seen>>
      BY <1>1 DEF NewSession, RacingPut, Construct, pumpVars, pollVars
    <2> QED BY <2>1, HandsKept DEF TypeInv, TypeOK
  <1>2. ASSUME NEW s \in Session, NewSessionThrows(s) PROVE NoLostPush'
    <2>1. /\ state' = [state EXCEPT ![s] = "ABANDONED"]
          /\ UNCHANGED <<requestQueue, pc, current, ppc, seen>>
      BY <1>2 DEF NewSessionThrows, pumpVars, pollVars
    <2> QED BY <2>1, HandsKept DEF TypeInv, TypeOK
  <1> QED BY <1>1, <1>2 DEF Create

LEMMA LostHook ==
    ASSUME TypeInv, NoLostPush, NEW p \in Poller, Hook(p) \/ Handler(p)
    PROVE  NoLostPush'
  <1> USE DEF Goto, sessionVars, pumpVars
  <1>0. /\ ppc \in [Poller -> {"off", "get", "read", "input", "submit", "errors",
                               "text", "done"}]
        /\ seen \in [Poller -> Session \cup {None}]
        /\ requestQueue \in Seq(Session)
    BY DEF TypeInv, TypeOK
  <1>1. CASE StartHook(p) \/ Lookup(p) \/ GiveUp(p) \/ ReadState(p) \/ ReadErrors(p)
             \/ ReadExplanation(p)
    <2>1. UNCHANGED <<state, requestQueue, pc, current>> /\ ppc[p] # "submit"
      BY <1>1 DEF StartHook, Lookup, GiveUp, ReadState, ReadErrors, ReadExplanation
    <2>2. \A q \in Poller \ {p} : ppc'[q] = ppc[q] /\ seen'[q] = seen[q]
      BY <1>0, <1>1 DEF StartHook, Lookup, GiveUp, ReadState, ReadErrors, ReadExplanation
    <2> QED BY <2>1, <2>2, HandsKept
  <1>2. CASE InputReceived(p)
    <2> USE <1>2 DEF InputReceived
    <2>1. Submitting(seen[p])' BY <1>0 DEF Submitting
    <2>2. ASSUME NEW s \in Session, s # seen[p], state'[s] = "WORKING"
          PROVE  Queued(s)' \/ (current = s /\ pc \in Unsettled)' \/ Submitting(s)'
      <3>1. state[s] = "WORKING" BY <2>2 DEF TypeInv, TypeOK
      <3>2. Queued(s) => Queued(s)' BY DEF Queued
      <3>3. Submitting(s) => Submitting(s)' BY <1>0 DEF Submitting
      <3> QED BY <3>1, <3>2, <3>3 DEF NoLostPush
    <2> QED BY <2>1, <2>2 DEF NoLostPush
  <1>3. CASE SubmitPush(p)
    <2> USE <1>3 DEF SubmitPush
    <2>0. seen[p] \in Session BY DEF TypeInv, HandlersHaveSessions, Handling
    <2>1. /\ Len(requestQueue) \in Nat
          /\ Len(requestQueue') = Len(requestQueue) + 1
          /\ \A k \in 1..Len(requestQueue) : requestQueue'[k] = requestQueue[k]
          /\ requestQueue'[Len(requestQueue) + 1] = seen[p]
      <3>1. requestQueue' = Append(requestQueue, seen[p]) OBVIOUS
      <3> QED BY ONLY <1>0, <2>0, <3>1, AppendKeeps, ElementsIn
    <2>2. ASSUME NEW s \in Session, Queued(s) PROVE Queued(s)'
      BY <2>1, <2>2 DEF Queued
    <2>3. ASSUME NEW s \in Session, s = seen[p] PROVE Queued(s)'
      <3>1. Len(requestQueue) + 1 \in 1..Len(requestQueue') BY <2>1
      <3> QED BY <2>1, <2>3, <3>1 DEF Queued
    <2>4. ASSUME NEW s \in Session, s # seen[p], Submitting(s) PROVE Submitting(s)'
      BY <1>0, <2>4 DEF Submitting
    <2>5. pc \in Unsettled => pc' = pc BY DEF Unsettled
    <2> QED BY <2>2, <2>3, <2>4, <2>5 DEF NoLostPush
  <1> QED BY <1>1, <1>2, <1>3 DEF Hook, Handler

LEMMA LostPump ==
    ASSUME TypeInv, NoLostPush, Pump
    PROVE  NoLostPush'
  <1> USE DEF OthersRest, pumpVars, pollVars
  <1>1. CASE CheckKeepRunning \/ PullSucceeds \/ PullFails \/ Awake \/ PopNothing
             \/ StartWaiting \/ WaitTimesOut \/ FinishErrors \/ FinishExplanation
    BY <1>1, HandsKept DEF Unsettled, CheckKeepRunning, PullSucceeds, PullFails, Awake,
       PopNothing, StartWaiting, WaitTimesOut, FinishErrors, FinishExplanation
  <1>2. CASE PushChanges \/ Commit \/ Rollback
    BY <1>2, HandsKept DEF Unsettled, PushChanges, Commit, Rollback
  <1>3. CASE PopRequest
    <2> USE <1>3 DEF PopRequest
    <2>0. requestQueue \in Seq(Session) BY DEF TypeInv, TypeOK
    <2>1. /\ Len(requestQueue) \in Nat \ {0}
          /\ Len(requestQueue') = Len(requestQueue) - 1
          /\ current' = requestQueue[1]
          /\ \A k \in 1..Len(requestQueue') : requestQueue'[k] = requestQueue[k + 1]
      <3>1. /\ requestQueue' = Tail(requestQueue) /\ requestQueue # <<>>
            /\ current' = Head(requestQueue)
        OBVIOUS
      <3> QED BY ONLY <2>0, <3>1, HeadAndTail
    <2>2. ASSUME NEW s \in Session, Queued(s) PROVE Queued(s)' \/ current' = s
      <3>1. PICK k \in 1..Len(requestQueue) : requestQueue[k] = s BY <2>2 DEF Queued
      <3>2. CASE k = 1 BY <2>1, <3>1, <3>2
      <3>3. CASE k # 1
        <4>1. k - 1 \in 1..Len(requestQueue') /\ (k - 1) + 1 = k BY <2>1, <3>3
        <4>2. requestQueue'[k - 1] = s BY <2>1, <3>1, <4>1
        <4> QED BY <4>1, <4>2 DEF Queued
      <3> QED BY <3>2, <3>3
    <2>3. pc' \in Unsettled /\ pc \notin Unsettled BY DEF Unsettled
    <2>4. ASSUME NEW s \in Session, Submitting(s) PROVE Submitting(s)'
      BY <2>4 DEF Submitting
    <2> QED BY <2>2, <2>3, <2>4 DEF NoLostPush
  <1>4. CASE FinishState
    <2> USE <1>4 DEF FinishState
    <2>1. \A s \in Session : state'[s] = "WORKING" => s # current /\ state[s] = "WORKING"
      BY DEF TypeInv, TypeOK
    <2>2. \A s \in Session : Queued(s) => Queued(s)' BY DEF Queued
    <2>3. \A s \in Session : Submitting(s) => Submitting(s)' BY DEF Submitting
    <2> QED BY <2>1, <2>2, <2>3 DEF NoLostPush
  <1> QED BY <1>1, <1>2, <1>3, <1>4 DEF Pump

LEMMA LostStep == TypeInv /\ NoLostPush /\ [Next]_vars => NoLostPush'
  <1> SUFFICES ASSUME TypeInv, NoLostPush, [Next]_vars PROVE NoLostPush' OBVIOUS
  <1>1. CASE Stop \/ Cleaner \/ UNCHANGED vars
    <2>1. UNCHANGED <<state, requestQueue, pc, current, ppc, seen>>
      BY <1>1 DEF Stop, Cleaner, CleanerRests, FindFinished, SleepEnds, RemoveSession,
         Dispose, DisposeThrows, vars, sessionVars, pumpVars, pollVars
    <2> QED BY <2>1, HandsKept
  <1> QED BY <1>1, LostCreate, LostHook, LostPump DEF Next

\* A push that a poll was told is being worked on is in somebody's hands,
\* whichever ids are drawn, however many clients poll and whatever fails.
THEOREM NothingLost == Spec => []NoLostPush
  <1>1. Init => NoLostPush BY DEF Init, NoLostPush
  <1>2. Spec => [](TypeInv /\ NoLostPush)
    BY <1>1, TypeInit, TypeStep, LostStep, PTL DEF Spec
  <1> QED BY <1>2, PTL

-----------------------------------------------------------------------------
(* A session that can be found has its directory                            *)

\* The map is keyed by the sessions' own ids, the cleanup thread works on
\* sessions that exist, and the one it is disposing of is in the map no more.
MappedById == \A i \in Id : pushes[i] # None => id[pushes[i]] = i

TodoLive == \A s \in todo : state[s] \in Live

VictimUnmapped ==
    cpc = "dispose" => /\ victim \in Session
                       /\ state[victim] \in Live
                       /\ \A i \in Id : pushes[i] # victim

MappedAllocated == \A i \in Id : pushes[i] # None => pushes[i] \in allocated

CleanInv == MappedById /\ TodoLive /\ VictimUnmapped /\ MappedAllocated

\* Sessions only move on from NEW, and keep their ids and places.
LEMMA CleanKept ==
    ASSUME TypeInv, CleanInv, UNCHANGED <<id, pushes, allocated, cpc, todo, victim>>,
           \A s \in Session : state[s] \in Live => state'[s] \in Live
    PROVE  CleanInv'
  BY DEF TypeInv, TypeOK, CleanInv, MappedById, TodoLive, VictimUnmapped, MappedAllocated

LEMMA CleanCreate ==
    ASSUME TypeInv, CleanInv, "map race" \notin Rare, Create
    PROVE  CleanInv'
  <1> USE DEF CleanInv, MappedById, TodoLive, VictimUnmapped, MappedAllocated, cleanVars
  <1>1. ASSUME NEW s \in Session, NEW i \in Id, NewSession(s, i) PROVE CleanInv'
    <2>1. /\ state[s] = "NEW"
          /\ state' = [state EXCEPT ![s] = "WAITING_FOR_INPUT"]
          /\ id' = [id EXCEPT ![s] = i]
          /\ allocated' = allocated \cup {s}
          /\ pushes' = [pushes EXCEPT ![i] = s]
          /\ UNCHANGED <<cpc, todo, victim>>
      BY <1>1 DEF NewSession, Construct
    <2>2. \A j \in Id : pushes[j] # s
      BY <2>1, ConstantsAssumption DEF TypeInv, MappedLive, Live
    <2>3. MappedById' BY <2>1, <2>2 DEF TypeInv, TypeOK
    <2>4. TodoLive' BY <2>1 DEF TypeInv, TypeOK, Live
    <2>5. VictimUnmapped' BY <2>1 DEF TypeInv, TypeOK, Live
    <2>6. MappedAllocated' BY <2>1 DEF TypeInv, TypeOK
    <2> QED BY <2>3, <2>4, <2>5, <2>6
  <1>2. ASSUME NEW s \in Session, NewSessionThrows(s) PROVE CleanInv'
    <2>1. /\ state[s] = "NEW"
          /\ state' = [state EXCEPT ![s] = "ABANDONED"]
          /\ allocated' = allocated \cup {s}
          /\ UNCHANGED <<id, pushes, cpc, todo, victim>>
      BY <1>2 DEF NewSessionThrows
    <2>2. \A x \in Session : state[x] \in Live => state'[x] \in Live
      BY <2>1 DEF TypeInv, TypeOK, Live
    <2> QED BY <2>1, <2>2 DEF TypeInv, TypeOK
  <1>3. ~ \E s \in Session, i \in Id : RacingPut(s, i) BY DEF RacingPut
  <1> QED BY <1>1, <1>2, <1>3 DEF Create

LEMMA CleanCleaner ==
    ASSUME TypeInv, CleanInv, Cleaner
    PROVE  CleanInv'
  <1> USE DEF CleanInv, CleanerRests, sessionVars
  <1>1. CASE FindFinished
    BY <1>1 DEF FindFinished, MappedById, TodoLive, VictimUnmapped, MappedAllocated, Live
  <1>2. CASE SleepEnds \/ DisposeThrows
    BY <1>2 DEF SleepEnds, DisposeThrows, MappedById, TodoLive, VictimUnmapped,
       MappedAllocated
  <1>3. CASE Dispose
    BY <1>3 DEF Dispose, MappedById, TodoLive, VictimUnmapped, MappedAllocated
  <1>4. ASSUME NEW s \in Session, RemoveSession(s) PROVE CleanInv'
    <2> USE <1>4 DEF RemoveSession
    <2>1. pushes \in [Id -> Session \cup {None}] /\ None \notin Session
      BY ConstantsAssumption DEF TypeInv, TypeOK
    <2>2. MappedById' /\ MappedAllocated' /\ TodoLive'
      BY <2>1 DEF MappedById, MappedAllocated, TodoLive
    <2>3. VictimUnmapped'
      <3>1. \A i \in Id : pushes'[i] # s BY <2>1 DEF MappedById
      <3>2. state[s] \in Live BY DEF TodoLive
      <3> QED BY <3>1, <3>2 DEF VictimUnmapped
    <2> QED BY <2>2, <2>3
  <1> QED BY <1>1, <1>2, <1>3, <1>4 DEF Cleaner

LEMMA CleanStep == "map race" \notin Rare /\ TypeInv /\ CleanInv /\ [Next]_vars => CleanInv'
  <1> SUFFICES ASSUME "map race" \notin Rare, TypeInv, CleanInv, [Next]_vars
               PROVE  CleanInv'
    OBVIOUS
  <1>1. ASSUME NEW p \in Poller, Hook(p) \/ Handler(p) PROVE CleanInv'
    <2>1. /\ UNCHANGED <<id, pushes, allocated, cpc, todo, victim>>
          /\ state' = state \/ state' = [state EXCEPT ![seen[p]] = "WORKING"]
      BY <1>1 DEF Hook, Handler, StartHook, Lookup, GiveUp, ReadState, InputReceived,
         SubmitPush, ReadErrors, ReadExplanation, sessionVars, cleanVars
    <2> QED BY <2>1, CleanKept DEF TypeInv, TypeOK, Live
  <1>2. CASE Pump
    <2>1. /\ UNCHANGED <<id, pushes, allocated, cpc, todo, victim>>
          /\ state' = state \/ state' = [state EXCEPT ![current] = "FINISHED"]
      BY <1>2 DEF Pump, OthersRest, cleanVars, CheckKeepRunning, PullSucceeds,
         PullFails, Awake, PopRequest, PopNothing, StartWaiting, WaitTimesOut,
         PushChanges, Commit, Rollback, FinishState, FinishErrors, FinishExplanation
    <2> QED BY <2>1, CleanKept DEF TypeInv, TypeOK, Live
  <1>3. CASE Stop \/ UNCHANGED vars
    BY <1>3, CleanKept DEF Stop, vars, sessionVars, cleanVars
  <1> QED BY <1>1, <1>2, <1>3, CleanCreate, CleanCleaner DEF Next

\* Whoever finds a session by its id finds its directory: the cleanup thread
\* takes a session out of the map before it deletes its directory, and, even
\* when ids repeat, it never deletes that of another session.
THEOREM FoundSessionsHaveDirectories == Spec => []FoundHasDirectory
  <1>1. CASE "map race" \in Rare
    <2>1. FoundHasDirectory BY <1>1 DEF FoundHasDirectory
    <2> QED BY <2>1, PTL
  <1>2. CASE "map race" \notin Rare
    <2>1. Init => CleanInv
      BY DEF Init, CleanInv, MappedById, TodoLive, VictimUnmapped, MappedAllocated
    <2>2. TypeInv /\ CleanInv /\ [Next]_vars => CleanInv' BY <1>2, CleanStep
    <2>3. CleanInv => FoundHasDirectory
      BY DEF CleanInv, MappedAllocated, FoundHasDirectory
    <2> QED BY <2>1, <2>2, <2>3, TypeInit, TypeStep, PTL DEF Spec
  <1> QED BY <1>1, <1>2

-----------------------------------------------------------------------------
(* Each push with a hook of its own                                         *)

\* The pump thread is at a request.
Finishing == {"finish errors", "finish text"}
Busy == Unsettled \cup Finishing

Has(q, s) == \E k \in 1..Len(q) : q[k] = s
Once(q) == \A j, k \in 1..Len(q) : q[j] = q[k] => j = k

-----------------------------------------------------------------------------
(* The inductive invariants                                                 *)

\* No two sessions were given the same id, and the map is keyed by it.
OwnIds == \A s, t \in Session : id[s] # None /\ id[s] = id[t] => s = t

IdInv == OwnIds /\ MappedById /\ TodoLive

\* A push goes from the queue to the executed ones, and its session's state
\* tells how far it came.
QueuedOnce ==
    /\ Once(requestQueue)
    /\ \A s \in Session : Has(requestQueue, s) =>
            state[s] = "WORKING" /\ ~Has(executed, s)

ExecutedOnce ==
    /\ Once(executed)
    /\ \A s \in Session : Has(executed, s) => state[s] \in {"WORKING", "FINISHED"}
    /\ \A s \in Session : state[s] = "FINISHED" => Has(executed, s)

PumpAtRequest ==
    /\ pc \in Busy => Has(executed, current)
    /\ pc \in Unsettled => state[current] = "WORKING"
    /\ pc \in Finishing => state[current] = "FINISHED"
    /\ pc \notin Busy => current = None

\* A handler works on the session its hook was installed for. Between the
\* state it read and what it does about it, no other thread moves the session.
AtInput(p) == ppc[p] = "input" => state[Target[p]] = "WAITING_FOR_INPUT"
AtSubmit(p) ==
    ppc[p] = "submit" => /\ state[Target[p]] = "WORKING"
                         /\ ~Has(requestQueue, Target[p])
                         /\ ~Has(executed, Target[p])
AtEnd(p) == ppc[p] \in {"errors", "text"} => state[Target[p]] = "FINISHED"
OwnSession(p) == ppc[p] \in Handling => seen[p] = Target[p]

HandlersInStep ==
    \A p \in Poller : OwnSession(p) /\ AtInput(p) /\ AtSubmit(p) /\ AtEnd(p)

\* The cleanup thread only has finished sessions, so that a session that
\* waits for its input or its push has its directory.
OnlyFinished == /\ \A s \in todo : state[s] = "FINISHED"
                /\ cpc = "dispose" => victim \in Session /\ state[victim] = "FINISHED"
DirectoryKept == \A s \in Session :
                    state[s] \in {"WAITING_FOR_INPUT", "WORKING"} => s \in allocated

OnceInv == /\ IdInv
           /\ QueuedOnce
           /\ ExecutedOnce
           /\ PumpAtRequest
           /\ HandlersInStep
           /\ OnlyFinished
           /\ DirectoryKept

\* What is known of the end of a push: the fields of its session are written
\* by the pump thread alone, one after the other, once.
VerdictKnown == pc \in {"finish"} \cup Finishing <=> verdict # "none"

TextStored == \A s \in Session : explanation[s] # "null" =>
                    Has(executed, s) /\ current # s

ErrorsStored == \A s \in Session : hadErrors[s] =>
                    \/ explanation[s] = "THE PUSH FAILED"
                    \/ current = s /\ pc = "finish text" /\ verdict = "failed"

ErrorsSeen == \A p \in Poller : sawErrors[p] => hadErrors[Target[p]]

ToldOwn == \A p \in Poller : told[p].kind \in {"OK", "ERROR"} =>
                /\ Has(executed, Target[p])
                /\ told[p].text \in {"null", explanation[Target[p]]}
                /\ told[p].kind = "ERROR" => hadErrors[Target[p]]

AnswerInv == VerdictKnown /\ TextStored /\ ErrorsStored /\ ErrorsSeen /\ ToldOwn

-----------------------------------------------------------------------------
(* Sequences without repetitions                                            *)

LEMMA HasAppend ==
    ASSUME NEW S, NEW q \in Seq(S), NEW e \in S
    PROVE  /\ \A s : Has(Append(q, e), s) <=> Has(q, s) \/ s = e
           /\ Once(q) /\ ~Has(q, e) => Once(Append(q, e))
  <1>1. /\ Len(q) \in Nat
        /\ Len(Append(q, e)) = Len(q) + 1
        /\ \A k \in 1..Len(q) : Append(q, e)[k] = q[k]
        /\ Append(q, e)[Len(q) + 1] = e
    BY AppendKeeps, ElementsIn
  <1>2. \A k \in 1..Len(Append(q, e)) : k \in 1..Len(q) \/ k = Len(q) + 1
    BY <1>1
  <1>3. 1..Len(q) \subseteq 1..Len(Append(q, e)) /\ Len(q) + 1 \in 1..Len(Append(q, e))
    BY <1>1
  <1>4. \A s : Has(Append(q, e), s) <=> Has(q, s) \/ s = e
    BY <1>1, <1>2, <1>3 DEF Has
  <1>5. ASSUME Once(q), ~Has(q, e),
               NEW j \in 1..Len(Append(q, e)), NEW k \in 1..Len(Append(q, e)),
               Append(q, e)[j] = Append(q, e)[k]
        PROVE  j = k
    BY <1>1, <1>2, <1>5 DEF Has, Once
  <1> QED BY <1>4, <1>5 DEF Once

LEMMA HasTail ==
    ASSUME NEW S, NEW q \in Seq(S), q # <<>>
    PROVE  /\ \A s : Has(q, s) <=> s = Head(q) \/ Has(Tail(q), s)
           /\ Once(q) => Once(Tail(q)) /\ ~Has(Tail(q), Head(q))
  <1>1. /\ Len(q) \in Nat \ {0}
        /\ Len(Tail(q)) = Len(q) - 1
        /\ Head(q) = q[1]
        /\ \A k \in 1..Len(Tail(q)) : Tail(q)[k] = q[k + 1]
    BY HeadAndTail
  <1>2. /\ 1 \in 1..Len(q)
        /\ \A k \in 1..Len(Tail(q)) : k + 1 \in 1..Len(q) /\ k + 1 # 1
        /\ \A k \in 1..Len(q) : k = 1 \/ (k - 1 \in 1..Len(Tail(q)) /\ (k - 1) + 1 = k)
    BY <1>1
  <1>3. ASSUME NEW s PROVE Has(q, s) <=> s = Head(q) \/ Has(Tail(q), s)
    <2>1. ASSUME Has(q, s) PROVE s = Head(q) \/ Has(Tail(q), s)
      <3>1. PICK k \in 1..Len(q) : q[k] = s BY <2>1 DEF Has
      <3> QED BY <1>1, <1>2, <3>1 DEF Has
    <2>2. s = Head(q) => Has(q, s) BY <1>1, <1>2 DEF Has
    <2>3. ASSUME Has(Tail(q), s) PROVE Has(q, s)
      <3>1. PICK k \in 1..Len(Tail(q)) : Tail(q)[k] = s BY <2>3 DEF Has
      <3> QED BY <1>1, <1>2, <3>1 DEF Has
    <2> QED BY <2>1, <2>2, <2>3
  <1>4. ASSUME Once(q) PROVE ~Has(Tail(q), Head(q))
    BY <1>1, <1>2, <1>4 DEF Has, Once
  <1>5. ASSUME Once(q), NEW j \in 1..Len(Tail(q)), NEW k \in 1..Len(Tail(q)),
               Tail(q)[j] = Tail(q)[k]
        PROVE  j = k
    <2>1. j + 1 = k + 1 BY <1>1, <1>2, <1>5 DEF Once
    <2> QED BY <2>1
  <1> QED BY <1>3, <1>4, <1>5 DEF Once

LEMMA CountOnce ==
    ASSUME NEW S, NEW q \in Seq(S), Once(q), NEW s
    PROVE  /\ Has(q, s) => Count(s, q) = 1
           /\ ~Has(q, s) => Count(s, q) = 0
  <1>1. ASSUME Has(q, s) PROVE Count(s, q) = 1
    <2>1. PICK k \in 1..Len(q) : q[k] = s BY <1>1 DEF Has
    <2>2. {j \in 1..Len(q) : q[j] = s} = {k} BY <2>1 DEF Once
    <2> QED BY <2>2, FS_Singleton DEF Count
  <1>2. ASSUME ~Has(q, s) PROVE Count(s, q) = 0
    <2>1. {j \in 1..Len(q) : q[j] = s} = {} BY <1>2 DEF Has
    <2> QED BY <2>1, FS_EmptySet DEF Count
  <1> QED BY <1>1, <1>2

-----------------------------------------------------------------------------
(* Ids                                                                      *)

\* What every step that makes no session leaves as it is.
LEMMA IdsKept ==
    ASSUME IdInv, UNCHANGED id,
           \A i \in Id : pushes'[i] \in {pushes[i], None},
           \A s \in Session : state[s] \in Live => state'[s] \in Live,
           todo' \subseteq Session,
           \A s \in todo' : s \in todo \/ state[s] \in Live
    PROVE  IdInv'
  BY DEF IdInv, OwnIds, MappedById, TodoLive

LEMMA IdCreate ==
    ASSUME TypeInv, IdInv, "id reuse" \notin Rare, Create
    PROVE  IdInv'
  <1> USE DEF TypeInv
  <1>1. ASSUME NEW s \in Session, NewSessionThrows(s) PROVE IdInv'
    <2>1. /\ state[s] = "NEW"
          /\ state' = [state EXCEPT ![s] = "ABANDONED"]
          /\ UNCHANGED <<id, pushes, todo>>
      BY <1>1 DEF NewSessionThrows, cleanVars
    <2> QED BY <2>1, IdsKept DEF TypeOK, Live
  <1>2. ASSUME NEW s \in Session, NEW i \in Id, NewSession(s, i) \/ RacingPut(s, i)
        PROVE  IdInv'
    <2>1. /\ state[s] = "NEW"
          /\ Fresh(i)
          /\ state' = [state EXCEPT ![s] = "WAITING_FOR_INPUT"]
          /\ id' = [id EXCEPT ![s] = i]
          /\ todo' = todo
      BY <1>2 DEF NewSession, RacingPut, Construct, CanDraw, cleanVars
    <2>2. \A j \in Id : pushes'[j] # None => (j = i /\ pushes'[j] = s) \/ pushes'[j] = pushes[j]
      BY <1>2 DEF NewSession, RacingPut, TypeOK
    <2>3. \A j \in Id : pushes[j] # s
      BY <2>1, ConstantsAssumption DEF MappedLive, Live
    <2>4. OwnIds' BY <2>1 DEF IdInv, OwnIds, Fresh, TypeOK
    <2>5. MappedById' BY <2>1, <2>2, <2>3 DEF IdInv, MappedById, TypeOK
    <2>6. TodoLive' BY <2>1 DEF IdInv, TodoLive, TypeOK, Live
    <2> QED BY <2>4, <2>5, <2>6 DEF IdInv
  <1> QED BY <1>1, <1>2 DEF Create

LEMMA IdStep == "id reuse" \notin Rare /\ TypeInv /\ IdInv /\ [Next]_vars => IdInv'
  <1> SUFFICES ASSUME "id reuse" \notin Rare, TypeInv, IdInv, [Next]_vars PROVE IdInv'
    OBVIOUS
  <1>1. ASSUME NEW p \in Poller, Hook(p) \/ Handler(p) PROVE IdInv'
    <2>1. /\ UNCHANGED <<id, pushes, todo>>
          /\ state' = state \/ state' = [state EXCEPT ![seen[p]] = "WORKING"]
      BY <1>1 DEF Hook, Handler, StartHook, Lookup, GiveUp, ReadState, InputReceived,
         SubmitPush, ReadErrors, ReadExplanation, sessionVars, cleanVars
    <2> QED BY <2>1, IdsKept DEF TypeInv, TypeOK, Live
  <1>2. CASE Pump
    <2>1. /\ UNCHANGED <<id, pushes, todo>>
          /\ state' = state \/ state' = [state EXCEPT ![current] = "FINISHED"]
      BY <1>2 DEF Pump, OthersRest, cleanVars, CheckKeepRunning, PullSucceeds,
         PullFails, Awake, PopRequest, PopNothing, StartWaiting, WaitTimesOut,
         PushChanges, Commit, Rollback, FinishState, FinishErrors, FinishExplanation
    <2> QED BY <2>1, IdsKept DEF TypeInv, TypeOK, Live
  <1>3. CASE Stop \/ UNCHANGED vars
    BY <1>3, IdsKept DEF Stop, vars, sessionVars, cleanVars, TypeInv, TypeOK
  <1>4. CASE Cleaner
    <2>1. /\ UNCHANGED <<id, state>>
          /\ \A i \in Id : pushes'[i] \in {pushes[i], None}
          /\ todo' \subseteq todo \cup {s \in Session : state[s] = "FINISHED"}
      BY <1>4 DEF Cleaner, CleanerRests, FindFinished, SleepEnds, RemoveSession,
         Dispose, DisposeThrows, sessionVars, TypeInv, TypeOK
    <2> QED BY <2>1, IdsKept DEF TypeInv, TypeOK, Live
  <1> QED BY <1>1, <1>2, <1>3, <1>4, IdCreate DEF Next

\* The removal of a session from the map is the cleanup thread's, and the one
\* it then disposes of is the session that was removed.
LEMMA OnlyCleanerRemoves ==
    ASSUME "id reuse" \notin Rare, TypeInv, IdInv, Next,
           NEW i \in Id, pushes[i] # None, pushes'[i] # pushes[i]
    PROVE  cpc = "remove" /\ cpc' = "dispose" /\ victim' = pushes[i]
  <1>0. /\ pushes[i] \in Session
        /\ id[pushes[i]] = i
        /\ pushes \in [Id -> Session \cup {None}]
        /\ todo \subseteq Session
    BY DEF TypeInv, TypeOK, IdInv, MappedById
  <1>1. ASSUME NEW s \in todo, s \in Session, pushes' = [pushes EXCEPT ![id[s]] = None]
        PROVE  s = pushes[i]
    <2>1. id[s] = i BY <1>0, <1>1
    <2>2. id[s] # None BY <2>1, ConstantsAssumption
    <2> QED BY <1>0, <2>1, <2>2 DEF IdInv, OwnIds
  <1>2. ASSUME NEW s \in Session, NEW j \in Id, Fresh(j), pushes' = [pushes EXCEPT ![j] = s]
        PROVE  FALSE
    BY <1>0, <1>2 DEF Fresh
  <1>3. CASE Create
    <2>1. ASSUME NEW s \in Session, NEW j \in Id, NewSession(s, j) \/ RacingPut(s, j)
          PROVE  cpc = "remove" /\ cpc' = "dispose" /\ victim' = pushes[i]
      <3>1. Fresh(j) BY <2>1 DEF NewSession, RacingPut, Construct, CanDraw
      <3>2. pushes' # [pushes EXCEPT ![j] = s] BY <1>2, <3>1
      <3>3. /\ cpc = "remove"
            /\ cpc' = "dispose"
            /\ \E v \in todo : victim' = v /\ pushes' = [pushes EXCEPT ![id[v]] = None]
        BY <2>1, <3>2 DEF NewSession, RacingPut
      <3> QED BY <1>0, <1>1, <3>3
    <2>2. ~ \E s \in Session : NewSessionThrows(s) BY DEF NewSessionThrows
    <2> QED BY <1>3, <2>1, <2>2 DEF Create
  <1>4. CASE Cleaner
    <2>1. PICK s \in Session : RemoveSession(s)
      BY <1>4 DEF Cleaner, FindFinished, SleepEnds, Dispose, DisposeThrows
    <2> QED BY <1>1, <2>1 DEF RemoveSession
  <1>5. ~Pump /\ ~Stop
    BY DEF Pump, Stop, OthersRest, CheckKeepRunning, PullSucceeds, PullFails, Awake,
       PopRequest, PopNothing, StartWaiting, WaitTimesOut, PushChanges, Commit,
       Rollback, FinishState, FinishErrors, FinishExplanation
  <1>6. ASSUME NEW p \in Poller PROVE ~Hook(p) /\ ~Handler(p)
    BY DEF Hook, Handler, StartHook, Lookup, GiveUp, ReadState, InputReceived,
       SubmitPush, ReadErrors, ReadExplanation
  <1> QED BY <1>3, <1>4, <1>5, <1>6 DEF Next

\* Unless a draw repeats an id, the final status of a push can be asked for
\* until the cleanup thread takes its session away: neither a new session nor
\* a lost update of the map takes it from its hook.
THEOREM FinalStatusStaysForHooks ==
    "id reuse" \notin Rare => (Spec => FinalStatusStays)
  <1> SUFFICES ASSUME "id reuse" \notin Rare PROVE Spec => FinalStatusStays
    OBVIOUS
  <1>1. Init => IdInv BY DEF Init, IdInv, OwnIds, MappedById, TodoLive
  <1>2. Spec => [](TypeInv /\ IdInv) BY <1>1, TypeInit, TypeStep, IdStep, PTL DEF Spec
  <1>3. TypeInv /\ IdInv /\ [Next]_vars =>
            [\A i \in Id : (pushes[i] # None /\ pushes'[i] # pushes[i]) =>
                cpc = "remove" /\ cpc' = "dispose" /\ victim' = pushes[i]]_vars
    BY OnlyCleanerRemoves
  <1> QED BY <1>2, <1>3, PTL DEF Spec, FinalStatusStays

-----------------------------------------------------------------------------
(* A push is submitted once, and every thread knows how far it is           *)

Requests == QueuedOnce /\ ExecutedOnce /\ PumpAtRequest

LEMMA RequestsKept ==
    ASSUME Requests, UNCHANGED <<state, requestQueue, executed, pc, current>>
    PROVE  Requests'
  BY DEF Requests, QueuedOnce, ExecutedOnce, PumpAtRequest

\* Handlers that do not move stay in step if no one moves their sessions.
LEMMA HandlersKept ==
    ASSUME TypeInv, HandlersInStep, UNCHANGED <<ppc, seen>>,
           \A p \in Poller : ppc[p] \in {"input", "submit", "errors", "text"} =>
                state'[Target[p]] = state[Target[p]],
           \A p \in Poller : ppc[p] = "submit" =>
                /\ Has(requestQueue', Target[p]) => Has(requestQueue, Target[p])
                /\ Has(executed', Target[p]) => Has(executed, Target[p])
    PROVE  HandlersInStep'
  BY DEF HandlersInStep, OwnSession, AtInput, AtSubmit, AtEnd, Handling

LEMMA OnceCreate ==
    ASSUME TypeInv, OnceInv, HooksApart, Create
    PROVE  OnceInv'
  <1>0. IdInv' BY IdCreate DEF OnceInv, HooksApart
  <1>1. PICK s \in Session, to \in {"WAITING_FOR_INPUT", "ABANDONED"} :
            /\ state[s] = "NEW"
            /\ state' = [state EXCEPT ![s] = to]
            /\ allocated' = allocated \cup {s}
            /\ UNCHANGED <<requestQueue, executed, pc, current, ppc, seen>>
            /\ todo' = todo
            /\ cpc' = "dispose" => \/ cpc = "dispose" /\ victim' = victim
                                   \/ victim' \in todo
    BY DEF Create, NewSession, NewSessionThrows, RacingPut, Construct, pumpVars,
       pollVars, cleanVars
  <1>2. /\ state \in [Session -> {"NEW", "ABANDONED", "WAITING_FOR_INPUT",
                                  "WORKING", "FINISHED"}]
        /\ \A x \in Session : state'[x] = IF x = s THEN to ELSE state[x]
        /\ todo \subseteq Session
    BY <1>1 DEF TypeInv, TypeOK
  <1>3. QueuedOnce' BY <1>1, <1>2 DEF OnceInv, QueuedOnce
  <1>4. ExecutedOnce' BY <1>1, <1>2 DEF OnceInv, ExecutedOnce
  <1>5. PumpAtRequest'
    BY <1>1, <1>2 DEF OnceInv, PumpAtRequest, TypeInv, PumpHasRequest, Unsettled,
       Finishing, Live
  <1>6. HandlersInStep'
    <2>1. ASSUME NEW p \in Poller, ppc[p] \in {"input", "submit", "errors", "text"}
          PROVE  Target[p] \in Session /\ Target[p] # s
      BY <1>1, <2>1, ConstantsAssumption
      DEF OnceInv, HandlersInStep, AtInput, AtSubmit, AtEnd
    <2>2. HandlersInStep BY DEF OnceInv
    <2>3. \A p \in Poller : ppc[p] \in {"input", "submit", "errors", "text"} =>
                state'[Target[p]] = state[Target[p]]
      BY <1>2, <2>1
    <2> QED BY ONLY TypeInv, <1>1, <2>2, <2>3, HandlersKept
  <1>7. OnlyFinished'
    <2>1. \A x \in todo : state'[x] = "FINISHED"
      BY <1>1, <1>2 DEF OnceInv, OnlyFinished
    <2>2. cpc' = "dispose" => victim' \in Session /\ state'[victim'] = "FINISHED"
      BY <1>1, <1>2, <2>1 DEF OnceInv, OnlyFinished
    <2> QED BY <1>1, <2>1, <2>2 DEF OnlyFinished
  <1>8. DirectoryKept' BY <1>1, <1>2 DEF OnceInv, DirectoryKept
  <1> QED BY <1>0, <1>3, <1>4, <1>5, <1>6, <1>7, <1>8 DEF OnceInv

LEMMA OnceHook ==
    ASSUME TypeInv, OnceInv, HooksApart, NEW p \in Poller, Hook(p)
    PROVE  OnceInv'
  <1>1. /\ UNCHANGED <<state, id, pushes, allocated, requestQueue, executed, pc,
                       current, cpc, todo, victim>>
        /\ ppc[p] \in {"off", "get"}
        /\ \E l \in {"get", "read", "done"} : ppc' = [ppc EXCEPT ![p] = l]
        /\ ppc'[p] = "read" => /\ ppc[p] = "get"
                               /\ pushes[id[Target[p]]] # None
                               /\ seen' = [seen EXCEPT ![p] = pushes[id[Target[p]]]]
        /\ ppc'[p] # "read" => seen' = seen
    <2> USE DEF Goto, sessionVars, pumpVars, cleanVars
    <2>0. ppc \in [Poller -> {"off", "get", "read", "input", "submit", "errors",
                              "text", "done"}]
      BY DEF TypeInv, TypeOK
    <2>1. CASE StartHook(p) BY <2>0, <2>1 DEF StartHook
    <2>2. CASE Lookup(p)
      <3>1. CASE keepRunning /\ pushes[id[Target[p]]] # None
        BY <2>0, <2>2, <3>1 DEF Lookup
      <3>2. CASE ~(keepRunning /\ pushes[id[Target[p]]] # None)
        BY <2>0, <2>2, <3>2 DEF Lookup
      <3> QED BY <3>1, <3>2
    <2>3. CASE GiveUp(p) BY <2>0, <2>3 DEF GiveUp
    <2> QED BY <2>1, <2>2, <2>3 DEF Hook
  <1>2. IdInv'
    BY <1>1, IdsKept DEF OnceInv, IdInv, TodoLive, TypeInv, TypeOK
  <1>3. Requests' BY <1>1, RequestsKept DEF OnceInv, Requests
  <1>4. (OnlyFinished /\ DirectoryKept)'
    BY <1>1 DEF OnceInv, OnlyFinished, DirectoryKept
  <1>5. HandlersInStep'
    <2>1. ASSUME pushes[id[Target[p]]] # None, ppc[p] = "get"
          PROVE  pushes[id[Target[p]]] = Target[p]
      <3>1. Target[p] \in Session /\ id[Target[p]] \in Id
        BY <2>1, ConstantsAssumption
        DEF TypeInv, TypeOK, HooksHaveIds, LiveHaveIds, Handling, AllocatedExist
      <3>2. pushes[id[Target[p]]] \in Session BY <2>1, <3>1 DEF TypeInv, TypeOK
      <3>3. id[pushes[id[Target[p]]]] = id[Target[p]] /\ id[Target[p]] # None
        BY <2>1, <3>1, ConstantsAssumption DEF OnceInv, IdInv, MappedById
      <3> QED BY <3>1, <3>2, <3>3 DEF OnceInv, IdInv, OwnIds
    <2>2. /\ ppc \in [Poller -> {"off", "get", "read", "input", "submit", "errors",
                                 "text", "done"}]
          /\ seen \in [Poller -> Session \cup {None}]
      BY DEF TypeInv, TypeOK
    <2>3. ppc'[p] \in {"get", "done"} \/ (ppc'[p] = "read" /\ seen'[p] = Target[p])
      BY <1>1, <2>1, <2>2
    <2>4. \A q \in Poller \ {p} : ppc'[q] = ppc[q] /\ seen'[q] = seen[q]
      BY <1>1, <2>2
    <2>5. ASSUME NEW q \in Poller \ {p}
          PROVE  (OwnSession(q) /\ AtInput(q) /\ AtSubmit(q) /\ AtEnd(q))'
      BY <1>1, <2>4 DEF OnceInv, HandlersInStep, OwnSession, AtInput, AtSubmit, AtEnd
    <2>6. (OwnSession(p) /\ AtInput(p) /\ AtSubmit(p) /\ AtEnd(p))'
      BY <2>3 DEF OwnSession, AtInput, AtSubmit, AtEnd, Handling
    <2> QED BY <2>5, <2>6 DEF HandlersInStep
  <1> QED BY <1>2, <1>3, <1>4, <1>5 DEF OnceInv, Requests

LEMMA OnceHandler ==
    ASSUME TypeInv, OnceInv, HooksApart, NEW p \in Poller, Handler(p)
    PROVE  OnceInv'
  <1> USE DEF Goto, sessionVars, pumpVars, cleanVars
  <1> DEFINE s == Target[p]
  <1>0. /\ ppc \in [Poller -> {"off", "get", "read", "input", "submit", "errors",
                               "text", "done"}]
        /\ seen \in [Poller -> Session \cup {None}]
        /\ state \in [Session -> {"NEW", "ABANDONED", "WAITING_FOR_INPUT",
                                  "WORKING", "FINISHED"}]
        /\ requestQueue \in Seq(Session)
        /\ executed \in Seq(Session)
        /\ todo \subseteq Session
    BY DEF TypeInv, TypeOK
  <1>1. ppc[p] \in Handling /\ seen[p] = s /\ s \in Session
    BY ConstantsAssumption
    DEF Handler, ReadState, InputReceived, SubmitPush, ReadErrors, ReadExplanation,
        Handling, OnceInv, HandlersInStep, OwnSession
  <1>2. UNCHANGED <<id, pushes, allocated, executed, current, cpc, todo, victim>>
    BY DEF Handler, ReadState, InputReceived, SubmitPush, ReadErrors, ReadExplanation
  <1>3. /\ \A q \in Poller \ {p} : ppc'[q] = ppc[q] /\ seen'[q] = seen[q]
        /\ ppc'[p] \in Handling => seen'[p] = seen[p]
    BY <1>0, <1>1
    DEF Handler, ReadState, InputReceived, SubmitPush, ReadErrors, ReadExplanation, Handling
  <1>4. IdInv'
    <2>1. state' = state \/ state' = [state EXCEPT ![s] = "WORKING"]
      BY <1>1 DEF Handler, ReadState, InputReceived, SubmitPush, ReadErrors, ReadExplanation
    <2> QED BY <1>0, <1>2, <2>1, IdsKept DEF OnceInv, IdInv, TodoLive, Live
  <1>5. \A q \in Poller \ {p} : Target[q] # s
    BY DEF HooksApart, OneHookEach
  <1>6. OwnSession(p)' /\ \A q \in Poller \ {p} : OwnSession(q)'
    BY <1>1, <1>3 DEF OnceInv, HandlersInStep, OwnSession
  <1>7. CASE ReadState(p) \/ ReadErrors(p) \/ ReadExplanation(p)
    <2>1. UNCHANGED <<state, requestQueue, executed, pc, current>>
      BY <1>2, <1>7 DEF ReadState, ReadErrors, ReadExplanation
    <2>2. Requests' BY <2>1, RequestsKept DEF OnceInv, Requests
    <2>3. (OnlyFinished /\ DirectoryKept)'
      BY <1>2, <2>1 DEF OnceInv, OnlyFinished, DirectoryKept
    <2>4. \A q \in Poller \ {p} : (AtInput(q) /\ AtSubmit(q) /\ AtEnd(q))'
      BY <1>3, <2>1 DEF OnceInv, HandlersInStep, AtInput, AtSubmit, AtEnd
    <2>5. (AtInput(p) /\ AtSubmit(p) /\ AtEnd(p))'
      <3>1. CASE ReadState(p)
        <4>1. state[s] \in Live BY <1>1 DEF TypeInv, HandlersHaveSessions
        <4> QED BY <1>0, <1>1, <2>1, <3>1, <4>1
                DEF ReadState, AtInput, AtSubmit, AtEnd, Live
      <3>2. CASE ReadErrors(p)
        BY <1>0, <1>1, <2>1, <3>2
        DEF ReadErrors, OnceInv, HandlersInStep, AtInput, AtSubmit, AtEnd
      <3>3. CASE ReadExplanation(p)
        BY <1>0, <3>3 DEF ReadExplanation, AtInput, AtSubmit, AtEnd
      <3> QED BY <1>7, <3>1, <3>2, <3>3
    <2> QED BY <1>4, <1>6, <2>2, <2>3, <2>4, <2>5 DEF OnceInv, Requests, HandlersInStep
  <1>8. CASE InputReceived(p)
    <2>1. /\ state[s] = "WAITING_FOR_INPUT"
          /\ state' = [state EXCEPT ![s] = "WORKING"]
          /\ UNCHANGED <<requestQueue, pc>>
          /\ ppc'[p] = "submit"
      BY <1>0, <1>1, <1>8 DEF InputReceived, OnceInv, HandlersInStep, AtInput
    <2>2. \A x \in Session : state'[x] = IF x = s THEN "WORKING" ELSE state[x]
      BY <1>0, <2>1
    <2>3. ~Has(requestQueue, s) /\ ~Has(executed, s)
      BY <1>1, <2>1 DEF OnceInv, QueuedOnce, ExecutedOnce
    <2>4. QueuedOnce' BY <1>2, <2>1, <2>2, <2>3 DEF OnceInv, QueuedOnce
    <2>5. ExecutedOnce' BY <1>2, <2>1, <2>2, <2>3 DEF OnceInv, ExecutedOnce
    <2>6. PumpAtRequest'
      <3>1. pc \in Busy => current \in Session /\ current # s
        BY <2>3 DEF OnceInv, PumpAtRequest, TypeInv, PumpHasRequest, Busy, Unsettled,
           Finishing
      <3> QED BY <1>2, <2>1, <2>2, <3>1 DEF OnceInv, PumpAtRequest, Busy
    <2>7. OnlyFinished' BY <1>0, <1>2, <2>1, <2>2 DEF OnceInv, OnlyFinished
    <2>8. DirectoryKept' BY <1>1, <1>2, <2>1, <2>2 DEF OnceInv, DirectoryKept
    <2>9. \A q \in Poller \ {p} : (AtInput(q) /\ AtSubmit(q) /\ AtEnd(q))'
      <3>1. \A q \in Poller \ {p} : state'[Target[q]] = state[Target[q]]
        BY <1>5, <2>2, ConstantsAssumption
      <3> QED BY <1>2, <1>3, <2>1, <3>1 DEF OnceInv, HandlersInStep, AtInput, AtSubmit, AtEnd
    <2>10. (AtInput(p) /\ AtSubmit(p) /\ AtEnd(p))'
      BY <1>1, <1>2, <2>1, <2>2, <2>3 DEF AtInput, AtSubmit, AtEnd
    <2> QED BY <1>4, <1>6, <2>4, <2>5, <2>6, <2>7, <2>8, <2>9, <2>10
            DEF OnceInv, HandlersInStep
  <1>9. CASE SubmitPush(p)
    <2>1. /\ state[s] = "WORKING" /\ ~Has(requestQueue, s) /\ ~Has(executed, s)
          /\ requestQueue' = Append(requestQueue, s)
          /\ pc' = IF pc = "idle" THEN "check" ELSE pc
          /\ state' = state
          /\ ppc'[p] = "get"
      BY <1>0, <1>1, <1>9 DEF SubmitPush, OnceInv, HandlersInStep, AtSubmit
    <2>2. /\ \A x : Has(requestQueue', x) <=> Has(requestQueue, x) \/ x = s
          /\ Once(requestQueue')
      BY <1>0, <1>1, <2>1, HasAppend DEF OnceInv, QueuedOnce
    <2>3. QueuedOnce' BY <1>2, <2>1, <2>2 DEF OnceInv, QueuedOnce
    <2>4. ExecutedOnce' BY <1>2, <2>1 DEF OnceInv, ExecutedOnce
    <2>5. PumpAtRequest'
      BY <1>2, <2>1 DEF OnceInv, PumpAtRequest, Busy, Unsettled, Finishing
    <2>6. (OnlyFinished /\ DirectoryKept)'
      BY <1>2, <2>1 DEF OnceInv, OnlyFinished, DirectoryKept
    <2>7. \A q \in Poller \ {p} : (AtInput(q) /\ AtSubmit(q) /\ AtEnd(q))'
      BY <1>2, <1>3, <1>5, <2>1, <2>2 DEF OnceInv, HandlersInStep, AtInput, AtSubmit, AtEnd
    <2>8. (AtInput(p) /\ AtSubmit(p) /\ AtEnd(p))'
      BY <2>1 DEF AtInput, AtSubmit, AtEnd
    <2> QED BY <1>4, <1>6, <2>3, <2>4, <2>5, <2>6, <2>7, <2>8 DEF OnceInv, HandlersInStep
  <1> QED BY <1>7, <1>8, <1>9 DEF Handler

LEMMA OncePump ==
    ASSUME TypeInv, OnceInv, Pump
    PROVE  OnceInv'
  <1> USE DEF OthersRest, pumpVars, pollVars, cleanVars
  <1>0. /\ state \in [Session -> {"NEW", "ABANDONED", "WAITING_FOR_INPUT",
                                  "WORKING", "FINISHED"}]
        /\ requestQueue \in Seq(Session)
        /\ executed \in Seq(Session)
        /\ todo \subseteq Session
        /\ UNCHANGED <<id, pushes, allocated, ppc, seen, cpc, todo, victim>>
    BY DEF TypeInv, TypeOK, Pump, CheckKeepRunning, PullSucceeds, PullFails, Awake,
       PopRequest, PopNothing, StartWaiting, WaitTimesOut, PushChanges, Commit,
       Rollback, FinishState, FinishErrors, FinishExplanation
  <1>1. IdInv'
    <2>1. state' = state \/ state' = [state EXCEPT ![current] = "FINISHED"]
      BY DEF Pump, CheckKeepRunning, PullSucceeds, PullFails, Awake, PopRequest,
         PopNothing, StartWaiting, WaitTimesOut, PushChanges, Commit, Rollback,
         FinishState, FinishErrors, FinishExplanation
    <2> QED BY <1>0, <2>1, IdsKept DEF OnceInv, IdInv, TodoLive, Live
  <1>2. CASE CheckKeepRunning \/ PullSucceeds \/ PullFails \/ Awake \/ PopNothing
             \/ StartWaiting \/ WaitTimesOut \/ PushChanges \/ Commit \/ Rollback
             \/ FinishErrors \/ FinishExplanation
    <2>1. UNCHANGED <<state, requestQueue, executed>>
      BY <1>2 DEF CheckKeepRunning, PullSucceeds, PullFails, Awake, PopNothing,
         StartWaiting, WaitTimesOut, PushChanges, Commit, Rollback, FinishErrors,
         FinishExplanation
    <2>2. \/ pc \notin Busy /\ pc' \notin Busy /\ current' = current
          \/ pc \in Unsettled /\ pc' \in Unsettled /\ current' = current
          \/ pc \in Finishing /\ pc' \in Finishing /\ current' = current
          \/ pc \in Finishing /\ pc' \notin Busy /\ current' = None
      BY <1>2 DEF CheckKeepRunning, PullSucceeds, PullFails, Awake, PopNothing,
         StartWaiting, WaitTimesOut, PushChanges, Commit, Rollback, FinishErrors,
         FinishExplanation, Busy, Unsettled, Finishing
    <2>3. PumpAtRequest'
      BY <2>1, <2>2 DEF OnceInv, PumpAtRequest, Busy, Unsettled, Finishing
    <2>4. (QueuedOnce /\ ExecutedOnce)' BY <2>1 DEF OnceInv, QueuedOnce, ExecutedOnce
    <2>5. HandlersInStep' BY <1>0, <2>1, HandlersKept DEF OnceInv
    <2>6. (OnlyFinished /\ DirectoryKept)'
      BY <1>0, <2>1 DEF OnceInv, OnlyFinished, DirectoryKept
    <2> QED BY <1>1, <2>3, <2>4, <2>5, <2>6 DEF OnceInv
  <1>3. CASE PopRequest
    <2> DEFINE s == Head(requestQueue)
    <2>1. /\ pc = "pop" /\ pc' = "push"
          /\ requestQueue # <<>>
          /\ requestQueue' = Tail(requestQueue)
          /\ executed' = Append(executed, s)
          /\ current' = s
          /\ state' = state
      BY <1>3 DEF PopRequest
    <2>2. /\ \A x : Has(requestQueue, x) <=> x = s \/ Has(requestQueue', x)
          /\ Once(requestQueue') /\ ~Has(requestQueue', s)
      BY <1>0, <2>1, HasTail DEF OnceInv, QueuedOnce
    <2>3. s \in Session /\ state[s] = "WORKING" /\ ~Has(executed, s)
      BY <1>0, <2>1, <2>2, HeadAndTail DEF OnceInv, QueuedOnce
    <2>4. /\ \A x : Has(executed', x) <=> Has(executed, x) \/ x = s
          /\ Once(executed')
      BY <1>0, <2>1, <2>3, HasAppend DEF OnceInv, ExecutedOnce
    <2>5. QueuedOnce' BY <2>1, <2>2, <2>4 DEF OnceInv, QueuedOnce
    <2>6. ExecutedOnce' BY <2>1, <2>3, <2>4 DEF OnceInv, ExecutedOnce
    <2>7. PumpAtRequest'
      BY <2>1, <2>3, <2>4 DEF OnceInv, PumpAtRequest, Busy, Unsettled, Finishing
    <2>8. HandlersInStep'
      <3>1. HandlersInStep BY DEF OnceInv
      <3>2. \A p \in Poller : ppc[p] = "submit" =>
                /\ Has(requestQueue', Target[p]) => Has(requestQueue, Target[p])
                /\ Has(executed', Target[p]) => Has(executed, Target[p])
        BY <2>2, <2>4, <3>1 DEF HandlersInStep, AtSubmit
      <3> QED BY <1>0, <2>1, <3>1, <3>2, HandlersKept
    <2>9. (OnlyFinished /\ DirectoryKept)'
      BY <1>0, <2>1 DEF OnceInv, OnlyFinished, DirectoryKept
    <2> QED BY <1>1, <2>5, <2>6, <2>7, <2>8, <2>9 DEF OnceInv
  <1>4. CASE FinishState
    <2>1. /\ pc = "finish" /\ pc' = "finish errors"
          /\ state' = [state EXCEPT ![current] = "FINISHED"]
          /\ UNCHANGED <<requestQueue, executed, current>>
      BY <1>4 DEF FinishState
    <2>2. current \in Session /\ state[current] = "WORKING" /\ Has(executed, current)
      BY <2>1 DEF OnceInv, PumpAtRequest, TypeInv, PumpHasRequest, Busy, Unsettled
    <2>3. \A x \in Session : state'[x] = IF x = current THEN "FINISHED" ELSE state[x]
      BY <1>0, <2>1
    <2>4. QueuedOnce' BY <2>1, <2>2, <2>3 DEF OnceInv, QueuedOnce
    <2>5. ExecutedOnce' BY <2>1, <2>2, <2>3 DEF OnceInv, ExecutedOnce
    <2>6. PumpAtRequest'
      BY <2>1, <2>2, <2>3 DEF OnceInv, PumpAtRequest, Busy, Unsettled, Finishing
    <2>7. HandlersInStep'
      <3>1. HandlersInStep BY DEF OnceInv
      <3>2. ASSUME NEW p \in Poller, ppc[p] \in {"input", "submit", "errors", "text"}
            PROVE  state'[Target[p]] = state[Target[p]]
        <4>1. Target[p] # current
          BY <2>2, <3>1, <3>2 DEF HandlersInStep, AtInput, AtSubmit, AtEnd
        <4> QED BY <2>3, <4>1, ConstantsAssumption
      <3> QED BY <1>0, <2>1, <3>1, <3>2, HandlersKept
    <2>8. OnlyFinished' BY <1>0, <2>1, <2>3 DEF OnceInv, OnlyFinished
    <2>9. DirectoryKept' BY <1>0, <2>1, <2>3 DEF OnceInv, DirectoryKept
    <2> QED BY <1>1, <2>4, <2>5, <2>6, <2>7, <2>8, <2>9 DEF OnceInv
  <1> QED BY <1>2, <1>3, <1>4 DEF Pump

LEMMA OnceCleaner ==
    ASSUME TypeInv, OnceInv, "id reuse" \notin Rare, Cleaner
    PROVE  OnceInv'
  <1> USE DEF CleanerRests, sessionVars, pumpVars, pollVars
  <1>0. UNCHANGED <<state, id, requestQueue, pc, current, executed, ppc, seen>>
    BY DEF Cleaner, FindFinished, SleepEnds, RemoveSession, Dispose, DisposeThrows
  <1>1. IdInv' BY IdStep DEF OnceInv, Next
  <1>2. Requests' BY <1>0, RequestsKept DEF OnceInv, Requests
  <1>3. HandlersInStep' BY <1>0, HandlersKept DEF OnceInv
  <1>4. OnlyFinished'
    <2>1. todo \subseteq Session BY DEF TypeInv, TypeOK
    <2>2. CASE FindFinished BY <1>0, <2>2 DEF FindFinished, OnlyFinished
    <2>3. CASE SleepEnds \/ DisposeThrows
      BY <1>0, <2>3 DEF SleepEnds, DisposeThrows, OnceInv, OnlyFinished
    <2>4. CASE Dispose BY <1>0, <2>4 DEF Dispose, OnceInv, OnlyFinished
    <2>5. ASSUME NEW s \in Session, RemoveSession(s) PROVE OnlyFinished'
      BY <1>0, <2>5 DEF RemoveSession, OnceInv, OnlyFinished
    <2> QED BY <2>2, <2>3, <2>4, <2>5 DEF Cleaner
  <1>5. DirectoryKept'
    <2>1. allocated' = allocated \/ (cpc = "dispose" /\ allocated' = allocated \ {victim})
      BY DEF Cleaner, FindFinished, SleepEnds, RemoveSession, Dispose, DisposeThrows
    <2> QED BY <1>0, <2>1 DEF OnceInv, OnlyFinished, DirectoryKept
  <1> QED BY <1>1, <1>2, <1>3, <1>4, <1>5 DEF OnceInv, Requests

LEMMA OnceStep == HooksApart /\ TypeInv /\ OnceInv /\ [Next]_vars => OnceInv'
  <1> SUFFICES ASSUME HooksApart, TypeInv, OnceInv, [Next]_vars PROVE OnceInv'
    OBVIOUS
  <1>1. CASE Stop \/ UNCHANGED vars
    <2>1. UNCHANGED <<state, id, pushes, allocated, requestQueue, pc, current,
                      executed, ppc, seen, cpc, todo, victim>>
      BY <1>1 DEF Stop, vars, sessionVars, pumpVars, pollVars, cleanVars
    <2>2. IdInv' BY <1>1, IdStep DEF OnceInv, HooksApart, Next
    <2>3. Requests' BY <2>1, RequestsKept DEF OnceInv, Requests
    <2>4. HandlersInStep' BY <2>1, HandlersKept DEF OnceInv
    <2>5. (OnlyFinished /\ DirectoryKept)'
      BY <2>1 DEF OnceInv, OnlyFinished, DirectoryKept
    <2> QED BY <2>2, <2>3, <2>4, <2>5 DEF OnceInv, Requests
  <1> QED BY <1>1, OnceCreate, OnceHook, OnceHandler, OncePump, OnceCleaner
          DEF Next, HooksApart

LEMMA OnceInit == Init => OnceInv
  <1> SUFFICES ASSUME Init PROVE OnceInv OBVIOUS
  <1>1. \A s : ~Has(<<>>, s) BY DEF Has
  <1>2. Once(<<>>) BY DEF Once
  <1>3. IdInv BY DEF Init, IdInv, OwnIds, MappedById, TodoLive
  <1>4. QueuedOnce /\ ExecutedOnce /\ PumpAtRequest
    BY <1>1, <1>2 DEF Init, QueuedOnce, ExecutedOnce, PumpAtRequest, Busy, Unsettled,
       Finishing
  <1>5. HandlersInStep /\ OnlyFinished /\ DirectoryKept
    BY ConstantsAssumption
    DEF Init, HandlersInStep, OwnSession, AtInput, AtSubmit, AtEnd, Handling,
        OnlyFinished, DirectoryKept
  <1> QED BY <1>3, <1>4, <1>5 DEF OnceInv

LEMMA OnceCorrect == HooksApart => (Spec => [](TypeInv /\ OnceInv))
  <1> SUFFICES ASSUME HooksApart PROVE Spec => [](TypeInv /\ OnceInv) OBVIOUS
  <1>1. TypeInv /\ OnceInv /\ [Next]_vars => OnceInv' BY OnceStep
  <1> QED BY <1>1, OnceInit, TypeInit, TypeStep, PTL DEF Spec

\* With a hook for every push and ids that do not repeat, a push is submitted
\* and executed once at most, however often its hook polls: the state a poll
\* reads is still the session's when the handler submits it.
THEOREM PushesExecutedOnce == Spec => []PushedOnce
  <1>1. CASE ~HooksApart
    <2>1. PushedOnce BY <1>1 DEF PushedOnce
    <2> QED BY <2>1, PTL
  <1>2. CASE HooksApart
    <2>1. TypeInv /\ OnceInv => PushedOnce
      <3> SUFFICES ASSUME TypeInv, OnceInv, NEW s \in Session
                   PROVE  Count(s, requestQueue) + Count(s, executed) <= 1
        BY DEF PushedOnce
      <3>1. requestQueue \in Seq(Session) /\ executed \in Seq(Session)
        BY DEF TypeInv, TypeOK
      <3>2. /\ Once(requestQueue) /\ Once(executed)
            /\ ~(Has(requestQueue, s) /\ Has(executed, s))
        BY DEF OnceInv, QueuedOnce, ExecutedOnce
      <3>3. /\ Has(requestQueue, s) => Count(s, requestQueue) = 1
            /\ ~Has(requestQueue, s) => Count(s, requestQueue) = 0
        BY <3>1, <3>2, CountOnce
      <3>4. /\ Has(executed, s) => Count(s, executed) = 1
            /\ ~Has(executed, s) => Count(s, executed) = 0
        BY <3>1, <3>2, CountOnce
      <3> QED BY <3>2, <3>3, <3>4
    <2> QED BY <1>2, <2>1, OnceCorrect, PTL
  <1> QED BY <1>1, <1>2

\* The directory a push is read from is there from its submission to its
\* commit: the cleanup thread removes the directories of finished pushes alone.
THEOREM SourcesKept == Spec => []SourceKept
  <1>1. CASE ~HooksApart
    <2>1. SourceKept BY <1>1 DEF SourceKept
    <2> QED BY <2>1, PTL
  <1>2. CASE HooksApart
    <2>1. TypeInv /\ OnceInv => SourceKept
      BY DEF SourceKept, Queued, Has, OnceInv, QueuedOnce, PumpAtRequest, Unsettled,
         DirectoryKept
    <2> QED BY <1>2, <2>1, OnceCorrect, PTL
  <1> QED BY <1>1, <1>2

-----------------------------------------------------------------------------
(* The answers                                                              *)

\* Whoever is not the pump thread writes no end, and what it stored is kept.
LEMMA AnswersKept ==
    ASSUME AnswerInv,
           UNCHANGED <<hadErrors, explanation, executed, current, verdict, sawErrors, told>>,
           pc' = pc \/ (pc \notin Busy /\ pc' \notin Busy)
    PROVE  AnswerInv'
  <1>1. VerdictKnown' BY DEF AnswerInv, VerdictKnown, Busy, Unsettled, Finishing
  <1>2. ErrorsStored' BY DEF AnswerInv, ErrorsStored, Busy, Finishing
  <1>3. (TextStored /\ ErrorsSeen /\ ToldOwn)'
    BY DEF AnswerInv, TextStored, ErrorsSeen, ToldOwn
  <1> QED BY <1>1, <1>2, <1>3 DEF AnswerInv

LEMMA AnswerHandler ==
    ASSUME TypeInv, OnceInv, AnswerInv, NEW p \in Poller, Hook(p) \/ Handler(p)
    PROVE  AnswerInv'
  <1> USE DEF Goto, sessionVars, pumpVars, cleanVars
  <1>0. /\ told \in [Poller -> Answers]
        /\ sawErrors \in [Poller -> BOOLEAN]
        /\ UNCHANGED <<hadErrors, explanation, executed, current, verdict>>
        /\ pc' = pc \/ (pc \notin Busy /\ pc' \notin Busy)
    BY DEF TypeInv, TypeOK, Hook, Handler, StartHook, Lookup, GiveUp, ReadState,
       InputReceived, SubmitPush, ReadErrors, ReadExplanation, Busy, Unsettled, Finishing
  <1>1. /\ VerdictKnown' /\ TextStored' /\ ErrorsStored'
        /\ VerdictKnown /\ TextStored /\ ErrorsStored
    BY <1>0 DEF AnswerInv, VerdictKnown, TextStored, ErrorsStored, Busy, Unsettled, Finishing
  <1>2. ErrorsSeen /\ ToldOwn BY DEF AnswerInv
  <1>3. CASE StartHook(p) \/ ReadState(p) \/ InputReceived(p) \/ SubmitPush(p)
    <2>1. UNCHANGED <<sawErrors, told>>
      BY <1>3 DEF StartHook, ReadState, InputReceived, SubmitPush
    <2> QED BY <1>0, <2>1, AnswersKept
  <1>4. CASE Lookup(p) \/ GiveUp(p)
    <2>1. /\ UNCHANGED sawErrors
          /\ \/ told' = told
             \/ told' = [told EXCEPT ![p] = Answer("NOT_FOUND")]
             \/ told' = [told EXCEPT ![p] = Answer("LOST")]
      BY <1>4 DEF Lookup, GiveUp
    <2>2. ErrorsSeen' BY <1>0, <1>2, <2>1 DEF ErrorsSeen
    <2>3. \A q \in Poller : told'[q] = told[q] \/ told'[q].kind \in {"NOT_FOUND", "LOST"}
      BY <1>0, <2>1 DEF Answer
    <2>4. ToldOwn' BY <1>0, <1>2, <2>3 DEF ToldOwn
    <2> QED BY <1>1, <2>2, <2>4 DEF AnswerInv
  <1>5. CASE ReadErrors(p)
    <2>1. seen[p] = Target[p]
      BY <1>5 DEF ReadErrors, OnceInv, HandlersInStep, OwnSession, Handling
    <2>2. /\ sawErrors' = [sawErrors EXCEPT ![p] = hadErrors[Target[p]]]
          /\ told' = told
      BY <1>5, <2>1 DEF ReadErrors
    <2>3. ErrorsSeen' BY <1>0, <1>2, <2>2 DEF ErrorsSeen
    <2>4. ToldOwn' BY <1>0, <1>2, <2>2 DEF ToldOwn
    <2> QED BY <1>1, <2>3, <2>4 DEF AnswerInv
  <1>6. CASE ReadExplanation(p)
    <2>1. /\ seen[p] = Target[p]
          /\ Has(executed, Target[p])
      BY <1>6, ConstantsAssumption
      DEF ReadExplanation, OnceInv, HandlersInStep, OwnSession, Handling, AtEnd, ExecutedOnce
    <2>2. /\ sawErrors' = [sawErrors EXCEPT ![p] = FALSE]
          /\ told' = [told EXCEPT ![p] = [kind |-> IF sawErrors[p] THEN "ERROR" ELSE "OK",
                                          text |-> explanation[Target[p]]]]
      BY <1>6, <2>1 DEF ReadExplanation
    <2>3. ErrorsSeen' BY <1>0, <1>2, <2>2 DEF ErrorsSeen
    <2>4. ToldOwn'
      <3>1. /\ told'[p].text = explanation[Target[p]]
            /\ told'[p].kind = "ERROR" => sawErrors[p]
        BY <1>0, <2>2
      <3>2. \A q \in Poller \ {p} : told'[q] = told[q] BY <1>0, <2>2
      <3>3. told'[p].kind = "ERROR" => hadErrors[Target[p]] BY <1>2, <3>1 DEF ErrorsSeen
      <3> QED BY <1>0, <1>2, <2>1, <3>1, <3>2, <3>3 DEF ToldOwn
    <2> QED BY <1>1, <2>3, <2>4 DEF AnswerInv
  <1> QED BY <1>3, <1>4, <1>5, <1>6 DEF Hook, Handler

LEMMA AnswerPump ==
    ASSUME TypeInv, OnceInv, AnswerInv, Pump
    PROVE  AnswerInv'
  <1> USE DEF OthersRest, pumpVars, pollVars, cleanVars
  <1>0. /\ UNCHANGED <<sawErrors, told>>
        /\ hadErrors \in [Session -> BOOLEAN]
        /\ explanation \in [Session -> Texts]
        /\ executed \in Seq(Session)
        /\ None \notin Session
        /\ Target \in [Poller -> Session]
    BY ConstantsAssumption
    DEF TypeInv, TypeOK, Pump, CheckKeepRunning, PullSucceeds, PullFails, Awake, PopRequest, PopNothing,
        StartWaiting, WaitTimesOut, PushChanges, Commit, Rollback, FinishState,
        FinishErrors, FinishExplanation
  <1>1. VerdictKnown /\ TextStored /\ ErrorsStored /\ ErrorsSeen /\ ToldOwn
    BY DEF AnswerInv
  <1>2. CASE CheckKeepRunning \/ PullSucceeds \/ PullFails \/ Awake \/ PopNothing
             \/ StartWaiting \/ WaitTimesOut
    <2>1. /\ UNCHANGED <<hadErrors, explanation, executed, current, verdict>>
          /\ pc \notin Busy /\ pc' \notin Busy
      BY <1>2 DEF CheckKeepRunning, PullSucceeds, PullFails, Awake, PopNothing,
         StartWaiting, WaitTimesOut, Busy, Unsettled, Finishing
    <2> QED BY <1>0, <2>1, AnswersKept
  <1>3. CASE PushChanges \/ Commit \/ Rollback \/ FinishState
    <2>1. /\ UNCHANGED <<hadErrors, explanation, executed, current>>
          /\ pc # "finish text" /\ pc' # "finish text"
          /\ \/ verdict' = verdict /\ pc \in {"push", "commit"}
                /\ pc' \in {"commit", "rollback"}
             \/ verdict' = verdict /\ pc = "finish" /\ pc' = "finish errors"
             \/ verdict' \in {"nothing", "succeeded", "failed"} /\ pc' = "finish"
      BY <1>3 DEF PushChanges, Commit, Rollback, FinishState
    <2>2. VerdictKnown' BY <1>1, <2>1 DEF VerdictKnown, Finishing
    <2>3. (TextStored /\ ErrorsStored)' BY <1>1, <2>1 DEF TextStored, ErrorsStored
    <2>4. (ErrorsSeen /\ ToldOwn)' BY <1>0, <1>1, <2>1 DEF ErrorsSeen, ToldOwn
    <2> QED BY <2>2, <2>3, <2>4 DEF AnswerInv
  <1>4. CASE PopRequest
    <2> DEFINE s == Head(requestQueue)
    <2>1. /\ pc = "pop" /\ pc' = "push"
          /\ requestQueue # <<>>
          /\ executed' = Append(executed, s)
          /\ current' = s
          /\ UNCHANGED <<hadErrors, explanation, verdict>>
      BY <1>4 DEF PopRequest
    <2>2. s \in Session /\ ~Has(executed, s)
      <3>1. requestQueue \in Seq(Session) BY DEF TypeInv, TypeOK
      <3>2. s \in Session /\ Has(requestQueue, s)
        BY <2>1, <3>1, HasTail, HeadAndTail
      <3> QED BY <3>2 DEF OnceInv, QueuedOnce
    <2>3. \A x : Has(executed', x) <=> Has(executed, x) \/ x = s
      BY <1>0, <2>1, <2>2, HasAppend
    <2>4. VerdictKnown' BY <1>1, <2>1 DEF VerdictKnown, Finishing
    <2>5. TextStored' BY <1>1, <2>1, <2>2, <2>3 DEF TextStored
    <2>6. ErrorsStored' BY <1>1, <2>1 DEF ErrorsStored
    <2>7. (ErrorsSeen /\ ToldOwn)' BY <1>0, <1>1, <2>1, <2>3 DEF ErrorsSeen, ToldOwn
    <2> QED BY <2>4, <2>5, <2>6, <2>7 DEF AnswerInv
  <1>5. ASSUME pc \in Finishing
        PROVE  /\ current \in Session /\ Has(executed, current)
               /\ explanation[current] = "null"
               /\ verdict # "none"
    BY <1>1, <1>5 DEF TypeInv, PumpHasRequest, OnceInv, PumpAtRequest, Busy, Finishing,
       TextStored, VerdictKnown
  <1>6. CASE FinishErrors
    <2>1. /\ pc = "finish errors" /\ pc' = "finish text"
          /\ hadErrors' = [hadErrors EXCEPT ![current] = (verdict = "failed")]
          /\ UNCHANGED <<explanation, executed, current, verdict>>
      BY <1>6 DEF FinishErrors
    <2>2. current \in Session /\ ~hadErrors[current]
      BY <1>1, <1>5, <2>1 DEF ErrorsStored, Finishing
    <2>3. /\ hadErrors'[current] = (verdict = "failed")
          /\ \A x \in Session \ {current} : hadErrors'[x] = hadErrors[x]
      BY <1>0, <2>1, <2>2
    <2>4. VerdictKnown' BY <1>1, <2>1 DEF VerdictKnown, Finishing
    <2>5. TextStored' BY <1>1, <2>1 DEF TextStored
    <2>6. ErrorsStored' BY <1>1, <2>1, <2>3 DEF ErrorsStored
    <2>7. ErrorsSeen' BY <1>0, <1>1, <2>2, <2>3 DEF ErrorsSeen
    <2>8. ToldOwn' BY <1>0, <1>1, <2>1, <2>2, <2>3 DEF ToldOwn
    <2> QED BY <2>4, <2>5, <2>6, <2>7, <2>8 DEF AnswerInv
  <1>7. CASE FinishExplanation
    <2>1. /\ pc = "finish text" /\ pc' = "check"
          /\ explanation' = [explanation EXCEPT ![current] = TextOf(verdict)]
          /\ current' = None /\ verdict' = "none"
          /\ UNCHANGED <<hadErrors, executed>>
      BY <1>7 DEF FinishExplanation
    <2>2. current \in Session /\ Has(executed, current) /\ explanation[current] = "null"
      BY <1>5, <2>1 DEF Finishing
    <2>3. /\ explanation'[current] = TextOf(verdict)
          /\ \A x \in Session \ {current} : explanation'[x] = explanation[x]
      BY <1>0, <2>1, <2>2
    <2>4. VerdictKnown' BY <2>1 DEF VerdictKnown, Finishing
    <2>5. TextStored' BY <1>0, <1>1, <2>1, <2>2, <2>3 DEF TextStored
    <2>6. ErrorsStored'
      <3>1. hadErrors[current] => explanation'[current] = "THE PUSH FAILED"
        <4>1. hadErrors[current] => verdict = "failed"
          BY <1>1, <2>2 DEF ErrorsStored
        <4>2. TextOf("failed") = "THE PUSH FAILED" BY DEF TextOf
        <4> QED BY <2>3, <4>1, <4>2
      <3>2. \A x \in Session \ {current} : hadErrors[x] => explanation[x] = "THE PUSH FAILED"
        BY <1>1 DEF ErrorsStored
      <3> QED BY <2>1, <2>3, <3>1, <3>2 DEF ErrorsStored
    <2>7. ErrorsSeen' BY <1>0, <1>1, <2>1 DEF ErrorsSeen
    <2>8. ToldOwn' BY <1>0, <1>1, <2>1, <2>2, <2>3 DEF ToldOwn
    <2> QED BY <2>4, <2>5, <2>6, <2>7, <2>8 DEF AnswerInv
  <1> QED BY <1>2, <1>3, <1>4, <1>6, <1>7 DEF Pump

LEMMA AnswerStep == TypeInv /\ OnceInv /\ AnswerInv /\ [Next]_vars => AnswerInv'
  <1> SUFFICES ASSUME TypeInv, OnceInv, AnswerInv, [Next]_vars PROVE AnswerInv'
    OBVIOUS
  <1>1. CASE Create \/ Stop \/ Cleaner \/ UNCHANGED vars
    <2>1. UNCHANGED <<hadErrors, explanation, executed, current, verdict, sawErrors,
                      told, pc>>
      BY <1>1 DEF Create, NewSession, NewSessionThrows, RacingPut, Stop, Cleaner,
         CleanerRests, FindFinished, SleepEnds, RemoveSession, Dispose, DisposeThrows,
         vars, sessionVars, pumpVars, pollVars
    <2> QED BY <2>1, AnswersKept
  <1> QED BY <1>1, AnswerHandler, AnswerPump DEF Next

LEMMA AnswerInit == Init => AnswerInv
  BY ConstantsAssumption
  DEF Init, AnswerInv, VerdictKnown, TextStored, ErrorsStored, ErrorsSeen, ToldOwn,
      Answer, Finishing

LEMMA AnswerCorrect == HooksApart => (Spec => [](TypeInv /\ OnceInv /\ AnswerInv))
  <1> SUFFICES ASSUME HooksApart PROVE Spec => [](TypeInv /\ OnceInv /\ AnswerInv)
    OBVIOUS
  <1>1. TypeInv /\ OnceInv /\ [Next]_vars => OnceInv' BY OnceStep
  <1> QED BY <1>1, OnceInit, TypeInit, AnswerInit, TypeStep, AnswerStep, PTL DEF Spec

\* What ends a hook's polling is about its own push, which was executed by
\* then: its text if there is one, and an ERROR only if that push failed, though
\* the fields are read one by one while the pump thread writes them.
THEOREM AnswersOwned == Spec => []AnswersAreOwn
  <1>1. CASE ~HooksApart
    <2>1. AnswersAreOwn BY <1>1 DEF AnswersAreOwn
    <2> QED BY <2>1, PTL
  <1>2. CASE HooksApart
    <2>1. TypeInv /\ OnceInv /\ AnswerInv => AnswersAreOwn
      <3> SUFFICES ASSUME TypeInv, OnceInv, AnswerInv,
                          NEW p \in Poller, told[p].kind \in {"OK", "ERROR"}
                   PROVE  /\ Count(Target[p], executed) = 1
                          /\ told[p].text \in {"null", explanation[Target[p]]}
                          /\ told[p].kind = "ERROR" =>
                                explanation[Target[p]] \in {"null", "THE PUSH FAILED"}
        BY DEF AnswersAreOwn
      <3>1. /\ Has(executed, Target[p])
            /\ told[p].text \in {"null", explanation[Target[p]]}
            /\ told[p].kind = "ERROR" => hadErrors[Target[p]]
        BY DEF AnswerInv, ToldOwn
      <3>2. Count(Target[p], executed) = 1
        BY <3>1, CountOnce DEF OnceInv, ExecutedOnce, TypeInv, TypeOK
      <3>3. hadErrors[Target[p]] => explanation[Target[p]] \in {"null", "THE PUSH FAILED"}
        BY ConstantsAssumption DEF AnswerInv, ErrorsStored, TextStored
      <3> QED BY <3>1, <3>2, <3>3
    <2> QED BY <1>2, <2>1, AnswerCorrect, PTL
  <1> QED BY <1>1, <1>2

-----------------------------------------------------------------------------
(* A conduit is a push service                                              *)

Inv == TypeInv /\ OnceInv /\ AnswerInv

\* Putting one more in front of a queue.
LEMMA HasCons ==
    ASSUME NEW S, NEW q \in Seq(S), NEW e \in S
    PROVE  /\ <<e>> \o q \in Seq(S)
           /\ <<e>> \o q # <<>>
           /\ Head(<<e>> \o q) = e
           /\ Tail(<<e>> \o q) = q
           /\ \A s : Has(<<e>> \o q, s) <=> s = e \/ Has(q, s)
           /\ \A x \in S : Append(<<e>> \o q, x) = <<e>> \o Append(q, x)
  <1>1. /\ <<e>> \o q \in Seq(S)
        /\ <<e>> \o q # <<>>
        /\ Head(<<e>> \o q) = e
        /\ Tail(<<e>> \o q) = q
    OBVIOUS
  <1>2. \A s : Has(<<e>> \o q, s) <=> s = e \/ Has(q, s)
    <2> DEFINE r == <<e>> \o q
    <2>1. r \in Seq(S) /\ r # <<>> /\ Head(r) = e /\ Tail(r) = q BY <1>1
    <2> HIDE DEF r
    <2>2. \A s : Has(r, s) <=> s = Head(r) \/ Has(Tail(r), s) BY <2>1, HasTail
    <2>3. \A s : Has(r, s) <=> s = e \/ Has(q, s) BY <2>1, <2>2
    <2> QED BY <2>3 DEF r
  <1>3. ASSUME NEW x \in S PROVE Append(<<e>> \o q, x) = <<e>> \o Append(q, x)
    OBVIOUS
  <1> QED BY <1>1, <1>2, <1>3

\* What a cons is of a queue's head and its tail.
LEMMA ConsHeadTail ==
    ASSUME NEW S, NEW q \in Seq(S), q # <<>>
    PROVE  <<Head(q)>> \o Tail(q) = q
  OBVIOUS

\* The backlog in terms of the pump thread and the queue.
LEMMA PendingIs ==
    TypeInv => \A s \in Session :
        Pending(s) <=> (pc \in Unsettled /\ s = current) \/ Has(requestQueue, s)
  <1> SUFFICES ASSUME TypeInv, NEW s \in Session
               PROVE  Pending(s) <=> (pc \in Unsettled /\ s = current) \/ Has(requestQueue, s)
    OBVIOUS
  <1>1. Pending(s) <=> Has(Backlog, s) BY DEF Pending, Has
  <1>2. requestQueue \in Seq(Session) BY DEF TypeInv, TypeOK
  <1>3. CASE pc \in Unsettled
    <2>1. current \in Session BY <1>3 DEF TypeInv, PumpHasRequest, Unsettled
    <2> QED BY <1>1, <1>2, <1>3, <2>1, HasCons DEF Backlog
  <1>4. CASE pc \notin Unsettled BY <1>1, <1>4 DEF Backlog
  <1> QED BY <1>3, <1>4

\* The outcome of a push in terms of who has it.
LEMMA OutcomeIs ==
    TypeInv /\ OnceInv => \A s \in Session :
        Outcome[s] = IF Pending(s) THEN "pending"
                     ELSE IF ~Has(executed, s) THEN "none"
                     ELSE IF current = s THEN verdict
                     ELSE VerdictOf(explanation[s])
  <1> SUFFICES ASSUME TypeInv, OnceInv, NEW s \in Session
               PROVE  Outcome[s] = IF Pending(s) THEN "pending"
                                   ELSE IF ~Has(executed, s) THEN "none"
                                   ELSE IF current = s THEN verdict
                                   ELSE VerdictOf(explanation[s])
    OBVIOUS
  <1>1. Has(executed, s) <=> Count(s, executed) # 0
    <2>1. executed \in Seq(Session) /\ Once(executed)
      BY DEF OnceInv, ExecutedOnce, TypeInv, TypeOK
    <2>2. /\ Has(executed, s) => Count(s, executed) = 1
          /\ ~Has(executed, s) => Count(s, executed) = 0
      BY <2>1, CountOnce
    <2> QED BY <2>2
  <1> QED BY <1>1 DEF Outcome

\* The same of the next state.
LEMMA NextPendingIs ==
    (TypeInv => \A s \in Session :
        Pending(s) <=> (pc \in Unsettled /\ s = current) \/ Has(requestQueue, s))'
  BY PendingIs, PTL

LEMMA NextOutcomeIs ==
    (TypeInv /\ OnceInv => \A s \in Session :
        Outcome[s] = IF Pending(s) THEN "pending"
                     ELSE IF ~Has(executed, s) THEN "none"
                     ELSE IF current = s THEN verdict
                     ELSE VerdictOf(explanation[s]))'
  BY OutcomeIs, PTL

\* No step of the service is taken when the backlog stays and no outcome moves.
LEMMA Stutters ==
    ASSUME Backlog' = Backlog, \A s \in Session : Outcome'[s] = Outcome[s]
    PROVE  UNCHANGED <<Backlog, Outcome>>
  BY DEF Outcome


LEMMA ServiceInit == Init => Pushes!Init
  <1> SUFFICES ASSUME Init PROVE Pushes!Init OBVIOUS
  <1>1. Backlog = <<>> BY DEF Init, Backlog, Unsettled
  <1>2. TypeInv /\ OnceInv BY TypeInit, OnceInit
  <1>3. ASSUME NEW s \in Session PROVE Outcome[s] = "none"
    <2>1. ~Pending(s) BY <1>1 DEF Pending
    <2>2. ~Has(executed, s) BY DEF Init, Has
    <2> QED BY <1>2, <2>1, <2>2, OutcomeIs
  <1>4. Outcome = [s \in Session |-> "none"] BY <1>3 DEF Outcome
  <1> QED BY <1>1, <1>4 DEF Pushes!Init

LEMMA ServiceSubmit ==
    ASSUME HooksApart, Inv, Inv', NEW p \in Poller, SubmitPush(p)
    PROVE  Pushes!Accept(Target[p])
  <1> DEFINE s == Target[p]
  <1>1. s \in Session /\ seen[p] = s /\ ~Has(requestQueue, s) /\ ~Has(executed, s)
    BY ConstantsAssumption
    DEF SubmitPush, Inv, OnceInv, HandlersInStep, OwnSession, AtSubmit, Handling
  <1>2. /\ requestQueue' = Append(requestQueue, s)
        /\ UNCHANGED <<current, verdict, executed, explanation>>
        /\ pc' \in Unsettled <=> pc \in Unsettled
    BY <1>1 DEF SubmitPush, sessionVars, pumpVars, Unsettled
  <1>3. requestQueue \in Seq(Session)
    BY DEF Inv, TypeInv, TypeOK
  <1>4. pc \in Unsettled => current \in Session /\ Has(executed, current)
    BY DEF Inv, OnceInv, PumpAtRequest, TypeInv, PumpHasRequest, Unsettled, Busy
  <1>5. Backlog' = Append(Backlog, s)
    BY <1>1, <1>2, <1>3, <1>4, HasCons DEF Backlog
  <1>6. \A x : Has(requestQueue', x) <=> Has(requestQueue, x) \/ x = s
    BY <1>1, <1>2, <1>3, HasAppend
  <1>7. \A x \in Session : Pending(x)' <=> Pending(x) \/ x = s
    BY <1>2, <1>6, PendingIs, NextPendingIs DEF Inv
  <1>8. ~Pending(s) BY <1>1, <1>4, PendingIs DEF Inv
  <1>9. Outcome[s] = "none" BY <1>1, <1>8, OutcomeIs DEF Inv
  <1>10. \A x \in Session : Outcome'[x] = IF x = s THEN "pending" ELSE Outcome[x]
    BY <1>2, <1>7, OutcomeIs, NextOutcomeIs DEF Inv
  <1>11. Outcome' = [Outcome EXCEPT ![s] = "pending"] BY <1>10 DEF Outcome
  <1> QED BY <1>5, <1>9, <1>11 DEF Pushes!Accept

LEMMA ServiceFinish ==
    ASSUME Inv, Inv', FinishState
    PROVE  \E o \in Pushes!Outcomes : Pushes!Settle(o)
  <1> DEFINE s == current
  <1>1. /\ pc = "finish" /\ pc' = "finish errors"
        /\ UNCHANGED <<requestQueue, current, verdict, executed, explanation>>
    BY DEF FinishState, OthersRest, pumpVars
  <1>2. /\ requestQueue \in Seq(Session)
        /\ verdict \in {"succeeded", "nothing", "failed"}
        /\ s \in Session
        /\ Has(executed, s)
        /\ ~Has(requestQueue, s)
    BY <1>1 DEF Inv, TypeInv, TypeOK, Verdicts, AnswerInv, VerdictKnown, OnceInv,
       PumpHasRequest, PumpAtRequest, QueuedOnce, Busy, Unsettled
  <1>3. Backlog = <<s>> \o requestQueue /\ Backlog' = requestQueue
    BY <1>1 DEF Backlog, Unsettled
  <1>4. Backlog # <<>> /\ Head(Backlog) = s /\ Tail(Backlog) = requestQueue
    BY <1>2, <1>3, HasCons
  <1>5. \A x \in Session : /\ Pending(x) <=> x = s \/ Has(requestQueue, x)
                           /\ Pending(x)' <=> Has(requestQueue, x)
    BY <1>1, PendingIs, NextPendingIs DEF Inv, Unsettled
  <1>6. \A x \in Session : Outcome'[x] = IF x = s THEN verdict ELSE Outcome[x]
    BY <1>1, <1>2, <1>5, OutcomeIs, NextOutcomeIs DEF Inv
  <1>7. Outcome' = [Outcome EXCEPT ![s] = verdict] BY <1>6 DEF Outcome
  <1>8. Pushes!Settle(verdict) BY <1>3, <1>4, <1>7 DEF Pushes!Settle
  <1> QED BY <1>2, <1>8 DEF Pushes!Outcomes

LEMMA ServicePump ==
    ASSUME HooksApart, Inv, Inv', Pump, ~FinishState
    PROVE  UNCHANGED <<Backlog, Outcome>>
  <1> USE DEF OthersRest, pumpVars
  <1>1. CASE CheckKeepRunning \/ PullSucceeds \/ PullFails \/ Awake \/ PopNothing
             \/ StartWaiting \/ WaitTimesOut \/ FinishErrors
    <2>1. /\ UNCHANGED <<requestQueue, current, verdict, executed, explanation>>
          /\ pc \notin Unsettled /\ pc' \notin Unsettled
      BY <1>1 DEF CheckKeepRunning, PullSucceeds, PullFails, Awake, PopNothing,
         StartWaiting, WaitTimesOut, FinishErrors, Unsettled
    <2> QED BY <2>1 DEF Backlog, Outcome, Pending, Count
  <1>2. CASE PushChanges \/ Commit \/ Rollback
    <2>1. /\ UNCHANGED <<requestQueue, current, executed, explanation>>
          /\ pc \in Unsettled /\ pc' \in Unsettled
      BY <1>2 DEF PushChanges, Commit, Rollback, Unsettled
    <2>2. Backlog' = Backlog BY <2>1 DEF Backlog
    <2>3. \A x \in Session : Pending(x)' <=> Pending(x) BY <2>2 DEF Pending
    <2>4. Pending(current)
      BY <2>1, PendingIs DEF Inv, TypeInv, PumpHasRequest, Unsettled
    <2>5. \A x \in Session : Outcome'[x] = Outcome[x]
      BY <2>1, <2>3, <2>4, OutcomeIs, NextOutcomeIs DEF Inv
    <2> QED BY <2>2, <2>5, Stutters
  <1>3. CASE PopRequest
    <2> DEFINE s == Head(requestQueue)
    <2>1. /\ pc = "pop" /\ pc' = "push"
          /\ requestQueue # <<>>
          /\ requestQueue' = Tail(requestQueue)
          /\ executed' = Append(executed, s)
          /\ current' = s
          /\ UNCHANGED <<verdict, explanation>>
      BY <1>3 DEF PopRequest
    <2>2. /\ requestQueue \in Seq(Session)
          /\ executed \in Seq(Session)
          /\ current = None
      BY <2>1 DEF Inv, TypeInv, TypeOK, OnceInv, PumpAtRequest, Busy, Unsettled, Finishing
    <2>3. Backlog' = Backlog
      BY <2>1, <2>2, ConsHeadTail DEF Backlog, Unsettled
    <2>4. \A x \in Session : Pending(x)' <=> Pending(x) BY <2>3 DEF Pending
    <2>5. s \in Session /\ Has(requestQueue, s)
      BY <2>1, <2>2, HeadAndTail, HasTail
    <2>6. Pending(s) BY <2>5, PendingIs DEF Inv
    <2>7. \A x : Has(executed', x) <=> Has(executed, x) \/ x = s
      BY <2>1, <2>2, <2>5, HasAppend
    <2>8. \A x \in Session : Outcome'[x] = Outcome[x]
      BY <2>1, <2>2, <2>4, <2>6, <2>7, OutcomeIs, NextOutcomeIs, ConstantsAssumption
      DEF Inv
    <2> QED BY <2>3, <2>8, Stutters
  <1>4. CASE FinishExplanation
    <2> DEFINE s == current
    <2>1. /\ pc = "finish text" /\ pc' = "check"
          /\ explanation' = [explanation EXCEPT ![s] = TextOf(verdict)]
          /\ current' = None
          /\ UNCHANGED <<requestQueue, executed>>
      BY <1>4 DEF FinishExplanation
    <2>2. /\ s \in Session
          /\ explanation \in [Session -> Texts]
          /\ verdict \in {"succeeded", "nothing", "failed"}
          /\ Has(executed, s)
          /\ ~Has(requestQueue, s)
      BY <2>1 DEF Inv, TypeInv, TypeOK, Verdicts, AnswerInv, VerdictKnown, OnceInv,
         PumpHasRequest, PumpAtRequest, QueuedOnce, Busy, Finishing
    <2>3. VerdictOf(explanation'[s]) = verdict
      <3>1. explanation'[s] = TextOf(verdict) BY <2>1, <2>2
      <3>2. /\ VerdictOf(TextOf("succeeded")) = "succeeded"
            /\ VerdictOf(TextOf("nothing")) = "nothing"
            /\ VerdictOf(TextOf("failed")) = "failed"
        BY DEF VerdictOf, TextOf
      <3> QED BY <2>2, <3>1, <3>2
    <2>4. Backlog' = Backlog BY <2>1 DEF Backlog, Unsettled
    <2>5. \A x \in Session : Pending(x)' <=> Pending(x) BY <2>4 DEF Pending
    <2>6. ~Pending(s) BY <2>1, <2>2, PendingIs DEF Inv, Unsettled
    <2>7. \A x \in Session \ {s} : explanation'[x] = explanation[x] BY <2>1, <2>2
    <2>8. \A x \in Session : Outcome'[x] = Outcome[x]
      BY <2>1, <2>2, <2>3, <2>5, <2>6, <2>7, OutcomeIs, NextOutcomeIs, ConstantsAssumption
      DEF Inv
    <2> QED BY <2>4, <2>8, Stutters
  <1> QED BY <1>1, <1>2, <1>3, <1>4 DEF Pump

LEMMA ServiceStep ==
    HooksApart /\ Inv /\ Inv' /\ [Next]_vars => [Pushes!Next]_<<Backlog, Outcome>>
  <1> SUFFICES ASSUME HooksApart, Inv, Inv', [Next]_vars
               PROVE  [Pushes!Next]_<<Backlog, Outcome>>
    OBVIOUS
  <1>1. ASSUME NEW p \in Poller, SubmitPush(p) PROVE Pushes!Next
    BY <1>1, ServiceSubmit, ConstantsAssumption DEF Pushes!Next
  <1>2. CASE FinishState BY <1>2, ServiceFinish DEF Pushes!Next
  <1>3. CASE Pump /\ ~FinishState BY <1>3, ServicePump
  <1>4. ASSUME \/ Create \/ Stop \/ Cleaner \/ UNCHANGED vars
               \/ \E p \in Poller : Hook(p) \/ (Handler(p) /\ ~SubmitPush(p))
        PROVE  UNCHANGED <<Backlog, Outcome>>
    <2>1. UNCHANGED <<requestQueue, pc, current, verdict, executed, explanation>>
      BY <1>4 DEF Create, NewSession, NewSessionThrows, RacingPut, Stop, Cleaner,
         CleanerRests, FindFinished, SleepEnds, RemoveSession, Dispose, DisposeThrows,
         Hook, Handler, StartHook, Lookup, GiveUp, ReadState, InputReceived, ReadErrors,
         ReadExplanation, vars, sessionVars, pumpVars
    <2> QED BY <2>1 DEF Backlog, Outcome, Pending, Count
  <1> QED BY <1>1, <1>2, <1>3, <1>4 DEF Next, Pump

\* Seen through its backlog and outcomes, a conduit with a hook for every push
\* and ids that do not repeat does what PushService promises: each step of its
\* threads is the acceptance of a push, the settlement of the oldest, or none
\* of its clients' business.
THEOREM ConduitIsPushService == HooksApart => (Spec => ImplementsPushService)
  <1> SUFFICES ASSUME HooksApart PROVE Spec => ImplementsPushService OBVIOUS
  <1>1. Spec => []Inv BY AnswerCorrect DEF Inv
  <1>2. Inv /\ Inv' /\ [Next]_vars => [Pushes!Next]_<<Backlog, Outcome>>
    BY ServiceStep
  <1> QED BY <1>1, <1>2, ServiceInit, PTL DEF Spec, ImplementsPushService, Pushes!Spec
=============================================================================
