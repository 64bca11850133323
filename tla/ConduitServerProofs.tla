------------------------ MODULE ConduitServerProofs ------------------------
(***************************************************************************)
(* What holds of the server for any number of conduits, requests and       *)
(* ports, through failures of Perforce, crashes and restarts: the types,   *)
(* that conduits keep their ports and, as long as no one asks twice for    *)
(* the same name at the same time, that a conduit that is listed is whole  *)
(* and that nobody else works in its directory.                            *)
(***************************************************************************)
EXTENDS ConduitServer, TLAPS, WellFoundedInduction, FiniteSetTheorems

-----------------------------------------------------------------------------
(* Types and ports                                                          *)

LEMMA MinIn ==
    ASSUME NEW S \in SUBSET Nat, S # {}
    PROVE  Min(S) \in S /\ \A n \in S : Min(S) <= n
  <1>1. \E m \in S : \A n \in S : <<n, m>> \notin OpToRel(<, Nat)
    BY WFMin, NatLessThanWellFounded
  <1>2. PICK m \in S : \A n \in S : <<n, m>> \notin OpToRel(<, Nat) BY <1>1
  <1>3. ASSUME NEW n \in S PROVE m <= n
    <2>1. n \in Nat /\ m \in Nat OBVIOUS
    <2>2. ~(n < m) BY <1>2, <2>1, Zenon DEF OpToRel
    <2> QED BY <2>1, <2>2
  <1> QED BY <1>3 DEF Min

\* Who asks for a port gets its own, or the first free one; nobody else's is
\* touched.
LEMMA PortAssigned ==
    ASSUME TypeOK, NEW n \in Name, HasPort(n)
    PROVE  /\ \A p \in DOMAIN ports :
                    p \in DOMAIN AssignPort(n) /\ AssignPort(n)[p] = ports[p]
           /\ \/ PortsOf(n) # {} /\ AssignPort(n) = ports
              \/ \E p \in Port : /\ p \notin DOMAIN ports
                                 /\ PortsOf(n) = {}
                                 /\ DOMAIN AssignPort(n) = DOMAIN ports \cup {p}
                                 /\ AssignPort(n)[p] = n
  <1>1. CASE PortsOf(n) # {} BY <1>1 DEF AssignPort
  <1>2. CASE PortsOf(n) = {}
    <2> DEFINE p == Min(FreePorts)
    <2>1. p \in FreePorts
      <3>1. FreePorts # {} BY <1>2 DEF HasPort
      <3>2. FreePorts \in SUBSET Nat BY ConstantsAssumption DEF FreePorts
      <3> QED BY <3>1, <3>2, MinIn
    <2>2. AssignPort(n) = [q \in DOMAIN ports \cup {p} |-> IF q = p THEN n ELSE ports[q]]
      BY <1>2 DEF AssignPort
    <2> QED BY <1>2, <2>1, <2>2 DEF FreePorts
  <1> QED BY <1>1, <1>2

LEMMA AssignedType ==
    ASSUME TypeOK, NEW n \in Name, HasPort(n)
    PROVE  DOMAIN AssignPort(n) \subseteq Port /\ Range(AssignPort(n)) \subseteq Name
  <1>1. DOMAIN ports \subseteq Port /\ \A p \in DOMAIN ports : ports[p] \in Name
    BY DEF TypeOK, Range
  <1>2. DOMAIN AssignPort(n) \subseteq Port
    BY <1>1, PortAssigned
  <1>3. ASSUME NEW p \in DOMAIN AssignPort(n) PROVE AssignPort(n)[p] \in Name
    <2>1. CASE p \in DOMAIN ports BY <1>1, <2>1, PortAssigned
    <2>2. CASE p \notin DOMAIN ports
      <3>1. PICK q \in Port : /\ DOMAIN AssignPort(n) = DOMAIN ports \cup {q}
                              /\ AssignPort(n)[q] = n
        BY <2>2, PortAssigned
      <3>2. p = q BY <2>2, <3>1
      <3> QED BY <3>1, <3>2
    <2> QED BY <2>1, <2>2
  <1> QED BY <1>2, <1>3 DEF Range

LEMMA ServerTypeInit == Init => TypeOK
  <1> SUFFICES ASSUME Init PROVE TypeOK OBVIOUS
  <1>1. DOMAIN ports = {} /\ Range(ports) = {} BY DEF Init, Range
  <1> QED BY <1>1 DEF Init, TypeOK, Request

\* Every kind of request goes to a step that there is.
Steps == {"none", "check", "mkdirs", "client", "init", "record", "first sync", "port",
          "daemon", "start", "host", "remove", "stop", "join", "delete workspace",
          "delete directory", "done"}

LEMMA NameForName ==
    ASSUME NEW i \in Instance
    PROVE  NameFor(i) \in Name
  BY ConstantsAssumption DEF NameFor, Instance, Request

LEMMA TypeCreating ==
    ASSUME TypeOK, NEW c \in Creation, AddConduit(c) \/ Creating(c)
    PROVE  TypeOK'
  <1> USE DEF diskVars, serverVars, threadVars, callVars, Goto, Fail
  <1>0. c \in Request /\ NameOf[c] \in Name /\ c \in Instance
    BY ConstantsAssumption DEF Request, Instance
  <1>1. CASE AddConduit(c) \/ CheckName(c) \/ FirstSync(c)
    BY <1>0, <1>1 DEF TypeOK, AddConduit, CheckName, FirstSync
  <1>2. CASE MakeDirectory(c) BY <1>0, <1>2 DEF TypeOK, MakeDirectory
  <1>3. CASE MakeWorkspace(c) BY <1>0, <1>3 DEF TypeOK, MakeWorkspace
  <1>4. CASE InitGit(c) BY <1>0, <1>4 DEF TypeOK, InitGit
  <1>5. CASE WriteRecord(c) BY <1>0, <1>5 DEF TypeOK, WriteRecord
  <1>6. CASE FindPort(c)
    <2>1. DOMAIN ports' \subseteq Port /\ Range(ports') \subseteq Name
      <3>1. CASE HasPort(NameOf[c])
        <4>1. ports' = AssignPort(NameOf[c]) BY <1>6, <3>1 DEF FindPort
        <4> QED BY <1>0, <3>1, <4>1, AssignedType
      <3>2. CASE ~HasPort(NameOf[c]) BY <1>6, <3>2 DEF FindPort, TypeOK
      <3> QED BY <3>1, <3>2
    <2> QED BY <1>0, <1>6, <2>1 DEF TypeOK, FindPort
  <1>7. CASE StartDaemon(c) BY <1>0, <1>7 DEF TypeOK, StartDaemon
  <1>8. CASE StartPumping(c) BY <1>0, <1>8 DEF TypeOK, StartPumping
  <1>9. CASE Host(c) BY <1>0, <1>9 DEF TypeOK, Host
  <1>10. CASE DeleteWorkspace(c) BY <1>0, <1>10 DEF TypeOK, DeleteWorkspace
  <1>11. CASE DeleteDirectory(c) BY <1>0, <1>11 DEF TypeOK, DeleteDirectory
  <1> QED BY <1>1, <1>2, <1>3, <1>4, <1>5, <1>6, <1>7, <1>8, <1>9, <1>10, <1>11
          DEF Creating

LEMMA TypeDeleting ==
    ASSUME TypeOK, NEW d \in Deletion, FindConduit(d) \/ Deleting(d)
    PROVE  TypeOK'
  <1> USE DEF diskVars, serverVars, threadVars, callVars, Goto
  <1>0. d \in Request /\ NameOf[d] \in Name
    BY ConstantsAssumption DEF Request
  <1>1. CASE FindConduit(d) BY <1>0, <1>1 DEF TypeOK, FindConduit
  <1>2. CASE RemoveConduit(d) BY <1>0, <1>2 DEF TypeOK, RemoveConduit
  <1>3. CASE Stop(d) BY <1>0, <1>3 DEF TypeOK, Stop
  <1>4. CASE Join(d) BY <1>0, <1>4 DEF TypeOK, Join
  <1>5. CASE DeleteWorkspace(d) BY <1>0, <1>5 DEF TypeOK, DeleteWorkspace
  <1>6. CASE DeleteDirectory(d) BY <1>0, <1>6 DEF TypeOK, DeleteDirectory
  <1> QED BY <1>1, <1>2, <1>3, <1>4, <1>5, <1>6 DEF Deleting

LEMMA TypeRestart ==
    ASSUME TypeOK, \/ \E i \in Instance : PumpEnds(i)
                   \/ Crash \/ StartServer \/ Serve
                   \/ \E n \in Name : StartConduit(n) \/ StartFails(n)
    PROVE  TypeOK'
  <1> USE DEF diskVars, serverVars, threadVars, callVars
  <1>1. CASE \E i \in Instance : PumpEnds(i) BY <1>1 DEF TypeOK, PumpEnds
  <1>2. CASE StartServer \/ Serve BY <1>2 DEF TypeOK, StartServer, Serve
  <1>3. CASE Crash
    <2>1. DOMAIN ports' \subseteq Port /\ Range(ports') \subseteq Name
      <3>1. CASE UNCHANGED ports BY <3>1 DEF TypeOK
      <3>2. CASE ~UNCHANGED ports
        <4>1. PICK left \in SUBSET DOMAIN ports : ports' = Restrict(ports, left)
          BY <1>3, <3>2 DEF Crash
        <4>2. DOMAIN ports' = left /\ \A p \in left : ports'[p] = ports[p]
          BY <4>1 DEF Restrict
        <4>3. \A p \in DOMAIN ports : ports[p] \in Name BY DEF TypeOK, Range
        <4> QED BY <4>2, <4>3 DEF TypeOK, Range
      <3> QED BY <3>1, <3>2
    <2>2. pc' \in [Request -> Steps] BY <1>3 DEF TypeOK, Crash, Steps
    <2>3. victim' \in [Deletion -> Instance \cup {None}]
          /\ sshd' \in [Port -> Instance \cup {None}]
      BY <1>3 DEF Crash
    <2> QED BY <1>3, <2>1, <2>2, <2>3 DEF TypeOK, Crash, Steps
  <1>4. ASSUME NEW n \in Name, StartConduit(n) PROVE TypeOK'
    <2>1. n \in Instance BY DEF Instance
    <2>2. CASE dir[n] = "empty" BY <1>4, <2>2 DEF TypeOK, StartConduit
    <2>3. CASE dir[n] # "empty"
      <3>1. HasPort(n) /\ ports' = AssignPort(n) BY <1>4, <2>3 DEF StartConduit
      <3>2. DOMAIN ports' \subseteq Port /\ Range(ports') \subseteq Name
        BY <3>1, AssignedType
      <3>3. sshd' \in [Port -> Instance \cup {None}]
        BY <1>4, <2>1, <2>3 DEF TypeOK, StartConduit
      <3> QED BY <1>4, <2>1, <2>3, <3>2, <3>3 DEF TypeOK, StartConduit
    <2> QED BY <2>2, <2>3
  <1>5. ASSUME NEW n \in Name, StartFails(n) PROVE TypeOK'
    <2>1. DOMAIN ports' \subseteq Port /\ Range(ports') \subseteq Name
      <3>1. CASE HasPort(n)
        <4>1. ports' = AssignPort(n) BY <1>5, <3>1 DEF StartFails
        <4> QED BY <3>1, <4>1, AssignedType
      <3>2. CASE ~HasPort(n) BY <1>5, <3>2 DEF StartFails, TypeOK
      <3> QED BY <3>1, <3>2
    <2> QED BY <1>5, <2>1 DEF TypeOK, StartFails
  <1> QED BY <1>1, <1>2, <1>3, <1>4, <1>5

LEMMA ServerTypeStep == TypeOK /\ [Next]_vars => TypeOK'
  <1> SUFFICES ASSUME TypeOK, [Next]_vars PROVE TypeOK' OBVIOUS
  <1>1. CASE UNCHANGED vars
    BY <1>1 DEF vars, diskVars, serverVars, threadVars, callVars, TypeOK
  <1> QED BY <1>1, TypeCreating, TypeDeleting, TypeRestart DEF Next

\* Every variable keeps its type: the ports that are given out are ports of the
\* range, and what is listed, pumped or deleted are instances of conduits.
THEOREM ServerTypeCorrect == Spec => []TypeOK
  BY ServerTypeInit, ServerTypeStep, PTL DEF Spec

\* Whatever is created, deleted, started or fails, a conduit keeps its port as
\* long as the server does not end.
THEOREM ConduitsKeepPorts == Spec => PortsKept
  <1>1. TypeOK /\ [Next]_vars =>
            [server' = server =>
                \A p \in DOMAIN ports : p \in DOMAIN ports' /\ ports'[p] = ports[p]]_vars
    <2> SUFFICES ASSUME TypeOK, Next, server' = server
                 PROVE  \A p \in DOMAIN ports : p \in DOMAIN ports' /\ ports'[p] = ports[p]
      OBVIOUS
    <2>1. \/ ports' = ports
          \/ \E n \in Name : HasPort(n) /\ ports' = AssignPort(n)
      <3>1. ASSUME NEW c \in Creation, AddConduit(c) \/ Creating(c)
            PROVE  \/ ports' = ports
                   \/ \E n \in Name : HasPort(n) /\ ports' = AssignPort(n)
        <4>1. NameOf[c] \in Name BY ConstantsAssumption DEF Request
        <4> QED BY <3>1, <4>1
                DEF AddConduit, Creating, CheckName, MakeDirectory, MakeWorkspace,
                    InitGit, WriteRecord, FirstSync, FindPort, StartDaemon,
                    StartPumping, Host, DeleteWorkspace, DeleteDirectory, diskVars
      <3>2. ASSUME NEW d \in Deletion, FindConduit(d) \/ Deleting(d) PROVE ports' = ports
        BY <3>2 DEF FindConduit, Deleting, RemoveConduit, Stop, Join, DeleteWorkspace,
           DeleteDirectory, diskVars
      <3>3. ASSUME NEW i \in Instance, PumpEnds(i) PROVE ports' = ports
        BY <3>3 DEF PumpEnds, diskVars
      <3>4. ~Crash BY DEF Crash
      <3>5. StartServer \/ Serve => ports' = ports BY DEF StartServer, Serve, diskVars
      <3>6. ASSUME NEW n \in Name, StartConduit(n) \/ StartFails(n)
            PROVE  \/ ports' = ports
                   \/ HasPort(n) /\ ports' = AssignPort(n)
        BY <3>6 DEF StartConduit, StartFails
      <3> QED BY <3>1, <3>2, <3>3, <3>4, <3>5, <3>6 DEF Next
    <2> QED BY <2>1, PortAssigned
  <1> QED BY <1>1, ServerTypeCorrect, PTL DEF Spec, PortsKept

-----------------------------------------------------------------------------
(* The inductive invariant. What keeps conduits apart is the daemon's port: *)
(* an instance takes the port of its name before it does anything else that *)
(* lasts, and gives it back only when the server ends.                      *)

Idle == {"none", "done"}
BeforeDaemon == {"init", "record", "first sync", "port", "daemon"}
Started == {"start", "host"}
Cleaning == {"delete workspace", "delete directory"}

StepsOfCreation == {"check", "mkdirs", "client"} \cup BeforeDaemon \cup Started
                   \cup Cleaning \cup Idle
StepsOfDeletion == {"remove", "stop", "join"} \cup Cleaning \cup Idle

\* The creations that found no directory of their name.
PastCheck == StepsOfCreation \ ({"check"} \cup Idle)

\* The instance's daemon listens.
Listens(i) == \E p \in Port : sshd[p] = i

StepsKnown == /\ \A c \in Creation : pc[c] \in StepsOfCreation
              /\ \A d \in Deletion : pc[d] \in StepsOfDeletion

OnePortEach == \A p, q \in DOMAIN ports : ports[p] = ports[q] => p = q
DaemonAtPort == \A p \in Port : sshd[p] # None =>
                    p \in DOMAIN ports /\ ports[p] = NameFor(sshd[p])

\* One creation of a name at a time, and no request is served by a server
\* that is not up. One that starts has the daemons of what it has started.
OneCreation == \A b, c \in Creation :
    NameOf[b] = NameOf[c] /\ pc[b] \notin Idle /\ pc[c] \notin Idle => b = c
OnlyWhenUp == server # "up" => \A t \in Request : pc[t] \in Idle
NoneWhenDown == server = "down" => \A p \in Port : sshd[p] = None
FirstDaemons == server = "starting" => \A p \in Port :
                    sshd[p] # None => sshd[p] \in Name \ toStart

\* What a request knows of its conduit.
CreationKnows(c) ==
    /\ pc[c] \in {"none", "check"} => ~pump[c]
    /\ pc[c] \in BeforeDaemon =>
            \/ workspace[NameOf[c]]
            \/ \E i \in Instance : NameFor(i) = NameOf[c] /\ Listens(i)
    /\ pc[c] = "daemon" => PortsOf(NameOf[c]) # {}
    /\ pc[c] \in Started =>
            dir[NameOf[c]] = "conduit" /\ workspace[NameOf[c]] /\ Listens(c)
    /\ pc[c] = "host" => c \in pumping \cap keepRunning
    /\ c \in pumping => pc[c] \in {"host", "done"} \cup Cleaning
DeletionKnows(d) ==
    /\ pc[d] \notin Idle =>
            victim[d] \in Instance /\ NameFor(victim[d]) = NameOf[d] /\ Listens(victim[d])
    /\ pc[d] \in {"stop", "join"} \cup Cleaning => victim[d] \notin conduits
    /\ pc[d] \in Cleaning => victim[d] \notin pumping
    /\ victim[d] \in Creation => pc[victim[d]] = "done"

\* What is known of a pump, and of a conduit in the list.
PumpInPlace(i) == Listens(i) /\ (LeftBehind(i) \/ dir[NameFor(i)] = "conduit")
Hosted(i) == /\ i \in pumping \cap keepRunning
             /\ i \in Creation => pc[i] = "done" /\ workspace[NameOf[i]]

\* Where a conduit is created, no other pump runs but one that was left behind.
Quiet(c) == pc[c] \in PastCheck =>
    \A i \in pumping : NameFor(i) = NameOf[c] => i = c \/ LeftBehind(i)

ServerInv == /\ StepsKnown
             /\ OnePortEach
             /\ DaemonAtPort
             /\ OneCreation
             /\ OnlyWhenUp
             /\ NoneWhenDown
             /\ FirstDaemons
             /\ \A c \in Creation : CreationKnows(c) /\ Quiet(c)
             /\ \A d \in Deletion : DeletionKnows(d)
             /\ \A i \in pumping : PumpInPlace(i)
             /\ \A i \in conduits : Hosted(i)

-----------------------------------------------------------------------------
(* The daemon at a port tells instances of the same name apart              *)

LEMMA NamesOfRequests ==
    /\ \A c \in Creation : /\ c \in Request /\ c \in Instance /\ c \notin Name
                           /\ NameFor(c) = NameOf[c] /\ NameOf[c] \in Name
    /\ \A d \in Deletion : d \in Request /\ d \notin Creation /\ NameOf[d] \in Name
    /\ \A n \in Name : n \in Instance /\ n \notin Creation /\ NameFor(n) = n
    /\ \A i \in Instance : i # None
  BY ConstantsAssumption DEF NameFor, Instance, Request

LEMMA OneListens ==
    ASSUME OnePortEach, DaemonAtPort, NEW i \in Instance, NEW j \in Instance,
           Listens(i), Listens(j), NameFor(i) = NameFor(j)
    PROVE  i = j
  <1>1. PICK p \in Port : sshd[p] = i BY DEF Listens
  <1>2. PICK q \in Port : sshd[q] = j BY DEF Listens
  <1>3. /\ p \in DOMAIN ports /\ ports[p] = NameFor(i)
        /\ q \in DOMAIN ports /\ ports[q] = NameFor(j)
    BY <1>1, <1>2, NamesOfRequests DEF DaemonAtPort
  <1>4. p = q BY <1>3 DEF OnePortEach
  <1> QED BY <1>1, <1>2, <1>4

\* An assignment gives no conduit a second port, and no port away.
LEMMA PortsStayApart ==
    ASSUME TypeOK, OnePortEach, DaemonAtPort, NEW n \in Name,
           \/ ports' = ports
           \/ HasPort(n) /\ ports' = AssignPort(n)
    PROVE  /\ \A p \in DOMAIN ports : p \in DOMAIN ports' /\ ports'[p] = ports[p]
           /\ OnePortEach'
           /\ HasPort(n) /\ ports' = AssignPort(n) => PortsOf(n)' # {}
  <1>1. CASE PortsOf(n) # {} \/ ~HasPort(n)
    <2>1. ports' = ports BY <1>1, PortAssigned
    <2> QED BY <1>1, <2>1 DEF OnePortEach, PortsOf
  <1>2. CASE PortsOf(n) = {} /\ HasPort(n) /\ ports' = AssignPort(n)
    <2>1. PICK p \in Port : /\ p \notin DOMAIN ports
                            /\ DOMAIN ports' = DOMAIN ports \cup {p}
                            /\ ports'[p] = n
                            /\ \A q \in DOMAIN ports : ports'[q] = ports[q]
      BY <1>2, PortAssigned
    <2>2. \A q \in DOMAIN ports : ports[q] # n BY <1>2 DEF PortsOf
    <2>3. OnePortEach' BY <2>1, <2>2 DEF OnePortEach
    <2>4. PortsOf(n)' # {} BY <2>1 DEF PortsOf
    <2> QED BY <2>1, <2>3, <2>4
  <1>3. CASE PortsOf(n) = {} /\ HasPort(n) /\ ports' = ports /\ ports' # AssignPort(n)
    BY <1>3 DEF OnePortEach
  <1> QED BY <1>1, <1>2, <1>3

-----------------------------------------------------------------------------
(* The steps of a creation                                                  *)

\* What a step of creation c leaves to the others, whatever it does to the
\* files of its own name.
OthersKept(c) ==
    /\ server = "up" /\ UNCHANGED <<server, toStart, victim>>
    /\ pc[c] # "done"
    /\ \E l \in StepsOfCreation \ {"none"} : pc' = [pc EXCEPT ![c] = l]
    /\ \A b \in Creation : NameOf[b] = NameOf[c] /\ pc[b] \notin Idle => b = c
    /\ \A n \in Name \ {NameOf[c]} : dir'[n] = dir[n] /\ workspace'[n] = workspace[n]
    /\ \A b \in Creation \ {c} : pump'[b] = pump[b]
    /\ \A i \in Instance \ {c} : /\ i \in pumping' <=> i \in pumping
                                 /\ i \in keepRunning' <=> i \in keepRunning
                                 /\ i \in conduits' <=> i \in conduits
    /\ \A p \in DOMAIN ports : p \in DOMAIN ports' /\ ports'[p] = ports[p]
    /\ \A p \in Port : sshd[p] # None => sshd'[p] = sshd[p]
    /\ OnePortEach' /\ DaemonAtPort'

\* What it knows of its own: no one but a pump that was left behind works
\* there, or nothing is changed there.
OwnKept(c) ==
    /\ CreationKnows(c)' /\ Quiet(c)'
    /\ \/ UNCHANGED <<dir, workspace>>
       \/ \A i \in pumping \ {c} : NameFor(i) = NameOf[c] => LeftBehind(i)
    /\ c \in pumping' => PumpInPlace(c)'
    /\ c \in conduits' => Hosted(c)'

LEMMA CreationFrame ==
    ASSUME TypeOK, TypeOK', ServerInv, NEW c \in Creation, OthersKept(c), OwnKept(c)
    PROVE  ServerInv'
  <1>1. PICK l \in StepsOfCreation \ {"none"} : pc' = [pc EXCEPT ![c] = l]
    BY DEF OthersKept
  <1>2. /\ pc'[c] = l
        /\ \A t \in Request \ {c} : pc'[t] = pc[t]
    BY <1>1, NamesOfRequests DEF TypeOK
  <1>3. /\ pumping \subseteq Instance /\ pumping' \subseteq Instance
        /\ conduits \subseteq Instance /\ conduits' \subseteq Instance
        /\ victim \in [Deletion -> Instance \cup {None}] /\ victim' = victim
    BY DEF TypeOK, OthersKept
  <1>4. \A d \in Deletion : victim[d] # c
    BY DEF ServerInv, DeletionKnows, OthersKept
  <1>5. \A i \in Instance : Listens(i) => Listens(i)'
    BY NamesOfRequests DEF Listens, OthersKept
  <1>6. \A i \in Instance \ {c} : LeftBehind(i) => LeftBehind(i)'
    <2> SUFFICES ASSUME NEW i \in Instance \ {c}, LeftBehind(i) PROVE LeftBehind(i)'
      OBVIOUS
    <2>1. i \in Creation /\ i \notin conduits' /\ pc'[i] # "host"
      BY <1>2, NamesOfRequests DEF LeftBehind, OthersKept
    <2>2. \A d \in Deletion : victim'[d] # i BY <1>3 DEF LeftBehind
    <2> QED BY <2>1, <2>2 DEF LeftBehind
  <1>7. StepsKnown' BY <1>2, NamesOfRequests DEF StepsKnown, ServerInv
  <1>8. OneCreation'
    BY <1>2, NamesOfRequests DEF OneCreation, ServerInv, OthersKept
  <1>9. (OnlyWhenUp /\ NoneWhenDown /\ FirstDaemons)'
    BY DEF OthersKept, OnlyWhenUp, NoneWhenDown, FirstDaemons
  <1>10. ASSUME NEW b \in Creation \ {c} PROVE (CreationKnows(b) /\ Quiet(b))'
    <2>1. pc'[b] = pc[b] /\ pump'[b] = pump[b] /\ (b \in pumping' <=> b \in pumping)
          /\ (b \in keepRunning' <=> b \in keepRunning)
      BY <1>2, NamesOfRequests DEF OthersKept
    <2>2. CreationKnows(b) /\ Quiet(b) BY DEF ServerInv
    <2>3. CASE NameOf[b] = NameOf[c]
      <3>1. pc[b] \in Idle BY <2>3 DEF OthersKept
      <3> QED BY <2>1, <2>2, <3>1
              DEF CreationKnows, Quiet, Idle, BeforeDaemon, Started, PastCheck
    <2>4. CASE NameOf[b] # NameOf[c]
      <3>1. /\ dir'[NameOf[b]] = dir[NameOf[b]]
            /\ workspace'[NameOf[b]] = workspace[NameOf[b]]
        BY <2>4, NamesOfRequests DEF OthersKept
      <3>2. PortsOf(NameOf[b]) # {} => PortsOf(NameOf[b])' # {}
        BY DEF PortsOf, OthersKept
      <3>3. CreationKnows(b)'
        BY <1>5, <2>1, <2>2, <3>1, <3>2, NamesOfRequests DEF CreationKnows
      <3>4. Quiet(b)'
        <4>1. ASSUME NEW i \in pumping', NameFor(i) = NameOf[b]
              PROVE  i \in Instance \ {c} /\ i \in pumping
          BY <1>3, <2>4, <4>1, NamesOfRequests DEF OthersKept
        <4> QED BY <1>6, <2>1, <2>2, <4>1 DEF Quiet
      <3> QED BY <3>3, <3>4
    <2> QED BY <2>3, <2>4
  <1>11. ASSUME NEW d \in Deletion PROVE DeletionKnows(d)'
    <2>1. pc'[d] = pc[d] /\ DeletionKnows(d) /\ victim'[d] = victim[d]
          /\ victim[d] \in Instance \cup {None}
      BY <1>2, <1>3, NamesOfRequests DEF ServerInv
    <2>2. victim[d] \in Instance =>
             /\ victim[d] \in conduits' <=> victim[d] \in conduits
             /\ victim[d] \in pumping' <=> victim[d] \in pumping
      BY <1>4 DEF OthersKept
    <2>3. victim[d] \in Creation => pc'[victim[d]] = pc[victim[d]]
      BY <1>2, <1>4, NamesOfRequests
    <2>4. None \notin conduits' /\ None \notin pumping' BY <1>3, NamesOfRequests
    <2> QED BY <1>5, <2>1, <2>2, <2>3, <2>4 DEF DeletionKnows
  <1>12. ASSUME NEW i \in pumping' \ {c} PROVE PumpInPlace(i)'
    <2>1. i \in Instance \ {c} /\ i \in pumping /\ PumpInPlace(i)
      BY <1>3 DEF OthersKept, ServerInv
    <2>2. NameFor(i) \in Name BY <2>1, NameForName
    <2>3. LeftBehind(i) \/ dir'[NameFor(i)] = dir[NameFor(i)]
      BY <2>1, <2>2 DEF OthersKept, OwnKept
    <2> QED BY <1>5, <1>6, <2>1, <2>3 DEF PumpInPlace
  <1>13. ASSUME NEW i \in conduits' \ {c} PROVE Hosted(i)'
    <2>1. i \in Instance \ {c} /\ i \in conduits /\ Hosted(i)
      BY <1>3 DEF OthersKept, ServerInv
    <2>2. i \in pumping' \cap keepRunning' BY <2>1 DEF OthersKept, Hosted
    <2>3. ASSUME i \in Creation PROVE pc'[i] = "done" /\ workspace'[NameOf[i]]
      <3>1. pc'[i] = "done" /\ workspace[NameOf[i]]
        BY <1>2, <2>1, <2>3, NamesOfRequests DEF Hosted
      <3>2. ~LeftBehind(i) BY <2>1 DEF LeftBehind
      <3>3. NameOf[i] \in Name /\ NameFor(i) = NameOf[i] BY <2>3, NamesOfRequests
      <3>4. workspace'[NameOf[i]] = workspace[NameOf[i]]
        BY <2>1, <3>2, <3>3 DEF OthersKept, OwnKept, Hosted
      <3> QED BY <3>1, <3>4
    <2> QED BY <2>2, <2>3 DEF Hosted
  <1> QED BY <1>7, <1>8, <1>9, <1>10, <1>11, <1>12, <1>13
          DEF ServerInv, OthersKept, OwnKept

\* A creation that runs is not listed and nobody deletes it; its pump runs only
\* once it is started; and a pump that was left behind stays so.
LEMMA CreationFacts ==
    ASSUME TypeOK, TypeOK', ServerInv, NEW c \in Creation, OthersKept(c)
    PROVE  /\ c \notin conduits
           /\ \A d \in Deletion : victim'[d] # c
           /\ pc[c] \notin {"host"} \cup Cleaning => c \notin pumping
           /\ \A i \in Instance : Listens(i) => Listens(i)'
           /\ \A i \in Instance \ {c} : LeftBehind(i) => LeftBehind(i)'
           /\ pc[c] \in PastCheck => \A i \in pumping \ {c} :
                    NameFor(i) = NameOf[c] => LeftBehind(i)
           /\ pc[c] \in PastCheck => Quiet(c)'
  <1>1. PICK l \in StepsOfCreation \ {"none"} : pc' = [pc EXCEPT ![c] = l]
    BY DEF OthersKept
  <1>2. \A t \in Request \ {c} : pc'[t] = pc[t]
    BY <1>1, NamesOfRequests DEF TypeOK
  <1>3. /\ pumping \subseteq Instance /\ pumping' \subseteq Instance
        /\ victim \in [Deletion -> Instance \cup {None}] /\ victim' = victim
    BY DEF TypeOK, OthersKept
  <1>4. \A d \in Deletion : victim'[d] # c
    BY <1>3 DEF ServerInv, DeletionKnows, OthersKept
  <1>5. \A i \in Instance : Listens(i) => Listens(i)'
    BY NamesOfRequests DEF Listens, OthersKept
  <1>6. c \notin conduits BY DEF ServerInv, Hosted, OthersKept
  <1>7. ASSUME NEW i \in Instance \ {c}, LeftBehind(i) PROVE LeftBehind(i)'
    <2>1. i \in Creation /\ i \notin conduits' /\ pc'[i] # "host"
      BY <1>2, <1>7, NamesOfRequests DEF LeftBehind, OthersKept
    <2>2. \A d \in Deletion : victim'[d] # i BY <1>3, <1>7 DEF LeftBehind
    <2> QED BY <2>1, <2>2 DEF LeftBehind
  <1>8. pc[c] \notin {"host"} \cup Cleaning => c \notin pumping
    BY DEF ServerInv, CreationKnows, OthersKept
  <1>9. ASSUME pc[c] \in PastCheck, NEW i \in pumping \ {c}, NameFor(i) = NameOf[c]
        PROVE  LeftBehind(i)
    BY <1>9 DEF ServerInv, Quiet
  <1>10. ASSUME pc[c] \in PastCheck PROVE Quiet(c)'
    <2>1. \A i \in pumping' \ {c} : i \in pumping /\ i \in Instance
      BY <1>3 DEF OthersKept
    <2> QED BY <1>7, <1>9, <1>10, <2>1 DEF Quiet
  <1> QED BY <1>4, <1>5, <1>6, <1>7, <1>8, <1>9, <1>10

\* A creation that fails, or cleans up after it failed, leaves its pump behind.
LEMMA FailedOwn ==
    ASSUME TypeOK, TypeOK', ServerInv, NEW c \in Creation, OthersKept(c),
           pc[c] \in PastCheck \/ pc'[c] = "done",
           pc'[c] \in Cleaning \cup {"done"},
           UNCHANGED <<conduits, pumping>>,
           UNCHANGED <<dir, workspace>> \/ pc[c] \in PastCheck
    PROVE  OwnKept(c)
  <1>1. CreationKnows(c)'
    BY DEF CreationKnows, Cleaning, BeforeDaemon, Started
  <1>2. Quiet(c)' BY CreationFacts DEF Quiet, PastCheck, Idle
  <1>3. ASSUME c \in pumping' PROVE PumpInPlace(c)'
    <2>1. Listens(c)'
      BY <1>3, CreationFacts, NamesOfRequests DEF ServerInv, PumpInPlace
    <2>2. LeftBehind(c)' BY CreationFacts DEF LeftBehind, Cleaning
    <2> QED BY <2>1, <2>2 DEF PumpInPlace
  <1>4. c \notin conduits' BY CreationFacts
  <1> QED BY <1>1, <1>2, <1>3, <1>4, CreationFacts DEF OwnKept

LEMMA CreatingStep ==
    ASSUME "twins" \notin Rare, TypeOK, TypeOK', ServerInv,
           NEW c \in Creation, AddConduit(c) \/ Creating(c)
    PROVE  ServerInv'
  <1> USE DEF Goto, diskVars, serverVars, threadVars, callVars
  <1> DEFINE n == NameOf[c]
  <1>0. /\ n \in Name /\ c \in Request /\ c \in Instance /\ NameFor(c) = n
        /\ pc \in [Request -> Steps] /\ pump \in [Creation -> BOOLEAN]
        /\ dir \in [Name -> {"absent", "empty", "git", "conduit"}]
        /\ workspace \in [Name -> BOOLEAN]
        /\ sshd \in [Port -> Instance \cup {None}]
        /\ conduits \subseteq Instance /\ pumping \subseteq Instance
        /\ keepRunning \subseteq Instance
    BY NamesOfRequests DEF TypeOK, Steps
  <1>1. server = "up"
    <2>1. CASE AddConduit(c) BY <2>1 DEF AddConduit
    <2>2. CASE Creating(c)
      <3>1. pc[c] \notin Idle
        BY <2>2 DEF Creating, CheckName, MakeDirectory, MakeWorkspace, InitGit,
           WriteRecord, FirstSync, FindPort, StartDaemon, StartPumping, Host,
           DeleteWorkspace, DeleteDirectory, Idle
      <3> QED BY <1>0, <3>1 DEF ServerInv, OnlyWhenUp
    <2> QED BY <2>1, <2>2
  <1>2. pc[c] \notin Idle =>
            \A b \in Creation : NameOf[b] = NameOf[c] /\ pc[b] \notin Idle => b = c
    BY DEF ServerInv, OneCreation
  <1>3. CreationKnows(c) /\ OnePortEach /\ DaemonAtPort BY DEF ServerInv
  <1> DEFINE To(l) == pc' = [pc EXCEPT ![c] = l] /\ pc'[c] = l
  <1>4. ASSUME Fail(c)
        PROVE  \/ To("done")
               \/ To("delete workspace") /\ pump[c]
    BY <1>0, <1>4 DEF Fail
  \* The steps that fail, and those that clean up, change nothing that is
  \* anybody else's.
  <1>5. ASSUME pc[c] \notin Idle,
               UNCHANGED <<server, toStart, victim, ports, sshd, pump,
                           conduits, pumping, keepRunning>>,
               \A m \in Name \ {n} : dir'[m] = dir[m] /\ workspace'[m] = workspace[m],
               NEW l \in StepsOfCreation \ {"none"}, pc' = [pc EXCEPT ![c] = l]
        PROVE  OthersKept(c)
    BY <1>1, <1>2, <1>3, <1>5 DEF OthersKept, Idle, OnePortEach, DaemonAtPort
  <1>6. ASSUME pc[c] \notin Idle, Fail(c),
               UNCHANGED <<diskVars, serverVars, threadVars, pump, victim>>
        PROVE  ServerInv'
    <2>1. PICK l \in {"done", "delete workspace"} :
                To(l) /\ (l = "delete workspace" => pump[c])
      BY <1>4, <1>6
    <2>2. l \in StepsOfCreation \ {"none"} BY DEF StepsOfCreation, Idle, Cleaning
    <2>3. OthersKept(c) BY <1>5, <1>6, <2>1, <2>2
    <2>4. pc[c] \in PastCheck \/ pc'[c] = "done"
      <3>1. pc[c] = "check" => l = "done" BY <1>3, <2>1 DEF CreationKnows
      <3>2. pc[c] \in StepsOfCreation BY DEF ServerInv, StepsKnown
      <3> QED BY <1>6, <2>1, <3>1, <3>2 DEF PastCheck
    <2>5. OwnKept(c) BY <1>6, <2>1, <2>3, <2>4, FailedOwn DEF Cleaning
    <2> QED BY <2>3, <2>5, CreationFrame
  <1>7. CASE AddConduit(c)
    <2>1. /\ pc[c] = "none" /\ To("check")
          /\ \A b \in Creation : NameOf[b] = NameOf[c] => pc[b] \in Idle
          /\ UNCHANGED <<diskVars, serverVars, threadVars, pump, victim>>
      BY <1>0, <1>7 DEF AddConduit, Idle
    <2>2. OthersKept(c)
      BY <1>1, <1>3, <2>1 DEF OthersKept, StepsOfCreation, Idle, OnePortEach, DaemonAtPort
    <2>3. c \notin pumping' /\ c \notin conduits'
      BY <2>1, <2>2, CreationFacts DEF Cleaning
    <2>4. CreationKnows(c)'
      BY <1>3, <2>1, <2>3 DEF CreationKnows, BeforeDaemon, Started
    <2>5. Quiet(c)' BY <2>1 DEF Quiet, PastCheck
    <2> QED BY <2>1, <2>2, <2>3, <2>4, <2>5, CreationFrame DEF OwnKept
  <1>8. CASE CheckName(c)
    <2>1. CASE dir[n] = "absent"
      <3>1. /\ pc[c] = "check" /\ To("mkdirs")
            /\ UNCHANGED <<diskVars, serverVars, threadVars, pump, victim>>
        BY <1>0, <1>8, <2>1 DEF CheckName
      <3>2. OthersKept(c) BY <1>5, <3>1 DEF StepsOfCreation, Idle
      <3>3. c \notin pumping' /\ c \notin conduits'
        BY <3>1, <3>2, CreationFacts DEF Cleaning
      <3>4. CreationKnows(c)'
        BY <1>3, <3>1, <3>3 DEF CreationKnows, BeforeDaemon, Started
      <3>5. Quiet(c)'
        <4>1. ASSUME NEW i \in pumping, NameFor(i) = n PROVE LeftBehind(i)
          BY <2>1, <4>1 DEF ServerInv, PumpInPlace
        <4>2. pumping' = pumping /\ \A i \in pumping : i \in Instance /\ i # c
          BY <1>0, <3>1, <3>3
        <4> QED BY <3>2, <4>1, <4>2, CreationFacts DEF Quiet
      <3> QED BY <3>1, <3>2, <3>3, <3>4, <3>5, CreationFrame DEF OwnKept
    <2>2. CASE dir[n] # "absent"
      BY <1>6, <1>8, <2>2 DEF CheckName, Idle
    <2> QED BY <2>1, <2>2
  \* A step between the check and the daemon that goes on.
  <1>9. ASSUME pc[c] \in {"mkdirs", "client"} \cup BeforeDaemon,
               NEW l \in {"client"} \cup BeforeDaemon, To(l),
               OthersKept(c), UNCHANGED <<conduits, pumping>>,
               l = "client" \/ workspace'[n]
                 \/ (pc[c] \in BeforeDaemon /\ workspace' = workspace),
               l = "daemon" => PortsOf(n)' # {}
        PROVE  ServerInv'
    <2>1. c \notin pumping' /\ c \notin conduits'
      BY <1>9, CreationFacts DEF BeforeDaemon, Cleaning
    <2>2. CreationKnows(c)'
      BY <1>3, <1>9, <2>1, CreationFacts DEF CreationKnows, BeforeDaemon, Started
    <2>3. pc[c] \in PastCheck
      BY <1>9 DEF PastCheck, StepsOfCreation, BeforeDaemon, Idle
    <2> QED BY <1>9, <2>1, <2>2, <2>3, CreationFacts, CreationFrame DEF OwnKept
  <1>10. CASE MakeDirectory(c)
    <2>1. /\ pc[c] = "mkdirs" /\ To("client")
          /\ \A m \in Name \ {n} : dir'[m] = dir[m]
          /\ UNCHANGED <<workspace, ports, serverVars, threadVars, pump, victim>>
      BY <1>0, <1>10 DEF MakeDirectory
    <2>2. OthersKept(c) BY <1>5, <2>1 DEF StepsOfCreation, Idle
    <2> QED BY <1>9, <2>1, <2>2
  <1>11. CASE MakeWorkspace(c)
    <2>1. CASE Fail(c) /\ UNCHANGED workspace
      BY <1>6, <1>11, <2>1 DEF MakeWorkspace, Idle
    <2>2. CASE Goto(c, "init") /\ workspace' = [workspace EXCEPT ![n] = TRUE]
      <3>1. /\ pc[c] = "client" /\ To("init")
            /\ workspace'[n] /\ \A m \in Name \ {n} : workspace'[m] = workspace[m]
            /\ UNCHANGED <<dir, ports, serverVars, threadVars, pump, victim>>
        BY <1>0, <1>11, <2>2 DEF MakeWorkspace
      <3>2. OthersKept(c) BY <1>5, <3>1 DEF StepsOfCreation, BeforeDaemon, Idle
      <3> QED BY <1>9, <3>1, <3>2 DEF BeforeDaemon
    <2> QED BY <1>11, <2>1, <2>2 DEF MakeWorkspace
  <1>12. CASE InitGit(c)
    <2>1. CASE Fail(c) /\ UNCHANGED dir
      BY <1>6, <1>12, <2>1 DEF InitGit, Idle
    <2>2. CASE Goto(c, "record") /\ \A m \in Name \ {n} : dir'[m] = dir[m]
      <3>1. /\ pc[c] = "init" /\ To("record")
            /\ UNCHANGED <<workspace, ports, serverVars, threadVars, pump, victim>>
        BY <1>0, <1>12, <2>2 DEF InitGit
      <3>2. OthersKept(c) BY <1>5, <2>2, <3>1 DEF StepsOfCreation, BeforeDaemon, Idle
      <3> QED BY <1>9, <3>1, <3>2 DEF BeforeDaemon
    <2> QED BY <1>0, <1>12, <2>1, <2>2 DEF InitGit
  <1>13. CASE WriteRecord(c)
    <2>1. CASE dir[n] = "absent"
      BY <1>6, <1>13, <2>1 DEF WriteRecord, Idle
    <2>2. CASE dir[n] # "absent"
      <3>1. /\ pc[c] = "record" /\ To("first sync")
            /\ \A m \in Name \ {n} : dir'[m] = dir[m]
            /\ \A b \in Creation \ {c} : pump'[b] = pump[b]
            /\ UNCHANGED <<workspace, ports, serverVars, threadVars, victim>>
        BY <1>0, <1>13, <2>2 DEF WriteRecord
      <3>2. OthersKept(c)
        BY <1>1, <1>2, <1>3, <3>1
        DEF OthersKept, StepsOfCreation, BeforeDaemon, Idle, OnePortEach, DaemonAtPort
      <3> QED BY <1>9, <3>1, <3>2 DEF BeforeDaemon
    <2> QED BY <2>1, <2>2
  <1>14. CASE FirstSync(c)
    <2>1. CASE Fail(c) BY <1>6, <1>14, <2>1 DEF FirstSync, Idle
    <2>2. CASE Goto(c, "port")
      <3>1. /\ pc[c] = "first sync" /\ To("port")
            /\ UNCHANGED <<diskVars, serverVars, threadVars, pump, victim>>
        BY <1>0, <1>14, <2>2 DEF FirstSync
      <3>2. OthersKept(c) BY <1>5, <3>1 DEF StepsOfCreation, BeforeDaemon, Idle
      <3> QED BY <1>9, <3>1, <3>2 DEF BeforeDaemon
    <2> QED BY <1>14, <2>1, <2>2 DEF FirstSync
  <1>15. CASE FindPort(c)
    <2>1. CASE ~HasPort(n) BY <1>6, <1>15, <2>1 DEF FindPort, Idle
    <2>2. CASE HasPort(n)
      <3>1. /\ pc[c] = "port" /\ To("daemon")
            /\ ports' = AssignPort(n)
            /\ UNCHANGED <<dir, workspace, serverVars, threadVars, pump, victim>>
        BY <1>0, <1>15, <2>2 DEF FindPort
      <3>2. /\ \A p \in DOMAIN ports : p \in DOMAIN ports' /\ ports'[p] = ports[p]
            /\ OnePortEach' /\ PortsOf(n)' # {}
        BY <1>0, <1>3, <2>2, <3>1, PortsStayApart
      <3>3. DaemonAtPort' BY <1>3, <3>1, <3>2 DEF DaemonAtPort
      <3>4. OthersKept(c)
        BY <1>1, <1>2, <3>1, <3>2, <3>3
        DEF OthersKept, StepsOfCreation, BeforeDaemon, Idle
      <3> QED BY <1>9, <3>1, <3>2, <3>4 DEF BeforeDaemon
    <2> QED BY <2>1, <2>2
  <1>16. CASE StartDaemon(c)
    <2> DEFINE p == PortOf(n)
    <2>0. p \in DOMAIN ports /\ ports[p] = n /\ p \in Port
      <3>1. PortsOf(n) # {} BY <1>3, <1>16 DEF StartDaemon, CreationKnows
      <3>2. p \in PortsOf(n) BY <3>1 DEF PortOf
      <3> QED BY <3>2 DEF PortsOf, TypeOK
    <2>1. CASE ~(dir[n] = "conduit" /\ sshd[p] = None)
      BY <1>6, <1>16, <2>1 DEF StartDaemon, Idle
    <2>2. CASE dir[n] = "conduit" /\ sshd[p] = None
      <3>1. /\ pc[c] = "daemon" /\ To("start")
            /\ sshd' = [sshd EXCEPT ![p] = c]
            /\ UNCHANGED <<diskVars, serverVars, pumping, keepRunning, pump, victim>>
        BY <1>0, <1>16, <2>2 DEF StartDaemon
      <3>2. sshd'[p] = c /\ \A q \in Port \ {p} : sshd'[q] = sshd[q]
        BY <1>0, <2>0, <3>1
      <3>3. OnePortEach' /\ DaemonAtPort'
        BY <1>0, <1>3, <2>0, <3>1, <3>2 DEF OnePortEach, DaemonAtPort
      <3>4. OthersKept(c)
        BY <1>1, <1>2, <2>2, <3>1, <3>2, <3>3
        DEF OthersKept, StepsOfCreation, Started, Idle
      <3>5. workspace[n]
        <4>1. ASSUME NEW i \in Instance, NameFor(i) = n, Listens(i) PROVE FALSE
          <5>1. PICK q \in Port : sshd[q] = i BY <4>1 DEF Listens
          <5>2. q \in DOMAIN ports /\ ports[q] = n
            BY <1>3, <4>1, <5>1, NamesOfRequests DEF DaemonAtPort
          <5>3. q = p BY <1>3, <2>0, <5>2 DEF OnePortEach
          <5> QED BY <2>2, <4>1, <5>1, <5>3, NamesOfRequests
        <4> QED BY <1>3, <3>1, <4>1 DEF CreationKnows, BeforeDaemon
      <3>6. c \notin pumping' /\ c \notin conduits'
        BY <3>1, <3>4, CreationFacts DEF Cleaning
      <3>7. Listens(c)' BY <2>0, <3>2 DEF Listens
      <3>8. CreationKnows(c)'
        BY <2>2, <3>1, <3>5, <3>6, <3>7 DEF CreationKnows, BeforeDaemon, Started
      <3>9. pc[c] \in PastCheck
        BY <3>1 DEF PastCheck, StepsOfCreation, BeforeDaemon, Idle
      <3> QED BY <3>1, <3>4, <3>6, <3>8, <3>9, CreationFacts, CreationFrame DEF OwnKept
    <2> QED BY <2>1, <2>2
  <1>17. CASE StartPumping(c)
    <2>1. /\ pc[c] = "start" /\ To("host")
          /\ pumping' = pumping \cup {c} /\ keepRunning' = keepRunning \cup {c}
          /\ UNCHANGED <<diskVars, serverVars, sshd, pump, victim>>
      BY <1>0, <1>17 DEF StartPumping
    <2>2. OthersKept(c)
      BY <1>1, <1>2, <1>3, <2>1
      DEF OthersKept, StepsOfCreation, Started, Idle, OnePortEach, DaemonAtPort
    <2>3. dir[n] = "conduit" /\ workspace[n] /\ Listens(c)
      BY <1>3, <2>1 DEF CreationKnows, Started
    <2>4. Listens(c)' BY <1>0, <2>2, <2>3, CreationFacts
    <2>5. CreationKnows(c)'
      BY <2>1, <2>3, <2>4 DEF CreationKnows, BeforeDaemon, Started
    <2>6. PumpInPlace(c)' BY <1>0, <2>1, <2>3, <2>4 DEF PumpInPlace, NameFor
    <2>7. pc[c] \in PastCheck /\ c \notin conduits'
      BY <2>1, <2>2, CreationFacts DEF PastCheck, StepsOfCreation, Started, Idle
    <2> QED BY <2>1, <2>2, <2>5, <2>6, <2>7, CreationFacts, CreationFrame DEF OwnKept
  <1>18. CASE Host(c)
    <2>1. CASE Fail(c) /\ UNCHANGED conduits BY <1>6, <1>18, <2>1 DEF Host, Idle
    <2>2. CASE Goto(c, "done") /\ conduits' = conduits \cup {c}
      <3>1. /\ pc[c] = "host" /\ To("done")
            /\ UNCHANGED <<diskVars, server, toStart, threadVars, pump, victim>>
        BY <1>0, <1>18, <2>2 DEF Host
      <3>2. OthersKept(c)
        BY <1>1, <1>2, <1>3, <2>2, <3>1
        DEF OthersKept, StepsOfCreation, Idle, OnePortEach, DaemonAtPort
      <3>3. /\ dir[n] = "conduit" /\ workspace[n] /\ Listens(c)
            /\ c \in pumping \cap keepRunning
        BY <1>3, <3>1 DEF CreationKnows, Started
      <3>4. Listens(c)' BY <1>0, <3>2, <3>3, CreationFacts
      <3>5. CreationKnows(c)' /\ Quiet(c)'
        BY <3>1 DEF CreationKnows, BeforeDaemon, Started, Quiet, PastCheck, Idle
      <3>6. PumpInPlace(c)' BY <1>0, <3>1, <3>3, <3>4 DEF PumpInPlace, NameFor
      <3>7. Hosted(c)' BY <3>1, <3>3 DEF Hosted
      <3> QED BY <3>1, <3>2, <3>5, <3>6, <3>7, CreationFrame DEF OwnKept
    <2> QED BY <1>18, <2>1, <2>2 DEF Host
  <1>19. CASE DeleteWorkspace(c) \/ DeleteDirectory(c)
    <2>1. PICK l \in {"done", "delete directory"} : pc' = [pc EXCEPT ![c] = l]
      BY <1>19 DEF DeleteWorkspace, DeleteDirectory
    <2>2. /\ pc[c] \in Cleaning /\ pc'[c] = l
          /\ \A m \in Name \ {n} : dir'[m] = dir[m] /\ workspace'[m] = workspace[m]
          /\ UNCHANGED <<ports, serverVars, threadVars, pump, victim>>
      BY <1>0, <1>19, <2>1 DEF DeleteWorkspace, DeleteDirectory, Cleaning
    <2>3. l \in StepsOfCreation \ {"none"} /\ l \in Cleaning \cup {"done"}
      BY DEF StepsOfCreation, Cleaning, Idle
    <2>4. pc[c] \notin Idle /\ pc[c] \in PastCheck
      BY <2>2 DEF Cleaning, Idle, PastCheck, StepsOfCreation
    <2>5. OthersKept(c) BY <1>5, <2>1, <2>2, <2>3, <2>4
    <2>6. OwnKept(c) BY <2>2, <2>3, <2>4, <2>5, FailedOwn
    <2> QED BY <2>5, <2>6, CreationFrame
  <1> QED BY <1>7, <1>8, <1>10, <1>11, <1>12, <1>13, <1>14, <1>15, <1>16, <1>17,
             <1>18, <1>19 DEF Creating

-----------------------------------------------------------------------------
(* The steps of a deletion                                                  *)

\* What a step of deletion d leaves to the others, and what it knows itself.
DeletionKeeps(d) ==
    /\ server = "up" /\ UNCHANGED <<server, toStart, ports, sshd, pump, pumping>>
    /\ \E l \in StepsOfDeletion \ {"none"} : pc' = [pc EXCEPT ![d] = l]
    /\ \A e \in Deletion \ {d} : victim'[e] = victim[e]
    /\ victim'[d] = victim[d] \/ victim'[d] \in conduits
    /\ conduits' \subseteq conduits
    /\ \/ keepRunning' = keepRunning
       \/ pc[d] = "stop" /\ keepRunning' = keepRunning \ {victim[d]}
    /\ \/ UNCHANGED <<dir, workspace>>
       \/ /\ pc[d] \in Cleaning
          /\ \A n \in Name \ {NameOf[d]} : dir'[n] = dir[n] /\ workspace'[n] = workspace[n]
    /\ DeletionKnows(d)'

\* The conduit a deletion found keeps its port, so that nobody else has got
\* anywhere under its name.
LEMMA DeletionFrame ==
    ASSUME TypeOK, TypeOK', ServerInv, NEW d \in Deletion, DeletionKeeps(d)
    PROVE  ServerInv'
  <1>1. PICK l \in StepsOfDeletion \ {"none"} : pc' = [pc EXCEPT ![d] = l]
    BY DEF DeletionKeeps
  <1>2. /\ pc'[d] = l
        /\ \A t \in Request \ {d} : pc'[t] = pc[t]
        /\ \A c \in Creation : c \in Request /\ c # d /\ pc'[c] = pc[c]
    <2>1. pc \in [Request -> Steps] /\ d \in Request BY NamesOfRequests DEF TypeOK, Steps
    <2>2. pc'[d] = l /\ \A t \in Request \ {d} : pc'[t] = pc[t] BY <1>1, <2>1
    <2> QED BY <2>2, NamesOfRequests
  <1>3. /\ pumping' = pumping /\ pumping \subseteq Instance
        /\ conduits' \subseteq conduits /\ conduits \subseteq Instance
    BY DEF TypeOK, DeletionKeeps
  <1>4. \A i \in Instance : Listens(i)' <=> Listens(i)
    BY DEF Listens, DeletionKeeps
  <1>5. \A i \in Instance : LeftBehind(i) => LeftBehind(i)'
    <2> SUFFICES ASSUME NEW i \in Instance, LeftBehind(i) PROVE LeftBehind(i)' OBVIOUS
    <2>1. i \in Creation /\ i \notin conduits' /\ pc'[i] # "host"
      BY <1>2, <1>3 DEF LeftBehind
    <2>2. \A e \in Deletion : victim'[e] # i BY DEF LeftBehind, DeletionKeeps
    <2> QED BY <2>1, <2>2 DEF LeftBehind
  <1>6. pc[d] \notin Idle =>
            /\ victim[d] \in Instance /\ NameFor(victim[d]) = NameOf[d]
            /\ Listens(victim[d])
            /\ victim[d] \in Creation => pc[victim[d]] = "done"
            /\ pc[d] \in {"stop"} \cup Cleaning => victim[d] \notin conduits
            /\ pc[d] \in Cleaning => victim[d] \notin pumping
    BY DEF ServerInv, DeletionKnows
  <1>7. ASSUME ~UNCHANGED <<dir, workspace>>,
               NEW i \in Instance, Listens(i), NameFor(i) = NameOf[d]
        PROVE  i = victim[d] /\ pc[d] \in Cleaning
    <2>1. pc[d] \in Cleaning /\ pc[d] \notin Idle
      BY <1>7 DEF DeletionKeeps, Cleaning, Idle
    <2> QED BY <1>6, <1>7, <2>1, OneListens DEF ServerInv
  <1>8. StepsKnown' BY <1>1, <1>2, NamesOfRequests DEF StepsKnown, ServerInv
  <1>9. (OnePortEach /\ DaemonAtPort /\ OneCreation)'
    BY <1>2 DEF OneCreation, OnePortEach, DaemonAtPort, ServerInv, DeletionKeeps
  <1>10. (OnlyWhenUp /\ NoneWhenDown /\ FirstDaemons)'
    BY DEF DeletionKeeps, OnlyWhenUp, NoneWhenDown, FirstDaemons
  <1>11. ASSUME NEW c \in Creation PROVE (CreationKnows(c) /\ Quiet(c))'
    <2> DEFINE n == NameOf[c]
    <2>1. pc'[c] = pc[c] /\ pump' = pump /\ CreationKnows(c) /\ Quiet(c)
          /\ c \in Instance /\ NameFor(c) = n /\ n \in Name
      BY <1>2, NamesOfRequests DEF DeletionKeeps, ServerInv
    <2>2. PortsOf(n)' = PortsOf(n) BY DEF PortsOf, DeletionKeeps
    <2>3. pc[c] \in Started => c # victim[d] \/ pc[d] \in Idle
      BY <1>6 DEF Started
    <2>4. pc[c] \in Started => dir'[n] = dir[n] /\ workspace'[n] = workspace[n]
      <3>1. CASE UNCHANGED <<dir, workspace>> BY <3>1
      <3>2. CASE n # NameOf[d] BY <2>1, <3>2 DEF DeletionKeeps
      <3>3. ASSUME ~UNCHANGED <<dir, workspace>>, n = NameOf[d], pc[c] \in Started
            PROVE  FALSE
        <4>1. Listens(c) BY <2>1, <3>3 DEF CreationKnows
        <4>2. c = victim[d] /\ pc[d] \in Cleaning BY <1>7, <2>1, <3>3, <4>1
        <4> QED BY <2>3, <3>3, <4>2 DEF Cleaning, Idle
      <3> QED BY <3>1, <3>2, <3>3
    <2>5. pc[c] \in BeforeDaemon =>
             \/ workspace'[n]
             \/ \E i \in Instance : NameFor(i) = n /\ Listens(i)'
      <3>1. CASE workspace'[n] = workspace[n]
        BY <1>4, <2>1, <3>1 DEF CreationKnows
      <3>2. CASE workspace'[n] # workspace[n]
        <4>1. n = NameOf[d] /\ pc[d] \in Cleaning BY <2>1, <3>2 DEF DeletionKeeps
        <4>2. pc[d] \notin Idle BY <4>1 DEF Cleaning, Idle
        <4> QED BY <1>4, <1>6, <4>1, <4>2
      <3> QED BY <3>1, <3>2
    <2>6. pc[c] = "host" => c \in pumping' \cap keepRunning'
      BY <1>3, <2>1, <2>3 DEF CreationKnows, DeletionKeeps, Started, Idle
    <2>7. CreationKnows(c)'
      BY <1>3, <1>4, <2>1, <2>2, <2>4, <2>5, <2>6 DEF CreationKnows
    <2>8. Quiet(c)' BY <1>3, <1>5, <2>1 DEF Quiet
    <2> QED BY <2>7, <2>8
  <1>12. ASSUME NEW e \in Deletion PROVE DeletionKnows(e)'
    <2>1. CASE e = d BY <2>1 DEF DeletionKeeps
    <2>2. CASE e # d
      <3>1. pc'[e] = pc[e] /\ victim'[e] = victim[e] /\ DeletionKnows(e)
        BY <1>2, <2>2, NamesOfRequests DEF DeletionKeeps, ServerInv
      <3> QED BY <1>2, <1>3, <1>4, <3>1 DEF DeletionKnows
    <2> QED BY <2>1, <2>2
  <1>13. ASSUME NEW i \in pumping' PROVE PumpInPlace(i)'
    <2>1. i \in Instance /\ i \in pumping /\ PumpInPlace(i) /\ NameFor(i) \in Name
      BY <1>3, NameForName DEF ServerInv
    <2>2. dir'[NameFor(i)] = dir[NameFor(i)]
      <3>1. CASE UNCHANGED <<dir, workspace>> BY <3>1
      <3>2. CASE NameFor(i) # NameOf[d] BY <2>1, <3>2 DEF DeletionKeeps
      <3>3. ASSUME ~UNCHANGED <<dir, workspace>>, NameFor(i) = NameOf[d] PROVE FALSE
        <4>1. i = victim[d] /\ pc[d] \in Cleaning
          BY <1>7, <2>1, <3>3 DEF PumpInPlace
        <4> QED BY <1>6, <2>1, <4>1 DEF Cleaning, Idle
      <3> QED BY <3>1, <3>2, <3>3
    <2> QED BY <1>4, <1>5, <2>1, <2>2 DEF PumpInPlace
  <1>14. ASSUME NEW i \in conduits' PROVE Hosted(i)'
    <2>1. i \in Instance /\ i \in conduits /\ Hosted(i) /\ i \in pumping
      BY <1>3 DEF ServerInv, Hosted
    <2>2. Listens(i) /\ NameFor(i) \in Name
      BY <2>1, NameForName DEF ServerInv, PumpInPlace
    <2>3. i \in keepRunning'
      <3>1. CASE keepRunning' = keepRunning BY <2>1, <3>1 DEF Hosted
      <3>2. CASE pc[d] = "stop" /\ keepRunning' = keepRunning \ {victim[d]}
        <4>1. victim[d] \notin conduits BY <1>6, <3>2 DEF Idle
        <4> QED BY <2>1, <3>2, <4>1 DEF Hosted
      <3> QED BY <3>1, <3>2 DEF DeletionKeeps
    <2>4. workspace'[NameFor(i)] = workspace[NameFor(i)]
      <3>1. CASE UNCHANGED <<dir, workspace>> BY <3>1
      <3>2. CASE NameFor(i) # NameOf[d] BY <2>2, <3>2 DEF DeletionKeeps
      <3>3. ASSUME ~UNCHANGED <<dir, workspace>>, NameFor(i) = NameOf[d] PROVE FALSE
        <4>1. i = victim[d] /\ pc[d] \in Cleaning BY <1>7, <2>1, <2>2, <3>3
        <4> QED BY <1>6, <2>1, <4>1 DEF Cleaning, Idle
      <3> QED BY <3>1, <3>2, <3>3
    <2>5. i \in Creation => pc'[i] = "done" /\ workspace'[NameOf[i]]
      BY <1>2, <2>1, <2>4, NamesOfRequests DEF Hosted
    <2> QED BY <1>3, <2>1, <2>3, <2>5 DEF Hosted
  <1> QED BY <1>8, <1>9, <1>10, <1>11, <1>12, <1>13, <1>14 DEF ServerInv

LEMMA DeletingStep ==
    ASSUME TypeOK, TypeOK', ServerInv,
           NEW d \in Deletion, FindConduit(d) \/ Deleting(d)
    PROVE  ServerInv'
  <1> USE DEF Goto, diskVars, serverVars, threadVars, callVars
  <1>0. /\ d \in Request /\ d \notin Creation /\ NameOf[d] \in Name
        /\ pc \in [Request -> Steps] /\ victim \in [Deletion -> Instance \cup {None}]
        /\ dir \in [Name -> {"absent", "empty", "git", "conduit"}]
        /\ workspace \in [Name -> BOOLEAN]
        /\ conduits \subseteq Instance
    BY NamesOfRequests DEF TypeOK, Steps
  <1>1. server = "up"
    <2>1. CASE FindConduit(d) BY <2>1 DEF FindConduit
    <2>2. CASE Deleting(d)
      <3>1. pc[d] \notin Idle
        BY <2>2 DEF Deleting, RemoveConduit, Stop, Join, DeleteWorkspace,
           DeleteDirectory, Idle
      <3> QED BY <1>0, <3>1 DEF ServerInv, OnlyWhenUp
    <2> QED BY <2>1, <2>2
  <1>2. DeletionKnows(d) BY DEF ServerInv
  <1> DEFINE To(l) == pc' = [pc EXCEPT ![d] = l] /\ pc'[d] = l
  \* A step of it whose victim it knows already.
  <1>4. ASSUME pc[d] \notin Idle, NEW l \in StepsOfDeletion \ {"none"}, To(l),
               UNCHANGED <<victim, sshd>>,
               l \in {"stop", "join"} \cup Cleaning => victim[d] \notin conduits',
               l \in Cleaning => victim[d] \notin pumping'
        PROVE  DeletionKnows(d)'
    <2>1. /\ victim'[d] = victim[d]
          /\ victim[d] \in Instance /\ NameFor(victim[d]) = NameOf[d]
          /\ Listens(victim[d])
      BY <1>2, <1>4 DEF DeletionKnows
    <2>2. \E p \in Port : sshd'[p] = victim'[d] BY <1>4, <2>1 DEF Listens
    <2>3. victim[d] \in Creation =>
              pc[victim[d]] = "done" /\ victim[d] \in Request /\ victim[d] # d
      BY <1>2, NamesOfRequests DEF DeletionKnows
    <2>4. victim'[d] \in Creation => pc'[victim'[d]] = "done"
      BY <1>0, <1>4, <2>1, <2>3
    <2> QED BY <1>4, <2>1, <2>2, <2>4 DEF DeletionKnows, Listens
  <1>5. CASE FindConduit(d)
    <2>1. CASE \E i \in conduits : /\ NameFor(i) = NameOf[d]
                                   /\ victim' = [victim EXCEPT ![d] = i]
                                   /\ Goto(d, "remove")
      <3>1. PICK i \in conduits : /\ NameFor(i) = NameOf[d]
                                  /\ victim' = [victim EXCEPT ![d] = i]
                                  /\ Goto(d, "remove")
        BY <2>1
      <3>2. /\ To("remove") /\ victim'[d] = i
            /\ \A e \in Deletion \ {d} : victim'[e] = victim[e]
            /\ UNCHANGED <<diskVars, serverVars, threadVars, pump>>
        BY <1>0, <1>5, <3>1 DEF FindConduit
      <3>3. Listens(i) /\ Hosted(i) BY DEF ServerInv, Hosted, PumpInPlace
      <3>4. Listens(i)' BY <3>2, <3>3 DEF Listens
      <3>5. i \in Creation => pc'[i] = "done"
        BY <1>0, <3>2, <3>3, NamesOfRequests DEF Hosted
      <3>6. DeletionKnows(d)'
        BY <1>0, <3>1, <3>2, <3>4, <3>5 DEF DeletionKnows, Cleaning
      <3>7. DeletionKeeps(d)
        BY <1>1, <3>2, <3>6 DEF DeletionKeeps, StepsOfDeletion, Idle
      <3> QED BY <3>7, DeletionFrame
    <2>2. CASE Goto(d, "done") /\ UNCHANGED victim
      <3>1. /\ pc[d] = "none" /\ To("done")
            /\ UNCHANGED <<diskVars, serverVars, threadVars, pump, victim>>
        BY <1>0, <1>5, <2>2 DEF FindConduit
      <3>2. victim'[d] \in Creation => pc'[victim'[d]] = "done"
        BY <1>0, <1>2, <3>1, NamesOfRequests DEF DeletionKnows
      <3>3. DeletionKnows(d)' BY <3>1, <3>2 DEF DeletionKnows, Cleaning, Idle
      <3>4. DeletionKeeps(d)
        BY <1>1, <3>1, <3>3 DEF DeletionKeeps, StepsOfDeletion, Idle
      <3> QED BY <3>4, DeletionFrame
    <2> QED BY <1>5, <2>1, <2>2 DEF FindConduit
  <1>6. CASE RemoveConduit(d)
    <2>1. /\ pc[d] = "remove" /\ To("stop") /\ conduits' = conduits \ {victim[d]}
          /\ UNCHANGED <<diskVars, server, toStart, threadVars, pump, victim>>
      BY <1>0, <1>6 DEF RemoveConduit
    <2>2. "stop" \in StepsOfDeletion \ {"none"} BY DEF StepsOfDeletion
    <2>3. DeletionKnows(d)' BY <1>4, <2>1, <2>2 DEF Idle, Cleaning
    <2> QED BY <1>1, <2>1, <2>2, <2>3, DeletionFrame DEF DeletionKeeps
  <1>7. CASE Stop(d)
    <2>1. /\ pc[d] = "stop" /\ To("join") /\ keepRunning' = keepRunning \ {victim[d]}
          /\ UNCHANGED <<diskVars, serverVars, sshd, pumping, pump, victim>>
      BY <1>0, <1>7 DEF Stop
    <2>2. "join" \in StepsOfDeletion \ {"none"} BY DEF StepsOfDeletion
    <2>3. victim[d] \notin conduits' BY <1>2, <2>1 DEF DeletionKnows
    <2>4. DeletionKnows(d)' BY <1>4, <2>1, <2>2, <2>3 DEF Idle, Cleaning
    <2> QED BY <1>1, <2>1, <2>2, <2>4, DeletionFrame DEF DeletionKeeps
  <1>8. CASE Join(d)
    <2>1. /\ pc[d] = "join" /\ To("delete workspace") /\ victim[d] \notin pumping
          /\ UNCHANGED <<diskVars, serverVars, threadVars, pump, victim>>
      BY <1>0, <1>8 DEF Join
    <2>2. "delete workspace" \in StepsOfDeletion \ {"none"}
      BY DEF StepsOfDeletion, Cleaning, Idle
    <2>3. victim[d] \notin conduits' BY <1>2, <2>1 DEF DeletionKnows
    <2>4. DeletionKnows(d)' BY <1>4, <2>1, <2>2, <2>3 DEF Idle
    <2> QED BY <1>1, <2>1, <2>2, <2>4, DeletionFrame DEF DeletionKeeps
  <1>9. CASE DeleteWorkspace(d) \/ DeleteDirectory(d)
    <2>1. PICK l \in {"done", "delete directory"} : pc' = [pc EXCEPT ![d] = l]
      BY <1>9 DEF DeleteWorkspace, DeleteDirectory
    <2>2. /\ pc[d] \in Cleaning /\ To(l)
          /\ \A m \in Name \ {NameOf[d]} :
                dir'[m] = dir[m] /\ workspace'[m] = workspace[m]
          /\ UNCHANGED <<ports, serverVars, threadVars, pump, victim>>
      BY <1>0, <1>9, <2>1 DEF DeleteWorkspace, DeleteDirectory, Cleaning
    <2>3. l \in StepsOfDeletion \ {"none"} /\ pc[d] \notin Idle
      BY <2>2 DEF StepsOfDeletion, Cleaning, Idle
    <2>4. victim[d] \notin conduits' /\ victim[d] \notin pumping'
      BY <1>2, <2>2 DEF DeletionKnows
    <2>5. DeletionKnows(d)' BY <1>4, <2>2, <2>3, <2>4
    <2> QED BY <1>1, <2>2, <2>3, <2>5, DeletionFrame DEF DeletionKeeps
  <1> QED BY <1>5, <1>6, <1>7, <1>8, <1>9 DEF Deleting

-----------------------------------------------------------------------------
(* The end of a pump, crash and restart                                     *)

\* When the server ends only the files are left, and no request is under way.
LEMMA ServerEnds ==
    ASSUME ServerInv, OnePortEach', server' = "down",
           conduits' = {}, pumping' = {}, \A p \in Port : sshd'[p] = None,
           \A t \in Request : pc'[t] \in Idle /\ (pc'[t] = "none" <=> pc[t] = "none"),
           UNCHANGED pump,
           \A d \in Deletion : victim'[d] = victim[d] \/ victim'[d] = None
    PROVE  ServerInv'
  <1>1. (StepsKnown /\ DaemonAtPort /\ OneCreation /\ OnlyWhenUp
          /\ NoneWhenDown /\ FirstDaemons)'
    BY NamesOfRequests DEF StepsKnown, StepsOfCreation, StepsOfDeletion, DaemonAtPort,
       OneCreation, OnlyWhenUp, NoneWhenDown, FirstDaemons
  <1>2. ASSUME NEW c \in Creation PROVE (CreationKnows(c) /\ Quiet(c))'
    <2>1. pc'[c] \in Idle /\ (pc'[c] = "none" => ~pump[c])
      BY NamesOfRequests DEF ServerInv, CreationKnows
    <2> QED BY <2>1 DEF CreationKnows, Quiet, PastCheck, Idle, BeforeDaemon, Started
  <1>3. ASSUME NEW d \in Deletion PROVE DeletionKnows(d)'
    <2>1. pc'[d] \in Idle BY NamesOfRequests
    <2>2. victim'[d] \in Creation => pc'[victim'[d]] = "done"
      <3> SUFFICES ASSUME victim'[d] \in Creation PROVE pc'[victim'[d]] = "done"
        OBVIOUS
      <3>1. victim'[d] = victim[d] BY NamesOfRequests
      <3>2. pc[victim[d]] = "done" /\ victim[d] \in Request
        BY <3>1, NamesOfRequests DEF ServerInv, DeletionKnows
      <3> QED BY <3>1, <3>2 DEF Idle
    <2> QED BY <2>1, <2>2 DEF DeletionKnows, Idle, Cleaning
  <1> QED BY <1>1, <1>2, <1>3 DEF ServerInv

\* A server that starts gives the port of a name to the instance it makes of
\* the name's directory: no other can have it.
LEMMA StartingStep ==
    ASSUME TypeOK, TypeOK', ServerInv, NEW n \in Name, StartConduit(n)
    PROVE  ServerInv'
  <1> USE DEF threadVars, callVars
  <1>1. /\ server = "starting" /\ n \in toStart /\ toStart' = toStart \ {n}
        /\ UNCHANGED <<server, workspace, pc, pump, victim>>
    BY DEF StartConduit
  <1>2. \A t \in Request : pc[t] \in Idle BY <1>1 DEF ServerInv, OnlyWhenUp
  <1>3. \A i \in Instance : Listens(i) => i \in Name \ toStart
    BY <1>1, NamesOfRequests DEF ServerInv, FirstDaemons, Listens
  <1>4. \A i \in pumping : /\ Listens(i) /\ i \in Name \ toStart /\ NameFor(i) = i
                           /\ dir[i] = "conduit"
    BY <1>3, NamesOfRequests DEF ServerInv, PumpInPlace, LeftBehind, TypeOK
  <1>5. \A i \in conduits : i \in Name /\ i \in pumping \cap keepRunning
    BY <1>4 DEF ServerInv, Hosted
  <1>6. StepsKnown' /\ OneCreation' /\ (OnlyWhenUp /\ NoneWhenDown)'
    BY <1>1, <1>2
    DEF ServerInv, StepsKnown, OneCreation, OnlyWhenUp, NoneWhenDown
  <1>7. ASSUME NEW c \in Creation, pumping' \subseteq Name
        PROVE  (CreationKnows(c) /\ Quiet(c))'
    <2>1. pc'[c] \in Idle /\ (pc'[c] = "none" => ~pump'[c]) /\ c \notin pumping'
      BY <1>1, <1>2, <1>7, NamesOfRequests DEF ServerInv, CreationKnows
    <2> QED BY <2>1 DEF CreationKnows, Quiet, PastCheck, Idle, BeforeDaemon, Started
  <1>8. ASSUME NEW d \in Deletion PROVE DeletionKnows(d)'
    <2>1. pc'[d] \in Idle /\ (victim[d] \in Creation => pc[victim[d]] = "done")
      BY <1>1, <1>2, NamesOfRequests DEF ServerInv, DeletionKnows
    <2> QED BY <1>1, <2>1 DEF DeletionKnows, Idle, Cleaning
  <1>9. CASE dir[n] = "empty"
    <2>1. /\ \A m \in Name \ {n} : dir'[m] = dir[m]
          /\ UNCHANGED <<ports, conduits, sshd, pumping, keepRunning>>
      BY <1>9 DEF StartConduit, TypeOK
    <2>2. (OnePortEach /\ DaemonAtPort /\ FirstDaemons)'
      BY <1>1, <2>1 DEF ServerInv, OnePortEach, DaemonAtPort, FirstDaemons
    <2>3. ASSUME NEW i \in pumping' PROVE PumpInPlace(i)'
      <3>1. i # n /\ dir'[i] = "conduit" /\ Listens(i) /\ NameFor(i) = i
        BY <1>1, <1>4, <2>1
      <3> QED BY <2>1, <3>1 DEF PumpInPlace, Listens
    <2>4. ASSUME NEW i \in conduits' PROVE Hosted(i)'
      BY <1>5, <2>1, NamesOfRequests DEF Hosted
    <2>5. pumping' \subseteq Name BY <1>4, <2>1
    <2> QED BY <1>6, <1>7, <1>8, <2>2, <2>3, <2>4, <2>5 DEF ServerInv
  <1>10. CASE dir[n] # "empty"
    <2>1. /\ dir[n] = "conduit" /\ HasPort(n) /\ ports' = AssignPort(n)
          /\ pumping' = pumping \cup {n} /\ keepRunning' = keepRunning \cup {n}
          /\ conduits' = conduits \cup {n} /\ dir' = dir
      BY <1>10 DEF StartConduit
    <2>2. PICK p \in DOMAIN ports' : ports'[p] = n /\ sshd' = [sshd EXCEPT ![p] = n]
      BY <1>10 DEF StartConduit
    <2>3. p \in Port /\ sshd'[p] = n /\ \A q \in Port \ {p} : sshd'[q] = sshd[q]
      BY <2>2 DEF TypeOK
    <2>4. /\ \A q \in DOMAIN ports : q \in DOMAIN ports' /\ ports'[q] = ports[q]
          /\ OnePortEach'
      BY <2>1, PortsStayApart DEF ServerInv
    <2>5. sshd[p] = None
      <3> SUFFICES ASSUME sshd[p] # None PROVE FALSE OBVIOUS
      <3>1. p \in DOMAIN ports /\ ports[p] = NameFor(sshd[p])
        BY <2>3 DEF ServerInv, DaemonAtPort
      <3>2. sshd[p] \in Name \ toStart BY <1>1, <2>3 DEF ServerInv, FirstDaemons
      <3>3. sshd[p] = n BY <2>2, <2>4, <3>1, <3>2, NamesOfRequests
      <3> QED BY <1>1, <3>2, <3>3
    <2>6. \A i \in Instance : Listens(i) => Listens(i)'
      BY <2>3, <2>5, NamesOfRequests DEF Listens
    <2>7. Listens(n)' BY <2>3 DEF Listens
    <2>8. DaemonAtPort'
      BY <2>2, <2>3, <2>4, NamesOfRequests DEF ServerInv, DaemonAtPort
    <2>9. FirstDaemons'
      BY <1>1, <2>3 DEF ServerInv, FirstDaemons
    <2>10. ASSUME NEW i \in pumping' PROVE PumpInPlace(i)'
      <3>1. i \in Instance /\ NameFor(i) = i /\ Listens(i)' /\ dir'[i] = "conduit"
        BY <1>4, <2>1, <2>6, <2>7, NamesOfRequests
      <3> QED BY <3>1 DEF PumpInPlace
    <2>11. ASSUME NEW i \in conduits' PROVE Hosted(i)'
      BY <1>5, <2>1, NamesOfRequests DEF Hosted
    <2>12. pumping' \subseteq Name BY <1>4, <2>1
    <2> QED BY <1>6, <1>7, <1>8, <2>4, <2>8, <2>9, <2>10, <2>11, <2>12 DEF ServerInv
  <1> QED BY <1>9, <1>10

LEMMA RestartStep ==
    ASSUME TypeOK, TypeOK', ServerInv,
           \/ \E i \in Instance : PumpEnds(i)
           \/ Crash \/ StartServer \/ Serve
           \/ \E n \in Name : StartConduit(n) \/ StartFails(n)
    PROVE  ServerInv'
  <1> USE DEF diskVars, serverVars, threadVars, callVars
  <1>1. ASSUME NEW i \in Instance, PumpEnds(i) PROVE ServerInv'
    <2>1. /\ i \notin keepRunning /\ pumping' = pumping \ {i}
          /\ UNCHANGED <<diskVars, serverVars, sshd, keepRunning, callVars>>
      BY <1>1 DEF PumpEnds
    <2>2. (StepsKnown /\ OnePortEach /\ DaemonAtPort /\ OneCreation /\ OnlyWhenUp
            /\ NoneWhenDown /\ FirstDaemons)'
      BY <2>1 DEF ServerInv, StepsKnown, OnePortEach, DaemonAtPort, OneCreation,
         OnlyWhenUp, NoneWhenDown, FirstDaemons
    <2>3. ASSUME NEW j \in Instance
          PROVE  (Listens(j)' <=> Listens(j)) /\ (LeftBehind(j)' <=> LeftBehind(j))
      BY <2>1 DEF Listens, LeftBehind
    <2>4. ASSUME NEW c \in Creation PROVE (CreationKnows(c) /\ Quiet(c))'
      <3>1. CreationKnows(c) /\ Quiet(c) /\ c \in Instance
        BY NamesOfRequests DEF ServerInv
      <3>2. PortsOf(NameOf[c])' = PortsOf(NameOf[c]) BY <2>1 DEF PortsOf
      <3>3. CreationKnows(c)' BY <2>1, <2>3, <3>1, <3>2 DEF CreationKnows
      <3>4. Quiet(c)' BY <2>1, <2>3, <3>1 DEF Quiet, TypeOK
      <3> QED BY <3>3, <3>4
    <2>5. ASSUME NEW d \in Deletion PROVE DeletionKnows(d)'
      BY <2>1, <2>3 DEF ServerInv, DeletionKnows
    <2>6. ASSUME NEW j \in pumping' PROVE PumpInPlace(j)'
      <3>1. j \in Instance /\ PumpInPlace(j) BY <2>1 DEF ServerInv, TypeOK
      <3> QED BY <2>1, <2>3, <3>1 DEF PumpInPlace
    <2>7. ASSUME NEW j \in conduits' PROVE Hosted(j)'
      BY <2>1 DEF ServerInv, Hosted
    <2> QED BY <2>2, <2>4, <2>5, <2>6, <2>7 DEF ServerInv
  <1>2. CASE Crash
    <2>1. OnePortEach'
      <3>1. CASE UNCHANGED ports BY <3>1 DEF ServerInv, OnePortEach
      <3>2. CASE ~UNCHANGED ports
        <4>1. PICK left \in SUBSET DOMAIN ports : ports' = Restrict(ports, left)
          BY <1>2, <3>2 DEF Crash
        <4>2. DOMAIN ports' = left /\ \A p \in left : ports'[p] = ports[p]
          BY <4>1 DEF Restrict
        <4> QED BY <4>2 DEF ServerInv, OnePortEach
      <3> QED BY <3>1, <3>2
    <2> QED BY <1>2, <2>1, ServerEnds DEF Crash, Idle
  <1>3. ASSUME NEW n \in Name, StartFails(n) PROVE ServerInv'
    <2>1. \/ ports' = ports
          \/ HasPort(n) /\ ports' = AssignPort(n)
      BY <1>3 DEF StartFails
    <2>2. OnePortEach' BY <2>1, PortsStayApart DEF ServerInv
    <2>3. \A t \in Request : pc[t] \in Idle
      BY <1>3 DEF StartFails, ServerInv, OnlyWhenUp
    <2> QED BY <1>3, <2>2, <2>3, ServerEnds DEF StartFails
  <1>4. CASE StartServer \/ Serve
    <2>1. UNCHANGED <<diskVars, conduits, threadVars, callVars>>
      BY <1>4 DEF StartServer, Serve
    <2>2. OnlyWhenUp' /\ NoneWhenDown' /\ FirstDaemons'
      BY <1>4 DEF StartServer, Serve, ServerInv, OnlyWhenUp, NoneWhenDown, FirstDaemons
    <2>3. (StepsKnown /\ OnePortEach /\ DaemonAtPort /\ OneCreation)'
      BY <2>1 DEF ServerInv, StepsKnown, OnePortEach, DaemonAtPort, OneCreation
    <2>4. ASSUME NEW i \in Instance
          PROVE  (Listens(i)' <=> Listens(i)) /\ (LeftBehind(i)' <=> LeftBehind(i))
      BY <2>1 DEF Listens, LeftBehind
    <2>5. ASSUME NEW c \in Creation PROVE (CreationKnows(c) /\ Quiet(c))'
      <3>1. CreationKnows(c) /\ Quiet(c) /\ c \in Instance
        BY NamesOfRequests DEF ServerInv
      <3>2. PortsOf(NameOf[c])' = PortsOf(NameOf[c]) BY <2>1 DEF PortsOf
      <3>3. CreationKnows(c)' BY <2>1, <2>4, <3>1, <3>2 DEF CreationKnows
      <3>4. Quiet(c)' BY <2>1, <2>4, <3>1 DEF Quiet, TypeOK
      <3> QED BY <3>3, <3>4
    <2>6. ASSUME NEW d \in Deletion PROVE DeletionKnows(d)'
      BY <2>1, <2>4 DEF ServerInv, DeletionKnows
    <2>7. ASSUME NEW i \in pumping' PROVE PumpInPlace(i)'
      <3>1. i \in Instance /\ PumpInPlace(i) BY <2>1 DEF ServerInv, TypeOK
      <3> QED BY <2>1, <2>4, <3>1 DEF PumpInPlace
    <2>8. ASSUME NEW i \in conduits' PROVE Hosted(i)'
      BY <2>1 DEF ServerInv, Hosted
    <2> QED BY <2>2, <2>3, <2>5, <2>6, <2>7, <2>8 DEF ServerInv
  <1> QED BY <1>1, <1>2, <1>3, <1>4, StartingStep

-----------------------------------------------------------------------------
(* What it means for the conduits                                           *)

LEMMA ServerInit == Init => ServerInv
  <1> SUFFICES ASSUME Init PROVE ServerInv OBVIOUS
  <1>1. \A t \in Request : pc[t] = "none" BY DEF Init
  <1>2. StepsKnown /\ OneCreation /\ OnlyWhenUp
    BY <1>1, NamesOfRequests
    DEF StepsKnown, StepsOfCreation, StepsOfDeletion, OneCreation, OnlyWhenUp, Idle
  <1>3. OnePortEach /\ DaemonAtPort /\ NoneWhenDown /\ FirstDaemons
    BY DEF Init, OnePortEach, DaemonAtPort, NoneWhenDown, FirstDaemons
  <1>4. ASSUME NEW c \in Creation PROVE CreationKnows(c) /\ Quiet(c)
    BY <1>1, NamesOfRequests
    DEF Init, CreationKnows, Quiet, PastCheck, Idle, BeforeDaemon, Started
  <1>5. ASSUME NEW d \in Deletion PROVE DeletionKnows(d)
    BY <1>1, NamesOfRequests DEF Init, DeletionKnows, Idle, Cleaning
  <1> QED BY <1>2, <1>3, <1>4, <1>5 DEF Init, ServerInv

LEMMA ServerStep ==
    "twins" \notin Rare /\ TypeOK /\ TypeOK' /\ ServerInv /\ [Next]_vars => ServerInv'
  <1> SUFFICES ASSUME "twins" \notin Rare, TypeOK, TypeOK', ServerInv, [Next]_vars
               PROVE  ServerInv'
    OBVIOUS
  <1>1. CASE UNCHANGED vars
    <2> USE <1>1 DEF vars, diskVars, serverVars, threadVars, callVars
    <2>1. (StepsKnown /\ OnePortEach /\ DaemonAtPort /\ OneCreation /\ OnlyWhenUp
            /\ NoneWhenDown /\ FirstDaemons)'
      BY DEF ServerInv, StepsKnown, OnePortEach, DaemonAtPort, OneCreation, OnlyWhenUp,
         NoneWhenDown, FirstDaemons
    <2>2. \A c \in Creation : (CreationKnows(c) /\ Quiet(c))'
      BY DEF ServerInv, CreationKnows, Quiet, Listens, LeftBehind, PortsOf
    <2>3. \A d \in Deletion : DeletionKnows(d)'
      BY DEF ServerInv, DeletionKnows, Listens
    <2>4. \A i \in pumping' : PumpInPlace(i)'
      BY DEF ServerInv, PumpInPlace, Listens, LeftBehind
    <2>5. \A i \in conduits' : Hosted(i)' BY DEF ServerInv, Hosted
    <2> QED BY <2>1, <2>2, <2>3, <2>4, <2>5 DEF ServerInv
  <1> QED BY <1>1, CreatingStep, DeletingStep, RestartStep DEF Next

\* Each request and each pump knows what it relies on, whoever else comes and
\* goes, as long as no one asks for a name that is being created.
THEOREM ServerCorrect == "twins" \notin Rare => (Spec => [](TypeOK /\ ServerInv))
  <1> SUFFICES ASSUME "twins" \notin Rare PROVE Spec => [](TypeOK /\ ServerInv)
    OBVIOUS
  <1>1. Init => TypeOK /\ ServerInv BY ServerTypeInit, ServerInit
  <1>2. (TypeOK /\ ServerInv) /\ [Next]_vars => (TypeOK /\ ServerInv)'
    BY ServerTypeStep, ServerStep
  <1> QED BY <1>1, <1>2, PTL DEF Spec

\* A conduit that is listed has its daemon and its pump, which was not told to
\* stop, and its directory and workspace are there: it is taken off the list
\* before anything of it ends, and no failed creation cleans up another's.
THEOREM ListedIsWhole == "twins" \notin Rare => (Spec => []HostedIsWhole)
  <1>1. ServerInv /\ TypeOK => HostedIsWhole
    <2> SUFFICES ASSUME ServerInv, TypeOK, NEW i \in conduits
                 PROVE  /\ dir[NameFor(i)] = "conduit"
                        /\ i \in Creation => workspace[NameFor(i)]
                        /\ i \in pumping \cap keepRunning
                        /\ \E p \in PortsOf(NameFor(i)) : sshd[p] = i
      BY DEF HostedIsWhole
    <2>1. i \in Instance /\ Hosted(i) /\ i \in pumping
      BY DEF ServerInv, Hosted, TypeOK
    <2>2. Listens(i) /\ dir[NameFor(i)] = "conduit"
      BY <2>1 DEF ServerInv, PumpInPlace, LeftBehind
    <2>3. i \in Creation => workspace[NameFor(i)]
      BY <2>1, NamesOfRequests DEF Hosted
    <2>4. PICK p \in Port : sshd[p] = i BY <2>2 DEF Listens
    <2>5. p \in PortsOf(NameFor(i))
      BY <2>1, <2>4, NamesOfRequests DEF ServerInv, DaemonAtPort, PortsOf
    <2> QED BY <2>1, <2>2, <2>3, <2>4, <2>5 DEF Hosted
  <1> QED BY <1>1, ServerCorrect, PTL

LEMMA AtMostOne ==
    ASSUME NEW S, \A x, y \in S : x = y
    PROVE  Cardinality(S) <= 1
  <1>1. CASE S = {} BY <1>1, FS_EmptySet
  <1>2. CASE S # {}
    <2>1. PICK x \in S : TRUE BY <1>2
    <2>2. S = {x} BY <2>1
    <2> QED BY <2>2, FS_Singleton
  <1> QED BY <1>1, <1>2

\* No two pumps, no two creations and no pump and creation work in one
\* directory: two that listen for one name share a port, and so are the same,
\* and a creation that got past its check met nobody's directory.
THEOREM NobodySharesADirectory ==
    "twins" \notin Rare => (Spec => []OneWorkerPerDirectory)
  <1>1. ServerInv /\ TypeOK => OneWorkerPerDirectory
    <2> SUFFICES ASSUME ServerInv, TypeOK, NEW n \in Name
                 PROVE  Cardinality(Workers(n)) <= 1
      BY DEF OneWorkerPerDirectory
    <2> DEFINE Pumps == {i \in pumping : NameFor(i) = n /\ ~LeftBehind(i)}
               Makers == {c \in Creation : NameOf[c] = n /\ pc[c] \in
                             {"init", "record", "first sync", "port", "daemon", "start"}}
    <2>1. \A i, j \in Pumps : i = j
      BY OneListens DEF ServerInv, PumpInPlace, TypeOK
    <2>2. \A b, c \in Makers : b = c BY DEF ServerInv, OneCreation, Idle
    <2>3. \A i \in Pumps, c \in Makers : i = c
      <3> SUFFICES ASSUME NEW i \in Pumps, NEW c \in Makers PROVE i = c OBVIOUS
      <3>1. pc[c] \in PastCheck
        BY DEF PastCheck, StepsOfCreation, BeforeDaemon, Started, Idle
      <3> QED BY <3>1 DEF ServerInv, Quiet
    <2>4. Workers(n) = Pumps \cup Makers BY DEF Workers
    <2> HIDE DEF Pumps, Makers
    <2>5. \A x, y \in Workers(n) : x = y BY <2>1, <2>2, <2>3, <2>4
    <2> QED BY <2>5, AtMostOne
  <1> QED BY <1>1, ServerCorrect, PTL
=============================================================================
