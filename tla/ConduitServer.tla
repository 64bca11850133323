---------------------------- MODULE ConduitServer ----------------------------
(***************************************************************************)
(* The server that hosts the conduits (ConduitServerMain): requests to     *)
(* create a conduit, each a ConduitCreationThread, requests to delete one, *)
(* each a thread of the web server, the pump thread and the SSH daemon of  *)
(* every conduit, and the restart of the server after a crash.             *)
(*                                                                         *)
(* On disk a conduit is a directory, a Perforce workspace and a line of    *)
(* ports.txt; in memory it is an instance: an entry of the list of         *)
(* conduits, a pump thread, and an SSH daemon that holds the port for as   *)
(* long as the server lives. No lock relates the one to the other.         *)
(***************************************************************************)
EXTENDS Naturals, FiniteSets, FiniteSetsExt, Functions

CONSTANTS
    Name,       \* names of conduits
    Creation,   \* the requests to create one
    Deletion,   \* the requests to delete one
    NameOf,     \* the name each request is about
    Port,       \* LOW_PORT .. HIGH_PORT_LIMIT - 1
    Rare,       \* which rare events a run includes, of RareEvents
    None        \* no instance

RareEvents == {"crash", "p4 fails", "twins"}

\* Whoever creates a conduit is the instance it becomes; the instance that a
\* restarted server makes of a directory is the name of it.
Instance == Creation \cup Name
Request == Creation \cup Deletion

ASSUME ConstantsAssumption ==
    /\ NameOf \in [Request -> Name]
    /\ Port \subseteq Nat /\ IsFiniteSet(Port)
    /\ Rare \subseteq RareEvents
    /\ Creation \cap Deletion = {} /\ Request \cap Name = {}
    /\ None \notin Instance

VARIABLES
    dir,        \* each conduit's directory: "absent", "empty", with a
                \* "git" repository, or a "conduit" with its .scm-conduit
    workspace,  \* its Perforce workspace exists
    ports,      \* ports.txt
    server,     \* "up", "down" or "starting"
    toStart,    \* the directories a starting server has yet to look at
    conduits,   \* ConduitServerMain.conduits
    sshd,       \* the instance whose daemon holds each port
    pumping,    \* the instances whose pump thread runs
    keepRunning,\* the instances that were not told to stop
    pc,         \* where each request is
    pump,       \* ConduitCreationThread.pump is set
    victim      \* the conduit a deletion found

diskVars   == <<dir, workspace, ports>>
serverVars == <<server, toStart, conduits>>
threadVars == <<sshd, pumping, keepRunning>>
callVars   == <<pc, pump, victim>>
vars == <<diskVars, serverVars, threadVars, callVars>>

NameFor(i) == IF i \in Name THEN i ELSE NameOf[i]

Init ==
    /\ dir = [n \in Name |-> "absent"]
    /\ workspace = [n \in Name |-> FALSE]
    /\ ports = [p \in {} |-> None]
    /\ server = "up"
    /\ toStart = {}
    /\ conduits = {}
    /\ sshd = [p \in Port |-> None]
    /\ pumping = {}
    /\ keepRunning = {}
    /\ pc = [t \in Request |-> "none"]
    /\ pump = [c \in Creation |-> FALSE]
    /\ victim = [d \in Deletion |-> None]

Goto(t, label) == pc' = [pc EXCEPT ![t] = label]

-----------------------------------------------------------------------------
(* sshPortForConduitNamed                                                   *)

PortsOf(n) == {p \in DOMAIN ports : ports[p] = n}
FreePorts == Port \ DOMAIN ports
HasPort(n) == PortsOf(n) # {} \/ FreePorts # {}

\* Mutant: the first port no daemon holds.
AssignIdle(n) ==
    IF PortsOf(n) # {} THEN ports
    ELSE LET p == Min({q \in Port : sshd[q] = None} \cup FreePorts)
         IN [q \in DOMAIN ports \cup {p} |-> IF q = p THEN n ELSE ports[q]]

\* Mutant: the ports are counted from one more, up to one more.
AssignNext(n) ==
    IF PortsOf(n) # {} THEN ports
    ELSE LET p == Min({q + 1 : q \in Port} \ DOMAIN ports)
         IN [q \in DOMAIN ports \cup {p} |-> IF q = p THEN n ELSE ports[q]]

\* ports.txt with a port for n, which is the first free one unless n has one.
AssignPort(n) ==
    IF PortsOf(n) # {} THEN ports
    ELSE LET p == Min(FreePorts)
         IN [q \in DOMAIN ports \cup {p} |-> IF q = p THEN n ELSE ports[q]]

PortOf(n) == CHOOSE p \in PortsOf(n) : TRUE

-----------------------------------------------------------------------------
(* ConduitCreationThread.run                                                *)

\* Without twins no one asks for a name while it is being created.
AddConduit(c) ==
    /\ server = "up"
    /\ pc[c] = "none"
    /\ \/ "twins" \in Rare
       \/ \A b \in Creation : NameOf[b] = NameOf[c] => pc[b] \in {"none", "done"}
    /\ Goto(c, "check")
    /\ UNCHANGED <<diskVars, serverVars, threadVars, pump, victim>>

\* An exception: the pump, if there is one yet, deletes what was made.
Fail(c) == Goto(c, IF pump[c] THEN "delete workspace" ELSE "done")

CheckName(c) ==
    /\ pc[c] = "check"
    /\ IF dir[NameOf[c]] = "absent" THEN Goto(c, "mkdirs") ELSE Fail(c)
    /\ UNCHANGED <<diskVars, serverVars, threadVars, pump, victim>>

MakeDirectory(c) ==
    /\ pc[c] = "mkdirs"
    /\ dir' = [dir EXCEPT ![NameOf[c]] = IF @ = "absent" THEN "empty" ELSE @]
    /\ Goto(c, "client")
    /\ UNCHANGED <<workspace, ports, serverVars, threadVars, pump, victim>>

MakeWorkspace(c) ==
    /\ pc[c] = "client"
    /\ \/ /\ workspace' = [workspace EXCEPT ![NameOf[c]] = TRUE]
          /\ Goto(c, "init")
       \/ /\ "p4 fails" \in Rare
          /\ Fail(c)
          /\ UNCHANGED workspace
    /\ UNCHANGED <<dir, ports, serverVars, threadVars, pump, victim>>

\* git init and a first commit. If the directory is gone, git may make it again.
InitGit(c) ==
    /\ pc[c] = "init"
    /\ \/ /\ dir' = [dir EXCEPT ![NameOf[c]] = IF @ = "conduit" THEN @ ELSE "git"]
          /\ Goto(c, "record")
       \/ /\ dir[NameOf[c]] = "absent"
          /\ Fail(c)
          /\ UNCHANGED dir
    /\ UNCHANGED <<workspace, ports, serverVars, threadVars, pump, victim>>

\* .scm-conduit is written and the observer gets the pump.
WriteRecord(c) ==
    /\ pc[c] = "record"
    /\ IF dir[NameOf[c]] = "absent"
       THEN /\ Fail(c)
            /\ UNCHANGED <<dir, pump>>
       ELSE /\ dir' = [dir EXCEPT ![NameOf[c]] = "conduit"]
            /\ pump' = [pump EXCEPT ![c] = TRUE]
            /\ Goto(c, "first sync")
    /\ UNCHANGED <<workspace, ports, serverVars, threadVars, victim>>

\* initialSync or the first commit, in the directory and with Perforce.
FirstSync(c) ==
    /\ pc[c] = "first sync"
    /\ \/ /\ dir[NameOf[c]] = "conduit"
          /\ Goto(c, "port")
       \/ /\ dir[NameOf[c]] # "conduit" \/ "p4 fails" \in Rare
          /\ Fail(c)
    /\ UNCHANGED <<diskVars, serverVars, threadVars, pump, victim>>

FindPort(c) ==
    /\ pc[c] = "port"
    /\ IF HasPort(NameOf[c])
       THEN /\ ports' = AssignPort(NameOf[c])
            /\ Goto(c, "daemon")
       ELSE /\ Fail(c)
            /\ UNCHANGED ports
    /\ UNCHANGED <<dir, workspace, serverVars, threadVars, pump, victim>>

\* The constructor of ConduitOrchestrator ends with a daemon that listens.
StartDaemon(c) ==
    LET p == PortOf(NameOf[c]) IN
    /\ pc[c] = "daemon"
    /\ IF dir[NameOf[c]] = "conduit" /\ sshd[p] = None
       THEN /\ sshd' = [sshd EXCEPT ![p] = c]
            /\ Goto(c, "start")
       ELSE /\ Fail(c)
            /\ UNCHANGED sshd
    /\ UNCHANGED <<diskVars, serverVars, pumping, keepRunning, pump, victim>>

StartPumping(c) ==
    /\ pc[c] = "start"
    /\ pumping' = pumping \cup {c}
    /\ keepRunning' = keepRunning \cup {c}
    /\ Goto(c, "host")
    /\ UNCHANGED <<diskVars, serverVars, sshd, pump, victim>>

\* The constructor of HostableConduit asks Perforce for the view.
Host(c) ==
    /\ pc[c] = "host"
    /\ \/ /\ dir[NameOf[c]] = "conduit"
          /\ conduits' = conduits \cup {c}
          /\ Goto(c, "done")
       \/ /\ dir[NameOf[c]] # "conduit" \/ "p4 fails" \in Rare
          /\ Fail(c)
          /\ UNCHANGED conduits
    /\ UNCHANGED <<diskVars, server, toStart, threadVars, pump, victim>>

-----------------------------------------------------------------------------
(* DELETE of a conduit, and the clean-up of a creation                      *)

FindConduit(d) ==
    /\ server = "up"
    /\ pc[d] = "none"
    /\ \/ \E i \in conduits :
            /\ NameFor(i) = NameOf[d]
            /\ victim' = [victim EXCEPT ![d] = i]
            /\ Goto(d, "remove")
       \/ /\ \A i \in conduits : NameFor(i) # NameOf[d]
          /\ Goto(d, "done")
          /\ UNCHANGED victim
    /\ UNCHANGED <<diskVars, serverVars, threadVars, pump>>

\* Mutant: the directory first, then the list.
RemoveLater(d) ==
    /\ pc[d] = "remove"
    /\ Goto(d, "stop")
    /\ UNCHANGED <<diskVars, serverVars, threadVars, pump, victim>>

RemoveConduit(d) ==
    /\ pc[d] = "remove"
    /\ conduits' = conduits \ {victim[d]}
    /\ Goto(d, "stop")
    /\ UNCHANGED <<diskVars, server, toStart, threadVars, pump, victim>>

\* Mutant: the pump is not told.
StopNothing(d) ==
    /\ pc[d] = "stop"
    /\ Goto(d, "join")
    /\ UNCHANGED <<diskVars, serverVars, threadVars, pump, victim>>

\* ConduitOrchestrator.stop ...
Stop(d) ==
    /\ pc[d] = "stop"
    /\ keepRunning' = keepRunning \ {victim[d]}
    /\ Goto(d, "join")
    /\ UNCHANGED <<diskVars, serverVars, sshd, pumping, pump, victim>>

\* ... and the pump's loop ends after its round ...
PumpEnds(i) ==
    /\ i \in pumping \ keepRunning
    /\ pumping' = pumping \ {i}
    /\ UNCHANGED <<diskVars, serverVars, sshd, keepRunning, callVars>>

\* Mutant: stop does not wait for the thread.
JoinNothing(d) ==
    /\ pc[d] = "join"
    /\ Goto(d, "delete workspace")
    /\ UNCHANGED <<diskVars, serverVars, threadVars, pump, victim>>

\* ... which stop waits for.
Join(d) ==
    /\ pc[d] = "join"
    /\ victim[d] \notin pumping
    /\ Goto(d, "delete workspace")
    /\ UNCHANGED <<diskVars, serverVars, threadVars, pump, victim>>

\* The pump's delete reads .scm-conduit, and deletes the workspace.
DeleteWorkspace(t) ==
    /\ pc[t] = "delete workspace"
    /\ \/ /\ dir[NameOf[t]] = "conduit"
          /\ workspace' = [workspace EXCEPT ![NameOf[t]] = FALSE]
          /\ Goto(t, "delete directory")
       \/ /\ dir[NameOf[t]] # "conduit" \/ "p4 fails" \in Rare
          /\ Goto(t, "done")
          /\ UNCHANGED workspace
    /\ UNCHANGED <<dir, ports, serverVars, threadVars, pump, victim>>

DeleteDirectory(t) ==
    /\ pc[t] = "delete directory"
    /\ dir' = [dir EXCEPT ![NameOf[t]] = "absent"]
    /\ Goto(t, "done")
    /\ UNCHANGED <<workspace, ports, serverVars, threadVars, pump, victim>>

-----------------------------------------------------------------------------
(* Crash and restart                                                        *)

\* What was in memory is gone. A ports.txt that is being written loses lines.
Crash ==
    /\ "crash" \in Rare
    /\ server # "down"
    /\ server' = "down"
    /\ toStart' = {}
    /\ conduits' = {}
    /\ sshd' = [p \in Port |-> None]
    /\ pumping' = {}
    /\ keepRunning' = {}
    /\ pc' = [t \in Request |-> IF pc[t] = "none" THEN "none" ELSE "done"]
    /\ victim' = [d \in Deletion |-> None]
    /\ \/ UNCHANGED ports
       \/ /\ \E c \in Creation : pc[c] = "port" /\ PortsOf(NameOf[c]) = {}
          /\ \E left \in SUBSET DOMAIN ports : ports' = Restrict(ports, left)
    /\ UNCHANGED <<dir, workspace, pump>>

\* findConduits
StartServer ==
    /\ server = "down"
    /\ server' = "starting"
    /\ toStart' = {n \in Name : dir[n] # "absent"}
    /\ UNCHANGED <<diskVars, conduits, threadVars, callVars>>

\* An empty directory is deleted, any other is started.
StartConduit(n) ==
    /\ server = "starting"
    /\ n \in toStart
    /\ toStart' = toStart \ {n}
    /\ IF dir[n] = "empty"
       THEN /\ dir' = [dir EXCEPT ![n] = "absent"]
            /\ UNCHANGED <<ports, conduits, threadVars>>
       ELSE /\ dir[n] = "conduit" /\ HasPort(n)
            /\ ports' = AssignPort(n)
            /\ \E p \in DOMAIN ports' :
                  ports'[p] = n /\ sshd' = [sshd EXCEPT ![p] = n]
            /\ pumping' = pumping \cup {n}
            /\ keepRunning' = keepRunning \cup {n}
            /\ conduits' = conduits \cup {n}
            /\ UNCHANGED dir
    /\ UNCHANGED <<workspace, server, callVars>>

\* An exception ends the server. The conduit may have got its port before.
StartFails(n) ==
    /\ server = "starting"
    /\ n \in toStart
    /\ \/ dir[n] = "git"
       \/ dir[n] = "conduit" /\ (~HasPort(n) \/ "p4 fails" \in Rare)
    /\ ports' = IF HasPort(n) THEN AssignPort(n) ELSE ports
    /\ server' = "down"
    /\ toStart' = {}
    /\ conduits' = {}
    /\ sshd' = [p \in Port |-> None]
    /\ pumping' = {}
    /\ keepRunning' = {}
    /\ UNCHANGED <<dir, workspace, callVars>>

Serve ==
    /\ server = "starting"
    /\ toStart = {}
    /\ server' = "up"
    /\ UNCHANGED <<diskVars, toStart, conduits, threadVars, callVars>>

-----------------------------------------------------------------------------
Creating(c) ==
    \/ CheckName(c) \/ MakeDirectory(c) \/ MakeWorkspace(c) \/ InitGit(c)
    \/ WriteRecord(c) \/ FirstSync(c) \/ FindPort(c) \/ StartDaemon(c)
    \/ StartPumping(c) \/ Host(c) \/ DeleteWorkspace(c) \/ DeleteDirectory(c)

Deleting(d) ==
    \/ RemoveConduit(d) \/ Stop(d) \/ Join(d) \/ DeleteWorkspace(d)
    \/ DeleteDirectory(d)

Next ==
    \/ \E c \in Creation : AddConduit(c) \/ Creating(c)
    \/ \E d \in Deletion : FindConduit(d) \/ Deleting(d)
    \/ \E i \in Instance : PumpEnds(i)
    \/ Crash
    \/ StartServer \/ Serve
    \/ \E n \in Name : StartConduit(n) \/ StartFails(n)

Spec == Init /\ [][Next]_vars

\* The threads run. Nobody has to ask for anything, and the server need not be
\* started again.
FairSpec ==
    /\ Spec
    /\ \A c \in Creation : WF_vars(Creating(c))
    /\ \A d \in Deletion : WF_vars(Deleting(d))
    /\ \A i \in Instance : WF_vars(PumpEnds(i))

-----------------------------------------------------------------------------
(* Properties                                                               *)

TypeOK ==
    /\ dir \in [Name -> {"absent", "empty", "git", "conduit"}]
    /\ workspace \in [Name -> BOOLEAN]
    /\ DOMAIN ports \subseteq Port /\ Range(ports) \subseteq Name
    /\ server \in {"up", "down", "starting"}
    /\ toStart \subseteq Name
    /\ conduits \subseteq Instance
    /\ sshd \in [Port -> Instance \cup {None}]
    /\ pumping \subseteq Instance /\ keepRunning \subseteq Instance
    /\ pc \in [Request -> {"none", "check", "mkdirs", "client", "init", "record",
                           "first sync", "port", "daemon", "start", "host", "remove",
                           "stop", "join", "delete workspace", "delete directory",
                           "done"}]
    /\ pump \in [Creation -> BOOLEAN]
    /\ victim \in [Deletion -> Instance \cup {None}]

\* A conduit that is listed has its files, a pump that runs, the daemon at its
\* port and, unless it survived a crash, its workspace, whatever is created and
\* deleted beside it, and deleted twice.
HostedIsWhole ==
    \A i \in conduits :
        /\ dir[NameFor(i)] = "conduit"
        /\ i \in Creation => workspace[NameFor(i)]
        /\ i \in pumping \cap keepRunning
        /\ \E p \in PortsOf(NameFor(i)) : sshd[p] = i

\* Nobody else works in the directory of a pump, neither another pump nor a
\* creation that has not started its own; except the pump of a creation that
\* failed after it had started it, which runs on, in a directory that is gone.
LeftBehind(i) == /\ i \in Creation /\ i \notin conduits
                 /\ pc[i] # "host"
                 /\ \A d \in Deletion : victim[d] # i
Workers(n) == {i \in pumping : NameFor(i) = n /\ ~LeftBehind(i)} \cup
              {c \in Creation : NameOf[c] = n /\ pc[c] \in {"init", "record", "first sync",
                                                            "port", "daemon", "start"}}
OneWorkerPerDirectory == \A n \in Name : Cardinality(Workers(n)) <= 1

\* A conduit keeps its port, whoever asks for one and is deleted meanwhile: the
\* clones of it point there. (A crash while ports.txt is written takes it away.)
PortsKept ==
    [][server' = server =>
          \A p \in DOMAIN ports : p \in DOMAIN ports' /\ ports'[p] = ports[p]]_vars

\* A deletion that began comes to its end.
DeletionEnds == \A d \in Deletion : pc[d] = "remove" ~> pc[d] = "done"
=============================================================================
