------------------------------ MODULE BzrPump -------------------------------
(***************************************************************************)
(* BzrToP4Pump: the pump of a conduit that mirrors a Perforce depot in a   *)
(* bzr branch. Its directory is a Perforce workspace and a bzr tree, with  *)
(* .scm-conduit, the number of the last changelist synced, and, while a    *)
(* push is on its way, .scm-conduit-temp, the number of its changelist.    *)
(*                                                                         *)
(* Perforce users submit at any time, between any two commands of the      *)
(* pump. A command may fail and the server may end and start again, as     *)
(* often as MaxTroubles says.                                              *)
(*                                                                         *)
(* A push is made with its user's Perforce credentials, all but its        *)
(* rollback, which has those of the conduit's own user, p4ReadUser.        *)
(*                                                                         *)
(* A file is the set of the edits in it, and a file of none is absent.     *)
(***************************************************************************)
EXTENDS Naturals, Sequences, FiniteSets, SequencesExt, FiniteSetsExt

CONSTANTS
    File,
    Edit,       \* what people do to files
    FileOf,     \* the file of each edit
    UserEdit,   \* the edits Perforce users submit, a changelist each
    Push,       \* the pushes of bzr users
    EditsOf,    \* the edits of each push, {} if it brings no commit
    Own,        \* the pushes of the conduit's own Perforce user
    Existing,   \* the files that are in the depot at first
    First,      \* the first edit of those files
    None,       \* no push
    MaxTroubles \* how many commands fail or crashes happen

ASSUME ConstantsAssumption ==
    /\ FileOf \in [Edit -> File]
    /\ UserEdit \subseteq Edit
    /\ EditsOf \in [Push -> SUBSET (Edit \ UserEdit)]
    /\ \A p, q \in Push : EditsOf[p] \cap EditsOf[q] # {} => p = q
    /\ Own \subseteq Push
    /\ Existing \subseteq File
    /\ First \notin Edit
    /\ None \notin Push
    /\ MaxTroubles \in Nat

VARIABLES
    depot,      \* the submitted changelists, their numbers and files
    counter,    \* the last change number the Perforce server gave away
    have,       \* the contents the server believes the workspace has
    pending,    \* the workspace's pending changelists, the files opened in each
    foreign,    \* those of them that other users than the conduit's own made
    tree,       \* the files of the branch's last revision
    versioned,  \* the files bzr tracks
    merging,    \* bzr has a merge that is not committed
    files,      \* the files on disk
    temp,       \* the number in .scm-conduit-temp, 0 if there is no such file
    synced,     \* last-synced-p4-changelist
    pc,         \* where the pump is
    pushing,    \* the push it works on
    adds,       \* the files the last p4 sync reported as added
    number,     \* changeListNum
    clone,      \* the revision each push is based on, None before it exists
    verdict,    \* what became of each push
    troubles,   \* the commands that failed, and the crashes
    hurt        \* one of them came where the pump does not recover

p4Vars   == <<depot, counter, have, pending, foreign>>
bzrVars  == <<tree, versioned, merging, files>>
diskVars == <<temp, synced>>
workVars == <<pushing, adds, number>>
userVars == <<clone, verdict>>
badVars  == <<troubles, hurt>>
vars == <<p4Vars, bzrVars, diskVars, pc, workVars, userVars, badVars>>

-----------------------------------------------------------------------------
(* What bzr and p4 know                                                     *)

DepotHead == Last(depot).tree
Newer(n) == {k \in DOMAIN depot : depot[k].num > n}

In(tr) == {f \in File : tr[f] # {}}
Opened == UNION {pending[n] : n \in DOMAIN pending}

\* Mutant: modified and missing files count too.
IsUntouched == ~merging /\ versioned = In(tree) /\ \A f \in versioned : files[f] = tree[f]

\* BzrStatus.isUnchanged: added, removed and renamed files and pending merges
\* count. Modified, missing and unknown files do not.
IsUnchanged == ~merging /\ versioned = In(tree)

\* What a commit would take: modified files too, and of missing ones nothing.
Work == [f \in File |-> IF f \in versioned THEN files[f] ELSE {}]
Changed == {f \in File : Work[f] # tree[f]}

BzrCommit ==
    /\ tree' = Work
    /\ versioned' = {f \in versioned : files[f] # {}}
    /\ merging' = FALSE

\* bzr revert: what was merged goes, and what was only added stays, unversioned.
BzrRevert ==
    /\ files' = [f \in File |-> IF tree[f] # {} \/ (merging /\ f \in versioned)
                                THEN tree[f] ELSE files[f]]
    /\ versioned' = In(tree)
    /\ merging' = FALSE

Everything == [f \in File |-> IF f \in Existing THEN {First} ELSE {}]

\* A conduit whose first changelist has been pulled.
Init ==
    /\ depot = <<[num |-> 1, tree |-> Everything]>>
    /\ counter = 1
    /\ have = Everything
    /\ pending = [n \in {} |-> {}]
    /\ foreign = {}
    /\ tree = Everything
    /\ versioned = Existing
    /\ merging = FALSE
    /\ files = Everything
    /\ temp = 0
    /\ synced = 1
    /\ pc = "idle"
    /\ pushing = None
    /\ adds = {}
    /\ number = 0
    /\ clone = [p \in Push |-> None]
    /\ verdict = [p \in Push |-> "none"]
    /\ troubles = 0
    /\ hurt = FALSE

-----------------------------------------------------------------------------
(* The people                                                               *)

UserSubmits(e) ==
    /\ \A k \in DOMAIN depot : e \notin depot[k].tree[FileOf[e]]
    /\ counter' = counter + 1
    /\ depot' = Append(depot, [num |-> counter + 1,
                               tree |-> [DepotHead EXCEPT ![FileOf[e]] = @ \cup {e}]])
    /\ UNCHANGED <<have, pending, foreign, bzrVars, diskVars, pc, workVars, userVars, badVars>>

\* A session is a stacked branch of the conduit's last revision, and its user
\* pushes commits on top.
SessionBranches(p) ==
    /\ clone[p] = None
    /\ clone' = [clone EXCEPT ![p] = tree]
    /\ UNCHANGED <<p4Vars, bzrVars, diskVars, pc, workVars, verdict, badVars>>

-----------------------------------------------------------------------------
(* pullChangesFromPerforce                                                  *)

StartPull ==
    /\ pc = "idle"
    /\ pc' = "pull"
    /\ UNCHANGED <<p4Vars, bzrVars, diskVars, workVars, userVars, badVars>>

\* The head of the loop: the oldest changelist that is not synced.
NextChange(n) == depot[Min(Newer(n))]

LookForChanges ==
    /\ pc = "pull"
    /\ pc' = IF Newer(synced) = {} THEN "pop"
             ELSE IF IsUnchanged THEN "sync"
             ELSE "idle"
    /\ UNCHANGED <<p4Vars, bzrVars, diskVars, workVars, userVars, badVars>>

\* p4 sync writes what differs from what it has on record, forward or backward, but
\* no file that is open.
Sync ==
    LET there == NextChange(synced).tree IN
    /\ pc = "sync"
    /\ files' = [f \in File |-> IF have[f] # there[f] /\ f \notin Opened
                                THEN there[f] ELSE files[f]]
    /\ have' = there
    /\ adds' = In(there) \ In(have)
    /\ pc' = "add"
    /\ UNCHANGED <<depot, counter, pending, foreign, tree, versioned, merging, diskVars,
                   pushing, number, userVars, badVars>>

\* Mutant: bzr commit is left to find the files.
AddNothing ==
    /\ pc = "add"
    /\ pc' = "commit"
    /\ UNCHANGED <<p4Vars, bzrVars, diskVars, workVars, userVars, badVars>>

\* bzr add of what p4 added.
Add ==
    /\ pc = "add"
    /\ versioned' = versioned \cup adds
    /\ pc' = "commit"
    /\ UNCHANGED <<p4Vars, tree, merging, files, diskVars, workVars, userVars, badVars>>

CommitChange ==
    /\ pc = "commit"
    /\ BzrCommit
    /\ adds' = {}
    /\ pc' = "record"
    /\ UNCHANGED <<p4Vars, files, diskVars, pushing, number, userVars, badVars>>

\* recordLastSuccessfulSync, after another look at bzr's status.
Record ==
    /\ pc = "record"
    /\ IF IsUnchanged
       THEN /\ synced' = NextChange(synced).num
            /\ pc' = "pull"
       ELSE /\ pc' = "idle"
            /\ UNCHANGED synced
    /\ UNCHANGED <<p4Vars, bzrVars, temp, workVars, userVars, badVars>>

-----------------------------------------------------------------------------
(* pushChangesToPerforce                                                    *)

Waiting(p) == clone[p] # None /\ verdict[p] = "none"
EditsTo(p, f) == {e \in EditsOf[p] : FileOf[e] = f}
Touched(p) == {f \in File : EditsTo(p, f) # {}}

NoRequest ==
    /\ pc = "pop"
    /\ ~\E p \in Push : Waiting(p)
    /\ pc' = "idle"
    /\ UNCHANGED <<p4Vars, bzrVars, diskVars, workVars, userVars, badVars>>

Conclude(p, v) == verdict' = [verdict EXCEPT ![p] = v]

\* A tree with changes is refused; a push without commits is told so.
StartPush(p) ==
    /\ pc = "pop"
    /\ Waiting(p)
    /\ IF IsUnchanged /\ EditsOf[p] = {}
       THEN /\ Conclude(p, "nothing")
            /\ pc' = "idle"
            /\ UNCHANGED pushing
       ELSE /\ pushing' = p
            /\ pc' = IF IsUnchanged THEN "merge" ELSE "rollback"
            /\ UNCHANGED verdict
    /\ UNCHANGED <<p4Vars, bzrVars, diskVars, adds, number, clone, badVars>>

\* bzr merge refuses a tree with modified or missing files. A file both sides
\* changed may conflict; so may any, since what p4 sync took away and brought
\* back is another file to bzr; and an unversioned file in the way does. With a
\* conflict the command fails, and what it merged is there.
Merge ==
    LET base   == clone[pushing]
        theirs == [f \in File |-> base[f] \cup EditsTo(pushing, f)]
        inTheWay == {f \in Touched(pushing) : f \notin versioned /\ files[f] # {}}
    IN
    /\ pc = "merge"
    /\ IF \E f \in versioned : files[f] # tree[f]
       THEN /\ pc' = "rollback"
            /\ UNCHANGED bzrVars
       ELSE \E conflicts \in SUBSET Touched(pushing) :
            /\ inTheWay \subseteq conflicts
            /\ merging' = TRUE
            /\ versioned' = versioned \cup Touched(pushing)
            /\ files' = [f \in File |->
                   IF f \notin Touched(pushing) THEN files[f]
                   ELSE IF f \in conflicts \/ files[f] = base[f] THEN theirs[f]
                   ELSE files[f] \cup theirs[f]]
            /\ pc' = IF conflicts = {} THEN "create" ELSE "rollback"
            /\ UNCHANGED tree
    /\ UNCHANGED <<p4Vars, diskVars, workVars, userVars, badVars>>

\* Mutant: the number of the new changelist is not reserved.
CreateUnreserved ==
    /\ pc = "create"
    /\ number' = counter + 1
    /\ pending' = [n \in DOMAIN pending \cup {counter + 1} |->
                       IF n \in DOMAIN pending THEN pending[n] ELSE {}]
    /\ pc' = "open"
    /\ UNCHANGED <<depot, counter, have, foreign, bzrVars, diskVars, pushing, adds,
                   userVars, badVars>>

\* createChangelist, with the user's credentials.
CreateChangelist ==
    /\ pc = "create"
    /\ \/ /\ counter' = counter + 1
          /\ number' = counter + 1
          /\ pending' = [n \in DOMAIN pending \cup {counter + 1} |->
                             IF n \in DOMAIN pending THEN pending[n] ELSE {}]
          /\ foreign' = IF pushing \in Own THEN foreign ELSE foreign \cup {counter + 1}
          /\ pc' = "open"
       \/ /\ pc' = "rollback"
          /\ UNCHANGED <<counter, number, pending, foreign>>
    /\ UNCHANGED <<depot, have, bzrVars, diskVars, pushing, adds, userVars, badVars>>

\* translateBzrStatusToP4Changelist: a command for every file, each of which may
\* fail.
OpenFiles ==
    /\ pc = "open"
    /\ \E done \in SUBSET Changed :
          /\ pending' = [pending EXCEPT ![number] = done]
          /\ pc' = IF done = Changed THEN "write temp" ELSE "rollback"
    /\ UNCHANGED <<depot, counter, have, foreign, bzrVars, diskVars, workVars, userVars, badVars>>

WriteTemp ==
    /\ pc = "write temp"
    /\ temp' = number
    /\ pc' = "submit"
    /\ UNCHANGED <<p4Vars, bzrVars, synced, workVars, userVars, badVars>>

-----------------------------------------------------------------------------
(* commit                                                                   *)

Submitted(num) ==
    Append(depot, [num |-> num,
        tree |-> [f \in File |-> IF f \in pending[temp] THEN files[f] ELSE DepotHead[f]]])

Accept ==
    LET num == IF counter = temp THEN temp ELSE counter + 1 IN
    /\ depot' = Submitted(num)
    /\ counter' = num
    /\ have' = [f \in File |-> IF f \in pending[temp] THEN files[f] ELSE have[f]]
    /\ pending' = Restrict(pending, DOMAIN pending \ {temp})
    /\ foreign' = foreign \ {temp}
    /\ pc' = "commit push"

\* Mutant: a file that is out of date is submitted over the newer revision.
SubmitStale ==
    /\ pc = "submit"
    /\ Accept
    /\ UNCHANGED <<bzrVars, diskVars, workVars, userVars, badVars>>

\* p4 submit takes the files from disk, unless one of them is out of date, or the
\* user may not submit.
Submit ==
    /\ pc = "submit"
    /\ \/ /\ pending[temp] # {}
          /\ \A f \in pending[temp] : have[f] = DepotHead[f]
          /\ Accept
       \/ /\ pc' = "rollback"
          /\ UNCHANGED p4Vars
    /\ UNCHANGED <<bzrVars, diskVars, workVars, userVars, badVars>>

CommitPush ==
    /\ pc = "commit push"
    /\ BzrCommit
    /\ pc' = "delete temp"
    /\ UNCHANGED <<p4Vars, files, diskVars, workVars, userVars, badVars>>

FinishPush(v) ==
    /\ Conclude(pushing, v)
    /\ pushing' = None
    /\ number' = 0
    /\ pc' = "idle"

DeleteTemp ==
    /\ pc = "delete temp"
    /\ temp' = 0
    /\ IF IsUnchanged
       THEN FinishPush("ok")
       ELSE /\ pc' = "rollback"
            /\ UNCHANGED <<pushing, number, verdict>>
    /\ UNCHANGED <<p4Vars, bzrVars, synced, adds, clone, badVars>>

-----------------------------------------------------------------------------
(* rollback                                                                 *)

\* p4 revert //... takes back the files opened in every changelist of the workspace,
\* and one that was to be added stays on disk. It runs as the conduit's own user:
\* whether that takes back what other users opened is up to Perforce. If not, their
\* files stay open, where no later pull or push takes them back.
RevertOpened ==
    /\ pc = "rollback"
    /\ \E kept \in {{}, foreign} :
          LET reverted == UNION {pending[n] : n \in DOMAIN pending \ kept} IN
          /\ files' = [f \in File |-> IF f \in reverted /\ have[f] # {} THEN have[f] ELSE files[f]]
          /\ pending' = [n \in DOMAIN pending |-> IF n \in kept THEN pending[n] ELSE {}]
    /\ hurt' = (hurt \/ Opened' # {})
    /\ pc' = "revert"
    /\ UNCHANGED <<depot, counter, have, foreign, tree, versioned, merging, diskVars, workVars,
                   userVars, troubles>>

\* Mutant: p4 revert alone.
RevertNothing ==
    /\ pc = "revert"
    /\ pc' = "drop"
    /\ UNCHANGED <<p4Vars, bzrVars, diskVars, workVars, userVars, badVars>>

RevertTree ==
    /\ pc = "revert"
    /\ BzrRevert
    /\ pc' = "drop"
    /\ UNCHANGED <<p4Vars, tree, diskVars, workVars, userVars, badVars>>

\* The changelist is deleted, if .scm-conduit-temp has the number of one that is
\* pending and the conduit's own user made, who is the one that asks for it; and then
\* that file. Otherwise rollback fails, which ends it too, and leaves both.
DropChangelist ==
    /\ pc = "drop"
    /\ IF temp \in DOMAIN pending \ foreign
       THEN /\ pending' = Restrict(pending, DOMAIN pending \ {temp})
            /\ pc' = "drop temp"
            /\ UNCHANGED <<pushing, number, verdict>>
       ELSE /\ FinishPush("failed")
            /\ UNCHANGED pending
    /\ UNCHANGED <<depot, counter, have, foreign, bzrVars, diskVars, adds, clone, badVars>>

DropTemp ==
    /\ pc = "drop temp"
    /\ temp' = 0
    /\ FinishPush("failed")
    /\ UNCHANGED <<p4Vars, bzrVars, synced, adds, clone, badVars>>

-----------------------------------------------------------------------------
(* Trouble                                                                  *)

Pulling    == {"pull", "sync", "add", "commit", "record"}
PushingOn  == {"merge", "create", "open", "write temp", "submit"}
Committing == {"commit push", "delete temp"}
RollingBack == {"rollback", "revert", "drop", "drop temp"}

\* Between p4 sync and bzr commit an added file is known to p4 only. Everything
\* else a pull leaves undone the next one makes good.
AddsLost == adds # {} /\ pc \in {"add", "commit"}

\* A command fails before it did anything: a pull ends, a push is rolled back,
\* and a rollback ends.
CommandFails ==
    /\ troubles < MaxTroubles
    /\ troubles' = troubles + 1
    /\ hurt' = (hurt \/ AddsLost \/ pc \in Committing \cup RollingBack)
    /\ \/ /\ pc \in Pulling
          /\ pc' = "idle"
          /\ adds' = {}
          /\ UNCHANGED <<pushing, number, verdict>>
       \/ /\ pc \in PushingOn \cup Committing
          /\ pc' = "rollback"
          /\ UNCHANGED <<pushing, adds, number, verdict>>
       \/ /\ pc \in RollingBack
          /\ FinishPush("failed")
          /\ UNCHANGED adds
    /\ UNCHANGED <<p4Vars, bzrVars, diskVars, clone>>

\* The server ends and is started again: disk and Perforce stay, the pump starts
\* over, and the push it worked on is forgotten.
Crash ==
    /\ troubles < MaxTroubles
    /\ pc # "idle"
    /\ troubles' = troubles + 1
    /\ hurt' = (hurt \/ AddsLost \/ (pushing # None /\ pc # "merge"))
    /\ verdict' = [p \in Push |-> IF p = pushing THEN "lost" ELSE verdict[p]]
    /\ pushing' = None
    /\ adds' = {}
    /\ number' = 0
    /\ pc' = "idle"
    /\ UNCHANGED <<p4Vars, bzrVars, diskVars, clone>>

-----------------------------------------------------------------------------
Pull == StartPull \/ LookForChanges \/ Sync \/ Add \/ CommitChange \/ Record

PushThrough == \/ NoRequest
               \/ \E p \in Push : StartPush(p)
               \/ Merge \/ CreateChangelist \/ OpenFiles \/ WriteTemp
               \/ Submit \/ CommitPush \/ DeleteTemp
               \/ RevertOpened \/ RevertTree \/ DropChangelist \/ DropTemp

People == \/ \E e \in UserEdit : UserSubmits(e)
          \/ \E p \in Push : SessionBranches(p)

Next == Pull \/ PushThrough \/ People \/ CommandFails \/ Crash

Spec == Init /\ [][Next]_vars

\* The pump's thread runs on. No one has to submit or push.
FairSpec == Spec /\ WF_vars(Pull \/ PushThrough)

-----------------------------------------------------------------------------
(* Properties                                                               *)

Trees == [File -> SUBSET (Edit \cup {First})]

TypeOK ==
    /\ \A k \in DOMAIN depot : depot[k].num \in 1..counter /\ depot[k].tree \in Trees
    /\ counter \in Nat
    /\ have \in Trees /\ tree \in Trees /\ files \in Trees
    /\ DOMAIN pending \subseteq 1..counter /\ Opened \subseteq File
    /\ foreign \subseteq DOMAIN pending
    /\ {versioned, adds} \subseteq SUBSET File
    /\ {merging, hurt} \subseteq BOOLEAN
    /\ temp \in 0..counter /\ number \in 0..counter /\ synced \in 1..counter
    /\ pc \in {"idle", "pop"} \cup Pulling \cup PushingOn \cup Committing \cup RollingBack
    /\ pushing \in Push \cup {None}
    /\ clone \in [Push -> Trees \cup {None}]
    /\ verdict \in [Push -> {"none", "nothing", "ok", "failed", "lost"}]
    /\ troubles \in 0..MaxTroubles

DepotAt(n) == depot[CHOOSE k \in DOMAIN depot : depot[k].num = n].tree

\* After every pull the branch, the files and the workspace agree with the depot
\* as of the changelist on record, nothing is open and nothing is pending in bzr:
\* however the pushes before it ended, whoever submitted meanwhile, and whichever
\* commands failed or were cut off where the next pull makes up for it. What a
\* push may leave behind is .scm-conduit-temp, but then it has the number of a
\* changelist that is pending, and that somebody else than the conduit's user made.
MirrorExact ==
    pc = "pop" /\ ~hurt =>
        /\ tree = DepotAt(synced) /\ files = tree /\ have = tree
        /\ versioned = In(tree) /\ ~merging
        /\ Opened = {} /\ temp \in foreign \cup {0}

Bridged == INSTANCE Bridge WITH
    Parts <- [p \in Push |-> <<EditsOf[p]>>],
    Carrying <- FALSE,
    history <- [k \in DOMAIN depot |-> (UNION {depot[k].tree[f] : f \in File}) \ {First}],
    taken <- CHOOSE k \in DOMAIN depot : depot[k].num = synced,
    answer <- verdict,
    broken <- hurt

\* The pump keeps what Bridge promises.
ImplementsBridge == Bridged!Spec

\* When all is quiet the mirror is the depot, unless it was hurt.
Converges == <>[](hurt \/ (tree = DepotHead /\ files = tree))

\* And a push is answered.
PushConcluded == \A p \in Push : clone[p] # None ~> (hurt \/ verdict[p] # "none")
=============================================================================
