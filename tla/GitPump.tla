------------------------------ MODULE GitPump -------------------------------
(***************************************************************************)
(* GitToP4Pump: the pump of a conduit that mirrors a Perforce depot in a   *)
(* git repository and submits what people push to that repository. Its     *)
(* state is all on disk or in the Perforce server: branches, tags, index   *)
(* and files of one git working tree, which is a Perforce workspace too,   *)
(* with that workspace's have list and pending changelist, and the file    *)
(* .scm-conduit with the number of the last changelist synced.             *)
(*                                                                         *)
(* The pump runs one external command after the other and any may fail, or *)
(* the process may end, before the next one. Meanwhile Perforce users      *)
(* submit and git users clone master. git, p4 and these people are         *)
(* modelled as far as the pump's commands can tell.                        *)
(*                                                                         *)
(* A file is the set of the edits in it, and a file of none is absent. A   *)
(* commit is a number, its from and to are the files it changes; a branch  *)
(* is the set of the commits it contains.                                  *)
(***************************************************************************)
EXTENDS Naturals, Sequences, FiniteSets, SequencesExt

CONSTANTS
    File,
    Edit,       \* what people do to files
    FileOf,     \* the file of each edit
    UserEdit,   \* the edits Perforce users submit, a changelist each
    Push,       \* the pushes of git users
    Series,     \* the edits of each push, a commit each
    Existing,   \* the files that are in the depot at first
    Rare,       \* which rare events a run includes, of RareEvents
    First,      \* the first edit of those files
    None        \* no push

RareEvents == {"race", "user fails", "pump fails", "crash"}

ASSUME ConstantsAssumption ==
    /\ FileOf \in [Edit -> File]
    /\ UserEdit \subseteq Edit
    /\ Series \in [Push -> Seq(Edit \ UserEdit)]
    /\ \A p \in Push : Series[p] # <<>>
    /\ Existing \subseteq File
    /\ Rare \subseteq RareEvents
    /\ First \notin Edit
    /\ None \notin Push

VARIABLES
    depot,      \* the submitted changelists, their numbers and files
    counter,    \* the last change number the Perforce server gave away
    have,       \* the contents the server believes the workspace has
    pending,    \* the number of the workspace's pending changelist, or 0
    opened,     \* the files opened in it
    commits,    \* every git commit made so far
    master,     \* the branch people clone
    incoming,   \* the branch p4-incoming, {} while there is none
    head,       \* the branch that is checked out
    unmerged,   \* the index has the conflicts of a merge or rebase
    rebasing,   \* git has an unfinished rebase on record
    tags,       \* the commits under tag cl<n>, {} if there is no such tag
    oddTag,     \* tag "cl()" exists
    files,      \* the working tree
    index,      \* the git index
    synced,     \* last-synced-p4-changelist
    pc,         \* where the pump is
    pushing,    \* the push it works on
    newStuff,   \* the changelists it has yet to import
    changed,    \* the files of the last p4 sync
    revs,       \* the lines of git cherry it has yet to submit
    currentRev, \* master when the push began
    final,      \* the number the last submit reported, and the one it had
    clone,      \* master in each session's repository, {} before it exists
    verdict     \* what became of each push

p4Vars    == <<depot, counter, have, pending, opened>>
refVars   == <<commits, master, incoming, head, unmerged, rebasing, tags, oddTag>>
diskVars  == <<files, index>>
workVars  == <<pushing, newStuff, changed, revs, currentRev, final>>
userVars  == <<clone, verdict>>
vars == <<p4Vars, refVars, diskVars, synced, pc, workVars, userVars>>

-----------------------------------------------------------------------------
(* What git and p4 know                                                     *)

\* The files after the commits of a branch.
Tree(branch) == [f \in File |->
    LET here == {i \in branch : f \in DOMAIN commits[i].to} IN
    IF here = {} THEN {}
    ELSE commits[CHOOSE i \in here : \A j \in here : j <= i].to[f]]

HeadTree == IF head = "master" THEN Tree(master) ELSE Tree(incoming)

\* A commit that turns the files old into new.
Commit(old, new) ==
    LET d == {f \in File : old[f] # new[f]} IN
    [from |-> [f \in d |-> old[f]], to |-> [f \in d |-> new[f]]]

SamePatch(i, j) == commits[i] = commits[j]

\* git checkout, merge or reset to a tree leaves the files alone that are the
\* same in both, and refuses to overwrite what is not committed.
CanCheckout(tree) ==
    /\ ~unmerged
    /\ \A f \in File : HeadTree[f] # tree[f] =>
            index[f] = HeadTree[f] /\ files[f] = HeadTree[f]

Over(old, tree) == [f \in File |-> IF HeadTree[f] # tree[f] THEN tree[f] ELSE old[f]]

Checkout(tree) ==
    /\ files' = Over(files, tree)
    /\ index' = Over(index, tree)

\* git reset --hard: every tracked file, and no untracked one.
ResetHard(tree) ==
    /\ files' = [f \in File |-> IF index[f] # {} \/ HeadTree[f] # {} \/ tree[f] # {}
                                THEN tree[f] ELSE files[f]]
    /\ index' = tree
    /\ unmerged' = FALSE

\* git status -s -uno is empty: untracked files do not count.
NoGitChanges == /\ ~unmerged
                /\ index = HeadTree
                /\ \A f \in File : index[f] # {} => files[f] = index[f]

\* The depot's files at a changelist, and now.
DepotAt(n) == LET k == {j \in 1..Len(depot) : depot[j].num <= n} IN
              depot[CHOOSE j \in k : \A m \in k : m <= j].tree
DepotHead == depot[Len(depot)].tree

Everything == [f \in File |-> IF f \in Existing THEN {First} ELSE {}]

\* A conduit whose first changelist has been pulled.
Init ==
    /\ depot = <<[num |-> 1, tree |-> Everything]>>
    /\ counter = 1
    /\ have = Everything
    /\ pending = 0
    /\ opened = {}
    /\ commits = <<Commit([f \in File |-> {}], Everything)>>
    /\ master = {1}
    /\ incoming = {}
    /\ head = "master"
    /\ unmerged = FALSE
    /\ rebasing = FALSE
    /\ tags = [n \in {1} |-> {1}]
    /\ oddTag = FALSE
    /\ files = Everything
    /\ index = Everything
    /\ synced = 1
    /\ pc = "idle"
    /\ pushing = None
    /\ newStuff = <<>>
    /\ changed = {}
    /\ revs = <<>>
    /\ currentRev = {}
    /\ final = [num |-> 0, renamed |-> FALSE]
    /\ clone = [p \in Push |-> {}]
    /\ verdict = [p \in Push |-> "none"]

-----------------------------------------------------------------------------
(* The people                                                               *)

CurrentFiles == IF revs = <<>> THEN {} ELSE DOMAIN commits[Head(revs).id].to

\* A Perforce user submits on top of what is there. Without races, nobody does
\* while the pump works on a push, unless to a file of the commit at hand,
\* which Perforce then refuses to submit.
Undisturbed(e) == \/ pushing = None
                  \/ pc \in {"merge", "open", "submit"} /\ FileOf[e] \in CurrentFiles

UserSubmits(e) ==
    /\ \A k \in 1..Len(depot) : e \notin depot[k].tree[FileOf[e]]
    /\ "race" \in Rare \/ Undisturbed(e)
    /\ counter' = counter + 1
    /\ depot' = Append(depot, [num |-> counter + 1,
                               tree |-> [DepotHead EXCEPT ![FileOf[e]] = @ \cup {e}]])
    /\ UNCHANGED <<have, pending, opened, refVars, diskVars, synced, pc, workVars,
                   userVars>>

\* A git user's session clones master, and its user pushes commits on top.
SessionClones(p) ==
    LET before(k) == [f \in File |->
            Tree(master)[f] \cup {e \in Edit : FileOf[e] = f /\
                                     \E j \in 1..k : Series[p][j] = e}]
        size == Len(Series[p])
    IN
    /\ clone[p] = {}
    /\ commits' = commits \o [k \in 1..size |-> Commit(before(k - 1), before(k))]
    /\ clone' = [clone EXCEPT ![p] = master \cup (Len(commits) + 1)..(Len(commits) + size)]
    /\ UNCHANGED <<p4Vars, master, incoming, head, unmerged, rebasing, tags, oddTag,
                   diskVars, synced, pc, workVars, verdict>>

-----------------------------------------------------------------------------
(* pullChangesFromPerforce                                                  *)

\* An exception ends a pull of the orchestrator's loop with nothing undone. In
\* a push it ends the push.
Thrown == pc' = IF pushing = None THEN "idle" ELSE "rollback"

\* assertNoPendingChangelists
StartPull ==
    /\ pc \in {"idle", "pull"}
    /\ IF pending = 0 THEN pc' = "checkout" ELSE Thrown
    /\ UNCHANGED <<p4Vars, refVars, diskVars, synced, workVars, userVars>>

\* deleteBranchIfExists: the checkout of master before may fail, the delete may.
CheckoutMaster ==
    /\ pc = "checkout"
    /\ IF CanCheckout(Tree(master))
       THEN /\ Checkout(Tree(master))
            /\ head' = "master"
            /\ incoming' = {}
            /\ pc' = "branch"
       ELSE /\ Thrown
            /\ UNCHANGED <<diskVars, head, incoming>>
    /\ UNCHANGED <<p4Vars, commits, master, unmerged, rebasing, tags, oddTag, synced,
                   workVars, userVars>>

\* p4 changelists -lt lists them newest first.
Listed(n) ==
    [k \in 1..Cardinality({j \in DOMAIN depot : depot[j].num > n}) |->
        depot[Len(depot) + 1 - k].num]

\* Mutant: newest first, as p4 lists them.
NewestFirst(n) == Listed(n)

\* changesBetween turns p4's list around.
ChangesSince(n) == Reverse(Listed(n))

\* p4-incoming starts at the last changelist synced; the new ones are listed.
BranchIncoming ==
    /\ pc = "branch"
    /\ incoming' = IF synced \in DOMAIN tags THEN tags[synced] ELSE {}
    /\ IF synced \in DOMAIN tags /\ CanCheckout(Tree(tags[synced]))
       THEN /\ Checkout(Tree(tags[synced]))
            /\ head' = "p4-incoming"
            /\ newStuff' = ChangesSince(synced)
            /\ pc' = "next"
       ELSE /\ Thrown
            /\ UNCHANGED <<diskVars, head, newStuff>>
    /\ UNCHANGED <<p4Vars, commits, master, unmerged, rebasing, tags, oddTag, synced,
                   pushing, changed, revs, currentRev, final, userVars>>

\* gitHasTagForChangelist
HasTag(n) == n \in DOMAIN tags

\* The head of the loop.
NextChange ==
    /\ pc = "next"
    /\ IF newStuff = <<>> THEN pc' = "rebase"
       ELSE IF ~NoGitChanges THEN Thrown
       ELSE IF HasTag(Head(newStuff)) THEN pc' = "record"
       ELSE pc' = "sync"
    /\ UNCHANGED <<p4Vars, refVars, diskVars, synced, workVars, userVars>>

\* Mutant: no tag where there is nothing to commit.
SyncUntagged ==
    LET tree == DepotAt(Head(newStuff)) IN
    /\ pc = "sync"
    /\ files' = [f \in File |-> IF have[f] # tree[f] THEN tree[f] ELSE files[f]]
    /\ have' = tree
    /\ IF index = HeadTree /\ files' = index
       THEN pc' = "record" /\ changed' = {}
       ELSE pc' = "stage" /\ changed' = {f \in File : have[f] # tree[f]}
    /\ UNCHANGED <<depot, counter, pending, opened, refVars, index, synced, pushing,
                   newStuff, revs, currentRev, final, userVars>>

\* p4 sync writes every file whose content differs from what it has on record,
\* forward or backward; git status decides whether there is something to commit.
Sync ==
    LET tree == DepotAt(Head(newStuff)) IN
    /\ pc = "sync"
    /\ files' = [f \in File |-> IF have[f] # tree[f] THEN tree[f] ELSE files[f]]
    /\ have' = tree
    /\ IF index = HeadTree /\ files' = index
       THEN pc' = "tag" /\ changed' = {}
       ELSE pc' = "stage" /\ changed' = {f \in File : have[f] # tree[f]}
    /\ UNCHANGED <<depot, counter, pending, opened, refVars, index, synced, pushing,
                   newStuff, revs, currentRev, final, userVars>>

\* git rm for what p4 deleted, which fails for a file git does not track, and git
\* add for what it updated, as they come, then git add for what it added.
Stage ==
    /\ pc = "stage"
    /\ LET untracked == {f \in changed : files[f] = {} /\ index[f] = {}} IN
       \E done \in SUBSET changed :
          /\ IF untracked = {} THEN done = changed
             ELSE \A f \in done : index[f] # {}
          /\ index' = [f \in File |-> IF f \in done THEN files[f] ELSE index[f]]
          /\ IF untracked = {} THEN pc' = "commit" ELSE Thrown
    /\ changed' = {}
    /\ UNCHANGED <<p4Vars, refVars, files, synced, pushing, newStuff, revs, currentRev,
                   final, userVars>>

\* git commit fails if nothing is staged.
CommitChange ==
    /\ pc = "commit"
    /\ IF index # HeadTree
       THEN /\ commits' = Append(commits, Commit(HeadTree, index))
            /\ incoming' = incoming \cup {Len(commits) + 1}
            /\ pc' = "tag"
       ELSE /\ Thrown
            /\ UNCHANGED <<commits, incoming>>
    /\ UNCHANGED <<p4Vars, master, head, unmerged, rebasing, tags, oddTag, diskVars,
                   synced, workVars, userVars>>

Tagged(n, branch) == [m \in DOMAIN tags \cup {n} |-> IF m = n THEN branch ELSE tags[m]]

TagChange ==
    /\ pc = "tag"
    /\ tags' = Tagged(Head(newStuff), incoming)
    /\ pc' = "record"
    /\ UNCHANGED <<p4Vars, commits, master, incoming, head, unmerged, rebasing, oddTag,
                   diskVars, synced, workVars, userVars>>

\* recordLastSuccessfulSync
Record ==
    /\ pc = "record"
    /\ IF NoGitChanges
       THEN /\ synced' = Head(newStuff)
            /\ newStuff' = Tail(newStuff)
            /\ pc' = "next"
       ELSE /\ Thrown
            /\ UNCHANGED <<synced, newStuff>>
    /\ UNCHANGED <<p4Vars, refVars, diskVars, pushing, changed, revs, currentRev, final,
                   userVars>>

\* git rebase replays what p4-incoming lacks, in order, and skips a change that
\* is there already. A commit that finds other contents than its own conflicts.
Replay(at, i) ==
    LET its == commits[i]
        changes == {f \in DOMAIN its.to : at.tree[f] # its.to[f]}
        new == [f \in File |-> IF f \in changes THEN its.to[f] ELSE at.tree[f]]
    IN
    IF \E f \in changes : at.tree[f] # its.from[f]
    THEN [at EXCEPT !.ok = FALSE]
    ELSE IF changes = {} \/ ~at.ok THEN at
    ELSE [ok |-> TRUE, tree |-> new, made |-> Append(at.made, Commit(at.tree, new))]

Rebased ==
    LET todo == {i \in master \ incoming : ~\E j \in incoming \ master : SamePatch(i, j)}
        upTo[n \in 0..Len(commits)] ==
            IF n = 0 THEN [ok |-> TRUE, tree |-> Tree(incoming), made |-> <<>>]
            ELSE IF n \in todo THEN Replay(upTo[n - 1], n)
            ELSE upTo[n - 1]
    IN upTo[Len(commits)]

Rebase ==
    /\ pc = "rebase"
    /\ IF ~CanCheckout(Tree(master)) \/ rebasing
       THEN /\ Thrown
            /\ UNCHANGED <<refVars, diskVars>>
       ELSE IF incoming \subseteq master
       THEN /\ Checkout(Tree(master))
            /\ head' = "master"
            /\ incoming' = {}
            /\ pc' = IF pushing = None THEN "pop" ELSE "pushed"
            /\ UNCHANGED <<commits, master, unmerged, rebasing, tags, oddTag>>
       ELSE IF Rebased.ok
       THEN /\ commits' = commits \o Rebased.made
            /\ master' = incoming \cup (Len(commits) + 1)..Len(commits')
            /\ Checkout(Rebased.tree)
            /\ head' = "master"
            /\ incoming' = {}
            /\ pc' = IF pushing = None THEN "pop" ELSE "pushed"
            /\ UNCHANGED <<unmerged, rebasing, tags, oddTag>>
       ELSE /\ unmerged' = TRUE
            /\ rebasing' = TRUE
            /\ Thrown
            /\ UNCHANGED <<commits, master, incoming, head, tags, oddTag, diskVars>>
    /\ UNCHANGED <<p4Vars, synced, workVars, userVars>>

-----------------------------------------------------------------------------
(* pushChangesToPerforce                                                    *)

Waiting(p) == clone[p] # {} /\ verdict[p] = "none"

\* A push may begin: there is always one taken if one waits. (Without races, no
\* one submitted since the pull.)
Ready(p) == Waiting(p) /\ ("race" \in Rare \/ depot[Len(depot)].num = synced)

NoRequest ==
    /\ pc = "pop"
    /\ ~\E p \in Push : Ready(p)
    /\ pc' = "idle"
    /\ UNCHANGED <<p4Vars, refVars, diskVars, synced, workVars, userVars>>

Conclude(p, v) == verdict' = [verdict EXCEPT ![p] = v]

\* Commits, those that were made first first.
Ascending(S) ==
    LET upTo[n \in 0..Len(commits)] ==
            IF n = 0 THEN <<>>
            ELSE IF n \in S THEN Append(upTo[n - 1], n)
            ELSE upTo[n - 1]
    IN upTo[Len(commits)]

\* git cherry lists what master lacks, with a - for what it has in another commit.
Cherry(p) ==
    LET missing == Ascending(clone[p] \ master) IN
    [k \in 1..Len(missing) |->
        [id |-> missing[k],
         plus |-> ~\E j \in master \ clone[p] : SamePatch(missing[k], j)]]

StartPush(p) ==
    /\ pc = "pop"
    /\ Ready(p)
    /\ IF pending # 0
       THEN /\ pushing' = p
            /\ pc' = "rollback"
            /\ UNCHANGED <<revs, currentRev, verdict>>
       ELSE IF Cherry(p) = <<>>
       THEN /\ Conclude(p, "nothing")
            /\ pc' = "idle"
            /\ UNCHANGED <<pushing, revs, currentRev>>
       ELSE /\ pushing' = p
            /\ revs' = Cherry(p)
            /\ currentRev' = master
            /\ pc' = "merge"
            /\ UNCHANGED verdict
    /\ UNCHANGED <<p4Vars, refVars, diskVars, synced, newStuff, changed, final, clone>>

\* git merge of the commit, by fast-forward or with the files of both sides.
MergeRev ==
    LET rev    == Head(revs)
        theirs == {i \in clone[pushing] : i <= rev.id}
        base   == Tree(master \cap theirs)
        ours   == Tree(master)
        merged == [f \in File |-> IF ours[f] = base[f] THEN Tree(theirs)[f] ELSE ours[f]]
    IN
    /\ pc = "merge"
    /\ IF ~rev.plus \/ ~CanCheckout(merged)
       THEN /\ Thrown
            /\ UNCHANGED <<master, unmerged, diskVars>>
       ELSE IF \E f \in File : Tree(theirs)[f] \notin {base[f], merged[f]}
       THEN /\ unmerged' = TRUE
            /\ Thrown
            /\ UNCHANGED <<master, diskVars>>
       ELSE /\ master' = master \cup theirs
            /\ Checkout(merged)
            /\ pc' = "open"
            /\ UNCHANGED unmerged
    /\ UNCHANGED <<p4Vars, commits, incoming, head, rebasing, tags, oddTag, synced,
                   workVars, userVars>>

\* Mutant: the number of the new changelist is not reserved.
OpenUnreserved ==
    /\ pc = "open"
    /\ pending' = counter + 1
    /\ opened' = CurrentFiles
    /\ pc' = "submit"
    /\ UNCHANGED <<depot, counter, have, refVars, diskVars, synced, workVars, userVars>>

\* Git2P4Translator: a new changelist, and the commit's files opened in it.
OpenFiles ==
    /\ pc = "open"
    /\ \/ /\ counter' = counter + 1
          /\ pending' = counter + 1
          /\ opened' = CurrentFiles
          /\ pc' = "submit"
       \/ /\ "user fails" \in Rare
          /\ \/ UNCHANGED <<counter, pending>>
             \/ counter' = counter + 1 /\ pending' = counter + 1
          /\ UNCHANGED opened
          /\ pc' = "reset"
    /\ UNCHANGED <<depot, have, refVars, diskVars, synced, workVars, userVars>>

\* Mutant: a file that is out of date is submitted over the newer revision.
SubmitStale ==
    /\ pc = "submit"
    /\ depot' = Append(depot, [num |-> counter + 1,
           tree |-> [f \in File |-> IF f \in opened THEN files[f] ELSE DepotHead[f]]])
    /\ counter' = counter + 1
    /\ have' = [f \in File |-> IF f \in opened THEN files[f] ELSE have[f]]
    /\ pending' = 0
    /\ opened' = {}
    /\ final' = [num |-> counter + 1, renamed |-> FALSE]
    /\ pc' = "tag push"
    /\ UNCHANGED <<refVars, diskVars, synced, pushing, newStuff, changed, revs,
                   currentRev, userVars>>

\* p4 submit takes the files as they are, unless one of them is out of date. The
\* changelist gets a new number if a later one was given away since.
Submit ==
    LET num == IF counter = pending THEN pending ELSE counter + 1 IN
    /\ pc = "submit"
    /\ \/ /\ \A f \in opened : have[f] = DepotHead[f]
          /\ depot' = Append(depot, [num |-> num,
                 tree |-> [f \in File |-> IF f \in opened THEN files[f] ELSE DepotHead[f]]])
          /\ counter' = num
          /\ have' = [f \in File |-> IF f \in opened THEN files[f] ELSE have[f]]
          /\ pending' = 0
          /\ opened' = {}
          /\ final' = [num |-> num, renamed |-> num # pending]
          /\ pc' = "tag push"
       \/ /\ "user fails" \in Rare \/ \E f \in opened : have[f] # DepotHead[f]
          /\ pc' = "reset"
          /\ UNCHANGED <<p4Vars, final>>
    /\ UNCHANGED <<refVars, diskVars, synced, pushing, newStuff, changed, revs,
                   currentRev, userVars>>

\* The tag is named for the number p4 reported. Of a renamed changelist the code
\* prints the number and keeps the (), so that the tag is "cl()".
TagPush ==
    /\ pc = "tag push"
    /\ IF final.renamed
       THEN /\ IF oddTag THEN pc' = "reset" ELSE pc' = "pull"
            /\ oddTag' = TRUE
            /\ UNCHANGED tags
       ELSE /\ tags' = Tagged(final.num, master)
            /\ pc' = "pull"
            /\ UNCHANGED oddTag
    /\ final' = [num |-> 0, renamed |-> FALSE]
    /\ UNCHANGED <<p4Vars, commits, master, incoming, head, unmerged, rebasing,
                   diskVars, synced, pushing, newStuff, changed, revs, currentRev,
                   userVars>>

\* Mutant: one commit is enough.
NextPush ==
    /\ pc = "pushed"
    /\ revs' = <<>>
    /\ Conclude(pushing, "ok")
    /\ pushing' = None
    /\ currentRev' = {}
    /\ pc' = "idle"
    /\ UNCHANGED <<p4Vars, refVars, diskVars, synced, newStuff, changed, final, clone>>

\* The pull after a submit came through: the next commit, or the end.
NextRev ==
    /\ pc = "pushed"
    /\ revs' = Tail(revs)
    /\ IF Len(revs) > 1
       THEN /\ pc' = "merge"
            /\ UNCHANGED <<pushing, currentRev, verdict>>
       ELSE /\ Conclude(pushing, "ok")
            /\ pushing' = None
            /\ currentRev' = {}
            /\ pc' = "idle"
    /\ UNCHANGED <<p4Vars, refVars, diskVars, synced, newStuff, changed, final, clone>>

\* Mutant: the handler only throws.
LeaveMerged ==
    /\ pc = "reset"
    /\ pc' = "rollback"
    /\ UNCHANGED <<p4Vars, refVars, diskVars, synced, workVars, userVars>>

\* The handler inside the loop resets master to where the push began.
ResetPush ==
    /\ pc = "reset"
    /\ ResetHard(Tree(currentRev))
    /\ master' = currentRev
    /\ pc' = "rollback"
    /\ UNCHANGED <<p4Vars, commits, incoming, head, rebasing, tags, oddTag, synced,
                   workVars, userVars>>

\* Mutant: the changelist is left.
RevertOnly ==
    /\ pc = "rollback"
    /\ files' = [f \in File |-> IF f \in opened /\ have[f] # {} THEN have[f] ELSE files[f]]
    /\ opened' = {}
    /\ pc' = "clean up"
    /\ UNCHANGED <<depot, counter, have, pending, refVars, index, synced, workVars,
                   userVars>>

\* rollback: p4 revert of the opened files (one that was to be added stays where
\* it is), and the pending changelist deleted.
RevertOpened ==
    /\ pc = "rollback"
    /\ files' = [f \in File |-> IF f \in opened /\ have[f] # {} THEN have[f] ELSE files[f]]
    /\ opened' = {}
    /\ pending' = 0
    /\ pc' = "clean up"
    /\ UNCHANGED <<depot, counter, have, refVars, index, synced, workVars, userVars>>

GiveUpPush ==
    /\ Conclude(pushing, "failed")
    /\ pushing' = None
    /\ revs' = <<>>
    /\ currentRev' = {}
    /\ pc' = "idle"

\* Mutant: rollback without git reset --hard.
LeaveFiles ==
    /\ pc = "clean up"
    /\ GiveUpPush
    /\ UNCHANGED <<p4Vars, refVars, diskVars, synced, newStuff, changed, final, clone>>

\* git reset --hard, of the branch that happens to be checked out.
ResetFiles ==
    /\ pc = "clean up"
    /\ ResetHard(HeadTree)
    /\ GiveUpPush
    /\ UNCHANGED <<p4Vars, commits, master, incoming, head, rebasing, tags, oddTag,
                   synced, newStuff, changed, final, clone>>

-----------------------------------------------------------------------------
(* Failures                                                                 *)

\* The pump's own command fails before it did anything.
CommandFails ==
    /\ "pump fails" \in Rare
    /\ \/ /\ pc \in {"checkout", "branch", "next", "sync", "stage", "commit", "tag",
                     "record", "rebase", "pull", "merge"}
          /\ Thrown
          /\ UNCHANGED <<pushing, revs, currentRev, verdict>>
       \/ /\ pc = "tag push"
          /\ pc' = "reset"
          /\ UNCHANGED <<pushing, revs, currentRev, verdict>>
       \/ /\ pc \in {"rollback", "clean up"}
          /\ GiveUpPush
    /\ UNCHANGED <<p4Vars, refVars, diskVars, synced, newStuff, changed, final, clone>>

\* The server ends and is started again: disk and Perforce stay, the pump starts
\* over, and the push it worked on is forgotten.
Crash ==
    /\ "crash" \in Rare
    /\ pc # "idle"
    /\ pc' = "idle"
    /\ IF pushing = None
       THEN UNCHANGED verdict
       ELSE Conclude(pushing, "lost")
    /\ pushing' = None
    /\ revs' = <<>>
    /\ currentRev' = {}
    /\ UNCHANGED <<p4Vars, refVars, diskVars, synced, newStuff, changed, final, clone>>

-----------------------------------------------------------------------------
Pull == \/ StartPull \/ CheckoutMaster \/ BranchIncoming \/ NextChange \/ Sync
        \/ Stage \/ CommitChange \/ TagChange \/ Record \/ Rebase

PushThrough == \/ NoRequest
               \/ \E p \in Push : StartPush(p)
               \/ MergeRev \/ OpenFiles \/ Submit \/ TagPush \/ NextRev
               \/ ResetPush \/ RevertOpened \/ ResetFiles

People == \/ \E e \in UserEdit : UserSubmits(e)
          \/ \E p \in Push : SessionClones(p)

Next == Pull \/ PushThrough \/ People \/ CommandFails \/ Crash

Spec == Init /\ [][Next]_vars

\* The pump's thread runs on. No one has to submit or push.
FairSpec == Spec /\ WF_vars(Pull \/ PushThrough)

-----------------------------------------------------------------------------
(* Properties                                                               *)

Trees == [File -> SUBSET (Edit \cup {First})]
Branches == SUBSET (1..Len(commits))

TypeOK ==
    /\ \A k \in 1..Len(depot) : depot[k].num \in 1..counter /\ depot[k].tree \in Trees
    /\ counter \in Nat /\ pending \in 0..counter
    /\ have \in Trees /\ files \in Trees /\ index \in Trees
    /\ opened \subseteq File /\ changed \subseteq File
    /\ {master, incoming, currentRev} \subseteq Branches
    /\ \A n \in DOMAIN tags : n \in 1..counter /\ tags[n] \in Branches
    /\ head \in {"master", "p4-incoming"}
    /\ {unmerged, rebasing, oddTag} \subseteq BOOLEAN
    /\ synced \in 1..counter
    /\ pushing \in Push \cup {None}
    /\ \A k \in 1..Len(newStuff) : newStuff[k] \in 1..counter
    /\ \A k \in 1..Len(revs) : revs[k] \in [id : 1..Len(commits), plus : BOOLEAN]
    /\ final \in [num : 0..counter, renamed : BOOLEAN]
    /\ clone \in [Push -> Branches]
    /\ verdict \in [Push -> {"none", "nothing", "ok", "failed", "lost"}]

\* Whatever fails or races: the number recorded as synced is that of a tag, so
\* the next pull knows where to branch.
SyncedIsTagged == synced \in DOMAIN tags

\* And it moves from one changelist to the next one: none is passed over, none
\* is taken twice.
NoChangelistSkipped ==
    [][synced' # synced =>
          \E k \in 1..(Len(depot) - 1) : depot[k].num = synced /\ depot[k + 1].num = synced']_vars

InDepot(e) == \E k \in 1..Len(depot) : e \in depot[k].tree[FileOf[e]]
EditsOf(p) == {Series[p][k] : k \in 1..Len(Series[p])}

\* A user who is told that the push succeeded finds all of it in Perforce.
OkIsSubmitted == \A p \in Push : verdict[p] = "ok" => \A e \in EditsOf(p) : InDepot(e)

\* With no failures of the pump's own and no race, the mirror is exact after
\* every pull of the loop: master, the working tree and the workspace agree with
\* the depot as of the changelist on record, and nothing is pending, however the
\* pushes before it ended.
Calm == Rare \subseteq {"user fails"}
MirrorExact ==
    Calm /\ pc = "pop" =>
        /\ Tree(master) = DepotAt(synced)
        /\ files = Tree(master) /\ index = files
        /\ have = files
        /\ pending = 0 /\ opened = {} /\ ~unmerged

Bridged == INSTANCE Bridge WITH
    Parts <- [p \in Push |-> [k \in DOMAIN Series[p] |-> {Series[p][k]}]],
    Carrying <- TRUE,
    history <- [k \in DOMAIN depot |-> (UNION {depot[k].tree[f] : f \in File}) \ {First}],
    taken <- CHOOSE k \in DOMAIN depot : depot[k].num = synced,
    answer <- verdict,
    broken <- FALSE

\* In a calm run the pump keeps what Bridge promises: a submit takes no edit of
\* anybody out of Perforce and brings no commit a second time, the commits of a push
\* come in their order, a push is told the truth, and the mirror takes changelist
\* after changelist. Who cloned master while a push was tried that then failed may
\* bring its commits.
ImplementsBridge == Bridged!Spec

\* A submit and its tag: the changelist has a tag under the number it ended with.
FinalChangelistTagged ==
    [][pc = "tag push" /\ pc' = "pull" => final.num \in DOMAIN tags']_vars

\* After a successful pull both sides' changes are in the mirror.
BothSidesKept ==
    pc = "pop" => \A f \in File : DepotAt(synced)[f] \subseteq files[f]

\* What a Perforce user submits gets to the mirror.
SubmittedIsMirrored ==
    \A e \in UserEdit : InDepot(e) ~> e \in Tree(master)[FileOf[e]]

\* And a push is answered.
PushConcluded == \A p \in Push : clone[p] # {} ~> verdict[p] # "none"
=============================================================================
