-------------------------- MODULE GitBridgeProofs ---------------------------
(***************************************************************************)
(* In a calm run the git pump keeps what Bridge promises, for any files,   *)
(* pushes and Perforce users, if every edit is made once.                  *)
(*                                                                         *)
(* Each commit after the first brings one edit, a Perforce user's or a     *)
(* part of a push, and the edits in the files of a branch are those that   *)
(* its commits bring. So what is in Perforce, what the mirror has and what *)
(* a push has yet to submit are questions about commits: each part of a    *)
(* push is the work of one of them, a branch has it only with those before *)
(* it, and a commit is submitted when it is in master and not yet in the   *)
(* tag on record.                                                          *)
(***************************************************************************)
EXTENDS GitMirrorProofs

\* Every edit of a push is made once.
EditsOnce == \A p, q \in Push : \A k \in DOMAIN Series[p], l \in DOMAIN Series[q] :
    Series[p][k] = Series[q][l] => p = q /\ k = l

\* A commit that brings an edit, and the one that is part k of push p.
Brings(c, e) ==
    /\ DOMAIN c.from = {FileOf[e]} /\ DOMAIN c.to = {FileOf[e]}
    /\ e \notin c.from[FileOf[e]]
    /\ c.to[FileOf[e]] = c.from[FileOf[e]] \cup {e}
Part(p, k, i) == i \in 1..Len(commits) /\ Brings(commits[i], Series[p][k])
OfPush(i) == \E p \in Push : \E k \in DOMAIN Series[p] : Part(p, k, i)

\* Who made the commits: each brings one edit, but for the first.
Signed(cs) ==
    /\ \A f \in DOMAIN cs[1].to : cs[1].to[f] = {First}
    /\ \A i \in 2..Len(cs) : \E e \in Edit : Brings(cs[i], e)

\* The commits of a push are those of its session, in their order, and the last is
\* the last one there.
Ordered(p) ==
    \A k \in DOMAIN Series[p] : \A i : Part(p, k, i) =>
        /\ i \in clone[p]
        /\ k = Len(Series[p]) => \A j \in clone[p] : j <= i
        /\ \A l \in DOMAIN Series[p] : \A j : Part(p, l, j) => (i <= j <=> k <= l)
Authored ==
    /\ Signed(commits)
    /\ \A p \in Push : Ordered(p)
    /\ \A p \in Push : clone[p] # {} => \A k \in DOMAIN Series[p] : \E i : Part(p, k, i)

\* What is in master or a session is in the mirror, or part of a push.
Imported == \A i \in 1..Len(commits) :
    i \in master \/ (\E p \in Push : i \in clone[p]) => i \in tags[synced] \/ OfPush(i)

\* A branch has a part of a push only with the parts before it.
Closed(B) == \A p \in Push : \A k, l \in DOMAIN Series[p] : k < l =>
    \A i, j : Part(p, k, i) /\ Part(p, l, j) /\ j \in B => i \in B
BranchesClosed ==
    /\ Closed(master) /\ Closed(incoming) /\ Closed(currentRev)
    /\ \A n \in DOMAIN tags : Closed(tags[n])
    /\ \A p \in Push : Closed(clone[p])

\* What the pushes were told.
Told ==
    /\ \A p \in Push : verdict[p] \in {"none", "ok", "failed"}
    /\ \A p \in Push : verdict[p] = "ok" =>
          clone[p] \subseteq master /\ (pushing # None => clone[p] \subseteq currentRev)
    /\ pushing # None => verdict[pushing] = "none"

\* The commit at hand is yet to be submitted.
Ahead == pc \in {"open", "submit"} => Head(revs).id \notin tags[synced]

\* Once the last part of a push is in Perforce, nothing can fail any more.
Through == {"tag push", "pull", "checkout", "branch", "next", "record", "rebase", "pushed"}
LastOut ==
    pushing # None /\ (\E f \in File : Last(Series[pushing]) \in DepotHead[f]) =>
        Len(revs) = 1 /\ pc \in Through

BridgeInv == Authored /\ Imported /\ BranchesClosed /\ Told /\ Ahead /\ LastOut

-----------------------------------------------------------------------------
(* The edits in a branch                                                    *)

Contents(t) == (UNION {t[f] : f \in File}) \ {First}

LEMMA ContentsHas ==
    \A t, e : e \in Contents(t) <=> e # First /\ \E f \in File : e \in t[f]
  BY DEF Contents

LEMMA BringsOne ==
    ASSUME NEW c, NEW d, NEW e, Brings(c, d), Brings(c, e)
    PROVE  d = e
  <1>1. FileOf[d] = FileOf[e]
    <2>1. {FileOf[d]} = {FileOf[e]} BY DEF Brings
    <2> QED BY <2>1
  <1> QED BY <1>1 DEF Brings

LEMMA SeriesFacts ==
    ASSUME NEW p \in Push
    PROVE  /\ Series[p] \in Seq(Edit) /\ DOMAIN Series[p] = 1..Len(Series[p])
           /\ Len(Series[p]) \in Nat \ {0} /\ Len(Series[p]) \in DOMAIN Series[p]
           /\ Last(Series[p]) = Series[p][Len(Series[p])]
           /\ \A k \in DOMAIN Series[p] :
                 /\ Series[p][k] \in Edit /\ Series[p][k] \notin UserEdit
                 /\ Series[p][k] \in EditsOf(p)
                 /\ FileOf[Series[p][k]] \in File /\ Series[p][k] # First
  <1>1. Series[p] \in Seq(Edit \ UserEdit) /\ Series[p] # <<>> BY ConstantsAssumption
  <1>2. /\ Series[p] \in Seq(Edit) /\ DOMAIN Series[p] = 1..Len(Series[p])
        /\ Len(Series[p]) \in Nat \ {0}
        /\ \A k \in DOMAIN Series[p] : Series[p][k] \in Edit /\ Series[p][k] \notin UserEdit
    BY <1>1
  <1>3. Last(Series[p]) = Series[p][Len(Series[p])] BY DEF Last
  <1> QED BY <1>2, <1>3, ConstantsAssumption DEF EditsOf

\* The edits in the files of a branch are those that its commits bring.
LEMMA BranchContents ==
    ASSUME NEW cs, Sound(cs), Signed(cs), NEW B, Built(cs, B)
    PROVE  Contents(TreeAt(cs, B)) = {e \in Edit : \E i \in B \ {1} : Brings(cs[i], e)}
  <1>1. cs \in Seq(CommitSet) /\ Len(cs) \in Nat /\ B \in SUBSET (1..Len(cs))
    BY DEF Sound, Built
  <1>2. \A i \in B : Grows(cs[i]) BY <1>1 DEF Sound
  <1>3. ASSUME NEW e \in Edit, NEW i \in B \ {1}, Brings(cs[i], e)
        PROVE  e \in Contents(TreeAt(cs, B))
    <2>1. FileOf[e] \in DOMAIN cs[i].to /\ e \in cs[i].to[FileOf[e]] BY <1>3 DEF Brings
    <2>2. e \in TreeAt(cs, B)[FileOf[e]] BY <1>1, <1>2, <2>1, TreeHolds
    <2> QED BY <2>2, ContentsHas, ConstantsAssumption
  <1>4. ASSUME NEW x \in Contents(TreeAt(cs, B))
        PROVE  x \in Edit /\ \E i \in B \ {1} : Brings(cs[i], x)
    <2>1. PICK f \in File : x \in TreeAt(cs, B)[f] /\ x # First BY ContentsHas
    <2> DEFINE H == {i \in B : f \in DOMAIN cs[i].to /\ x \in cs[i].to[f]}
    <2>2. H # {}
      <3>1. PICK i \in B : f \in DOMAIN cs[i].to /\ TreeAt(cs, B)[f] = cs[i].to[f]
        BY <1>1, <2>1, TreeTop
      <3> QED BY <2>1, <3>1
    <2>3. H \in SUBSET Nat
      <3>1. H \subseteq B OBVIOUS
      <3>2. B \subseteq Nat BY <1>1
      <3> HIDE DEF H
      <3> QED BY <3>1, <3>2
    <2>4. PICK i \in H : \A j \in H : i <= j
      <3> HIDE DEF H
      <3> QED BY <2>2, <2>3, LeastNumber
    <2>5. i # 1 BY <2>1 DEF Signed
    <2>6. i \in 2..Len(cs) BY <1>1, <2>5
    <2>7. PICK e \in Edit : Brings(cs[i], e) BY <2>6 DEF Signed
    <2>8. f = FileOf[e] /\ cs[i].to[f] = cs[i].from[f] \cup {e} BY <2>7 DEF Brings
    <2>9. x \notin cs[i].from[f]
      <3> SUFFICES ASSUME x \in cs[i].from[f] PROVE FALSE OBVIOUS
      <3>1. x \in TreeAt(cs, Below(B, i))[f] BY DEF Built
      <3>2. Below(B, i) \in SUBSET (1..Len(cs)) BY <1>1 DEF Below
      <3>3. PICK j \in Below(B, i) : f \in DOMAIN cs[j].to /\ x \in cs[j].to[f]
        BY <1>1, <3>1, <3>2, TreeTop
      <3>4. j \in H /\ j < i BY <3>3 DEF Below
      <3>5. i \in Nat /\ j \in Nat BY <2>3, <3>4
      <3> QED BY <2>4, <3>4, <3>5
    <2>10. x = e BY <2>8, <2>9
    <2> QED BY <2>5, <2>7, <2>10
  <1> QED BY <1>3, <1>4

-----------------------------------------------------------------------------
(* What a step does to the branches                                         *)

LEMMA PartFacts ==
    ASSUME Signed(commits), NEW p \in Push, NEW k \in DOMAIN Series[p], NEW i, Part(p, k, i)
    PROVE  i \in 1..Len(commits) /\ i # 1
  <1>1. FileOf[Series[p][k]] \in DOMAIN commits[i].to
        /\ Series[p][k] \in commits[i].to[FileOf[Series[p][k]]]
    BY DEF Part, Brings
  <1>2. Series[p][k] # First BY SeriesFacts
  <1>3. i # 1 BY <1>1, <1>2 DEF Signed
  <1> QED BY <1>3 DEF Part

LEMMA BridgeInit == Init => BridgeInv
  <1> SUFFICES ASSUME Init PROVE BridgeInv OBVIOUS
  <1>1. /\ commits = <<Commit([f \in File |-> {}], Everything)>>
        /\ master = {1} /\ incoming = {} /\ currentRev = {} /\ revs = <<>>
        /\ pc = "idle" /\ pushing = None /\ synced = 1
        /\ DOMAIN tags = {1} /\ tags[1] = {1}
        /\ clone = [p \in Push |-> {}] /\ verdict = [p \in Push |-> "none"]
    BY DEF Init
  <1>2. Len(commits) = 1 /\ commits[1] = Commit([f \in File |-> {}], Everything) BY <1>1
  <1>3. \A f \in DOMAIN commits[1].to : commits[1].to[f] = {First}
    <2> DEFINE empty == [f \in File |-> {}]
               changes == {x \in File : empty[x] # Everything[x]}
    <2>1. commits[1].to = [f \in changes |-> Everything[f]] BY <1>2 DEF Commit
    <2>2. \A f \in changes : f \in File /\ empty[f] = {} /\ Everything[f] # {} OBVIOUS
    <2>3. \A f \in File : Everything[f] \in {{}, {First}} BY DEF Everything
    <2> HIDE DEF changes
    <2> QED BY <2>1, <2>2, <2>3
  <1>4. Signed(commits)
    <2>1. 2..Len(commits) = {} BY <1>2
    <2> QED BY <1>3, <2>1 DEF Signed
  <1>5. \A p \in Push : \A k \in DOMAIN Series[p] : \A i : ~Part(p, k, i)
    BY <1>2, <1>4, PartFacts
  <1>6. Authored BY <1>1, <1>4, <1>5 DEF Authored, Ordered
  <1>7. Imported BY <1>1, <1>2 DEF Imported
  <1>8. BranchesClosed BY <1>5 DEF BranchesClosed, Closed
  <1>9. Told /\ Ahead /\ LastOut BY <1>1 DEF Told, Ahead, LastOut
  <1> QED BY <1>6, <1>7, <1>8, <1>9 DEF BridgeInv

\* A step that makes no commit.
MasterMoves ==
    \/ master' = master
    \/ master' = incoming /\ master \subseteq incoming /\ incoming = tags[synced]
    \/ master' = currentRev /\ pushing # None
    \/ /\ pc = "merge" /\ pushing # None
       /\ master' = master \cup {Head(revs).id}
Moves ==
    /\ UNCHANGED <<commits, clone>> /\ MasterMoves
    /\ incoming' \in {incoming, {}, tags[synced]}
    /\ currentRev' \in {currentRev, master, {}}
    /\ \A n \in DOMAIN tags' : \/ n \in DOMAIN tags /\ tags'[n] = tags[n]
                               \/ tags'[n] \in {incoming, master}
    /\ tags[synced] \subseteq tags'[synced']

LEMMA RefsStill ==
    ASSUME UNCHANGED <<commits, master, incoming, tags, synced, clone>>,
           currentRev' \in {currentRev, master, {}}
    PROVE  Moves
  BY DEF Moves, MasterMoves

LEMMA RebaseMoves ==
    ASSUME TypeInv, Mirrors, Rebase
    PROVE  /\ UNCHANGED commits /\ incoming' = {}
           /\ master' = master \/ (master' = incoming /\ master \subseteq incoming
                                   /\ incoming = tags[synced] /\ pushing = None)
           /\ pc' = IF pushing = None THEN "pop" ELSE "pushed"
           /\ UNCHANGED <<p4Vars, tags, synced, workVars, userVars>>
  <1>1. pc = "rebase" /\ UNCHANGED <<p4Vars, synced, workVars, userVars>>
    BY DEF Rebase
  <1>2. Phase BY DEF Mirrors
  <1>3. commits \in Seq(CommitSet) /\ Len(commits) \in Nat /\ Tree(master) = Ours BY MirrorFacts
  <1>4. HeadTree = files /\ HeadTree = index /\ ~unmerged /\ ~rebasing
    <2>1. CASE pushing = None
      BY <1>1, <1>2, <2>1, MirrorFacts DEF Phase, Taking, Drawn, At, Pulled, Fresh
    <2>2. CASE pushing # None
      BY <1>1, <1>2, <2>2, MirrorFacts DEF Phase, Pushes, TakenBack, At
    <2> QED BY <2>1, <2>2
  <1>5. CanCheckout(Tree(master)) BY <1>4 DEF CanCheckout
  <1>6. CASE incoming \subseteq master
    BY <1>1, <1>4, <1>5, <1>6 DEF Rebase
  <1>7. CASE ~(incoming \subseteq master)
    <2>1. pushing = None BY <1>1, <1>2, <1>7 DEF Phase, Pushes, TakenBack
    <2>2. master \subseteq incoming /\ incoming = tags[synced]
      BY <1>1, <1>2, <2>1 DEF Phase, Taking, Drawn
    <2>3. Rebased = [ok |-> TRUE, tree |-> Tree(incoming), made |-> <<>>]
      BY <2>2, NothingToReplay
    <2>4. Rebased.ok /\ Rebased.made = <<>> BY <2>3
    <2>5. /\ commits' = commits \o <<>> /\ incoming' = {} /\ pc' = "pop"
          /\ master' = incoming \cup (Len(commits) + 1)..Len(commits')
          /\ UNCHANGED tags
      BY <1>1, <1>4, <1>5, <1>7, <2>1, <2>4 DEF Rebase
    <2>6. commits' = commits BY <1>3, <2>5
    <2>7. (Len(commits) + 1)..Len(commits') = {} BY <1>3, <2>6
    <2> QED BY <1>1, <2>1, <2>2, <2>5, <2>6, <2>7
  <1> QED BY <1>6, <1>7

LEMMA PullMoves ==
    ASSUME TypeInv, Mirrors, Pull, ~CommitChange
    PROVE  Moves
  <1> USE DEF p4Vars, refVars, diskVars, workVars, userVars
  <1>1. Phase /\ synced \in DOMAIN tags BY MirrorFacts DEF Mirrors
  <1>2. CASE StartPull \/ NextChange \/ Sync \/ Stage
    BY <1>2, RefsStill DEF StartPull, NextChange, Sync, Stage
  <1>3. CASE CheckoutMaster
    BY <1>3 DEF CheckoutMaster, Moves, MasterMoves
  <1>4. CASE BranchIncoming
    BY <1>1, <1>4 DEF BranchIncoming, Moves, MasterMoves
  <1>5. CASE TagChange
    <2>1. /\ pc = "tag" /\ tags' = Tagged(Head(newStuff), incoming)
          /\ UNCHANGED <<commits, master, incoming, synced, clone, currentRev>>
      BY <1>5 DEF TagChange
    <2>2. Taking BY <1>1, <2>1 DEF Phase, Pushes, PushSteps, Importing
    <2>3. Head(newStuff) # synced BY <1>1, <2>1, <2>2 DEF Taking, Unknown
    <2>4. /\ tags'[synced] = tags[synced]
          /\ \A n \in DOMAIN tags' : \/ n \in DOMAIN tags /\ tags'[n] = tags[n]
                                     \/ tags'[n] = incoming
      BY <1>1, <2>1, <2>3 DEF Tagged
    <2> QED BY <2>1, <2>4 DEF Moves, MasterMoves
  <1>6. CASE Record
    <2>1. /\ pc = "record" /\ synced' \in {synced, Head(newStuff)}
          /\ UNCHANGED <<commits, master, incoming, tags, clone, currentRev>>
      BY <1>6 DEF Record
    <2>2. tags[synced] \subseteq tags[Head(newStuff)]
      <3>1. CASE pushing = None
        BY <1>1, <2>1, <3>1 DEF Phase, Importing, Taking
      <3>2. CASE pushing # None
        <4>1. TakenBack BY <1>1, <2>1, <3>2 DEF Phase, Pushes
        <4>2. newStuff = <<LastNum>> BY <2>1, <4>1 DEF TakenBack
        <4>3. Head(newStuff) = LastNum BY <4>2
        <4> QED BY <4>1, <4>3 DEF TakenBack, LastTagged
      <3> QED BY <3>1, <3>2
    <2> QED BY <2>1, <2>2 DEF Moves, MasterMoves
  <1>7. CASE Rebase
    <2>1. /\ UNCHANGED commits /\ incoming' = {}
          /\ master' = master \/ (master' = incoming /\ master \subseteq incoming
                                  /\ incoming = tags[synced])
          /\ UNCHANGED <<tags, synced, clone, currentRev>>
      BY <1>7, RebaseMoves
    <2> QED BY <2>1 DEF Moves, MasterMoves
  <1> QED BY <1>2, <1>3, <1>4, <1>5, <1>6, <1>7 DEF Pull

LEMMA MergeMoves ==
    ASSUME TypeInv, Mirrors, MergeRev
    PROVE  /\ pushing # None /\ pc = "merge"
           /\ UNCHANGED <<commits, incoming, tags, synced, workVars, userVars, p4Vars>>
           /\ \/ master' = master /\ pc' = "rollback"
              \/ master' = master \cup {Head(revs).id} /\ pc' = "open"
  <1>1. /\ pc = "merge"
        /\ UNCHANGED <<p4Vars, commits, incoming, tags, synced, workVars, userVars>>
        /\ \/ master' = master /\ Thrown
           \/ /\ master' = master \cup {i \in clone[pushing] : i <= Head(revs).id}
              /\ pc' = "open"
    BY Zenon DEF MergeRev
  <1>2. pushing # None BY <1>1 DEF Mirrors, Phase, Importing
  <1> DEFINE r == Head(revs).id
             C == clone[pushing]
  <1>3. /\ r \in C \ master /\ \A i \in Below(C, r) : i \in master
        /\ r \in Nat
    BY <1>1, <1>2, HeadOfPush
  <1>4. \A i \in C : i \in Nat
    <2>1. pushing \in Push BY <1>2, TypeFacts DEF RestTyped
    <2>2. C \in Branches BY <2>1, TypeFacts DEF RefsTyped
    <2> QED BY <2>2, TypeFacts DEF Branches
  <1>5. \A i \in C : i <= r => i \in Below(C, r) \/ i = r
    <2> HIDE DEF C, r
    <2> QED BY <1>3, <1>4 DEF Below
  <1>6. master \cup {i \in C : i <= r} = master \cup {r}
    <2> HIDE DEF C, r
    <2>1. r \in {i \in C : i <= r} BY <1>3
    <2>2. \A i \in {j \in C : j <= r} : i \in master \/ i = r BY <1>3, <1>5
    <2> QED BY <2>1, <2>2
  <1> QED BY <1>1, <1>2, <1>6 DEF Thrown

LEMMA TagPushMoves ==
    ASSUME TypeInv, Mirrors, TagPush
    PROVE  /\ pc = "tag push" /\ pc' = "pull" /\ pushing # None
           /\ UNCHANGED <<commits, master, incoming, synced, clone, currentRev, revs, pushing,
                          verdict, p4Vars>>
           /\ tags' = Tagged(LastNum, master) /\ LastNum \notin DOMAIN tags
  <1>1. pc = "tag push" BY DEF TagPush
  <1>2. Phase BY DEF Mirrors
  <1>3. pushing # None BY <1>1, <1>2 DEF Phase, Importing
  <1>4. Sent /\ final.num = LastNum /\ final.renamed = FALSE
    BY <1>1, <1>2, <1>3 DEF Phase, Pushes
  <1>5. LastNum \notin DOMAIN tags
    <2>1. synced < LastNum /\ LastNum \in Nat BY <1>4, BehindOne, MirrorFacts DEF Sent
    <2>2. synced \in Nat BY MirrorFacts
    <2>3. ~Counted BY <1>1 DEF Counted
    <2>4. ~(LastNum <= synced) BY <2>1, <2>2
    <2> QED BY <1>1, <2>3, <2>4, Zenon DEF Mirrors, TagsTaken
  <1> QED BY <1>1, <1>3, <1>4, <1>5 DEF TagPush, userVars

LEMMA PushMoves ==
    ASSUME TypeInv, Mirrors, PushThrough
    PROVE  Moves
  <1> USE DEF p4Vars, refVars, diskVars, workVars, userVars
  <1>1. Phase /\ synced \in DOMAIN tags BY MirrorFacts DEF Mirrors
  <1>2. CASE NoRequest \/ OpenFiles \/ Submit \/ RevertOpened
    BY <1>2, RefsStill DEF NoRequest, OpenFiles, Submit, RevertOpened
  <1>3. CASE NextRev
    BY <1>3, RefsStill DEF NextRev
  <1>4. CASE ResetFiles
    BY <1>4, RefsStill DEF ResetFiles, GiveUpPush
  <1>5. ASSUME NEW p \in Push, StartPush(p) PROVE Moves
    BY <1>5, RefsStill DEF StartPush
  <1>6. CASE MergeRev
    BY <1>6, MergeMoves DEF Moves, MasterMoves
  <1>7. CASE TagPush
    <2>1. /\ tags' = Tagged(LastNum, master) /\ LastNum \notin DOMAIN tags
          /\ UNCHANGED <<commits, master, incoming, synced, clone, currentRev>>
      BY <1>7, TagPushMoves
    <2>2. /\ tags'[synced] = tags[synced]
          /\ \A n \in DOMAIN tags' : \/ n \in DOMAIN tags /\ tags'[n] = tags[n]
                                     \/ tags'[n] = master
      BY <1>1, <2>1 DEF Tagged
    <2> QED BY <2>1, <2>2 DEF Moves, MasterMoves
  <1>8. CASE ResetPush
    <2>1. pushing # None BY <1>1, <1>8 DEF ResetPush, Phase, Importing
    <2> QED BY <1>8, <2>1 DEF ResetPush, Moves, MasterMoves
  <1> QED BY <1>2, <1>3, <1>4, <1>5, <1>6, <1>7, <1>8 DEF PushThrough

-----------------------------------------------------------------------------
(* Steps that make no commit                                                *)

LEMMA AuthoredStays ==
    ASSUME Authored, UNCHANGED <<commits, clone>>
    PROVE  Authored'
  BY DEF Authored, Signed, Ordered, Part

LEMMA HeadOfClone ==
    ASSUME TypeInv, Mirrors, pushing # None, pc = "merge"
    PROVE  /\ pushing \in Push /\ Head(revs).id \in clone[pushing] \ master
           /\ \A i \in clone[pushing] : i \in Nat
           /\ Head(revs).id \in Nat
           /\ \A i \in clone[pushing] : i < Head(revs).id => i \in master
  <1>1. pushing \in Push BY TypeFacts DEF RestTyped
  <1>2. \A i \in clone[pushing] : i \in Nat
    <2>1. clone[pushing] \in Branches BY <1>1, TypeFacts DEF RefsTyped
    <2> QED BY <2>1, TypeFacts DEF Branches
  <1>3. /\ Head(revs).id \in clone[pushing] \ master
        /\ \A i \in Below(clone[pushing], Head(revs).id) : i \in master
    BY HeadOfPush
  <1> QED BY <1>1, <1>2, <1>3 DEF Below

LEMMA ImportedMoves ==
    ASSUME TypeInv, Mirrors, Imported, Moves
    PROVE  Imported'
  <1> SUFFICES ASSUME NEW i \in 1..Len(commits),
                      i \in master' \/ \E p \in Push : i \in clone[p]
               PROVE  i \in tags[synced] \/ OfPush(i)
    BY DEF Imported, Moves, OfPush, Part
  <1>1. CASE i \in master \/ \E p \in Push : i \in clone[p] BY <1>1 DEF Imported
  <1>2. CASE i \in master' /\ ~(i \in master \/ \E p \in Push : i \in clone[p])
    <2>1. \/ i \in incoming /\ incoming = tags[synced]
          \/ i \in currentRev /\ pushing # None
          \/ pc = "merge" /\ pushing # None /\ i = Head(revs).id
      BY <1>2 DEF Moves, MasterMoves
    <2>2. pushing # None => currentRev \subseteq tags[synced]
      BY DEF Mirrors, Phase, Pushes
    <2>3. pc = "merge" /\ pushing # None => \E p \in Push : Head(revs).id \in clone[p]
      BY HeadOfClone
    <2> QED BY <1>2, <2>1, <2>2, <2>3
  <1> QED BY <1>1, <1>2

LEMMA ClosedMoves ==
    ASSUME TypeInv, Mirrors, Authored, BranchesClosed, Moves
    PROVE  BranchesClosed'
  <1>1. ASSUME NEW B PROVE Closed(B)' <=> Closed(B)
    BY DEF Moves, Closed, Part
  <1>2. Closed({}) BY DEF Closed
  <1>3. pc = "merge" /\ pushing # None => Closed(master \cup {Head(revs).id})
    <2> DEFINE r == Head(revs).id
    <2> SUFFICES ASSUME pc = "merge", pushing # None,
                        NEW p \in Push, NEW k \in DOMAIN Series[p], NEW l \in DOMAIN Series[p],
                        k < l, NEW i, NEW j, Part(p, k, i), Part(p, l, j), j \in master \cup {r}
                 PROVE  i \in master \cup {r}
      BY DEF Closed
    <2>1. /\ pushing \in Push /\ r \in clone[pushing] /\ r \in Nat
          /\ \A x \in clone[pushing] : x \in Nat /\ (x < r => x \in master)
      BY HeadOfClone
    <2>2. CASE j \in master BY <2>2 DEF BranchesClosed, Closed
    <2>3. CASE j = r
      <3>1. i \in clone[pushing] BY <2>1, <2>3 DEF BranchesClosed, Closed
      <3>2. i <= j <=> k <= l BY DEF Authored, Ordered
      <3>3. k \in Nat /\ l \in Nat BY SeriesFacts
      <3>4. i \in Nat /\ i <= r BY <2>1, <2>3, <3>1, <3>2, <3>3
      <3> QED BY <2>1, <3>1, <3>4
    <2> QED BY <2>2, <2>3
  <1>4. Closed(tags[synced]) BY MirrorFacts DEF BranchesClosed
  <1>5. Closed(master') BY <1>3 DEF Moves, MasterMoves, BranchesClosed
  <1>6. Closed(incoming') /\ Closed(currentRev') BY <1>2, <1>4 DEF Moves, BranchesClosed
  <1>7. \A n \in DOMAIN tags' : Closed(tags'[n])
    BY DEF Moves, BranchesClosed
  <1>8. \A p \in Push : Closed(clone'[p]) BY DEF Moves, BranchesClosed
  <1> QED BY <1>1, <1>5, <1>6, <1>7, <1>8 DEF BranchesClosed

-----------------------------------------------------------------------------
(* Steps that make commits                                                  *)

LEMMA CommitBrings ==
    ASSUME NEW e \in Edit, NEW old, NEW new, e \notin old[FileOf[e]],
           new[FileOf[e]] = old[FileOf[e]] \cup {e},
           \A f \in File : f # FileOf[e] => new[f] = old[f]
    PROVE  Brings(Commit(old, new), e)
  <1> DEFINE x == {f \in File : old[f] # new[f]}
             c == Commit(old, new)
  <1>1. c.from = [f \in x |-> old[f]] /\ c.to = [f \in x |-> new[f]] BY DEF Commit
  <1>2. FileOf[e] \in File BY ConstantsAssumption
  <1>3. x = {FileOf[e]} BY <1>2
  <1> HIDE DEF x, c
  <1>4. DOMAIN c.from = {FileOf[e]} /\ DOMAIN c.to = {FileOf[e]} BY <1>1, <1>3
  <1>5. c.from[FileOf[e]] = old[FileOf[e]] /\ c.to[FileOf[e]] = new[FileOf[e]] BY <1>1, <1>3
  <1>6. Brings(c, e) BY <1>4, <1>5 DEF Brings
  <1> QED BY <1>6 DEF c

\* A commit of the pull brings what a Perforce user submitted.
LEMMA UserCommit ==
    ASSUME TypeInv, Mirrors, CommitChange
    PROVE  /\ Len(commits') = Len(commits) + 1 /\ incoming' = incoming \cup {Len(commits')}
           /\ \A i \in 1..Len(commits) : commits'[i] = commits[i]
           /\ \E e \in UserEdit : Brings(commits'[Len(commits')], e)
           /\ UNCHANGED <<p4Vars, master, tags, synced, workVars, userVars>>
           /\ pushing = None /\ pc = "commit" /\ pc' = "tag"
  <1> DEFINE c == Commit(HeadTree, index)
             n == Len(commits) + 1
  <1>1. /\ pc = "commit"
        /\ UNCHANGED <<p4Vars, master, head, unmerged, rebasing, tags, oddTag, diskVars,
                       synced, workVars, userVars>>
    BY DEF CommitChange
  <1>2. Phase BY DEF Mirrors
  <1>3. pushing = None /\ newStuff # <<>> /\ pc \in Importing
    BY <1>1, <1>2 DEF Phase, Pushes, PushSteps, TypeInv, OrderInv, InOrder, Importing
  <1>4. Taking /\ Unknown BY <1>1, <1>2, <1>3 DEF Phase, Importing, Taking
  <1>5. incoming = tags[synced] /\ index = Coming /\ head = "p4-incoming"
    BY <1>1, <1>4 DEF Taking
  <1>6. PICK e \in UserEdit : /\ e \notin Fresh[FileOf[e]]
                              /\ Coming = [Fresh EXCEPT ![FileOf[e]] = @ \cup {e}]
    BY <1>3, <1>4, UserCame
  <1>7. e \in Edit /\ FileOf[e] \in File BY ConstantsAssumption
  <1>8. commits \in Seq(CommitSet) /\ Len(commits) \in Nat /\ Fresh \in Trees BY MirrorFacts
  <1>9. HeadTree = Fresh BY <1>5, MirrorFacts DEF Pulled, Fresh
  <1>10. DOMAIN Fresh = File BY <1>8 DEF Trees
  <1>11. /\ Coming[FileOf[e]] = Fresh[FileOf[e]] \cup {e}
         /\ \A f \in File : f # FileOf[e] => Coming[f] = Fresh[f]
    BY <1>6, <1>7, <1>10
  <1>12. index # HeadTree BY <1>5, <1>6, <1>9, <1>11
  <1>13. commits' = Append(commits, c) /\ incoming' = incoming \cup {n} /\ pc' = "tag"
    BY <1>1, <1>12 DEF CommitChange
  <1>14. Brings(c, e)
    <2>1. Brings(Commit(Fresh, Coming), e) BY <1>6, <1>7, <1>11, CommitBrings
    <2> QED BY <1>5, <1>9, <2>1
  <1>15. Len(commits') = n /\ commits'[n] = c
         /\ \A i \in 1..Len(commits) : commits'[i] = commits[i]
    <2> HIDE DEF c
    <2> QED BY <1>8, <1>13
  <1> QED BY <1>1, <1>3, <1>13, <1>14, <1>15

LEMMA PartsStay ==
    ASSUME Len(commits) \in Nat, Len(commits') \in Nat, Len(commits) <= Len(commits'),
           \A i \in 1..Len(commits) : commits'[i] = commits[i],
           NEW p, NEW k, NEW i \in 1..Len(commits)
    PROVE  Part(p, k, i)' <=> Part(p, k, i)
  BY DEF Part

LEMMA SignedMore ==
    ASSUME TypeInv, Signed(commits), commits # <<>>, Len(commits') \in Nat,
           Len(commits) <= Len(commits'),
           \A i \in 1..Len(commits) : commits'[i] = commits[i],
           \A i \in (Len(commits) + 1)..Len(commits') : \E e \in Edit : Brings(commits'[i], e)
    PROVE  Signed(commits')
  <1>1. commits \in Seq(CommitSet) /\ Len(commits) \in Nat BY TypeFacts
  <1>2. 1 \in 1..Len(commits) BY <1>1
  <1>3. commits'[1] = commits[1] BY <1>2
  <1>4. \A i \in 2..Len(commits') : \/ i \in 2..Len(commits) /\ commits'[i] = commits[i]
                                    \/ i \in (Len(commits) + 1)..Len(commits')
    BY <1>1
  <1> QED BY <1>3, <1>4 DEF Signed

LEMMA BridgeCommit ==
    ASSUME TypeInv, Mirrors, Authored, Imported, BranchesClosed, CommitChange
    PROVE  Authored' /\ Imported' /\ BranchesClosed'
  <1> DEFINE n == Len(commits')
  <1>1. /\ n = Len(commits) + 1 /\ incoming' = incoming \cup {n}
        /\ \A i \in 1..Len(commits) : commits'[i] = commits[i]
        /\ UNCHANGED <<master, tags, synced, currentRev, clone>>
    BY UserCommit DEF workVars, userVars
  <1>2. PICK e \in UserEdit : Brings(commits'[n], e) BY UserCommit
  <1>3. commits \in Seq(CommitSet) /\ Len(commits) \in Nat /\ e \in Edit
    BY TypeFacts, ConstantsAssumption
  <1>4. n \in Nat /\ Len(commits) <= n /\ \A i : i \in 1..n <=> i \in 1..Len(commits) \/ i = n
    BY <1>1, <1>3
  <1>5. \A p \in Push : \A k \in DOMAIN Series[p] : ~Brings(commits'[n], Series[p][k])
    BY <1>2, BringsOne, SeriesFacts
  <1>6. \A p \in Push : \A k \in DOMAIN Series[p] : \A i : Part(p, k, i)' <=> Part(p, k, i)
    <2> SUFFICES ASSUME NEW p \in Push, NEW k \in DOMAIN Series[p], NEW i
                 PROVE  Part(p, k, i)' <=> Part(p, k, i)
      OBVIOUS
    <2>1. CASE i \in 1..Len(commits) BY <1>1, <1>3, <1>4, <2>1, PartsStay
    <2>2. CASE i \notin 1..Len(commits) BY <1>4, <1>5, <2>2 DEF Part
    <2> QED BY <2>1, <2>2
  <1> HIDE DEF n
  <1>7. Signed(commits')
    <2>1. Signed(commits) /\ commits # <<>> BY DEF Authored, Mirrors, Linked, Sound
    <2>2. \A i \in (Len(commits) + 1)..n : i = n BY <1>1, <1>3
    <2>3. \A i \in (Len(commits) + 1)..n : \E x \in Edit : Brings(commits'[i], x)
      BY <1>2, <1>3, <2>2
    <2> QED BY <1>1, <1>4, <2>1, <2>3, SignedMore DEF n
  <1>8. Authored'
    <2>1. \A p \in Push : Ordered(p)' BY <1>1, <1>6 DEF Authored, Ordered
    <2>2. \A p \in Push : clone'[p] # {} =>
              \A k \in DOMAIN Series[p] : \E i : Part(p, k, i)'
      BY <1>1, <1>6 DEF Authored
    <2> QED BY <1>7, <2>1, <2>2 DEF Authored
  <1>9. Imported'
    <2>1. \A i : OfPush(i)' <=> OfPush(i) BY <1>6 DEF OfPush
    <2>2. \A i : i \in master \/ (\E p \in Push : i \in clone[p]) => i \in 1..Len(commits)
      <3>1. master \in Branches /\ \A p \in Push : clone[p] \in Branches
        BY TypeFacts DEF RefsTyped
      <3> QED BY <3>1 DEF Branches
    <2> QED BY <1>1, <2>1, <2>2 DEF Imported
  <1>10. \A B : Closed(B)' <=> Closed(B) BY <1>6 DEF Closed
  <1>11. Closed(incoming \cup {n})
    <2>1. \A p \in Push : \A k \in DOMAIN Series[p] : ~Part(p, k, n)
      BY <1>1, <1>3 DEF Part
    <2> QED BY <2>1 DEF BranchesClosed, Closed
  <1>12. BranchesClosed' BY <1>1, <1>10, <1>11 DEF BranchesClosed
  <1> QED BY <1>8, <1>9, <1>12

\* The commits of a session bring its edits, each once, for no one else has them.
LEMMA SessionBrings ==
    ASSUME TypeInv, Mirrors, Delivery, EditsOnce, NEW p \in Push, SessionClones(p)
    PROVE  /\ Len(commits') = Len(commits) + Len(Series[p])
           /\ \A i \in 1..Len(commits) : commits'[i] = commits[i]
           /\ \A k \in DOMAIN Series[p] : Brings(commits'[Len(commits) + k], Series[p][k])
  <1> DEFINE N == Len(Series[p])
             L == Len(commits)
  <1>1. /\ commits' = commits \o Made(p) /\ clone[p] = {}
        /\ Made(p) \in Seq(CommitSet) /\ Len(Made(p)) = N
        /\ \A k \in 1..N : Made(p)[k] = Commit(Before(p, k - 1), Before(p, k))
    BY CloneMakes
  <1>2. Linked /\ commits \in Seq(CommitSet) BY MirrorFacts DEF Mirrors
  <1>3. /\ Len(commits') = L + N /\ \A i \in 1..L : commits'[i] = commits[i]
        /\ \A k \in 1..N : commits'[L + k] = Made(p)[k]
    BY <1>1, <1>2, MoreCommits
  <1>4. DOMAIN Series[p] = 1..N /\ N \in Nat BY SeriesFacts
  <1> HIDE DEF N, L
  <1>5. ASSUME NEW k \in 1..N PROVE Brings(Made(p)[k], Series[p][k])
    <2> DEFINE e == Series[p][k]
               g == FileOf[e]
               S(f, n) == {x \in Edit : FileOf[x] = f /\ \E j \in 1..n : Series[p][j] = x}
    <2>1. e \in Edit /\ g \in File /\ e \in EditsOf(p) BY <1>4, SeriesFacts
    <2>2. Tree(master)[g] \in Content /\ e \notin Tree(master)[g]
      <3>1. Delivers(e, p) /\ Steady BY <2>1 DEF Delivery
      <3>2. Kept(e, p) BY <1>1, <3>1 DEF Steady, Delivers, Waits
      <3>3. Tree(master) \in Bare(e) BY <1>2, <3>2, TreeBare DEF Kept
      <3>4. Tree(master) \in Trees BY <3>3 DEF Bare
      <3> QED BY <2>1, <3>3, <3>4 DEF Bare, Trees, Content
    <2>3. \A j \in 1..(k - 1) : Series[p][j] # e
      <3>1. \A j \in 1..(k - 1) : j \in DOMAIN Series[p] /\ j # k BY <1>4
      <3> QED BY <1>4, <3>1 DEF EditsOnce
    <2>4. \A f \in File : \A n : Before(p, n)[f] = Tree(master)[f] \cup S(f, n)
      BY DEF Before
    <2>5. e \notin Before(p, k - 1)[g]
      <3>1. e \notin S(g, k - 1) BY <2>3
      <3> HIDE DEF S, e, g
      <3> QED BY <2>1, <2>2, <2>4, <3>1
    <2>6. \A j : j \in 1..k <=> j \in 1..(k - 1) \/ j = k BY <1>4
    <2>7. \A f \in File : S(f, k) = IF f = g THEN S(f, k - 1) \cup {e} ELSE S(f, k - 1)
      BY ONLY <2>1, <2>6
    <2> HIDE DEF S
    <2>8. Before(p, k)[g] = Before(p, k - 1)[g] \cup {e}
      <3> HIDE DEF e, g
      <3> QED BY <2>1, <2>4, <2>7
    <2>9. \A f \in File : f # g => Before(p, k)[f] = Before(p, k - 1)[f]
      <3> HIDE DEF e, g
      <3> QED BY <2>4, <2>7
    <2>10. Brings(Commit(Before(p, k - 1), Before(p, k)), e)
      BY <2>1, <2>5, <2>8, <2>9, CommitBrings
    <2> QED BY <1>1, <2>10
  <1> QED BY <1>3, <1>4, <1>5 DEF N, L

LEMMA BridgeClone ==
    ASSUME TypeInv, Mirrors, Delivery, EditsOnce, Authored, Imported, BranchesClosed,
           NEW p \in Push, SessionClones(p)
    PROVE  Authored' /\ Imported' /\ BranchesClosed'
  <1> DEFINE N == Len(Series[p])
             L == Len(commits)
  <1>1. /\ clone' = [clone EXCEPT ![p] = master \cup News(p)] /\ clone[p] = {}
        /\ UNCHANGED <<master, incoming, currentRev, tags>>
        /\ clone \in [Push -> Branches]
    BY CloneMakes
  <1>2. synced' = synced BY DEF SessionClones
  <1>3. /\ Len(commits') = L + N /\ \A i \in 1..L : commits'[i] = commits[i]
        /\ \A k \in DOMAIN Series[p] : Brings(commits'[L + k], Series[p][k])
    BY SessionBrings
  <1>4. commits \in Seq(CommitSet) /\ L \in Nat BY TypeFacts
  <1>5. DOMAIN Series[p] = 1..N /\ N \in Nat \ {0} BY SeriesFacts
  <1>6. /\ clone'[p] = master \cup (L + 1)..(L + N)
        /\ \A q \in Push : q # p => clone'[q] = clone[q]
    BY <1>1 DEF News
  <1>7. /\ master \in SUBSET (1..L) /\ \A q \in Push : clone[q] \in SUBSET (1..L)
        /\ incoming \in SUBSET (1..L) /\ currentRev \in SUBSET (1..L)
        /\ \A n \in DOMAIN tags : tags[n] \in SUBSET (1..L)
    BY <1>1, TypeFacts DEF RefsTyped, Branches
  <1> HIDE DEF N, L
  <1>8. Len(commits') \in Nat /\ L <= Len(commits') BY <1>3, <1>4, <1>5
  <1>9. \A q \in Push : \A k : \A i \in 1..L : Part(q, k, i)' <=> Part(q, k, i)
    BY <1>3, <1>4, <1>8, PartsStay DEF L
  <1>10. \A k \in DOMAIN Series[p] : \A i \in 1..L : ~Part(p, k, i)
    BY <1>1 DEF Authored, Ordered
  <1>11. ASSUME NEW q \in Push, NEW k \in DOMAIN Series[q], NEW i
         PROVE  Part(q, k, i)' <=> \/ q # p /\ i \in 1..L /\ Part(q, k, i)
                                   \/ q = p /\ i = L + k
    <2>1. CASE i \in 1..L
      <3>1. q = p => i # L + k BY <1>4, <1>5, <2>1
      <3> QED BY <1>9, <1>10, <2>1, <3>1
    <2>2. CASE i \in (L + 1)..(L + N)
      <3> DEFINE j == i - L
      <3>1. j \in DOMAIN Series[p] /\ i = L + j /\ i \notin 1..L /\ i \in 1..Len(commits')
        BY <1>3, <1>4, <1>5, <2>2
      <3>2. Brings(commits'[i], Series[p][j]) BY <1>3, <3>1
      <3>3. Part(q, k, i)' <=> Brings(commits'[i], Series[q][k]) BY <3>1 DEF Part
      <3>4. Brings(commits'[i], Series[q][k]) => q = p /\ j = k
        BY <3>1, <3>2, BringsOne DEF EditsOnce
      <3> HIDE DEF j
      <3>5. q = p /\ i = L + k => j = k BY <1>4, <1>5, <3>1
      <3> QED BY <3>1, <3>2, <3>3, <3>4, <3>5
    <2>3. CASE i \notin 1..L /\ i \notin (L + 1)..(L + N)
      <3>1. i \notin 1..Len(commits') BY <1>3, <1>4, <1>5, <2>3
      <3>2. ~(q = p /\ i = L + k) BY <1>4, <1>5, <2>3
      <3>3. ~Part(q, k, i)' BY <3>1 DEF Part
      <3> QED BY <2>3, <3>2, <3>3
    <2> QED BY <2>1, <2>2, <2>3
  <1>12. Signed(commits')
    <2>1. Signed(commits) /\ commits # <<>> BY DEF Authored, Mirrors, Linked, Sound
    <2>2. \A i \in (L + 1)..Len(commits') : i - L \in DOMAIN Series[p] /\ i = L + (i - L)
      BY <1>3, <1>4, <1>5
    <2>3. \A i \in (L + 1)..Len(commits') : \E e \in Edit : Brings(commits'[i], e)
      BY <1>3, <2>2, SeriesFacts
    <2> QED BY <1>3, <1>8, <2>1, <2>3, SignedMore DEF L
  <1>13. Ordered(p)'
    <2> SUFFICES ASSUME NEW k \in DOMAIN Series[p], NEW i, Part(p, k, i)'
                 PROVE  /\ i \in clone'[p]
                        /\ k = N => \A j \in clone'[p] : j <= i
                        /\ \A l \in DOMAIN Series[p] : \A j :
                              Part(p, l, j)' => (i <= j <=> k <= l)
      BY DEF Ordered, N
    <2>1. i = L + k BY <1>11
    <2>2. i \in clone'[p] BY <1>4, <1>5, <1>6, <2>1
    <2>3. k = N => \A j \in clone'[p] : j <= i
      <3>1. \A j \in master : j \in Nat /\ j <= L BY <1>7
      <3> QED BY <1>4, <1>5, <1>6, <2>1, <3>1
    <2>4. \A l \in DOMAIN Series[p] : \A j : Part(p, l, j)' => j = L + l BY <1>11
    <2>5. \A l \in DOMAIN Series[p] : i <= L + l <=> k <= l BY <1>4, <1>5, <2>1
    <2> QED BY <2>2, <2>3, <2>4, <2>5
  <1>14. ASSUME NEW q \in Push \ {p} PROVE Ordered(q)'
    <2>1. \A k \in DOMAIN Series[q] : \A i : Part(q, k, i)' => Part(q, k, i) BY <1>11
    <2> QED BY <1>6, <2>1 DEF Authored, Ordered
  <1>15. ASSUME NEW q \in Push, NEW k \in DOMAIN Series[q], clone'[q] # {}
         PROVE  \E i : Part(q, k, i)'
    <2>1. CASE q = p BY <1>11, <2>1
    <2>2. CASE q # p
      <3>1. PICK i : Part(q, k, i) BY <1>6, <1>15, <2>2 DEF Authored
      <3>2. i \in 1..L BY <3>1 DEF Part, L
      <3> QED BY <1>11, <2>2, <3>1, <3>2
    <2> QED BY <2>1, <2>2
  <1>16. Authored' BY <1>12, <1>13, <1>14, <1>15 DEF Authored
  <1>17. ASSUME NEW i, OfPush(i) PROVE OfPush(i)'
    <2>1. PICK q \in Push : \E k \in DOMAIN Series[q] : Part(q, k, i) BY <1>17 DEF OfPush
    <2> PICK k \in DOMAIN Series[q] : Part(q, k, i) BY <2>1
    <2>2. i \in 1..L BY <2>1 DEF Part, L
    <2>3. Part(q, k, i)' BY <1>9, <2>1, <2>2
    <2> QED BY <2>3 DEF OfPush
  <1>18. Imported'
    <2> SUFFICES ASSUME NEW i, i \in master \/ (\E q \in Push : i \in clone'[q])
                 PROVE  i \in tags[synced] \/ OfPush(i)'
      BY <1>1, <1>2 DEF Imported
    <2>1. CASE i \in master \/ (\E q \in Push : i \in clone[q])
      BY <1>7, <1>17, <2>1 DEF Imported, L
    <2>2. CASE i \in (L + 1)..(L + N)
      <3>1. \E k \in DOMAIN Series[p] : i = L + k
        <4>1. i - L \in DOMAIN Series[p] /\ i = L + (i - L) BY <1>4, <1>5, <2>2
        <4> QED BY <4>1
      <3> QED BY <1>11, <3>1 DEF OfPush
    <2> QED BY <1>6, <2>1, <2>2
  <1>19. ASSUME NEW B \in SUBSET (1..L), Closed(B) PROVE Closed(B)'
    <2> SUFFICES ASSUME NEW q \in Push, NEW k \in DOMAIN Series[q], NEW l \in DOMAIN Series[q],
                        k < l, NEW i, NEW j, Part(q, k, i)', Part(q, l, j)', j \in B
                 PROVE  i \in B
      BY DEF Closed
    <2>1. j # L + l \/ q # p
      <3>1. q = p => l \in Nat \ {0} BY <1>5
      <3> QED BY <1>4, <3>1
    <2>2. q # p /\ Part(q, l, j) BY <1>11, <2>1
    <2>3. Part(q, k, i) BY <1>11, <2>2
    <2> QED BY <1>19, <2>2, <2>3 DEF Closed
  <1>20. Closed(clone[p])'
    <2> SUFFICES ASSUME NEW q \in Push, NEW k \in DOMAIN Series[q], NEW l \in DOMAIN Series[q],
                        k < l, NEW i, NEW j, Part(q, k, i)', Part(q, l, j)', j \in clone'[p]
                 PROVE  i \in clone'[p]
      BY DEF Closed
    <2>1. CASE q = p
      <3>1. i = L + k BY <1>11, <2>1
      <3> QED BY <1>4, <1>5, <1>6, <2>1, <3>1
    <2>2. CASE q # p
      <3>1. Part(q, k, i) /\ Part(q, l, j) /\ j \in 1..L BY <1>11, <2>2
      <3>2. j \in master BY <1>4, <1>6, <3>1
      <3>3. i \in master BY <3>1, <3>2 DEF BranchesClosed, Closed
      <3> QED BY <1>6, <3>3
    <2> QED BY <2>1, <2>2
  <1>21. BranchesClosed'
    <2>1. (\A q \in Push : Closed(clone[q]))' BY <1>6, <1>7, <1>19, <1>20 DEF BranchesClosed
    <2>2. (\A n \in DOMAIN tags : Closed(tags[n]))' BY <1>1, <1>7, <1>19 DEF BranchesClosed
    <2>3. Closed(master)' /\ Closed(incoming)' /\ Closed(currentRev)'
      BY <1>1, <1>7, <1>19 DEF BranchesClosed
    <2> QED BY <2>1, <2>2, <2>3 DEF BranchesClosed
  <1> QED BY <1>16, <1>18, <1>21

-----------------------------------------------------------------------------
(* The submit of a commit                                                   *)

LEMMA BranchHas ==
    ASSUME TypeInv, Mirrors, Authored, NEW B, Built(commits, B)
    PROVE  \A e \in Edit : e \in Contents(TreeAt(commits, B)) <=>
              \E i \in B \ {1} : Brings(commits[i], e)
  <1>1. Sound(commits) /\ Signed(commits) BY DEF Mirrors, Linked, Authored
  <1>2. Contents(TreeAt(commits, B)) = {e \in Edit : \E i \in B \ {1} : Brings(commits[i], e)}
    BY <1>1, BranchContents
  <1> QED BY <1>2

\* What is submitted is the work of one commit of a push, no part of which is in
\* Perforce but those before it.
LEMMA SubmitBrings ==
    ASSUME TypeInv, Mirrors, Authored, Imported, BranchesClosed, Ahead, pc = "submit"
    PROVE  /\ pushing # None /\ master = tags[synced] \cup {Head(revs).id}
           /\ Contents(Ours) \subseteq Edit /\ Contents(Fresh) \subseteq Edit
           /\ \E q \in Push : \E k \in DOMAIN Series[q] :
                /\ Part(q, k, Head(revs).id)
                /\ Contents(Ours) = Contents(Fresh) \cup {Series[q][k]}
                /\ Series[q][k] \notin Contents(Fresh)
                /\ \A l \in DOMAIN Series[q] : l < k => Series[q][l] \in Contents(Fresh)
  <1> DEFINE r == Head(revs).id
             T == tags[synced]
  <1>1. pushing # None /\ MergedOne BY DEF Mirrors, Phase, Pushes, Importing
  <1>2. master = T \cup {r} /\ r \notin T BY <1>1 DEF MergedOne, Ahead
  <1>3. /\ master \in SUBSET (1..Len(commits)) /\ T \in SUBSET (1..Len(commits))
        /\ Len(commits) \in Nat /\ synced \in DOMAIN tags
    BY MirrorFacts
  <1>4. Linked BY DEF Mirrors
  <1>5. Built(commits, master) /\ Built(commits, T) BY <1>3, <1>4 DEF Linked
  <1>6. 1 \in T BY <1>5 DEF Built
  <1>7. /\ \A e \in Edit : e \in Contents(Ours) <=> \E i \in master \ {1} : Brings(commits[i], e)
        /\ \A e \in Edit : e \in Contents(Fresh) <=> \E i \in T \ {1} : Brings(commits[i], e)
    BY <1>5, BranchHas DEF Ours, Fresh
  <1>8. Contents(Ours) \subseteq Edit /\ Contents(Fresh) \subseteq Edit
    <2>1. Ours \in Trees /\ Fresh \in Trees BY MirrorFacts
    <2> QED BY <2>1 DEF Contents, Trees
  <1>9. r \in 1..Len(commits) /\ OfPush(r) BY <1>2, <1>3 DEF Imported
  <1> HIDE DEF T, r
  <1>10. PICK q \in Push : \E k \in DOMAIN Series[q] : Part(q, k, r) BY <1>9 DEF OfPush
  <1>11. PICK k \in DOMAIN Series[q] : Part(q, k, r) BY <1>10
  <1> DEFINE e == Series[q][k]
  <1>12. /\ e \in Edit /\ Ordered(q) /\ \A l \in DOMAIN Series[q] : Series[q][l] \in Edit
         /\ \A l \in DOMAIN Series[q] : l \in Nat
    BY SeriesFacts DEF Authored
  <1>13. \A x \in Edit : Brings(commits[r], x) <=> x = e BY <1>11, BringsOne DEF Part
  <1>14. r # 1 BY <1>2, <1>6
  <1>15. Contents(Ours) = Contents(Fresh) \cup {e}
    <2>1. \A x \in Edit : x \in Contents(Ours) <=> x \in Contents(Fresh) \/ x = e
      BY <1>2, <1>7, <1>13, <1>14
    <2> HIDE DEF e
    <2> QED BY <1>8, <1>12, <2>1
  <1>16. e \notin Contents(Fresh)
    <2> SUFFICES ASSUME NEW j \in T \ {1}, Brings(commits[j], e) PROVE FALSE BY <1>7, <1>12
    <2>1. j \in 1..Len(commits) BY <1>3
    <2>2. Part(q, k, j) BY <2>1 DEF Part
    <2>3. j <= r /\ r <= j
      <3>1. k <= k BY <1>12
      <3> QED BY <1>11, <1>12, <2>2, <3>1 DEF Ordered
    <2>4. j = r BY <1>9, <2>1, <2>3
    <2> QED BY <1>2, <2>4
  <1>17. ASSUME NEW l \in DOMAIN Series[q], l < k PROVE Series[q][l] \in Contents(Fresh)
    <2>1. r \in clone[q] BY <1>11, <1>12 DEF Ordered
    <2>2. PICK i : Part(q, l, i) BY <2>1 DEF Authored
    <2>3. i \in master BY <1>2, <1>11, <1>17, <2>2 DEF BranchesClosed, Closed
    <2>4. i # r
      <3>1. r <= i <=> k <= l BY <1>11, <1>12, <2>2 DEF Ordered
      <3> QED BY <1>9, <1>12, <1>17, <3>1
    <2>5. i # 1 BY <2>2, PartFacts DEF Authored
    <2> QED BY <1>2, <1>7, <1>12, <2>2, <2>3, <2>4, <2>5 DEF Part
  <1> QED BY <1>1, <1>2, <1>8, <1>11, <1>15, <1>16, <1>17 DEF r, T

LEMMA SubmitTakes ==
    ASSUME TypeInv, Mirrors, Mirrors', Submit
    PROVE  /\ pc = "submit" /\ pushing # None /\ Lines
           /\ UNCHANGED <<refVars, diskVars, synced, pushing, newStuff, changed, revs,
                          currentRev, userVars>>
           /\ \/ pc' = "reset" /\ UNCHANGED depot
              \/ /\ pc' = "tag push" /\ \E d : depot' = Append(depot, d)
                 /\ LastNum = synced /\ DepotHead = Fresh /\ DepotHead' = Ours
  <1>1. /\ pc = "submit"
        /\ UNCHANGED <<refVars, diskVars, synced, pushing, newStuff, changed, revs,
                       currentRev, userVars>>
    BY DEF Submit
  <1>2. Phase BY DEF Mirrors
  <1>3. pushing # None BY <1>1, <1>2 DEF Phase, Importing
  <1>4. Lines /\ MergedOne /\ opened = CurrentFiles BY <1>1, <1>2, <1>3 DEF Phase, Pushes
  <1>5. CASE pc' = "reset" /\ UNCHANGED p4Vars BY <1>1, <1>3, <1>4, <1>5 DEF p4Vars
  <1>6. CASE ~(pc' = "reset" /\ UNCHANGED p4Vars)
    <2>1. /\ \A f \in opened : have[f] = DepotHead[f]
          /\ pc' = "tag push" /\ \E d : depot' = Append(depot, d)
      BY <1>6 DEF Submit
    <2>2. LastNum = synced BY <1>4, <2>1 DEF MergedOne, Alone, Raced
    <2>3. DepotHead = Fresh BY <2>2, UpToDate
    <2>4. Sent' BY <1>1, <1>3, <2>1 DEF Mirrors, Phase, Pushes
    <2>5. DepotHead' = Ours' BY <2>4 DEF Sent
    <2>6. Ours' = Ours BY <1>1 DEF Ours, refVars
    <2> QED BY <1>1, <1>3, <1>4, <2>1, <2>2, <2>3, <2>5, <2>6
  <1> QED BY <1>5, <1>6

-----------------------------------------------------------------------------
(* What the pushes were told, and how a push goes on                        *)

Telling == Told /\ Ahead /\ LastOut

\* In the pull of a push that was submitted nothing fails.
LEMMA PullGoesOn ==
    ASSUME TypeInv, Mirrors, Pull, pushing # None
    PROVE  pc' \in Through /\ pc \in Through
  <1>1. Phase /\ Pushes /\ synced \in DOMAIN tags BY MirrorFacts DEF Mirrors, Phase
  <1>2. pc \in PushSteps BY <1>1 DEF Pushes
  <1>3. Tree(master) = Ours /\ HeadTree = IF head = "master" THEN Ours ELSE Pulled
    BY MirrorFacts
  <1>4. CASE StartPull
    <2>1. pc = "pull" /\ pc' = "checkout"
      BY <1>1, <1>2, <1>4 DEF StartPull, PushSteps, Pushes, Sent, Idle
    <2> QED BY <2>1 DEF Through
  <1>5. CASE CheckoutMaster
    <2>1. pc = "checkout" /\ At("master", Ours) BY <1>1, <1>5 DEF CheckoutMaster, Pushes, Sent
    <2>2. CanCheckout(Tree(master)) BY <1>3, <2>1 DEF CanCheckout, At
    <2> QED BY <1>5, <2>1, <2>2 DEF CheckoutMaster, Through
  <1>6. CASE BranchIncoming
    <2>1. pc = "branch" /\ At("master", Ours) BY <1>1, <1>6 DEF BranchIncoming, Pushes, Sent
    <2>2. CanCheckout(Tree(tags[synced])) BY <1>3, <2>1 DEF CanCheckout, At
    <2> QED BY <1>1, <1>6, <2>1, <2>2 DEF BranchIncoming, Through
  <1>7. CASE NextChange
    <2>1. pc = "next" /\ TakenBack BY <1>1, <1>7 DEF NextChange, Pushes
    <2>2. NoGitChanges BY <1>3, <2>1 DEF TakenBack, At, NoGitChanges
    <2>3. newStuff # <<>> => HasTag(Head(newStuff))
      <3>1. newStuff # <<>> => Head(newStuff) = LastNum BY <2>1 DEF TakenBack
      <3> QED BY <2>1, <3>1 DEF TakenBack, LastTagged
    <2> QED BY <1>7, <2>1, <2>2, <2>3 DEF NextChange, Through
  <1>8. CASE Sync \/ Stage \/ CommitChange \/ TagChange
    BY <1>2, <1>8 DEF PushSteps, Sync, Stage, CommitChange, TagChange
  <1>9. CASE Record
    <2>1. pc = "record" /\ TakenBack BY <1>1, <1>9 DEF Record, Pushes
    <2>2. NoGitChanges BY <1>3, <2>1 DEF TakenBack, At, NoGitChanges
    <2> QED BY <1>9, <2>1, <2>2 DEF Record, Through
  <1>10. CASE Rebase
    <2>1. pc' = "pushed" BY <1>10, RebaseMoves
    <2> QED BY <1>10, <2>1 DEF Rebase, Through
  <1> QED BY <1>4, <1>5, <1>6, <1>7, <1>8, <1>9, <1>10 DEF Pull

LEMMA TellingPull ==
    ASSUME TypeInv, Mirrors, Telling, Pull
    PROVE  Telling'
  <1> USE DEF p4Vars, refVars, diskVars, workVars, userVars
  <1>1. UNCHANGED <<depot, clone, verdict, pushing, revs, currentRev>>
    BY DEF Pull, StartPull, CheckoutMaster, BranchIncoming, NextChange, Sync, Stage,
           CommitChange, TagChange, Record, Rebase
  <1>2. master \subseteq master'
    <2>1. CASE Rebase BY <2>1, RebaseMoves
    <2>2. CASE ~Rebase
      <3>1. UNCHANGED master
        BY <2>2
        DEF Pull, StartPull, CheckoutMaster, BranchIncoming, NextChange, Sync, Stage,
            CommitChange, TagChange, Record
      <3> QED BY <3>1
    <2> QED BY <2>1, <2>2
  <1>3. pc' \notin {"open", "submit"}
    BY DEF Pull, StartPull, CheckoutMaster, BranchIncoming, NextChange, Sync, Stage,
           CommitChange, TagChange, Record, Rebase, Thrown
  <1>4. Told' BY <1>1, <1>2 DEF Told, Telling
  <1>5. Ahead' BY <1>3 DEF Ahead
  <1>6. LastOut'
    <2>1. pushing # None => pc' \in Through BY PullGoesOn
    <2> QED BY <1>1, <2>1 DEF LastOut, Telling, DepotHead
  <1> QED BY <1>4, <1>5, <1>6 DEF Telling

\* A push brings something: its edits are in its session only, and git cherry lists
\* the commits that made them.
LEMMA PushBrings ==
    ASSUME TypeInv, Mirrors, Delivery, NEW p \in Push, StartPush(p)
    PROVE  /\ pc = "pop" /\ pushing = None /\ pushing' = p /\ p # None /\ verdict[p] = "none"
           /\ revs' = Cherry(p) /\ currentRev' = master /\ pc' = "merge"
           /\ UNCHANGED <<p4Vars, refVars, clone, verdict>>
           /\ \A e \in EditsOf(p) : Kept(e, p)
  <1>1. /\ pc = "pop" /\ clone[p] # {} /\ verdict[p] = "none" /\ p # None
        /\ UNCHANGED <<p4Vars, refVars, clone>>
    BY ConstantsAssumption DEF StartPush, Ready, Waiting
  <1>2. pushing = None BY <1>1 DEF Delivery, Steady
  <1>3. pending = 0 BY <1>1, <1>2 DEF Mirrors, Phase, Exact, Idle
  <1>4. \A e \in EditsOf(p) : Waits(e, p) BY <1>1, <1>2 DEF Delivery, Delivers
  <1>5. Cherry(p) # <<>>
    <2>1. PICK e : e \in EditsOf(p) BY SeriesFacts
    <2>2. Kept(e, p) /\ \E i : Born(e, i) BY <1>1, <1>4, <2>1 DEF Waits
    <2>3. PICK i : Born(e, i) BY <2>2
    <2>4. i \in clone[p] \ master BY <2>2, <2>3 DEF Kept, Born, Free
    <2>5. Len(commits) \in Nat /\ clone[p] \in Branches BY TypeFacts DEF RefsTyped
    <2>6. PICK k \in 1..Len(Cherry(p)) : Cherry(p)[k].id = i BY <2>4, <2>5, CherryLists
    <2> QED BY <2>6
  <1>6. pushing' = p /\ revs' = Cherry(p) /\ currentRev' = master /\ pc' = "merge"
        /\ UNCHANGED verdict
    BY <1>3, <1>5 DEF StartPush
  <1> QED BY <1>1, <1>2, <1>4, <1>6 DEF Waits

LEMMA TellingStart ==
    ASSUME TypeInv, Mirrors, Delivery, Telling, NEW p \in Push, StartPush(p)
    PROVE  Telling'
  <1>1. /\ pc = "pop" /\ pushing = None /\ pushing' = p /\ p # None /\ verdict[p] = "none"
        /\ currentRev' = master /\ pc' = "merge" /\ UNCHANGED <<depot, master, clone, verdict>>
        /\ \A e \in EditsOf(p) : Kept(e, p)
    BY PushBrings DEF p4Vars, refVars
  <1>2. Told' BY <1>1 DEF Told, Telling
  <1>3. Ahead' BY <1>1 DEF Ahead
  <1>4. LastOut'
    <2>1. Last(Series[p]) \in EditsOf(p) BY SeriesFacts
    <2>2. DepotHead \in Bare(Last(Series[p]))
      BY <1>1, <2>1, TypeFacts, DepotBare, DepotFacts DEF Kept, Numbered
    <2>3. \A f \in File : Last(Series[p]) \notin DepotHead[f] BY <2>2 DEF Bare
    <2> QED BY <1>1, <2>3 DEF LastOut, DepotHead
  <1> QED BY <1>2, <1>3, <1>4 DEF Telling

LEMMA TellingSubmit ==
    ASSUME TypeInv, Mirrors, Mirrors', EditsOnce, BridgeInv, Submit
    PROVE  Telling'
  <1> DEFINE r == Head(revs).id
  <1>1. /\ pc = "submit" /\ pushing # None /\ Lines
        /\ UNCHANGED <<refVars, diskVars, synced, pushing, newStuff, changed, revs,
                       currentRev, userVars>>
        /\ \/ pc' = "reset" /\ UNCHANGED depot
           \/ /\ pc' = "tag push" /\ \E d : depot' = Append(depot, d)
              /\ LastNum = synced /\ DepotHead = Fresh /\ DepotHead' = Ours
    BY SubmitTakes
  <1>2. Told' BY <1>1 DEF Told, BridgeInv, refVars, userVars
  <1>3. Ahead' BY <1>1 DEF Ahead
  <1>4. pc \notin Through /\ pushing \in Push
    BY <1>1, TypeFacts DEF Through, RestTyped
  <1> DEFINE e == Last(Series[pushing])
             N == Len(Series[pushing])
  <1>5. /\ e = Series[pushing][N] /\ N \in DOMAIN Series[pushing] /\ e \in Edit /\ e # First
    BY <1>4, SeriesFacts
  <1>6. \A f \in File : e \notin DepotHead[f] BY <1>1, <1>4 DEF LastOut, BridgeInv
  <1>7. CASE pc' = "reset" /\ UNCHANGED depot
    BY <1>1, <1>2, <1>3, <1>6, <1>7 DEF LastOut, DepotHead, Telling
  <1>8. CASE pc' = "tag push" /\ DepotHead = Fresh /\ DepotHead' = Ours
    <2> SUFFICES ASSUME NEW f \in File, e \in Ours[f] PROVE Len(revs) = 1
      BY <1>1, <1>2, <1>3, <1>8 DEF LastOut, Telling, Through
    <2>1. e \in Contents(Ours) /\ e \notin Contents(Fresh) BY <1>5, <1>6, <1>8, ContentsHas
    <2>2. PICK q \in Push : \E k \in DOMAIN Series[q] :
              Part(q, k, r) /\ Contents(Ours) = Contents(Fresh) \cup {Series[q][k]}
      BY <1>1, SubmitBrings DEF BridgeInv
    <2>3. PICK k \in DOMAIN Series[q] :
              Part(q, k, r) /\ Contents(Ours) = Contents(Fresh) \cup {Series[q][k]}
      BY <2>2
    <2>4. e = Series[q][k] BY <2>1, <2>3
    <2>5. q = pushing /\ k = N BY <1>4, <1>5, <2>4 DEF EditsOnce
    <2>6. \A j \in clone[pushing] : j <= r
      BY <1>4, <1>5, <2>3, <2>5 DEF BridgeInv, Authored, Ordered
    <2>7. /\ revs \in Seq([id : Nat, plus : BOOLEAN]) /\ revs # <<>>
      BY <1>1, TypeFacts DEF Shaped
    <2>8. Len(revs) \in Nat /\ Len(revs) # 0 BY <2>7
    <2>9. r = revs[1].id BY <2>7
    <2>10. CASE Len(revs) > 1
      <3>1. 1 \in 1..Len(revs) /\ 2 \in 1..Len(revs) BY ONLY <2>8, <2>10
      <3>2. /\ \A j, m \in 1..Len(revs) : j < m => revs[j].id < revs[m].id
            /\ \A m \in 2..Len(revs) : revs[m].id \in clone[pushing]
        <4>1. ToMerge = {revs[m].id : m \in 2..Len(revs)} BY <1>1 DEF ToMerge
        <4>2. Rising /\ ToMerge = clone[pushing] \ master BY <1>1 DEF Lines
        <4> QED BY <4>1, <4>2 DEF Rising
      <3>3. revs[1].id < revs[2].id BY <3>1, <3>2
      <3>4. 2 \in 2..Len(revs) BY ONLY <2>8, <2>10
      <3>5. revs[2].id <= revs[1].id BY <2>6, <2>9, <3>2, <3>4
      <3>6. \A m \in 1..Len(revs) : revs[m].id \in Nat
        <4>1. \A m \in 1..Len(revs) : revs[m] \in [id : 1..Len(commits), plus : BOOLEAN]
          BY TypeFacts DEF RefsTyped
        <4>2. Len(commits) \in Nat BY TypeFacts
        <4> QED BY ONLY <4>1, <4>2
      <3>7. revs[1].id \in Nat /\ revs[2].id \in Nat BY ONLY <3>1, <3>6
      <3> QED BY ONLY <3>3, <3>5, <3>7
    <2>11. \A n \in Nat : n # 0 /\ ~(n > 1) => n = 1 OBVIOUS
    <2> QED BY <2>8, <2>10, <2>11
  <1> QED BY <1>1, <1>7, <1>8

\* Who is told that a push succeeded has all its commits in master.
LEMMA TellingNext ==
    ASSUME TypeInv, Mirrors, Telling, NextRev
    PROVE  Telling'
  <1>1. /\ pc = "pushed" /\ UNCHANGED <<depot, master, tags, synced, clone>>
        /\ \/ Len(revs) > 1 /\ revs' = Tail(revs) /\ pc' = "merge"
              /\ UNCHANGED <<pushing, currentRev, verdict>>
           \/ /\ ~(Len(revs) > 1) /\ pushing' = None /\ pc' = "idle"
              /\ verdict' = [verdict EXCEPT ![pushing] = "ok"]
    BY DEF NextRev, Conclude, p4Vars, refVars
  <1>2. pushing # None /\ pushing \in Push
    BY <1>1, TypeFacts DEF RestTyped, Mirrors, Phase, Importing
  <1>3. Lines /\ verdict \in [Push -> {"none", "nothing", "ok", "failed", "lost"}]
    BY <1>2, TypeFacts DEF RestTyped, Mirrors, Phase
  <1>4. revs \in Seq([id : Nat, plus : BOOLEAN]) BY TypeFacts DEF Shaped
  <1>5. Len(revs) \in Nat BY <1>4
  <1>6. Ahead' BY <1>1 DEF Ahead
  <1>7. CASE Len(revs) > 1 /\ revs' = Tail(revs) /\ pc' = "merge"
             /\ UNCHANGED <<pushing, currentRev, verdict>>
    <2>1. Told' BY <1>1, <1>7 DEF Told, Telling
    <2>2. LastOut' BY <1>1, <1>5, <1>7 DEF LastOut, Telling, DepotHead
    <2> QED BY <1>6, <2>1, <2>2 DEF Telling
  <1>8. CASE /\ ~(Len(revs) > 1) /\ pushing' = None /\ pc' = "idle"
             /\ verdict' = [verdict EXCEPT ![pushing] = "ok"]
    <2>1. clone[pushing] \subseteq master
      <3>1. 2..Len(revs) = {} BY <1>5, <1>8
      <3>2. ToMerge = {} BY <1>1, <3>1 DEF ToMerge
      <3>3. clone[pushing] \ master = {} BY <1>1, <1>3, <3>2 DEF Lines
      <3> QED BY <3>3
    <2>2. Told' BY <1>1, <1>2, <1>3, <1>8, <2>1 DEF Told, Telling
    <2>3. LastOut' BY <1>8 DEF LastOut
    <2> QED BY <1>6, <2>2, <2>3 DEF Telling
  <1> QED BY <1>1, <1>7, <1>8

LEMMA TellingPush ==
    ASSUME TypeInv, Mirrors, Mirrors', Delivery, EditsOnce, BridgeInv, PushThrough
    PROVE  Telling'
  <1> USE DEF p4Vars, refVars, diskVars, workVars, userVars
  <1>1. Telling BY DEF BridgeInv, Telling
  <1>2. Phase BY DEF Mirrors
  <1>3. CASE NoRequest
    <2>1. /\ pc = "pop" /\ pc' = "idle"
          /\ UNCHANGED <<depot, master, tags, synced, clone, verdict, pushing, revs, currentRev>>
      BY <1>3 DEF NoRequest
    <2>2. pushing = None BY <2>1 DEF Delivery, Steady
    <2> QED BY <1>1, <2>1, <2>2 DEF Telling, Told, Ahead, LastOut
  <1>4. ASSUME NEW p \in Push, StartPush(p) PROVE Telling' BY <1>1, <1>4, TellingStart
  <1>5. CASE MergeRev
    <2>1. /\ pushing # None /\ pc = "merge"
          /\ UNCHANGED <<depot, tags, synced, clone, verdict, pushing, revs, currentRev>>
          /\ pc' \in {"rollback", "open"} /\ master \subseteq master'
      BY <1>5, MergeMoves
    <2>2. Head(revs).id \notin tags[synced]
      <3>1. Exact BY <1>2, <2>1 DEF Phase, Pushes
      <3> QED BY <2>1, <3>1, HeadOfClone DEF Exact
    <2>3. Told' BY <1>1, <2>1 DEF Telling, Told
    <2>4. Ahead' BY <2>1, <2>2 DEF Ahead
    <2>5. LastOut' BY <1>1, <2>1 DEF Telling, LastOut, Through, DepotHead
    <2> QED BY <2>3, <2>4, <2>5 DEF Telling
  <1>6. CASE OpenFiles
    <2>1. /\ pc = "open" /\ pc' \in {"submit", "reset"}
          /\ UNCHANGED <<depot, master, tags, synced, clone, verdict, pushing, revs, currentRev>>
      BY <1>6 DEF OpenFiles
    <2> QED BY <1>1, <2>1 DEF Telling, Told, Ahead, LastOut, Through, DepotHead
  <1>7. CASE Submit BY <1>7, TellingSubmit
  <1>8. CASE TagPush
    <2>1. /\ pc = "tag push" /\ pc' = "pull"
          /\ UNCHANGED <<depot, master, clone, verdict, pushing, revs, currentRev>>
      BY <1>8, TagPushMoves
    <2> QED BY <1>1, <2>1 DEF Telling, Told, Ahead, LastOut, Through, DepotHead
  <1>9. CASE NextRev BY <1>1, <1>9, TellingNext
  <1>10. CASE ResetPush
    <2>1. /\ pc = "reset" /\ pc' = "rollback" /\ master' = currentRev
          /\ UNCHANGED <<depot, clone, verdict, pushing, revs, currentRev>>
      BY <1>10 DEF ResetPush
    <2>2. pushing # None BY <1>2, <2>1 DEF Phase, Importing
    <2>3. Told' BY <1>1, <2>1, <2>2 DEF Telling, Told
    <2>4. Ahead' /\ LastOut' BY <1>1, <2>1 DEF Telling, Ahead, LastOut, Through, DepotHead
    <2> QED BY <2>3, <2>4 DEF Telling
  <1>11. CASE RevertOpened
    <2>1. /\ pc = "rollback" /\ pc' = "clean up"
          /\ UNCHANGED <<depot, master, clone, verdict, pushing, revs, currentRev>>
      BY <1>11 DEF RevertOpened
    <2> QED BY <1>1, <2>1 DEF Telling, Told, Ahead, LastOut, Through, DepotHead
  <1>12. CASE ResetFiles
    <2>1. /\ pc' = "idle" /\ pushing' = None /\ UNCHANGED <<master, clone>>
          /\ verdict' = [verdict EXCEPT ![pushing] = "failed"]
      BY <1>12 DEF ResetFiles, GiveUpPush, Conclude
    <2>2. verdict \in [Push -> {"none", "nothing", "ok", "failed", "lost"}]
      BY TypeFacts DEF RestTyped
    <2>3. Told' BY <1>1, <2>1, <2>2 DEF Telling, Told
    <2>4. Ahead' /\ LastOut' BY <2>1 DEF Ahead, LastOut
    <2> QED BY <2>3, <2>4 DEF Telling
  <1> QED BY <1>3, <1>4, <1>5, <1>6, <1>7, <1>8, <1>9, <1>10, <1>11, <1>12 DEF PushThrough

LEMMA TellingPeople ==
    ASSUME TypeInv, Mirrors, Delivery, Telling, People
    PROVE  Telling'
  <1> USE DEF p4Vars, refVars, diskVars, workVars, userVars
  <1>1. ASSUME NEW x \in UserEdit, UserSubmits(x) PROVE Telling'
    <2>1. /\ UNCHANGED <<master, tags, synced, pc, pushing, revs, currentRev, clone, verdict>>
          /\ \E n : depot' = Append(depot, [num |-> n,
                 tree |-> [DepotHead EXCEPT ![FileOf[x]] = @ \cup {x}]])
      BY <1>1 DEF UserSubmits
    <2>2. Told' /\ Ahead' BY <2>1 DEF Telling, Told, Ahead
    <2>3. Numbered /\ Numbered'
      <3>1. [Next]_vars /\ OrderInv BY <1>1 DEF Next, People, TypeInv
      <3>2. OrderInv' BY <3>1, OrderStep
      <3> QED BY <3>1, <3>2 DEF OrderInv
    <2>4. DepotHead' = [DepotHead EXCEPT ![FileOf[x]] = @ \cup {x}]
      <3> DEFINE t == [DepotHead EXCEPT ![FileOf[x]] = @ \cup {x}]
      <3>1. PICK n : depot' = Append(depot, [num |-> n, tree |-> t]) BY <2>1
      <3>2. PICK S : depot \in Seq(S) BY <2>3 DEF Numbered
      <3>3. ASSUME NEW d PROVE LET s == Append(depot, d) IN s[Len(s)] = d BY <3>2
      <3> HIDE DEF t
      <3>4. [num |-> n, tree |-> t].tree = t OBVIOUS
      <3>5. depot'[Len(depot')] = [num |-> n, tree |-> t] BY <3>1, <3>3
      <3> QED BY <3>4, <3>5 DEF DepotHead, t
    <2>5. DepotHead \in Trees
      <3>1. \A k \in DOMAIN depot : depot[k].tree \in Trees
        BY TypeFacts, DepotFacts DEF TreesTyped
      <3> QED BY <2>3, <3>1, DepotFacts DEF Numbered, DepotHead
    <2>6. ASSUME pushing # None, NEW f \in File, Last(Series[pushing]) \in DepotHead'[f]
          PROVE  Last(Series[pushing]) \in DepotHead[f]
      <3>1. pushing \in Push BY <2>6, TypeFacts DEF RestTyped
      <3>2. Last(Series[pushing]) # x BY <3>1, SeriesFacts
      <3>3. DepotHead'[f] \subseteq DepotHead[f] \cup {x} BY <2>4, <2>5 DEF Trees
      <3> QED BY <2>6, <3>2, <3>3
    <2>7. LastOut' BY <2>1, <2>6 DEF Telling, LastOut
    <2> QED BY <2>2, <2>7 DEF Telling
  <1>2. ASSUME NEW p \in Push, SessionClones(p) PROVE Telling'
    <2>1. /\ UNCHANGED <<depot, master, tags, synced, pc, pushing, revs, currentRev, verdict>>
          /\ \A q \in Push : q # p => clone'[q] = clone[q]
      <3>1. clone \in [Push -> Branches] BY TypeFacts DEF RefsTyped
      <3> QED BY <1>2, <3>1 DEF SessionClones
    <2>2. verdict[p] = "none"
      <3>1. clone[p] = {} BY <1>2 DEF SessionClones
      <3> QED BY <3>1 DEF Delivery, Steady
    <2>3. Told' BY <2>1, <2>2 DEF Telling, Told
    <2>4. Ahead' /\ LastOut' BY <2>1 DEF Telling, Ahead, LastOut, DepotHead
    <2> QED BY <2>3, <2>4 DEF Telling
  <1> QED BY <1>1, <1>2 DEF People

LEMMA BridgeStep ==
    ASSUME TypeInv, Mirrors, Mirrors', Delivery, EditsOnce, Calm, BridgeInv, [Next]_vars
    PROVE  BridgeInv'
  <1> USE DEF p4Vars, refVars, diskVars, workVars, userVars
  <1>1. /\ Authored /\ Imported /\ BranchesClosed /\ Telling
    BY DEF BridgeInv, Telling
  <1>2. ASSUME Moves PROVE Authored' /\ Imported' /\ BranchesClosed'
    <2>1. UNCHANGED <<commits, clone>> BY <1>2 DEF Moves
    <2> QED BY <1>1, <1>2, <2>1, AuthoredStays, ImportedMoves, ClosedMoves
  <1>3. CASE Pull
    <2>1. Telling' BY <1>1, <1>3, TellingPull
    <2>2. CASE CommitChange BY <1>1, <2>1, <2>2, BridgeCommit DEF BridgeInv, Telling
    <2>3. CASE ~CommitChange BY <1>2, <1>3, <2>1, <2>3, PullMoves DEF BridgeInv, Telling
    <2> QED BY <2>2, <2>3
  <1>4. CASE PushThrough
    <2>1. Telling' BY <1>4, TellingPush
    <2> QED BY <1>2, <1>4, <2>1, PushMoves DEF BridgeInv, Telling
  <1>5. CASE People
    <2>1. Telling' BY <1>1, <1>5, TellingPeople
    <2>2. ASSUME NEW x \in UserEdit, UserSubmits(x)
          PROVE  Authored' /\ Imported' /\ BranchesClosed'
      <3>1. Moves BY <2>2, RefsStill DEF UserSubmits
      <3> QED BY <1>2, <3>1
    <2>3. ASSUME NEW p \in Push, SessionClones(p)
          PROVE  Authored' /\ Imported' /\ BranchesClosed'
      BY <1>1, <2>3, BridgeClone
    <2> QED BY <1>5, <2>1, <2>2, <2>3 DEF People, BridgeInv, Telling
  <1>6. CASE CommandFails \/ Crash
    BY <1>6 DEF Calm, CommandFails, Crash
  <1>7. CASE UNCHANGED vars
    <2>1. Moves BY <1>7, RefsStill DEF vars
    <2>2. Telling' BY <1>1, <1>7 DEF vars, Telling, Told, Ahead, LastOut, DepotHead
    <2> QED BY <1>2, <2>1, <2>2 DEF BridgeInv, Telling
  <1> QED BY <1>3, <1>4, <1>5, <1>6, <1>7 DEF Next

-----------------------------------------------------------------------------
(* What Bridge sees of the pump                                             *)

History == [k \in DOMAIN depot |-> Contents(depot[k].tree)]
TakenAt == CHOOSE k \in DOMAIN depot : depot[k].num = synced
PartsOf == [p \in Push |-> [k \in DOMAIN Series[p] |-> {Series[p][k]}]]
BridgeSees == <<History, TakenAt, verdict>>

LEMMA HistoryIs ==
    ASSUME Numbered, TreesTyped
    PROVE  /\ History \in Seq(SUBSET Edit) /\ Len(History) = Len(depot)
           /\ \A k \in DOMAIN depot : History[k] = Contents(depot[k].tree)
           /\ Last(History) = Contents(DepotHead)
           /\ DepotHead \in Trees
  <1>1. DOMAIN depot = 1..Len(depot) /\ Len(depot) \in Nat BY DepotFacts
  <1>2. Len(depot) \in DOMAIN depot BY <1>1 DEF Numbered
  <1>3. \A k \in DOMAIN depot : Contents(depot[k].tree) \in SUBSET Edit
    BY DEF Contents, Trees, TreesTyped
  <1> DEFINE c(k) == Contents(depot[k].tree)
  <1>4. History = [k \in 1..Len(depot) |-> c(k)] BY <1>1 DEF History
  <1>5. \A k \in 1..Len(depot) : c(k) \in SUBSET Edit BY <1>1, <1>3
  <1> HIDE DEF c
  <1>6. History \in Seq(SUBSET Edit) /\ Len(History) = Len(depot) BY <1>1, <1>4, <1>5
  <1>7. \A k \in DOMAIN depot : History[k] = c(k) BY <1>1, <1>4
  <1>8. Last(History) = Contents(DepotHead)
    BY <1>2, <1>6, <1>7 DEF Last, c, DepotHead
  <1>9. DepotHead \in Trees BY <1>2 DEF DepotHead, TreesTyped
  <1> QED BY <1>6, <1>7, <1>8, <1>9 DEF c

LEMMA HistoryGrows ==
    ASSUME Numbered, TreesTyped, NEW d, d.tree \in Trees, depot' = Append(depot, d)
    PROVE  History' = Append(History, Contents(d.tree))
  <1> DEFINE n == Len(depot) + 1
             c(k) == Contents(depot'[k].tree)
  <1>1. /\ DOMAIN depot' = DOMAIN depot \cup {n} /\ depot'[n] = d
        /\ \A k \in DOMAIN depot : depot'[k] = depot[k]
    BY DepotGrows
  <1>2. /\ History \in Seq(SUBSET Edit) /\ Len(History) = Len(depot) /\ Len(depot) \in Nat
        /\ DOMAIN depot = 1..Len(depot)
        /\ \A k \in DOMAIN depot : History[k] = Contents(depot[k].tree)
    BY HistoryIs, DepotFacts
  <1>3. DOMAIN depot' = 1..n BY <1>1, <1>2
  <1>4. \A k \in 1..n : c(k) \in SUBSET Edit
    <2> SUFFICES ASSUME NEW k \in 1..n PROVE c(k) \in SUBSET Edit OBVIOUS
    <2>1. depot'[k].tree \in Trees BY <1>1, <1>3 DEF TreesTyped
    <2> QED BY <2>1 DEF Contents, Trees
  <1>5. History' = [k \in 1..n |-> c(k)] BY <1>3 DEF History
  <1>6. \A k \in 1..Len(depot) : c(k) = Contents(depot[k].tree) BY <1>1, <1>2
  <1>7. c(n) = Contents(d.tree) BY <1>1
  <1>8. n \in Nat BY <1>2
  <1> HIDE DEF c
  <1>9. History' \in Seq(SUBSET Edit) /\ Len(History') = n BY <1>4, <1>5, <1>8
  <1>10. \A k \in 1..n : History'[k] = c(k) BY <1>5
  <1>11. c(n) \in SUBSET Edit BY <1>2, <1>4
  <1>12. \A k \in 1..Len(History) : History'[k] = History[k] BY <1>2, <1>6, <1>10
  <1>13. History'[Len(History) + 1] = c(n) BY <1>2, <1>10
  <1>14. Append(History, c(n)) = History'
    <2> HIDE DEF History
    <2>1. Len(History') = Len(History) + 1 BY <1>2, <1>9
    <2> QED BY <1>2, <1>9, <1>11, <1>12, <1>13, <2>1, AppendProperties, SeqEqual
  <1> QED BY <1>7, <1>14

LEMMA TakenIs ==
    Numbered => \A k \in DOMAIN depot : depot[k].num = synced => TakenAt = k
  <1> SUFFICES ASSUME Numbered, NEW k \in DOMAIN depot, depot[k].num = synced
               PROVE  TakenAt = k
    OBVIOUS
  <1>1. TakenAt \in DOMAIN depot /\ depot[TakenAt].num = synced BY DEF TakenAt
  <1>2. TakenAt \in Nat /\ k \in Nat /\ depot[k].num \in Nat BY <1>1, DepotFacts
  <1>3. ~(TakenAt < k) /\ ~(k < TakenAt) BY <1>1, <1>2 DEF Numbered
  <1> QED BY <1>2, <1>3

LEMMA TakenIsNext == (Numbered => \A k \in DOMAIN depot : depot[k].num = synced => TakenAt = k)'
  BY TakenIs, PTL

LEMMA TakenStays ==
    ASSUME Numbered, Numbered', NEW d, depot' = Append(depot, d), synced' = synced
    PROVE  TakenAt' = TakenAt
  <1>1. PICK k \in DOMAIN depot : depot[k].num = synced BY DEF Numbered
  <1>2. k \in DOMAIN depot' /\ depot'[k] = depot[k] BY DepotGrows
  <1> QED BY <1>1, <1>2, TakenIs, TakenIsNext

\* What Bridge's actions are here.
LEMMA BridgeActions ==
    /\ \A e : Bridged!UserSubmits(e) <=>
                  /\ History' = Append(History, Last(History) \cup {e})
                  /\ UNCHANGED <<TakenAt, verdict>>
    /\ Bridged!TakeOver <=>
           TakenAt < Len(History) /\ TakenAt' = TakenAt + 1 /\ UNCHANGED <<History, verdict>>
  BY DEF Bridged!UserSubmits, Bridged!Now, Bridged!Last, Last, Bridged!TakeOver,
         History, Contents, TakenAt

LEMMA AcceptPartIs ==
    ASSUME NEW p \in Push, NEW q \in Push, NEW k \in DOMAIN Series[q],
           verdict[p] = "none", q = p \/ verdict[q] = "failed",
           UNCHANGED <<TakenAt, verdict>>,
           Series[q][k] \notin Last(History),
           \A j \in 1..(k - 1) : Series[q][j] \in Last(History),
           History' = Append(History, Last(History) \cup {Series[q][k]})
    PROVE  Bridged!AcceptPart(p)
  <1>1. DOMAIN Series[q] = 1..Len(Series[q]) /\ Len(Series[q]) \in Nat BY SeriesFacts
  <1>2. DOMAIN PartsOf[q] = DOMAIN Series[q]
        /\ \A j \in DOMAIN Series[q] : PartsOf[q][j] = {Series[q][j]}
    BY DEF PartsOf
  <1>3. \A j \in 1..(k - 1) : j \in DOMAIN Series[q] BY <1>1
  <1>4. /\ k \in DOMAIN PartsOf[q]
        /\ PartsOf[q][k] \cap Last(History) = {}
        /\ \A j \in 1..(k - 1) : PartsOf[q][j] \subseteq Last(History)
        /\ History' = Append(History, Last(History) \cup PartsOf[q][k])
    <2> HIDE DEF History
    <2> QED BY <1>2, <1>3
  <1>5. \E y \in Push : \E x \in DOMAIN PartsOf[y] :
            /\ verdict[p] = "none"
            /\ y = p \/ (TRUE /\ verdict[y] = "failed")
            /\ IF FALSE
               THEN \E left \in SUBSET UNION Range(History) :
                        History' = Append(History, left \cup PartsOf[y][x])
               ELSE /\ PartsOf[y][x] \cap Last(History) = {}
                    /\ \A j \in 1..(x - 1) : PartsOf[y][j] \subseteq Last(History)
                    /\ History' = Append(History, Last(History) \cup PartsOf[y][x])
            /\ UNCHANGED <<TakenAt, verdict, FALSE>>
    <2> HIDE DEF History, PartsOf
    <2> USE <1>4
    <2> WITNESS q \in Push
    <2> WITNESS k \in DOMAIN PartsOf[q]
    <2> QED OBVIOUS
  <1> QED BY <1>5 DEF Bridged!AcceptPart, Bridged!Now, Bridged!Last, Last, Bridged!Range, Range,
                      History, Contents, TakenAt, PartsOf

LEMMA TellTruthIs ==
    ASSUME NEW p \in Push, NEW v \in {"ok", "failed"}, verdict[p] = "none",
           v = "ok" => EditsOf(p) \subseteq Last(History),
           v = "failed" => Last(Series[p]) \notin Last(History),
           verdict' = [verdict EXCEPT ![p] = v], UNCHANGED <<History, TakenAt>>
    PROVE  Bridged!TellTruth(p, v)
  <1>1. /\ DOMAIN Series[p] = 1..Len(Series[p]) /\ Len(Series[p]) \in Nat \ {0}
        /\ Len(Series[p]) \in DOMAIN Series[p] /\ Last(Series[p]) = Series[p][Len(Series[p])]
        /\ \A k \in DOMAIN Series[p] : Series[p][k] \in EditsOf(p)
    BY SeriesFacts
  <1> DEFINE c(k) == {Series[p][k]}
             parts == PartsOf[p]
  <1>2. parts = [k \in 1..Len(Series[p]) |-> c(k)] BY <1>1 DEF PartsOf
  <1> HIDE DEF parts, c
  <1>3. DOMAIN parts = 1..Len(Series[p]) /\ Len(parts) = Len(Series[p])
        /\ \A k \in DOMAIN parts : parts[k] = c(k)
    BY <1>1, <1>2
  <1>4. Last(parts) = {Last(Series[p])} BY <1>1, <1>3 DEF Last, c
  <1>5. UNION Range(parts) \subseteq EditsOf(p) BY <1>1, <1>3 DEF Range, c
  <1>6. /\ v = "ok" => UNION Range(parts) \subseteq Last(History)
        /\ v = "failed" => FALSE \/ Last(parts) \cap Last(History) = {}
    <2> HIDE DEF History
    <2> QED BY <1>4, <1>5
  <1> QED BY <1>6 DEF Bridged!TellTruth, Bridged!EditsIn, Bridged!Now, Bridged!Last, Last,
                      Bridged!Range, Range, History, Contents, TakenAt, PartsOf, parts

-----------------------------------------------------------------------------
(* Each step is one of Bridge's                                             *)

LEMMA BridgeInitially == Init => Bridged!Init
  <1> SUFFICES ASSUME Init PROVE Bridged!Init OBVIOUS
  <1>1. Numbered /\ TreesTyped BY TypeInit, TypeFacts
  <1>2. DOMAIN depot = {1} /\ Len(depot) = 1 /\ depot[1].tree = Everything /\ depot[1].num = synced
    BY DEF Init
  <1>3. Contents(Everything) = {} BY DEF Contents, Everything
  <1>4. History = <<{}>>
    <2>1. History \in Seq(SUBSET Edit) /\ Len(History) = 1 /\ History[1] = {}
      BY <1>1, <1>2, <1>3, HistoryIs
    <2> HIDE DEF History
    <2> DEFINE one == <<{}>>
    <2>2. {} \in SUBSET Edit OBVIOUS
    <2>3. one \in Seq(SUBSET Edit) BY <2>2
    <2>4. Len(one) = 1 OBVIOUS
    <2>5. one[1] = {} OBVIOUS
    <2> HIDE DEF one
    <2>6. ASSUME NEW k \in 1..Len(History) PROVE History[k] = one[k]
      <3>1. k = 1 BY <2>1
      <3> QED BY <2>1, <2>5, <3>1
    <2>7. Len(History) = Len(one) BY <2>1, <2>4
    <2>8. History = one BY <2>1, <2>3, <2>6, <2>7, SeqEqual
    <2> QED BY <2>8 DEF one
  <1>5. TakenAt = 1 BY <1>1, <1>2, TakenIs
  <1>6. verdict = [p \in Push |-> "none"] BY DEF Init
  <1> QED BY <1>4, <1>5, <1>6 DEF Bridged!Init, History, Contents, TakenAt

\* A user's changelist.
LEMMA UserMaps ==
    ASSUME TypeInv, Numbered', NEW e \in UserEdit, UserSubmits(e)
    PROVE  Bridged!UserSubmits(e)
  <1> DEFINE t == [DepotHead EXCEPT ![FileOf[e]] = @ \cup {e}]
             d == [num |-> counter + 1, tree |-> t]
  <1>1. Numbered /\ TreesTyped BY TypeFacts
  <1>2. DepotHead \in Trees /\ FileOf[e] \in File /\ e \in Edit /\ e # First
    BY <1>1, HistoryIs, ConstantsAssumption
  <1>3. t \in Trees BY <1>2 DEF Trees
  <1>4. \A f \in File : t[f] = IF f = FileOf[e] THEN DepotHead[f] \cup {e} ELSE DepotHead[f]
    BY <1>2 DEF Trees
  <1>5. depot' = Append(depot, d) /\ UNCHANGED <<synced, verdict>>
    BY DEF UserSubmits, userVars
  <1> HIDE DEF t
  <1>6. d.tree = t OBVIOUS
  <1> HIDE DEF d
  <1>7. Contents(t) = Contents(DepotHead) \cup {e}
    <2>1. \A x : x \in Contents(t) <=> x # First /\ \E f \in File : x \in t[f]
      BY ContentsHas
    <2>2. \A x : x \in Contents(DepotHead) <=> x # First /\ \E f \in File : x \in DepotHead[f]
      BY ContentsHas
    <2>3. \A x : (\E f \in File : x \in t[f]) <=> x = e \/ \E f \in File : x \in DepotHead[f]
      BY <1>2, <1>4
    <2> QED BY <1>2, <2>1, <2>2, <2>3
  <1>8. History' = Append(History, Last(History) \cup {e})
    <2>1. History' = Append(History, Contents(t)) BY <1>1, <1>3, <1>5, <1>6, HistoryGrows
    <2>2. Last(History) = Contents(DepotHead) BY <1>1, HistoryIs
    <2> QED BY <1>7, <2>1, <2>2
  <1>9. TakenAt' = TakenAt BY <1>1, <1>5, TakenStays
  <1> QED BY <1>5, <1>8, <1>9, BridgeActions

\* Who can bring a commit to a submit: the push at work, or one that failed and
\* whose commits the session had found in master.
LEMMA BroughtBy ==
    ASSUME TypeInv, Mirrors, Delivery, BridgeInv, pc = "submit",
           NEW q \in Push, NEW k \in DOMAIN Series[q], Part(q, k, Head(revs).id)
    PROVE  /\ pushing \in Push /\ verdict[pushing] = "none"
           /\ q = pushing \/ verdict[q] = "failed"
  <1> DEFINE r == Head(revs).id
             e == Series[q][k]
  <1>1. /\ Authored /\ Imported /\ BranchesClosed /\ Ahead /\ Told BY DEF BridgeInv
  <1>2. /\ pushing # None /\ r \in master /\ r \notin tags[synced]
    <2>1. pushing # None /\ master = tags[synced] \cup {r} BY <1>1, SubmitBrings
    <2> QED BY <1>1, <2>1 DEF Ahead
  <1>3. pushing \in Push BY <1>2, TypeFacts DEF RestTyped
  <1>4. currentRev \subseteq tags[synced] BY <1>2 DEF Mirrors, Phase, Pushes
  <1>5. r \in clone[q] BY <1>1 DEF Authored, Ordered
  <1>6. verdict[q] # "ok" BY <1>1, <1>2, <1>4, <1>5 DEF Told
  <1>7. q # pushing => verdict[q] # "none"
    <2> SUFFICES ASSUME q # pushing, verdict[q] = "none" PROVE FALSE OBVIOUS
    <2>1. e \in EditsOf(q) /\ FileOf[e] \in File BY SeriesFacts
    <2>2. Kept(e, q) BY <2>1 DEF Delivery, Delivers, Waits
    <2>3. r \in 1..Len(commits) /\ r \notin Holders(e) BY <1>2, <2>2 DEF Kept, Free, Part
    <2>4. commits[r] \in Lacking(e) BY <2>3 DEF Holders
    <2>5. FileOf[e] \in DOMAIN commits[r].to /\ e \in commits[r].to[FileOf[e]]
      BY DEF Part, Brings
    <2> QED BY <2>4, <2>5 DEF Lacking
  <1> QED BY <1>1, <1>2, <1>3, <1>6, <1>7 DEF Told

\* The changelist of a commit.
LEMMA SubmitMaps ==
    ASSUME TypeInv, Numbered', Mirrors, Mirrors', Delivery, BridgeInv, Submit
    PROVE  (\E p \in Push : Bridged!AcceptPart(p)) \/ UNCHANGED BridgeSees
  <1>1. /\ pc = "submit" /\ UNCHANGED <<synced, verdict>>
        /\ \/ UNCHANGED depot
           \/ /\ \E d : depot' = Append(depot, d)
              /\ DepotHead = Fresh /\ DepotHead' = Ours
    BY SubmitTakes DEF userVars
  <1>2. Numbered /\ TreesTyped /\ Ours \in Trees BY TypeFacts, MirrorFacts
  <1>3. CASE UNCHANGED depot BY <1>1, <1>3 DEF BridgeSees, History, TakenAt
  <1>4. ASSUME NEW d, depot' = Append(depot, d), DepotHead = Fresh, DepotHead' = Ours
        PROVE  \E p \in Push : Bridged!AcceptPart(p)
    <2>1. d.tree = Ours
      <3>1. PICK S : depot \in Seq(S) BY <1>2 DEF Numbered
      <3>2. depot'[Len(depot')] = d BY <1>4, <3>1
      <3> QED BY <1>4, <3>2 DEF DepotHead
    <2>2. History' = Append(History, Contents(Ours)) BY <1>2, <1>4, <2>1, HistoryGrows
    <2>3. Last(History) = Contents(Fresh) BY <1>2, <1>4, HistoryIs
    <2>4. TakenAt' = TakenAt BY <1>1, <1>2, <1>4, TakenStays
    <2>5. PICK q \in Push : \E k \in DOMAIN Series[q] :
              /\ Part(q, k, Head(revs).id)
              /\ Contents(Ours) = Contents(Fresh) \cup {Series[q][k]}
              /\ Series[q][k] \notin Contents(Fresh)
              /\ \A l \in DOMAIN Series[q] : l < k => Series[q][l] \in Contents(Fresh)
      BY <1>1, SubmitBrings DEF BridgeInv
    <2>6. PICK k \in DOMAIN Series[q] :
              /\ Part(q, k, Head(revs).id)
              /\ Contents(Ours) = Contents(Fresh) \cup {Series[q][k]}
              /\ Series[q][k] \notin Contents(Fresh)
              /\ \A l \in DOMAIN Series[q] : l < k => Series[q][l] \in Contents(Fresh)
      BY <2>5
    <2>7. pushing \in Push /\ verdict[pushing] = "none" /\ (q = pushing \/ verdict[q] = "failed")
      BY <1>1, <2>6, BroughtBy
    <2>8. \A j \in 1..(k - 1) : Series[q][j] \in Last(History)
      <3>1. DOMAIN Series[q] = 1..Len(Series[q]) /\ Len(Series[q]) \in Nat BY SeriesFacts
      <3>2. \A j \in 1..(k - 1) : j \in DOMAIN Series[q] /\ j < k BY <3>1
      <3> QED BY <2>3, <2>6, <3>2
    <2>9. /\ Series[q][k] \notin Last(History)
          /\ History' = Append(History, Last(History) \cup {Series[q][k]})
      <3> HIDE DEF History
      <3> QED BY <2>2, <2>3, <2>6
    <2>10. PICK p \in Push : verdict[p] = "none" /\ (q = p \/ verdict[q] = "failed") BY <2>7
    <2>11. UNCHANGED <<TakenAt, verdict>> BY <1>1, <2>4
    <2> HIDE DEF History, TakenAt
    <2>12. Bridged!AcceptPart(p) BY ONLY <2>8, <2>9, <2>10, <2>11, AcceptPartIs
    <2> QED BY <2>12
  <1> QED BY <1>1, <1>3, <1>4

LEMMA RecordMaps ==
    ASSUME TypeInv, Numbered', Record
    PROVE  Bridged!TakeOver \/ UNCHANGED BridgeSees
  <1>1. /\ pc = "record" /\ UNCHANGED <<depot, verdict>>
        /\ synced' = synced \/ synced' = Head(newStuff)
    BY DEF Record, p4Vars, userVars
  <1>2. History' = History BY <1>1 DEF History
  <1>3. CASE synced' = synced BY <1>1, <1>2, <1>3 DEF TakenAt, BridgeSees
  <1>4. CASE synced' = Head(newStuff)
    <2>1. Numbered /\ TreesTyped BY TypeFacts
    <2>2. InOrder BY DEF TypeInv, OrderInv
    <2>3. newStuff \in Seq(Nat) /\ newStuff # <<>> /\ \E j \in DOMAIN depot : Follows(j)
      BY <1>1, <2>2 DEF InOrder, Importing
    <2>4. PICK j \in DOMAIN depot : Follows(j) BY <2>3
    <2>5. 1 \in 1..Len(newStuff) /\ Head(newStuff) = newStuff[1] BY <2>3
    <2>6. depot[j].num = synced /\ j + 1 \in DOMAIN depot /\ depot[j + 1].num = synced'
      BY <1>4, <2>4, <2>5 DEF Follows
    <2>7. TakenAt = j BY <2>1, <2>6, TakenIs
    <2>8. TakenAt' = j + 1 BY <1>1, <2>6, TakenIsNext
    <2>9. j < Len(History)
      <3>1. DOMAIN depot = 1..Len(depot) /\ Len(depot) \in Nat /\ Len(History) = Len(depot)
        BY <2>1, HistoryIs, DepotFacts
      <3> HIDE DEF History
      <3> QED BY <2>6, <3>1
    <2> QED BY <1>1, <1>2, <2>7, <2>8, <2>9, BridgeActions
  <1> QED BY <1>1, <1>3, <1>4

\* Who is told that a push succeeded has all its edits in the mirror, and nobody
\* submitted since it was exact.
LEMMA OkMaps ==
    ASSUME TypeInv, Mirrors, BridgeInv, BridgeInv', NextRev
    PROVE  (\E p \in Push : Bridged!TellTruth(p, "ok")) \/ UNCHANGED BridgeSees
  <1>1. /\ pc = "pushed" /\ UNCHANGED <<depot, master, synced, clone>>
        /\ verdict' \in {verdict, [verdict EXCEPT ![pushing] = "ok"]}
    BY DEF NextRev, Conclude, p4Vars, refVars
  <1>2. UNCHANGED <<History, TakenAt>> BY <1>1 DEF History, TakenAt
  <1>3. CASE verdict' = verdict BY <1>2, <1>3 DEF BridgeSees
  <1>4. CASE verdict' = [verdict EXCEPT ![pushing] = "ok"]
    <2>1. pushing # None /\ pushing \in Push
      BY <1>1, TypeFacts DEF RestTyped, Mirrors, Phase, Importing
    <2>2. Exact /\ LastNum = synced /\ clone[pushing] # {}
      BY <1>1, <2>1 DEF Mirrors, Phase, Pushes, Lines
    <2>3. verdict[pushing] = "none" BY <2>1 DEF BridgeInv, Told
    <2>4. verdict'[pushing] = "ok" BY <1>4, <2>1, TypeFacts DEF RestTyped
    <2>5. clone[pushing] \subseteq master BY <1>1, <2>1, <2>4 DEF BridgeInv, Told
    <2>6. Last(History) = Contents(Fresh)
      BY <2>2, TypeFacts, HistoryIs, UpToDate
    <2>7. master = tags[synced] BY <2>2 DEF Exact
    <2>8. ASSUME NEW e \in EditsOf(pushing) PROVE e \in Last(History)
      <3>1. PICK k \in DOMAIN Series[pushing] : e = Series[pushing][k]
        BY <2>1, SeriesFacts DEF EditsOf
      <3>2. PICK i : Part(pushing, k, i) BY <2>1, <2>2 DEF BridgeInv, Authored
      <3>3. i \in clone[pushing] BY <2>1, <3>2 DEF BridgeInv, Authored, Ordered
      <3>4. i \in master \ {1} BY <2>1, <2>5, <3>2, <3>3, PartFacts DEF BridgeInv, Authored
      <3>5. Built(commits, master) BY DEF Mirrors, Linked
      <3>6. e \in Edit BY <2>1, <3>1, SeriesFacts
      <3>7. e \in Contents(TreeAt(commits, master))
        BY <3>1, <3>2, <3>4, <3>5, <3>6, BranchHas DEF BridgeInv, Part
      <3> QED BY <2>6, <2>7, <3>7 DEF Fresh
    <2>9. Bridged!TellTruth(pushing, "ok")
      BY <1>2, <1>4, <2>1, <2>3, <2>8, TellTruthIs
    <2> QED BY <2>1, <2>9
  <1> QED BY <1>1, <1>3, <1>4

LEMMA FailedMaps ==
    ASSUME TypeInv, Mirrors, BridgeInv, ResetFiles
    PROVE  \E p \in Push : Bridged!TellTruth(p, "failed")
  <1>1. /\ pc = "clean up" /\ UNCHANGED <<depot, synced>>
        /\ verdict' = [verdict EXCEPT ![pushing] = "failed"]
    BY DEF ResetFiles, GiveUpPush, Conclude, p4Vars
  <1>2. UNCHANGED <<History, TakenAt>> BY <1>1 DEF History, TakenAt
  <1>3. pushing # None /\ pushing \in Push
    BY <1>1, TypeFacts DEF RestTyped, Mirrors, Phase, Importing
  <1>4. verdict[pushing] = "none" BY <1>3 DEF BridgeInv, Told
  <1>5. Last(Series[pushing]) \notin Last(History)
    <2>1. \A f \in File : Last(Series[pushing]) \notin DepotHead[f]
      BY <1>1, <1>3 DEF BridgeInv, LastOut, Through
    <2>2. Last(History) = Contents(DepotHead) BY TypeFacts, HistoryIs
    <2> QED BY <2>1, <2>2, ContentsHas
  <1>6. Bridged!TellTruth(pushing, "failed")
    BY <1>1, <1>2, <1>3, <1>4, <1>5, TellTruthIs
  <1> QED BY <1>3, <1>6

LEMMA StepMaps ==
    ASSUME TypeInv, TypeInv', Mirrors, Mirrors', Delivery, Calm, BridgeInv, BridgeInv',
           [Next]_vars
    PROVE  Bridged!Next \/ UNCHANGED BridgeSees
  <1> USE DEF p4Vars, refVars, diskVars, workVars, userVars
  <1>1. Numbered' BY DEF TypeInv, OrderInv
  <1>2. ASSUME UNCHANGED <<depot, synced, verdict>> PROVE UNCHANGED BridgeSees
    BY <1>2 DEF BridgeSees, History, TakenAt
  <1>3. CASE Pull
    <2>1. CASE Record BY <1>1, <2>1, RecordMaps DEF Bridged!Next
    <2>2. CASE ~Record
      <3>1. UNCHANGED <<depot, synced, verdict>>
        BY <1>3, <2>2
        DEF Pull, StartPull, CheckoutMaster, BranchIncoming, NextChange, Sync, Stage,
            CommitChange, TagChange, Rebase
      <3> QED BY <1>2, <3>1
    <2> QED BY <2>1, <2>2
  <1>4. CASE PushThrough
    <2>1. ASSUME NEW p \in Push, StartPush(p) PROVE UNCHANGED BridgeSees
      <3>1. UNCHANGED <<depot, verdict>> BY <2>1, PushBrings
      <3>2. synced' = synced BY <2>1 DEF StartPush
      <3> QED BY <1>2, <3>1, <3>2
    <2>2. CASE Submit BY <1>1, <2>2, SubmitMaps DEF Bridged!Next
    <2>3. CASE NextRev BY <2>3, OkMaps DEF Bridged!Next
    <2>4. CASE ResetFiles BY <2>4, FailedMaps DEF Bridged!Next
    <2>5. CASE \/ NoRequest \/ MergeRev \/ OpenFiles \/ TagPush \/ ResetPush \/ RevertOpened
      <3>1. UNCHANGED <<depot, synced, verdict>>
        BY <2>5 DEF NoRequest, MergeRev, OpenFiles, TagPush, ResetPush, RevertOpened
      <3> QED BY <1>2, <3>1
    <2> QED BY <1>4, <2>1, <2>2, <2>3, <2>4, <2>5 DEF PushThrough
  <1>5. CASE People
    <2>1. ASSUME NEW x \in UserEdit, UserSubmits(x) PROVE Bridged!Next
      BY <1>1, <2>1, UserMaps DEF Bridged!Next
    <2>2. ASSUME NEW p \in Push, SessionClones(p) PROVE UNCHANGED BridgeSees
      BY <1>2, <2>2 DEF SessionClones
    <2> QED BY <1>5, <2>1, <2>2 DEF People
  <1>6. CASE CommandFails \/ Crash BY <1>6 DEF Calm, CommandFails, Crash
  <1>7. CASE UNCHANGED vars BY <1>2, <1>7 DEF vars
  <1> QED BY <1>3, <1>4, <1>5, <1>6, <1>7 DEF Next

LEMMA OnceApart == EditsOnce => EditsApart
  BY SeriesFacts DEF EditsOnce, EditsApart, EditsOf

CalmInv == TypeInv /\ Mirrors /\ Delivery /\ BridgeInv

LEMMA CalmStep ==
    ASSUME Calm, EditsOnce, CalmInv, [Next]_vars
    PROVE  CalmInv' /\ [Bridged!Next]_(Bridged!vars)
  <1>1. TypeInv /\ Mirrors /\ Delivery /\ BridgeInv BY DEF CalmInv
  <1>2. TypeInv' BY <1>1, TypeStep
  <1>3. Mirrors' BY <1>1, <1>2, MirrorsStep
  <1>4. Delivery' BY <1>1, OnceApart, DeliveryStep
  <1>5. BridgeInv' BY <1>1, <1>3, BridgeStep
  <1>6. Bridged!Next \/ UNCHANGED BridgeSees
    BY <1>1, <1>2, <1>3, <1>5, StepMaps
  <1>7. UNCHANGED BridgeSees => UNCHANGED Bridged!vars
    BY DEF BridgeSees, Bridged!vars, History, Contents, TakenAt
  <1> QED BY <1>2, <1>3, <1>4, <1>5, <1>6, <1>7 DEF CalmInv

\* In a calm run the git pump keeps what Bridge promises, for any files, pushes and
\* Perforce users, if every edit of a push is made once: no submit takes an edit of
\* anybody out of Perforce or brings a commit a second time, the commits of a push
\* come in their order, the mirror takes changelist after changelist, and a push is
\* told the truth, whichever of its submits are refused, and whoever cloned what a
\* push left in master that then failed.
THEOREM GitPumpIsBridge ==
    ASSUME Calm, EditsOnce
    PROVE  Spec => ImplementsBridge
  <1>1. Init => CalmInv
    BY TypeInit, MirrorsInit, DeliveryInit, BridgeInit DEF CalmInv
  <1>2. CalmInv /\ [Next]_vars => CalmInv' /\ [Bridged!Next]_(Bridged!vars)
    BY CalmStep
  <1> QED BY <1>1, <1>2, BridgeInitially, PTL DEF Spec, ImplementsBridge, Bridged!Spec
=============================================================================
