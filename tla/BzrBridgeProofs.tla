-------------------------- MODULE BzrBridgeProofs ---------------------------
(***************************************************************************)
(* The bzr pump keeps what Bridge promises, for any files, pushes and      *)
(* number of failed commands and crashes.                                  *)
(*                                                                         *)
(* Where an edit can be: what the branch, the workspace and the clones of  *)
(* the sessions have was in Perforce at some time, and so was what is on   *)
(* disk but for a merge that is not committed. The edits of a push that    *)
(* has no answer never were, until its submit. And as long as the pump was *)
(* not cut off where it does not recover, nothing is taken out of          *)
(* Perforce: what a merge leaves in a file is what was there, and the      *)
(* edits of the push.                                                      *)
(***************************************************************************)
EXTENDS BzrPumpProofs, SequenceTheorems

\* What ever was in a file in Perforce.
Been(f) == UNION {depot[k].tree[f] : k \in DOMAIN depot}

Merging == {"create", "open", "write temp", "submit"}

TreesKnown == \A f \in File : tree[f] \subseteq Been(f) /\ have[f] \subseteq Been(f)
FilesKnown == \A f \in File : files[f] \subseteq Been(f) \/ (merging /\ f \in versioned)
ClonesKnown ==
    \A p \in Push : clone[p] # None => \A f \in File : clone[p][f] \subseteq Been(f)

\* A pull, and a push, begins without a merge.
NotMerging == pc \in {"sync", "add", "commit", "record", "merge"} => ~merging

\* What a merge without conflicts left.
MergeKnown ==
    pc \in Merging =>
        /\ merging
        /\ \A f \in File :
              /\ files[f] \subseteq Been(f) \cup EditsTo(pushing, f)
              /\ EditsTo(pushing, f) \subseteq files[f]
              /\ f \in Touched(pushing) => f \in versioned
OpenedKnown == pc \in {"write temp", "submit"} => pending[number] = Changed

\* And once it is submitted.
SubmitKnown ==
    pc \in Committing =>
        \A f \in File :
            files[f] \subseteq Been(f) /\ EditsTo(pushing, f) \subseteq DepotHead[f]

\* The edits of a push that is not answered were never in Perforce, unless it is
\* submitted just now.
Unsubmitted(p) ==
    /\ verdict[p] = "none"
    /\ pushing = p => pc \in PushingOn \/ (pc \in RollingBack /\ ~hurt)
Fresh ==
    \A p \in Push : Unsubmitted(p) => \A f \in File : EditsTo(p, f) \cap Been(f) = {}

KnownInv == /\ TreesKnown /\ FilesKnown /\ ClonesKnown /\ NotMerging
            /\ MergeKnown /\ OpenedKnown /\ SubmitKnown

LEMMA BeenHas ==
    ASSUME Numbered, NEW f \in File
    PROVE  /\ \A k \in DOMAIN depot : depot[k].tree[f] \subseteq Been(f)
           /\ DepotHead[f] \subseteq Been(f)
           /\ Newer(synced) # {} => NextChange(synced).tree[f] \subseteq Been(f)
  <1>1. \A k \in DOMAIN depot : depot[k].tree[f] \subseteq Been(f) BY DEF Been
  <1>2. DepotHead[f] \subseteq Been(f) BY <1>1, DepotFacts
  <1>3. PICK k \in DOMAIN depot : depot[k].num = synced BY DEF Numbered
  <1>4. Newer(synced) # {} => NextChange(synced).tree[f] \subseteq Been(f)
    BY <1>1, <1>3, NextIs
  <1> QED BY <1>1, <1>2, <1>4

LEMMA BeenSame ==
    ASSUME depot' = depot
    PROVE  (\A f \in File : Been(f)' = Been(f)) /\ DepotHead' = DepotHead
  BY DEF Been, DepotHead

LEMMA BeenGrows ==
    ASSUME Numbered, NEW d, d \in Changelist, depot' = Append(depot, d)
    PROVE  /\ \A f \in File : Been(f)' = Been(f) \cup d.tree[f]
           /\ DepotHead' = d.tree
  <1>1. /\ DOMAIN depot' = DOMAIN depot \cup {Len(depot) + 1}
        /\ \A k \in DOMAIN depot : depot'[k] = depot[k]
        /\ depot'[Len(depot) + 1] = d /\ Len(depot') = Len(depot) + 1
    BY DEF Numbered
  <1>2. \A f \in File : Been(f)' = Been(f) \cup d.tree[f]
    BY <1>1 DEF Been
  <1>3. DepotHead' = d.tree BY <1>1 DEF DepotHead, Last
  <1> QED BY <1>2, <1>3

LEMMA KnownInit == Init => KnownInv
  <1> SUFFICES ASSUME Init PROVE KnownInv OBVIOUS
  <1>1. 1 \in DOMAIN depot /\ depot[1].tree = Everything BY DEF Init
  <1>2. \A f \in File : Everything[f] \subseteq Been(f) BY <1>1 DEF Been
  <1>3. TreesKnown /\ FilesKnown BY <1>2 DEF Init, TreesKnown, FilesKnown
  <1>4. ClonesKnown BY DEF Init, ClonesKnown
  <1>5. NotMerging /\ MergeKnown /\ OpenedKnown /\ SubmitKnown
    BY DEF Init, NotMerging, MergeKnown, OpenedKnown, SubmitKnown, Merging, Committing
  <1> QED BY <1>3, <1>4, <1>5 DEF KnownInv

LEMMA KnownPull ==
    ASSUME BaseInv, Pull, KnownInv
    PROVE  KnownInv'
  <1> USE DEF p4Vars, bzrVars, diskVars, workVars, userVars, badVars
  <1>1. depot' = depot /\ clone' = clone
    BY DEF Pull, StartPull, LookForChanges, Sync, Add, CommitChange, Record
  <1>2. (\A f \in File : Been(f)' = Been(f)) /\ DepotHead' = DepotHead
    BY <1>1, BeenSame
  <1>3. /\ TreesKnown /\ FilesKnown /\ ClonesKnown /\ NotMerging BY DEF KnownInv
  <1>4. ClonesKnown' BY <1>1, <1>2, <1>3 DEF ClonesKnown
  <1>5. pc' \in {"idle", "pop"} \cup Pulling
    BY DEF Pull, StartPull, LookForChanges, Sync, Add, CommitChange, Record, Pulling
  <1>6. MergeKnown' /\ OpenedKnown' /\ SubmitKnown'
    BY <1>5 DEF MergeKnown, OpenedKnown, SubmitKnown, Pulling, Merging, Committing
  <1>7. TypeOK /\ Numbered /\ AtStep BY DEF BaseInv
  <1>8. SUFFICES TreesKnown' /\ FilesKnown' /\ NotMerging' BY <1>4, <1>6 DEF KnownInv
  <1>9. CASE StartPull \/ LookForChanges \/ Record
    <2>1. UNCHANGED <<tree, have, files, merging, versioned>>
      BY <1>9 DEF StartPull, LookForChanges, Record
    <2>2. NotMerging'
      BY <1>3, <1>9, <2>1 DEF NotMerging, StartPull, LookForChanges, Record, IsUnchanged
    <2> QED BY <1>2, <1>3, <2>1, <2>2 DEF TreesKnown, FilesKnown
  <1>10. CASE Sync
    <2> DEFINE there == NextChange(synced).tree
    <2>1. \A f \in File : there[f] \subseteq Been(f)
      BY <1>7, <1>10, BeenHas DEF Sync, AtStep
    <2>2. /\ \A f \in File : files'[f] = there[f] \/ files'[f] = files[f]
          /\ have' = there /\ UNCHANGED <<tree, merging, versioned>>
      BY <1>10 DEF Sync
    <2>3. ~merging BY <1>3, <1>10 DEF Sync, NotMerging
    <2> HIDE DEF there
    <2> QED BY <1>2, <1>3, <2>1, <2>2, <2>3 DEF TreesKnown, FilesKnown, NotMerging
  <1>11. CASE Add
    <2>1. UNCHANGED <<tree, have, files, merging>> /\ ~merging
      BY <1>3, <1>11 DEF Add, NotMerging
    <2> QED BY <1>2, <1>3, <2>1 DEF TreesKnown, FilesKnown, NotMerging
  <1>12. CASE CommitChange
    <2>1. UNCHANGED <<have, files>> /\ ~merging
      BY <1>3, <1>12 DEF CommitChange, NotMerging
    <2>2. merging' = FALSE /\ \A f \in File : tree'[f] = {} \/ tree'[f] = files[f]
      BY <1>7, <1>12, CommitLeaves DEF CommitChange
    <2> QED BY <1>2, <1>3, <2>1, <2>2 DEF TreesKnown, FilesKnown, NotMerging
  <1> QED BY <1>9, <1>10, <1>11, <1>12 DEF Pull

\* What p4 submit brings to Perforce.
LEMMA SubmitBrings ==
    ASSUME BaseInv, KnownInv, pc = "submit", Accept, synced' = synced
    PROVE  /\ \A f \in File :
                 /\ Been(f)' = Been(f) \cup SubmittedTree[f]
                 /\ SubmittedTree[f] = IF f \in Changed THEN files[f] ELSE DepotHead[f]
                 /\ SubmittedTree[f] \subseteq Been(f) \cup EditsTo(pushing, f)
           /\ DepotHead' = SubmittedTree
           /\ have' = [f \in File |-> IF f \in Changed THEN files[f] ELSE have[f]]
  <1>1. TypeOK /\ Numbered /\ AtStep BY DEF BaseInv
  <1>2. temp = number /\ pending[temp] = Changed
    BY <1>1 DEF KnownInv, OpenedKnown, AtStep
  <1>3. /\ SubmittedTree \in Trees /\ SubmittedAs \in Nat
        /\ depot' = Append(depot, [num |-> SubmittedAs, tree |-> SubmittedTree])
    <2>1. SubmittedTree \in Trees BY AcceptFacts
    <2>2. SubmittedAs \in Nat BY <1>1 DEF SubmittedAs, TypeOK
    <2>3. depot' = Append(depot, [num |-> SubmittedAs, tree |-> SubmittedTree])
      BY DEF Accept, Submitted, SubmittedAs, SubmittedTree
    <2> QED BY <2>1, <2>2, <2>3
  <1> DEFINE d == [num |-> SubmittedAs, tree |-> SubmittedTree]
  <1>4. d \in Changelist /\ d.tree = SubmittedTree /\ depot' = Append(depot, d)
    BY <1>3 DEF Changelist
  <1> HIDE DEF d
  <1>5. (\A f \in File : Been(f)' = Been(f) \cup SubmittedTree[f]) /\ DepotHead' = SubmittedTree
    BY <1>1, <1>4, BeenGrows
  <1>6. \A f \in File :
            SubmittedTree[f] = IF f \in Changed THEN files[f] ELSE DepotHead[f]
    BY <1>2 DEF SubmittedTree
  <1>7. \A f \in File : SubmittedTree[f] \subseteq Been(f) \cup EditsTo(pushing, f)
    BY <1>1, <1>6, BeenHas DEF KnownInv, MergeKnown, Merging
  <1>8. have' = [f \in File |-> IF f \in Changed THEN files[f] ELSE have[f]]
    BY <1>2 DEF Accept
  <1> QED BY <1>5, <1>6, <1>7, <1>8

LEMMA KnownPush ==
    ASSUME BaseInv, PushThrough, KnownInv, Fresh
    PROVE  KnownInv'
  <1> USE DEF p4Vars, bzrVars, diskVars, workVars, userVars, badVars
  <1>0. TypeOK /\ Numbered /\ AtStep BY DEF BaseInv
  <1>1. /\ TreesKnown /\ FilesKnown /\ ClonesKnown /\ NotMerging /\ MergeKnown
        /\ OpenedKnown /\ SubmitKnown
    BY DEF KnownInv
  <1>2. clone' = clone
    BY DEF PushThrough, NoRequest, StartPush, Merge, CreateChangelist, OpenFiles,
           WriteTemp, Submit, CommitPush, DeleteTemp, RevertOpened, RevertTree,
           DropChangelist, DropTemp
  <1>3. CASE Submit /\ Accept
    <2>1. /\ pc = "submit" /\ UNCHANGED <<bzrVars, diskVars, workVars>>
          /\ pc' = "commit push"
      BY <1>3 DEF Submit, Accept
    <2>2. /\ \A f \in File :
                 /\ Been(f)' = Been(f) \cup SubmittedTree[f]
                 /\ SubmittedTree[f] = IF f \in Changed THEN files[f] ELSE DepotHead[f]
          /\ DepotHead' = SubmittedTree
          /\ have' = [f \in File |-> IF f \in Changed THEN files[f] ELSE have[f]]
      BY <1>3, <2>1, SubmitBrings
    <2>3. pushing \in Push /\ verdict[pushing] = "none"
      BY <1>0, <2>1, PushFacts DEF Pulling
    <2>4. \A f \in File : EditsTo(pushing, f) \cap Been(f) = {}
      BY <2>1, <2>3 DEF Fresh, Unsubmitted, PushingOn
    <2>5. \A f \in File : f \notin Changed =>
              files[f] \subseteq Been(f) /\ EditsTo(pushing, f) = {}
      <3> SUFFICES ASSUME NEW f \in File, f \notin Changed
                   PROVE  files[f] \subseteq Been(f) /\ EditsTo(pushing, f) = {}
        OBVIOUS
      <3>1. f \in versioned => files[f] = tree[f] BY DEF Changed, Work
      <3>2. files[f] \subseteq Been(f) BY <1>1, <3>1 DEF TreesKnown, FilesKnown
      <3>3. EditsTo(pushing, f) \subseteq files[f] BY <1>1, <2>1 DEF MergeKnown, Merging
      <3> QED BY <2>4, <3>2, <3>3
    <2>6. \A f \in File : EditsTo(pushing, f) \subseteq files[f]
      BY <1>1, <2>1 DEF MergeKnown, Merging
    <2>7. TreesKnown' BY <1>1, <2>1, <2>2 DEF TreesKnown
    <2>8. FilesKnown' BY <1>1, <2>1, <2>2 DEF FilesKnown
    <2>9. ClonesKnown' BY <1>1, <1>2, <2>2 DEF ClonesKnown
    <2>10. SubmitKnown' BY <2>1, <2>2, <2>5, <2>6 DEF SubmitKnown, EditsTo
    <2> QED BY <2>1, <2>7, <2>8, <2>9, <2>10
            DEF KnownInv, NotMerging, MergeKnown, OpenedKnown, Merging
  <1>4. CASE depot' = depot
    <2>1. (\A f \in File : Been(f)' = Been(f)) /\ DepotHead' = DepotHead
      BY <1>4, BeenSame
    <2>2. ClonesKnown' BY <1>1, <1>2, <2>1 DEF ClonesKnown
    <2>3. CASE NoRequest \/ (\E p \in Push : StartPush(p)) \/ DropChangelist \/ DropTemp
               \/ DeleteTemp
      <3>1. UNCHANGED <<tree, have, files, merging, versioned>>
        BY <2>3 DEF NoRequest, StartPush, DropChangelist, DropTemp, DeleteTemp
      <3>2. pc' \in {"idle", "rollback", "drop temp"} \/ (pc' = "merge" /\ ~merging)
        BY <2>3 DEF NoRequest, StartPush, DropChangelist, DropTemp, DeleteTemp, FinishPush,
                    IsUnchanged
      <3>3. TreesKnown' /\ FilesKnown' BY <1>1, <2>1, <3>1 DEF TreesKnown, FilesKnown
      <3> QED BY <2>2, <3>1, <3>2, <3>3
              DEF KnownInv, NotMerging, MergeKnown, OpenedKnown, SubmitKnown, Merging,
                  Committing
    <2>4. CASE Merge
      <3> DEFINE base == clone[pushing]
      <3>1. pc = "merge" /\ ~merging /\ UNCHANGED <<have, tree, pushing>>
        BY <1>1, <2>4 DEF Merge, NotMerging
      <3>2. clone[pushing] # None /\ pushing \in Push
        BY <1>0, <3>1 DEF AtStep, Pulling, TypeOK
      <3>3. \A f \in File : base[f] \subseteq Been(f) /\ files[f] \subseteq Been(f)
        BY <1>1, <3>1, <3>2 DEF ClonesKnown, FilesKnown
      <3>4. CASE UNCHANGED bzrVars /\ pc' = "rollback"
        <4>1. TreesKnown' /\ FilesKnown' BY <1>1, <2>1, <3>1, <3>4 DEF TreesKnown, FilesKnown
        <4> QED BY <2>2, <3>4, <4>1
                DEF KnownInv, NotMerging, MergeKnown, OpenedKnown, SubmitKnown, Merging,
                    Committing
      <3>5. ASSUME NEW conflicts \in SUBSET Touched(pushing),
                   merging' = TRUE, versioned' = versioned \cup Touched(pushing),
                   files' = [f \in File |->
                       IF f \notin Touched(pushing) THEN files[f]
                       ELSE IF f \in conflicts \/ files[f] = base[f]
                            THEN base[f] \cup EditsTo(pushing, f)
                       ELSE files[f] \cup (base[f] \cup EditsTo(pushing, f))],
                   pc' \in {"create", "rollback"}
            PROVE  KnownInv'
        <4>1. \A f \in File : f \notin Touched(pushing) =>
                  files'[f] = files[f] /\ EditsTo(pushing, f) = {}
          BY <3>5 DEF Touched
        <4>2. \A f \in File : f \in Touched(pushing) =>
                  \/ files'[f] = base[f] \cup EditsTo(pushing, f)
                  \/ files'[f] = files[f] \cup (base[f] \cup EditsTo(pushing, f))
          BY <3>5
        <4>3. \A f \in File :
                  /\ files'[f] \subseteq Been(f) \cup EditsTo(pushing, f)
                  /\ EditsTo(pushing, f) \subseteq files'[f]
                  /\ f \notin Touched(pushing) => files'[f] \subseteq Been(f)
          BY <3>3, <4>1, <4>2
        <4>4. Touched(pushing)' = Touched(pushing)
              /\ \A f \in File : EditsTo(pushing, f)' = EditsTo(pushing, f)
          BY <3>1 DEF Touched, EditsTo
        <4>5. FilesKnown' BY <2>1, <3>5, <4>3 DEF FilesKnown
        <4>6. MergeKnown' BY <2>1, <3>5, <4>3, <4>4 DEF MergeKnown
        <4>7. TreesKnown' BY <1>1, <2>1, <3>1 DEF TreesKnown
        <4> QED BY <2>2, <3>5, <4>5, <4>6, <4>7
                DEF KnownInv, NotMerging, OpenedKnown, SubmitKnown, Committing
      <3> QED BY <2>4, <3>4, <3>5 DEF Merge
    <2>5. CASE CreateChangelist \/ OpenFiles \/ WriteTemp
      <3>1. pc \in Merging /\ UNCHANGED <<tree, have, files, merging, versioned, pushing>>
            /\ pc' \in {"open", "write temp", "submit", "rollback"}
        BY <2>5 DEF CreateChangelist, OpenFiles, WriteTemp, Merging
      <3>2. TreesKnown' /\ FilesKnown' BY <1>1, <2>1, <3>1 DEF TreesKnown, FilesKnown
      <3>3. MergeKnown'
        BY <1>1, <2>1, <3>1 DEF MergeKnown, Touched, EditsTo
      <3>4. OpenedKnown'
        <4>1. Changed' = Changed BY <3>1 DEF Changed, Work
        <4>2. CASE CreateChangelist BY <4>2 DEF CreateChangelist, OpenedKnown
        <4>3. CASE OpenFiles
          <5>1. number \in DOMAIN pending BY <1>0, <4>3 DEF OpenFiles, AtStep
          <5>2. pc' = "write temp" => pending'[number'] = Changed
            BY <4>3, <5>1 DEF OpenFiles
          <5> QED BY <4>1, <4>3, <5>2 DEF OpenFiles, OpenedKnown
        <4>4. CASE WriteTemp BY <1>1, <4>1, <4>4 DEF WriteTemp, OpenedKnown
        <4> QED BY <2>5, <4>2, <4>3, <4>4
      <3> QED BY <2>2, <3>1, <3>2, <3>3, <3>4
              DEF KnownInv, NotMerging, SubmitKnown, Committing
    <2>6. CASE Submit /\ pc' = "rollback" /\ UNCHANGED p4Vars
      <3>1. UNCHANGED <<tree, have, files, merging, versioned>> BY <2>6 DEF Submit
      <3>2. TreesKnown' /\ FilesKnown' BY <1>1, <2>1, <3>1 DEF TreesKnown, FilesKnown
      <3> QED BY <2>2, <2>6, <3>2
              DEF KnownInv, NotMerging, MergeKnown, OpenedKnown, SubmitKnown, Merging,
                  Committing
    <2>7. CASE CommitPush
      <3>1. pc = "commit push" /\ pc' = "delete temp" /\ UNCHANGED <<have, files, pushing>>
        BY <2>7 DEF CommitPush
      <3>2. merging' = FALSE /\ \A f \in File : tree'[f] = {} \/ tree'[f] = files[f]
        BY <1>0, <2>7, CommitLeaves DEF CommitPush
      <3>3. \A f \in File : /\ files[f] \subseteq Been(f)
                             /\ EditsTo(pushing, f) \subseteq DepotHead[f]
        BY <1>1, <3>1 DEF SubmitKnown, Committing
      <3>4. TreesKnown' /\ FilesKnown'
        BY <1>1, <2>1, <3>1, <3>2, <3>3 DEF TreesKnown, FilesKnown
      <3>5. SubmitKnown' BY <2>1, <3>1, <3>3 DEF SubmitKnown, EditsTo
      <3> QED BY <2>2, <3>1, <3>4, <3>5
              DEF KnownInv, NotMerging, MergeKnown, OpenedKnown, Merging
    <2>8. CASE RevertOpened
      <3>1. /\ UNCHANGED <<tree, have, merging, versioned>> /\ pc' = "revert"
            /\ \A f \in File : files'[f] = have[f] \/ files'[f] = files[f]
        BY <2>8 DEF RevertOpened
      <3>2. TreesKnown' /\ FilesKnown' BY <1>1, <2>1, <3>1 DEF TreesKnown, FilesKnown
      <3> QED BY <2>2, <3>1, <3>2
              DEF KnownInv, NotMerging, MergeKnown, OpenedKnown, SubmitKnown, Merging,
                  Committing
    <2>9. CASE RevertTree
      <3>1. /\ UNCHANGED <<tree, have>> /\ pc' = "drop" /\ merging' = FALSE
            /\ \A f \in File : files'[f] = IF tree[f] # {} \/ (merging /\ f \in versioned)
                                           THEN tree[f] ELSE files[f]
        BY <2>9 DEF RevertTree, BzrRevert
      <3>2. TreesKnown' /\ FilesKnown' BY <1>1, <2>1, <3>1 DEF TreesKnown, FilesKnown
      <3> QED BY <2>2, <3>1, <3>2
              DEF KnownInv, NotMerging, MergeKnown, OpenedKnown, SubmitKnown, Merging,
                  Committing
    <2> QED
      <3>1. ~(Submit /\ Accept)
        <4> SUFFICES ASSUME Submit, Accept PROVE FALSE OBVIOUS
        <4>1. pc = "submit" /\ synced' = synced BY DEF Submit
        <4>2. Len(depot) + 1 \in DOMAIN depot' BY <1>0, <4>1, AcceptFacts
        <4> QED BY <1>0, <1>4, <4>2, DepotFacts
      <3>2. Submit => pc' = "rollback" /\ UNCHANGED p4Vars BY <3>1 DEF Submit
      <3> QED BY <2>3, <2>4, <2>5, <2>6, <2>7, <2>8, <2>9, <3>2 DEF PushThrough
  <1>5. (Submit /\ Accept) \/ depot' = depot
    BY DEF PushThrough, NoRequest, StartPush, Merge, CreateChangelist, OpenFiles,
           WriteTemp, Submit, CommitPush, DeleteTemp, RevertOpened, RevertTree,
           DropChangelist, DropTemp
  <1> QED BY <1>3, <1>4, <1>5

LEMMA KnownOthers ==
    ASSUME BaseInv, People \/ CommandFails \/ Crash \/ UNCHANGED vars, KnownInv
    PROVE  KnownInv'
  <1> USE DEF p4Vars, bzrVars, diskVars, workVars, userVars, badVars
  <1>0. TypeOK /\ Numbered /\ AtStep BY DEF BaseInv
  <1>1. /\ TreesKnown /\ FilesKnown /\ ClonesKnown /\ NotMerging /\ MergeKnown
        /\ OpenedKnown /\ SubmitKnown
    BY DEF KnownInv
  <1>2. ASSUME UNCHANGED <<tree, have, files, merging, versioned, clone, pc, pushing, pending,
                           number>>,
               \A f \in File : Been(f) \subseteq Been(f)' /\ DepotHead[f] \subseteq DepotHead'[f]
        PROVE  KnownInv'
    <2>1. TreesKnown' /\ FilesKnown' /\ ClonesKnown' /\ NotMerging'
      BY <1>1, <1>2 DEF TreesKnown, FilesKnown, ClonesKnown, NotMerging
    <2>2. MergeKnown' BY <1>1, <1>2 DEF MergeKnown, Touched, EditsTo
    <2>3. OpenedKnown' BY <1>1, <1>2 DEF OpenedKnown, Changed, Work
    <2>4. SubmitKnown' BY <1>1, <1>2 DEF SubmitKnown, EditsTo
    <2> QED BY <2>1, <2>2, <2>3, <2>4 DEF KnownInv
  <1>3. ASSUME NEW e \in UserEdit, UserSubmits(e) PROVE KnownInv'
    <2> DEFINE t == [DepotHead EXCEPT ![FileOf[e]] = @ \cup {e}]
               d == [num |-> counter + 1, tree |-> t]
    <2>1. DepotHead \in Trees /\ FileOf[e] \in File /\ e \in Edit /\ counter \in Nat
      BY <1>0, DepotFacts, ConstantsAssumption DEF TypeOK
    <2>2. t \in Trees /\ \A f \in File : DepotHead[f] \subseteq t[f] BY <2>1 DEF Trees
    <2>3. depot' = Append(depot, d) BY <1>3 DEF UserSubmits
    <2> HIDE DEF t
    <2>4. d \in Changelist /\ d.tree = t BY <2>1, <2>2 DEF Changelist
    <2> HIDE DEF d
    <2>5. (\A f \in File : Been(f)' = Been(f) \cup t[f]) /\ DepotHead' = t
      BY <1>0, <2>3, <2>4, BeenGrows
    <2>6. UNCHANGED <<tree, have, files, merging, versioned, clone, pc, pushing, pending, number>>
      BY <1>3 DEF UserSubmits
    <2> QED BY <1>2, <2>2, <2>5, <2>6
  <1>4. ASSUME NEW p \in Push, SessionBranches(p) PROVE KnownInv'
    <2>1. UNCHANGED <<depot, tree, have, files, merging, versioned, pc, pushing, pending, number>>
      BY <1>4 DEF SessionBranches
    <2>2. (\A f \in File : Been(f)' = Been(f)) /\ DepotHead' = DepotHead
      BY <2>1, BeenSame
    <2>3. \A q \in Push : clone'[q] = tree \/ clone'[q] = clone[q]
      BY <1>0, <1>4 DEF SessionBranches, TypeOK
    <2>4. ClonesKnown' BY <1>1, <2>2, <2>3 DEF ClonesKnown, TreesKnown
    <2>5. TreesKnown' /\ FilesKnown' /\ NotMerging'
      BY <1>1, <2>1, <2>2 DEF TreesKnown, FilesKnown, NotMerging
    <2>6. MergeKnown' BY <1>1, <2>1, <2>2 DEF MergeKnown, Touched, EditsTo
    <2>7. OpenedKnown' BY <1>1, <2>1 DEF OpenedKnown, Changed, Work
    <2>8. SubmitKnown' BY <1>1, <2>1, <2>2 DEF SubmitKnown, EditsTo
    <2> QED BY <2>4, <2>5, <2>6, <2>7, <2>8 DEF KnownInv
  <1>5. CASE CommandFails \/ Crash
    <2>1. UNCHANGED <<depot, tree, have, files, merging, versioned, clone>>
          /\ pc' \in {"idle", "rollback"}
      BY <1>5 DEF CommandFails, Crash, FinishPush
    <2>2. \A f \in File : Been(f)' = Been(f) BY <2>1, BeenSame
    <2>3. TreesKnown' /\ FilesKnown' /\ ClonesKnown'
      BY <1>1, <2>1, <2>2 DEF TreesKnown, FilesKnown, ClonesKnown
    <2> QED BY <2>1, <2>3
            DEF KnownInv, NotMerging, MergeKnown, OpenedKnown, SubmitKnown, Merging, Committing
  <1>6. CASE UNCHANGED vars
    <2>1. UNCHANGED <<tree, have, files, merging, versioned, clone, pc, pushing, pending, number,
                      depot>>
      BY <1>6 DEF vars
    <2>2. (\A f \in File : Been(f)' = Been(f)) /\ DepotHead' = DepotHead
      BY <2>1, BeenSame
    <2> QED BY <1>2, <2>1, <2>2
  <1> QED BY <1>3, <1>4, <1>5, <1>6 DEF People

-----------------------------------------------------------------------------
(* Nobody has the edits of a push before it is submitted                    *)

LEMMA FreshInit == Init => Fresh
  <1> SUFFICES ASSUME Init PROVE Fresh OBVIOUS
  <1>1. \A f \in File : Been(f) \subseteq {First}
    <2>1. DOMAIN depot = {1} /\ depot[1].tree = Everything BY DEF Init
    <2> QED BY <2>1 DEF Been, Everything
  <1>2. \A p \in Push, f \in File : First \notin EditsTo(p, f)
    BY ConstantsAssumption DEF EditsTo
  <1> QED BY <1>1, <1>2 DEF Fresh

LEMMA FreshGrows ==
    ASSUME Fresh, NEW q \in Push, NEW t,
           \A f \in File : Been(f)' = Been(f) \cup t[f],
           \A p \in Push : Unsubmitted(p)' => Unsubmitted(p)
                                /\ \A f \in File : EditsTo(p, f) \cap t[f] \subseteq Been(f)
    PROVE  Fresh'
  BY DEF Fresh, EditsTo

LEMMA FreshStep ==
    ASSUME BaseInv, SoundInv, KnownInv, Fresh, [Next]_vars
    PROVE  Fresh'
  <1> USE DEF p4Vars, bzrVars, diskVars, workVars, userVars, badVars
  <1>0. TypeOK /\ Numbered /\ AtStep BY DEF BaseInv
  <1>1. CASE Submit /\ Accept
    <2>1. /\ pc = "submit" /\ UNCHANGED <<pushing, verdict, synced>> /\ pc' = "commit push"
      BY <1>1 DEF Submit, Accept
    <2>2. \A f \in File : /\ Been(f)' = Been(f) \cup SubmittedTree[f]
                          /\ SubmittedTree[f] \subseteq Been(f) \cup EditsTo(pushing, f)
      BY <1>1, <2>1, SubmitBrings
    <2>3. pushing \in Push BY <1>0, <2>1, PushFacts DEF Pulling
    <2>4. ASSUME NEW p \in Push, Unsubmitted(p)'
          PROVE  Unsubmitted(p) /\ \A f \in File : EditsTo(p, f) \cap SubmittedTree[f] \subseteq Been(f)
      <3>1. pushing # p BY <2>1, <2>4 DEF Unsubmitted, PushingOn, RollingBack
      <3>2. Unsubmitted(p) BY <2>1, <2>4, <3>1 DEF Unsubmitted
      <3>3. EditsOf[p] \cap EditsOf[pushing] = {} BY <2>3, <3>1, ConstantsAssumption
      <3>4. \A f \in File : EditsTo(p, f) \cap EditsTo(pushing, f) = {}
        BY <3>3 DEF EditsTo
      <3> QED BY <2>2, <3>2, <3>4
    <2> QED BY <2>2, <2>3, <2>4, FreshGrows
  <1>2. ASSUME NEW e \in UserEdit, UserSubmits(e) PROVE Fresh'
    <2> DEFINE t == [DepotHead EXCEPT ![FileOf[e]] = @ \cup {e}]
               d == [num |-> counter + 1, tree |-> t]
    <2>1. DepotHead \in Trees /\ FileOf[e] \in File /\ e \in Edit /\ counter \in Nat
      BY <1>0, DepotFacts, ConstantsAssumption DEF TypeOK
    <2>2. t \in Trees /\ \A f \in File : t[f] \subseteq DepotHead[f] \cup {e}
      BY <2>1 DEF Trees
    <2>3. depot' = Append(depot, d) BY <1>2 DEF UserSubmits
    <2> HIDE DEF t
    <2>4. d \in Changelist /\ d.tree = t BY <2>1, <2>2 DEF Changelist
    <2> HIDE DEF d
    <2>5. \A f \in File : Been(f)' = Been(f) \cup t[f]
      BY <1>0, <2>3, <2>4, BeenGrows
    <2>6. \A p \in Push : Unsubmitted(p)' => Unsubmitted(p)
      BY <1>2 DEF UserSubmits, Unsubmitted
    <2>7. \A p \in Push, f \in File : e \notin EditsTo(p, f)
      BY ConstantsAssumption DEF EditsTo
    <2>8. \A p \in Push, f \in File : EditsTo(p, f) \cap t[f] \subseteq Been(f)
      BY <1>0, <2>2, <2>7, BeenHas
    <2> QED BY <2>5, <2>6, <2>8 DEF Fresh, EditsTo
  <1>3. ASSUME depot' = depot, \A p \in Push : Unsubmitted(p)' => Unsubmitted(p)
        PROVE  Fresh'
    BY <1>3, BeenSame DEF Fresh, EditsTo
  <1>4. CASE UNCHANGED vars BY <1>3, <1>4 DEF vars, Unsubmitted
  <1>5. CASE Pull
    <2>1. UNCHANGED <<depot, verdict, pushing>>
      BY <1>5 DEF Pull, StartPull, LookForChanges, Sync, Add, CommitChange, Record
    <2>2. pushing = None /\ None \notin Push
      BY <1>0, <1>5, ConstantsAssumption
      DEF Pull, StartPull, LookForChanges, Sync, Add, CommitChange, Record, AtStep, Pulling
    <2> QED BY <1>3, <2>1, <2>2 DEF Unsubmitted
  <1>6. CASE \E p \in Push : SessionBranches(p)
    BY <1>3, <1>6 DEF SessionBranches, Unsubmitted
  <1>7. ASSUME NEW v \in {"ok", "failed"}, FinishPush(v), depot' = depot
        PROVE  Fresh'
    <2>1. \A p \in Push : verdict'[p] = "none" => verdict[p] = "none" /\ pushing # p
      BY <1>0, <1>7 DEF FinishPush, Conclude, TypeOK
    <2> QED BY <1>3, <1>7, <2>1 DEF Unsubmitted
  <1>8. ASSUME UNCHANGED <<depot, verdict, pushing>>, hurt => hurt',
               pc' \in RollingBack => pc \in PushingOn \cup RollingBack,
               pc' \in PushingOn => pc \in PushingOn
        PROVE  Fresh'
    <2>1. \A p \in Push : Unsubmitted(p)' => Unsubmitted(p)
      BY <1>8 DEF Unsubmitted, PushingOn, RollingBack
    <2> QED BY <1>3, <1>8, <2>1
  <1>9. CASE PushThrough /\ ~(Submit /\ Accept)
    <2>1. CASE NoRequest
      <3>1. pushing = None /\ None \notin Push
        BY <1>0, <2>1, ConstantsAssumption DEF NoRequest, AtStep
      <3> QED BY <1>3, <2>1, <3>1 DEF NoRequest, Unsubmitted
    <2>2. ASSUME NEW p \in Push, StartPush(p) PROVE Fresh'
      <3>1. pushing = None /\ None \notin Push
        BY <1>0, <2>2, ConstantsAssumption DEF StartPush, AtStep
      <3>2. depot' = depot /\ \A q \in Push : verdict'[q] = "none" => verdict[q] = "none"
        BY <1>0, <2>2 DEF StartPush, Conclude, TypeOK
      <3> QED BY <1>3, <3>1, <3>2 DEF Unsubmitted
    <2>3. CASE Merge \/ CreateChangelist \/ OpenFiles \/ WriteTemp
      BY <1>8, <2>3 DEF Merge, CreateChangelist, OpenFiles, WriteTemp, PushingOn, RollingBack
    <2>4. CASE Submit
      BY <1>8, <1>9, <2>4 DEF Submit, PushingOn, RollingBack
    <2>5. CASE CommitPush
      BY <1>8, <2>5 DEF CommitPush, PushingOn, RollingBack
    <2>6. CASE DeleteTemp
      <3>1. CASE IsUnchanged
        <4>1. FinishPush("ok") /\ depot' = depot BY <2>6, <3>1 DEF DeleteTemp
        <4> QED BY <1>7, <4>1
      <3>2. CASE ~IsUnchanged
        <4>1. hurt BY <2>6, <3>2 DEF DeleteTemp, SoundInv, SoundAt, Committed
        <4>2. UNCHANGED <<depot, verdict, pushing, hurt>> /\ pc' = "rollback"
          BY <2>6, <3>2 DEF DeleteTemp
        <4>3. \A p \in Push : Unsubmitted(p)' => Unsubmitted(p)
          BY <4>1, <4>2 DEF Unsubmitted, PushingOn
        <4> QED BY <1>3, <4>2, <4>3
      <3> QED BY <3>1, <3>2
    <2>7. CASE RevertOpened \/ RevertTree
      BY <1>8, <2>7 DEF RevertOpened, RevertTree, PushingOn, RollingBack
    <2>8. CASE DropChangelist
      <3>1. CASE FinishPush("failed") BY <1>7, <2>8, <3>1 DEF DropChangelist
      <3>2. CASE ~FinishPush("failed")
        BY <1>8, <2>8, <3>2 DEF DropChangelist, PushingOn, RollingBack
      <3> QED BY <3>1, <3>2
    <2>9. CASE DropTemp BY <1>7, <2>9 DEF DropTemp
    <2> QED BY <1>9, <2>1, <2>2, <2>3, <2>4, <2>5, <2>6, <2>7, <2>8, <2>9 DEF PushThrough
  <1>10. CASE CommandFails
    <2>1. depot' = depot /\ hurt' = (hurt \/ AddsLost \/ pc \in Committing \cup RollingBack)
      BY <1>10 DEF CommandFails
    <2>2. CASE pc \in Pulling /\ UNCHANGED <<pushing, verdict>>
      <3>1. pushing = None /\ None \notin Push BY <1>0, <2>2, ConstantsAssumption DEF AtStep
      <3> QED BY <1>3, <2>1, <2>2, <3>1 DEF Unsubmitted
    <2>3. CASE pc \in PushingOn \cup Committing /\ pc' = "rollback" /\ UNCHANGED <<pushing, verdict>>
      <3>1. \A p \in Push : Unsubmitted(p)' => Unsubmitted(p)
        BY <2>1, <2>3 DEF Unsubmitted, PushingOn
      <3> QED BY <1>3, <2>1, <3>1
    <2>4. CASE FinishPush("failed") BY <1>7, <2>1, <2>4
    <2> QED BY <1>10, <2>2, <2>3, <2>4 DEF CommandFails
  <1>11. CASE Crash
    <2>1. depot' = depot BY <1>11 DEF Crash
    <2>2. \A p \in Push : verdict'[p] = "none" => verdict[p] = "none" /\ pushing # p
      BY <1>11 DEF Crash
    <2> QED BY <1>3, <2>1, <2>2 DEF Unsubmitted
  <1> QED BY <1>1, <1>2, <1>4, <1>5, <1>6, <1>9, <1>10, <1>11 DEF Next, People, PushThrough

-----------------------------------------------------------------------------
(* Nothing is taken out of Perforce                                         *)

Grown == \A f \in File : Been(f) \subseteq DepotHead[f]
Based ==
    pc \in {"pop", "merge"} =>
        \A p \in Push : clone[p] # None =>
            \A f \in File : clone[p][f] \subseteq DepotAt(synced)[f]
Made == pc \in Merging => \A f \in File : files[f] = tree[f] \cup EditsTo(pushing, f)

GrowsInv == ~hurt => Grown /\ Based /\ Made

LEMMA GrowsInit == Init => GrowsInv
  <1> SUFFICES ASSUME Init PROVE GrowsInv OBVIOUS
  <1>1. DOMAIN depot = {1} /\ DepotHead = depot[1].tree BY DEF Init, DepotHead, Last
  <1>2. Grown BY <1>1 DEF Grown, Been
  <1> QED BY <1>2 DEF Init, GrowsInv, Based, Made, Merging

\* The files of a push that is accepted were up to date.
LEMMA SubmitAdds ==
    ASSUME BaseInv, SoundInv, KnownInv, Fresh, GrowsInv, ~hurt, Submit, Accept
    PROVE  \A f \in File :
              /\ DepotHead'[f] = DepotHead[f] \cup EditsTo(pushing, f)
              /\ EditsTo(pushing, f) \cap DepotHead[f] = {}
  <1>0. TypeOK /\ Numbered /\ AtStep BY DEF BaseInv
  <1>1. pc = "submit" /\ synced' = synced BY DEF Submit, diskVars
  <1>2. Made /\ Merged BY <1>1 DEF GrowsInv, SoundInv, SoundAt
  <1>3. temp = number /\ pending[temp] = Changed
    BY <1>0, <1>1 DEF KnownInv, OpenedKnown, AtStep
  <1>4. \A f \in Changed : have[f] = DepotHead[f]
    BY <1>3 DEF Submit, Accept
  <1>5. pushing \in Push /\ verdict[pushing] = "none"
    BY <1>0, <1>1, PushFacts DEF Pulling
  <1>6. \A f \in File : EditsTo(pushing, f) \cap Been(f) = {}
    BY <1>1, <1>5 DEF Fresh, Unsubmitted, PushingOn
  <1>7. \A f \in File : /\ DepotHead[f] \subseteq Been(f) /\ tree[f] \subseteq Been(f)
                        /\ files[f] = tree[f] \cup EditsTo(pushing, f)
    BY <1>0, <1>1, <1>2, BeenHas DEF KnownInv, TreesKnown, Made, Merging
  <1>8. \A f \in File : DepotHead'[f] = IF f \in Changed THEN files[f] ELSE DepotHead[f]
    BY <1>1, SubmitBrings
  <1>9. \A f \in File : f \notin Changed => EditsTo(pushing, f) = {}
    <2> SUFFICES ASSUME NEW f \in File, f \notin Changed PROVE EditsTo(pushing, f) = {}
      OBVIOUS
    <2>1. f \in versioned => files[f] = tree[f] BY DEF Changed, Work
    <2>2. f \notin versioned => files[f] = {} BY <1>2 DEF Merged, NoStrays
    <2> QED BY <1>6, <1>7, <2>1, <2>2
  <1>10. have = tree BY <1>2 DEF Merged
  <1> QED BY <1>4, <1>6, <1>7, <1>8, <1>9, <1>10

LEMMA GrowsStep ==
    ASSUME BaseInv, BaseInv', DepotKept, SoundInv, KnownInv, Fresh, GrowsInv, [Next]_vars
    PROVE  GrowsInv'
  <1> USE DEF p4Vars, bzrVars, diskVars, workVars, userVars, badVars
  <1>0. TypeOK /\ Numbered /\ AtStep /\ Numbered' BY DEF BaseInv
  <1>1. SUFFICES ASSUME ~hurt' PROVE Grown' /\ Based' /\ Made' BY DEF GrowsInv
  <1>2. ~hurt
    BY <1>1 DEF Next, Pull, StartPull, LookForChanges, Sync, Add, CommitChange, Record,
       PushThrough, NoRequest, StartPush, Merge, CreateChangelist, OpenFiles, WriteTemp,
       Submit, CommitPush, DeleteTemp, RevertOpened, RevertTree, DropChangelist, DropTemp,
       People, UserSubmits, SessionBranches, CommandFails, Crash, vars
  <1>3. SoundAt /\ Grown /\ Based /\ Made BY <1>2 DEF SoundInv, GrowsInv
  <1>4. ASSUME depot' = depot PROVE Grown' BY <1>3, <1>4, BeenSame DEF Grown
  <1>5. ASSUME pc' \notin {"pop", "merge"} \cup Merging PROVE Based' /\ Made'
    BY <1>5 DEF Based, Made
  <1>6. CASE Pull
    <2>1. UNCHANGED <<depot, clone>>
          /\ pc' \in {"pop", "sync", "idle", "pull", "add", "commit", "record"}
      BY <1>6 DEF Pull, StartPull, LookForChanges, Sync, Add, CommitChange, Record
    <2>2. CASE pc' = "pop"
      <3>1. LookForChanges /\ Newer(synced) = {} /\ synced' = synced
        BY <1>6, <2>2
        DEF Pull, StartPull, LookForChanges, Sync, Add, CommitChange, Record
      <3>2. PICK k \in DOMAIN depot : depot[k].num = synced BY <1>0 DEF Numbered
      <3>3. DepotAt(synced) = DepotHead BY <1>0, <3>1, <3>2, NextIs, DepotFacts
      <3>4. DepotAt(synced)' = DepotHead BY <2>1, <3>1, <3>3, SameRecord
      <3>5. Based' BY <1>3, <2>1, <3>4 DEF Based, Grown, KnownInv, ClonesKnown
      <3> QED BY <1>4, <2>1, <2>2, <3>5 DEF Made, Merging
    <2> QED BY <1>4, <1>5, <2>1, <2>2 DEF Merging
  <1>7. CASE Submit /\ Accept
    <2>1. \A f \in File : DepotHead'[f] = DepotHead[f] \cup EditsTo(pushing, f)
      BY <1>2, <1>7, SubmitAdds
    <2>2. pc = "submit" /\ synced' = synced /\ pc' = "commit push"
      BY <1>7 DEF Submit, Accept
    <2>3. \A f \in File : Been(f)' = Been(f) \cup DepotHead'[f]
      BY <1>7, <2>2, SubmitBrings
    <2>4. Grown' BY <1>3, <2>1, <2>3 DEF Grown
    <2> QED BY <1>5, <2>2, <2>4 DEF Merging
  <1>8. CASE Merge
    <2>1. Mirrored /\ UNCHANGED <<depot, tree, pushing>> /\ pc = "merge"
      BY <1>3, <1>8 DEF Merge, SoundAt
    <2>2. tree = DepotAt(synced) /\ files = tree BY <2>1 DEF Mirrored, Agree
    <2>3. clone[pushing] # None /\ pushing \in Push
      BY <1>0, <2>1 DEF AtStep, Pulling, TypeOK
    <2>4. \A f \in File : clone[pushing][f] \subseteq tree[f] BY <1>3, <2>1, <2>2, <2>3 DEF Based
    <2>5. CASE pc' = "rollback" BY <1>4, <1>5, <2>1, <2>5 DEF Merging
    <2>6. CASE pc' = "create"
      <3> DEFINE base == clone[pushing]
      <3>1. files' = [f \in File |->
                IF f \notin Touched(pushing) THEN files[f]
                ELSE IF files[f] = base[f] THEN base[f] \cup EditsTo(pushing, f)
                ELSE files[f] \cup (base[f] \cup EditsTo(pushing, f))]
        BY <1>8, <2>6 DEF Merge
      <3>2. ASSUME NEW f \in File PROVE files'[f] = tree[f] \cup EditsTo(pushing, f)
        <4>1. CASE f \notin Touched(pushing)
          <5>1. EditsTo(pushing, f) = {} BY <4>1 DEF Touched
          <5> QED BY <2>2, <3>1, <4>1, <5>1
        <4>2. CASE f \in Touched(pushing)
          <5>1. \/ files'[f] = files[f] \cup EditsTo(pushing, f)
                \/ files'[f] = files[f] \cup (base[f] \cup EditsTo(pushing, f))
            BY <3>1, <4>2
          <5> QED BY <2>2, <2>4, <5>1
        <4> QED BY <4>1, <4>2
      <3>3. Made' BY <2>1, <3>2 DEF Made, EditsTo
      <3> QED BY <1>4, <2>1, <2>6, <3>3 DEF Based
    <2>7. pc' \in {"create", "rollback"} BY <1>8 DEF Merge
    <2> QED BY <2>5, <2>6, <2>7
  <1>9. CASE PushThrough /\ ~Merge /\ ~(Submit /\ Accept)
    <2>1. UNCHANGED <<depot, clone, synced>>
      BY <1>9
      DEF PushThrough, NoRequest, StartPush, CreateChangelist, OpenFiles, WriteTemp, Submit,
          CommitPush, DeleteTemp, RevertOpened, RevertTree, DropChangelist, DropTemp
    <2>2. CASE CreateChangelist \/ OpenFiles \/ WriteTemp
      <3>1. pc \in Merging /\ UNCHANGED <<tree, files, pushing>> /\ pc' \notin {"pop", "merge"}
        BY <2>2 DEF CreateChangelist, OpenFiles, WriteTemp, Merging
      <3>2. Made' BY <1>3, <3>1 DEF Made, EditsTo
      <3> QED BY <1>4, <2>1, <3>1, <3>2 DEF Based
    <2>3. ASSUME NEW p \in Push, StartPush(p) PROVE Grown' /\ Based' /\ Made'
      <3>1. pc = "pop" /\ pc' \in {"idle", "merge", "rollback"} BY <2>3 DEF StartPush
      <3>2. DepotAt(synced)' = DepotAt(synced) BY <2>1, SameRecord
      <3>3. Based' BY <1>3, <2>1, <3>1, <3>2 DEF Based
      <3> QED BY <1>4, <2>1, <3>1, <3>3 DEF Made, Merging
    <2>4. CASE \/ NoRequest \/ Submit \/ CommitPush \/ DeleteTemp \/ RevertOpened \/ RevertTree
               \/ DropChangelist \/ DropTemp
      <3>1. pc' \notin {"pop", "merge"} \cup Merging
        BY <1>9, <2>4
        DEF NoRequest, Submit, CommitPush, DeleteTemp, RevertOpened, RevertTree,
            DropChangelist, DropTemp, FinishPush, Merging
      <3> QED BY <1>4, <1>5, <2>1, <3>1
    <2> QED BY <1>9, <2>2, <2>3, <2>4 DEF PushThrough
  <1>10. ASSUME NEW e \in UserEdit, UserSubmits(e) PROVE Grown' /\ Based' /\ Made'
    <2> DEFINE t == [DepotHead EXCEPT ![FileOf[e]] = @ \cup {e}]
               d == [num |-> counter + 1, tree |-> t]
    <2>1. DepotHead \in Trees /\ FileOf[e] \in File /\ e \in Edit /\ counter \in Nat
      BY <1>0, DepotFacts, ConstantsAssumption DEF TypeOK
    <2>2. t \in Trees /\ \A f \in File : DepotHead[f] \subseteq t[f] BY <2>1 DEF Trees
    <2>3. depot' = Append(depot, d) BY <1>10 DEF UserSubmits
    <2> HIDE DEF t
    <2>4. d \in Changelist /\ d.tree = t BY <2>1, <2>2 DEF Changelist
    <2> HIDE DEF d
    <2>5. (\A f \in File : Been(f)' = Been(f) \cup t[f]) /\ DepotHead' = t
      BY <1>0, <2>3, <2>4, BeenGrows
    <2>6. Grown' BY <1>3, <2>2, <2>5 DEF Grown
    <2>7. UNCHANGED <<tree, files, clone, pc, pushing, synced>> BY <1>10 DEF UserSubmits
    <2>8. DepotAt(synced)' = DepotAt(synced) BY <1>0, <2>7, KeptOnRecord
    <2>9. Based' BY <1>3, <2>7, <2>8 DEF Based
    <2>10. Made' BY <1>3, <2>7 DEF Made, EditsTo
    <2> QED BY <2>6, <2>9, <2>10
  <1>11. ASSUME NEW p \in Push, SessionBranches(p) PROVE Grown' /\ Based' /\ Made'
    <2>1. UNCHANGED <<depot, tree, files, pc, pushing, synced>> BY <1>11 DEF SessionBranches
    <2>2. \A q \in Push : clone'[q] = tree \/ clone'[q] = clone[q]
      BY <1>0, <1>11 DEF SessionBranches, TypeOK
    <2>3. pc \in {"pop", "merge"} => tree = DepotAt(synced)
      BY <1>3 DEF SoundAt, Mirrored, Agree
    <2>4. DepotAt(synced)' = DepotAt(synced) BY <2>1, SameRecord
    <2>5. Based' BY <1>3, <2>1, <2>2, <2>3, <2>4 DEF Based
    <2>6. Made' BY <1>3, <2>1 DEF Made, EditsTo
    <2> QED BY <1>4, <2>1, <2>5, <2>6
  <1>12. CASE CommandFails \/ Crash
    <2>1. depot' = depot /\ pc' \in {"idle", "rollback"}
      BY <1>12 DEF CommandFails, Crash, FinishPush
    <2> QED BY <1>4, <1>5, <2>1 DEF Merging
  <1>13. CASE UNCHANGED vars
    <2>1. UNCHANGED <<depot, tree, files, pc, pushing, synced, clone>> BY <1>13 DEF vars
    <2>2. DepotAt(synced)' = DepotAt(synced) BY <2>1, SameRecord
    <2>3. Based' BY <1>3, <2>1, <2>2 DEF Based
    <2>4. Made' BY <1>3, <2>1 DEF Made, EditsTo
    <2> QED BY <1>4, <2>1, <2>3, <2>4
  <1> QED BY <1>6, <1>7, <1>8, <1>9, <1>10, <1>11, <1>12, <1>13 DEF Next, People

-----------------------------------------------------------------------------
(* What Bridge sees of the pump                                             *)

Content(t) == (UNION {t[f] : f \in File}) \ {First}
History == [k \in DOMAIN depot |-> Content(depot[k].tree)]
TakenAt == CHOOSE k \in DOMAIN depot : depot[k].num = synced

LEMMA ContentHas ==
    \A t : /\ \A f \in File : t[f] \ {First} \subseteq Content(t)
           /\ \A e \in Content(t) : e # First /\ \E f \in File : e \in t[f]
  BY DEF Content

LEMMA EditsAre ==
    ASSUME NEW p \in Push
    PROVE  /\ \A e \in EditsOf[p] : \E f \in File : e \in EditsTo(p, f)
           /\ \A f \in File : EditsTo(p, f) \subseteq EditsOf[p]
           /\ First \notin EditsOf[p]
  BY ConstantsAssumption DEF EditsTo

LEMMA HistoryIs ==
    ASSUME Numbered
    PROVE  /\ History \in Seq(SUBSET Edit) /\ Len(History) = Len(depot)
           /\ DOMAIN History = DOMAIN depot
           /\ \A k \in DOMAIN depot : History[k] = Content(depot[k].tree)
           /\ Last(History) = Content(DepotHead)
           /\ \A k \in DOMAIN depot : Content(depot[k].tree) \subseteq UNION Range(History)
  <1>1. DOMAIN depot = 1..Len(depot) /\ Len(depot) \in Nat \ {0} BY DepotFacts
  <1>2. \A k \in DOMAIN depot : Content(depot[k].tree) \in SUBSET Edit
    BY DepotFacts DEF Content, Trees
  <1> DEFINE c(k) == Content(depot[k].tree)
  <1>3. History = [k \in 1..Len(depot) |-> c(k)] BY <1>1 DEF History
  <1>4. \A k \in 1..Len(depot) : c(k) \in SUBSET Edit BY <1>1, <1>2
  <1> HIDE DEF c
  <1>5. History \in Seq(SUBSET Edit) /\ Len(History) = Len(depot) BY <1>1, <1>3, <1>4
  <1>6. DOMAIN History = DOMAIN depot /\ \A k \in DOMAIN depot : History[k] = c(k)
    BY <1>1, <1>3
  <1>7. \A k \in DOMAIN depot : c(k) \subseteq UNION Range(History)
    BY <1>6 DEF Range
  <1>8. DepotHead = depot[Len(depot)].tree /\ Len(depot) \in DOMAIN depot BY DepotFacts
  <1>9. Last(History) = Content(DepotHead) BY <1>5, <1>6, <1>8 DEF Last, c
  <1> QED BY <1>5, <1>6, <1>7, <1>9 DEF c

LEMMA HistoryGrows ==
    ASSUME Numbered, NEW d, d \in Changelist, depot' = Append(depot, d)
    PROVE  History' = Append(History, Content(d.tree))
  <1>1. /\ DOMAIN depot' = 1..(Len(depot) + 1)
        /\ \A k \in DOMAIN depot : depot'[k] = depot[k]
        /\ depot'[Len(depot) + 1] = d
    BY DEF Numbered
  <1>2. /\ History \in Seq(SUBSET Edit) /\ Len(History) = Len(depot) /\ Len(depot) \in Nat
        /\ DOMAIN depot = 1..Len(depot)
        /\ \A k \in DOMAIN depot : History[k] = Content(depot[k].tree)
    BY HistoryIs, DepotFacts
  <1> DEFINE n == Len(depot) + 1
             c(k) == Content(depot'[k].tree)
  <1>3. \A k \in 1..n : c(k) \in SUBSET Edit
    <2> SUFFICES ASSUME NEW k \in 1..n PROVE c(k) \in SUBSET Edit OBVIOUS
    <2>1. depot'[k].tree \in Trees
      BY <1>1, <1>2, DepotFacts DEF Changelist
    <2> QED BY <2>1 DEF Content, Trees
  <1>4. History' = [k \in 1..n |-> c(k)] BY <1>1 DEF History
  <1>5. \A k \in 1..Len(depot) : c(k) = Content(depot[k].tree) BY <1>1, <1>2
  <1>6. c(n) = Content(d.tree) BY <1>1
  <1>7. n \in Nat BY <1>2
  <1> HIDE DEF c
  <1>8. History' \in Seq(SUBSET Edit) /\ Len(History') = n BY <1>3, <1>4, <1>7
  <1>9. \A k \in 1..n : History'[k] = c(k) BY <1>4
  <1>10. c(n) \in SUBSET Edit BY <1>2, <1>3
  <1>11. \A k \in 1..Len(History) : History'[k] = History[k]
    BY <1>2, <1>5, <1>9
  <1>12. History'[Len(History) + 1] = c(n) BY <1>2, <1>9
  <1>13. Append(History, c(n)) = History'
    <2> HIDE DEF History
    <2>1. Len(History') = Len(History) + 1 BY <1>2, <1>8
    <2> QED BY <1>2, <1>8, <1>10, <1>11, <1>12, <2>1, AppendProperties, SeqEqual
  <1> QED BY <1>6, <1>13

LEMMA TakenIs ==
    Numbered => \A k \in DOMAIN depot : depot[k].num = synced => TakenAt = k
  <1> SUFFICES ASSUME Numbered, NEW k \in DOMAIN depot, depot[k].num = synced
               PROVE  TakenAt = k
    OBVIOUS
  <1>1. TakenAt \in DOMAIN depot /\ depot[TakenAt].num = synced BY DEF TakenAt
  <1>2. TakenAt \in Nat /\ k \in Nat /\ depot[k].num \in Nat BY <1>1, DepotFacts
  <1>3. ~(TakenAt < k) /\ ~(k < TakenAt) BY <1>1, <1>2 DEF Numbered
  <1> QED BY <1>2, <1>3

LEMMA TakenIsNext == (Numbered => \A k \in DOMAIN depot : depot[k].num = synced => TakenAt = k)'
  BY TakenIs, PTL

LEMMA TakenStays ==
    ASSUME Numbered, Numbered', DepotKept, synced' = synced
    PROVE  TakenAt' = TakenAt
  <1>1. PICK k \in DOMAIN depot : depot[k].num = synced BY DEF Numbered
  <1>2. k \in DOMAIN depot' /\ depot'[k] = depot[k] BY KeptFacts
  <1> QED BY <1>1, <1>2, TakenIs, TakenIsNext

\* What Bridge's actions are here.
LEMMA BridgeActions ==
    /\ \A e : Bridged!UserSubmits(e) <=>
                  /\ History' = Append(History, Last(History) \cup {e})
                  /\ UNCHANGED <<TakenAt, verdict, hurt>>
    /\ Bridged!TakeOver <=>
           TakenAt < Len(History) /\ TakenAt' = TakenAt + 1 /\ UNCHANGED <<History, verdict, hurt>>
    /\ Bridged!Break <=> hurt' = TRUE /\ UNCHANGED <<History, TakenAt, verdict>>
  BY DEF Bridged!UserSubmits, Bridged!Now, Bridged!Last, Last, Bridged!TakeOver, Bridged!Break,
         History, Content, TakenAt

LEMMA AcceptPartIs ==
    ASSUME NEW p \in Push, verdict[p] = "none", UNCHANGED <<TakenAt, verdict, hurt>>,
           IF hurt THEN \E left \in SUBSET UNION Range(History) :
                            History' = Append(History, left \cup EditsOf[p])
           ELSE /\ EditsOf[p] \cap Last(History) = {}
                /\ History' = Append(History, Last(History) \cup EditsOf[p])
    PROVE  Bridged!AcceptPart(p)
  <1> DEFINE parts == [q \in Push |-> <<EditsOf[q]>>]
  <1>1. 1 \in DOMAIN parts[p] /\ parts[p][1] = EditsOf[p] /\ 1..(1 - 1) = {} OBVIOUS
  <1>2. \E q \in Push : \E k \in DOMAIN parts[q] :
            /\ q = p
            /\ IF hurt
               THEN \E left \in SUBSET UNION Range(History) :
                        History' = Append(History, left \cup parts[q][k])
               ELSE /\ parts[q][k] \cap Last(History) = {}
                    /\ \A j \in 1..(k - 1) : parts[q][j] \subseteq Last(History)
                    /\ History' = Append(History, Last(History) \cup parts[q][k])
    <2> WITNESS p \in Push
    <2> WITNESS 1 \in DOMAIN parts[p]
    <2> HIDE DEF parts
    <2> QED BY <1>1
  <1> HIDE DEF parts
  <1>3. \E q \in Push : \E k \in DOMAIN parts[q] :
            /\ verdict[p] = "none"
            /\ q = p \/ (FALSE /\ verdict[q] = "failed")
            /\ IF hurt
               THEN \E left \in SUBSET UNION Range(History) :
                        History' = Append(History, left \cup parts[q][k])
               ELSE /\ parts[q][k] \cap Last(History) = {}
                    /\ \A j \in 1..(k - 1) : parts[q][j] \subseteq Last(History)
                    /\ History' = Append(History, Last(History) \cup parts[q][k])
            /\ UNCHANGED <<TakenAt, verdict, hurt>>
    BY <1>2
  <1> QED BY <1>3 DEF Bridged!AcceptPart, Bridged!Now, Bridged!Last, Last, Bridged!Range, Range,
                      History, Content, TakenAt, parts

LEMMA TellTruthIs ==
    ASSUME NEW p \in Push, NEW v, verdict[p] = "none",
           v = "ok" => EditsOf[p] \subseteq Last(History),
           v = "failed" => hurt' \/ EditsOf[p] \cap Last(History) = {},
           v = "nothing" => EditsOf[p] = {},
           verdict' = [verdict EXCEPT ![p] = v], hurt => hurt',
           UNCHANGED <<History, TakenAt>>
    PROVE  Bridged!TellTruth(p, v)
  <1> DEFINE parts == [q \in Push |-> <<EditsOf[q]>>]
  <1>1. UNION Range(parts[p]) = EditsOf[p] /\ Last(parts[p]) = EditsOf[p]
    <2>1. parts[p] = <<EditsOf[p]>> OBVIOUS
    <2>2. Range(<<EditsOf[p]>>) = {EditsOf[p]} BY DEF Range
    <2>3. Last(<<EditsOf[p]>>) = EditsOf[p] BY DEF Last
    <2> QED BY <2>1, <2>2, <2>3
  <1> HIDE DEF parts
  <1>2. /\ v = "ok" => UNION Range(parts[p]) \subseteq Last(History)
        /\ v = "failed" => hurt' \/ Last(parts[p]) \cap Last(History) = {}
        /\ v = "nothing" => UNION Range(parts[p]) = {}
    BY <1>1
  <1> QED BY <1>2 DEF Bridged!TellTruth, Bridged!EditsIn, Bridged!Now, Bridged!Last, Last,
                      Bridged!Range, Range, History, Content, TakenAt, parts

-----------------------------------------------------------------------------
(* An edit is in its own file                                               *)

Homed == \A f \in File : \A e \in Been(f) : e = First \/ FileOf[e] = f

LEMMA HomedInit == Init => Homed
  <1> SUFFICES ASSUME Init PROVE Homed OBVIOUS
  <1>1. DOMAIN depot = {1} /\ depot[1].tree = Everything BY DEF Init
  <1> QED BY <1>1 DEF Homed, Been, Everything

LEMMA HomedStep ==
    ASSUME BaseInv, KnownInv, Homed, [Next]_vars
    PROVE  Homed'
  <1> USE DEF p4Vars, bzrVars, diskVars, workVars, userVars, badVars
  <1>0. TypeOK /\ Numbered BY DEF BaseInv
  <1>1. ASSUME depot' = depot PROVE Homed' BY <1>1, BeenSame DEF Homed
  <1>2. CASE Submit /\ Accept
    <2>1. pc = "submit" /\ synced' = synced BY <1>2 DEF Submit
    <2>2. \A f \in File : /\ Been(f)' = Been(f) \cup SubmittedTree[f]
                          /\ SubmittedTree[f] \subseteq Been(f) \cup EditsTo(pushing, f)
      BY <1>2, <2>1, SubmitBrings
    <2> QED BY <2>2 DEF Homed, EditsTo
  <1>3. ASSUME NEW e \in UserEdit, UserSubmits(e) PROVE Homed'
    <2> DEFINE t == [DepotHead EXCEPT ![FileOf[e]] = @ \cup {e}]
               d == [num |-> counter + 1, tree |-> t]
    <2>1. DepotHead \in Trees /\ FileOf[e] \in File /\ e \in Edit /\ counter \in Nat
      BY <1>0, DepotFacts, ConstantsAssumption DEF TypeOK
    <2>2. t \in Trees BY <2>1 DEF Trees
    <2>3. \A f \in File : t[f] = IF f = FileOf[e] THEN DepotHead[f] \cup {e} ELSE DepotHead[f]
      BY <2>1 DEF Trees
    <2>4. depot' = Append(depot, d) BY <1>3 DEF UserSubmits
    <2> HIDE DEF t
    <2>5. d \in Changelist /\ d.tree = t BY <2>1, <2>2 DEF Changelist
    <2> HIDE DEF d
    <2>6. \A f \in File : Been(f)' = Been(f) \cup t[f] /\ DepotHead[f] \subseteq Been(f)
      BY <1>0, <2>4, <2>5, BeenGrows, BeenHas
    <2> QED BY <2>3, <2>6 DEF Homed
  <1>4. CASE UNCHANGED vars BY <1>1, <1>4 DEF vars
  <1>5. CASE \/ Pull \/ CommandFails \/ Crash \/ (PushThrough /\ ~(Submit /\ Accept))
             \/ \E p \in Push : SessionBranches(p)
    <2>1. depot' = depot
      BY <1>5
      DEF Pull, StartPull, LookForChanges, Sync, Add, CommitChange, Record, CommandFails, Crash,
          PushThrough, NoRequest, StartPush, Merge, CreateChangelist, OpenFiles, WriteTemp,
          Submit, CommitPush, DeleteTemp, RevertOpened, RevertTree, DropChangelist, DropTemp,
          SessionBranches
    <2> QED BY <1>1, <2>1
  <1> QED BY <1>2, <1>3, <1>4, <1>5 DEF Next, People, PushThrough

LEMMA NoneIn ==
    ASSUME Numbered, Homed, NEW p \in Push, \A f \in File : EditsTo(p, f) \cap Been(f) = {}
    PROVE  EditsOf[p] \cap Content(DepotHead) = {}
  <1> SUFFICES ASSUME NEW e \in EditsOf[p], e \in Content(DepotHead) PROVE FALSE OBVIOUS
  <1>1. PICK f \in File : e \in DepotHead[f] /\ e # First BY DEF Content
  <1>2. e \in Been(f) BY <1>1, BeenHas
  <1>3. e \in EditsTo(p, f) BY <1>1, <1>2 DEF Homed, EditsTo
  <1> QED BY <1>2, <1>3

BridgeInv == BaseInv /\ SoundInv /\ KnownInv /\ Fresh /\ GrowsInv /\ Homed

BridgeSees == <<History, TakenAt, verdict, hurt>>

LEMMA BridgeInitially == Init => Bridged!Init
  <1> SUFFICES ASSUME Init PROVE Bridged!Init OBVIOUS
  <1>1. Numbered BY BaseInit DEF BaseInv
  <1>2. DOMAIN depot = {1} /\ Len(depot) = 1 /\ depot[1].tree = Everything /\ depot[1].num = synced
    BY DEF Init
  <1>3. Content(Everything) = {} BY DEF Content, Everything
  <1>4. History = <<{}>>
    <2>1. History \in Seq(SUBSET Edit) /\ Len(History) = 1 /\ History[1] = {}
      BY <1>1, <1>2, <1>3, HistoryIs
    <2> HIDE DEF History
    <2> DEFINE one == <<{}>>
    <2>2. {} \in SUBSET Edit OBVIOUS
    <2>3. one \in Seq(SUBSET Edit) BY <2>2
    <2>4. Len(one) = 1 OBVIOUS
    <2>5. one[1] = {} OBVIOUS
    <2> HIDE DEF one
    <2>6. ASSUME NEW k \in 1..Len(History) PROVE History[k] = one[k]
      <3>1. k = 1 BY <2>1
      <3> QED BY <2>1, <2>5, <3>1
    <2>7. Len(History) = Len(one) BY <2>1, <2>4
    <2>8. History = one BY <2>1, <2>3, <2>6, <2>7, SeqEqual
    <2> QED BY <2>8 DEF one
  <1>5. TakenAt = 1 BY <1>1, <1>2, TakenIs
  <1>6. verdict = [p \in Push |-> "none"] /\ hurt = FALSE BY DEF Init
  <1> QED BY <1>4, <1>5, <1>6 DEF Bridged!Init, History, Content, TakenAt

\* A user's changelist.
LEMMA UserMaps ==
    ASSUME BridgeInv, BaseInv', DepotKept, NEW e \in UserEdit, UserSubmits(e)
    PROVE  Bridged!UserSubmits(e)
  <1> DEFINE t == [DepotHead EXCEPT ![FileOf[e]] = @ \cup {e}]
             d == [num |-> counter + 1, tree |-> t]
  <1>0. Numbered /\ Numbered' /\ TypeOK BY DEF BridgeInv, BaseInv
  <1>1. DepotHead \in Trees /\ FileOf[e] \in File /\ e \in Edit /\ counter \in Nat /\ e # First
    BY <1>0, DepotFacts, ConstantsAssumption DEF TypeOK
  <1>2. t \in Trees BY <1>1 DEF Trees
  <1>3. \A f \in File : t[f] = IF f = FileOf[e] THEN DepotHead[f] \cup {e} ELSE DepotHead[f]
    BY <1>1 DEF Trees
  <1>4. depot' = Append(depot, d) BY DEF UserSubmits
  <1> HIDE DEF t
  <1>5. d \in Changelist /\ d.tree = t BY <1>1, <1>2 DEF Changelist
  <1> HIDE DEF d
  <1>6. Content(t) = Content(DepotHead) \cup {e}
    <2>1. \A x : x \in Content(t) <=> x # First /\ \E f \in File : x \in t[f]
      BY DEF Content
    <2>2. \A x : x \in Content(DepotHead) <=> x # First /\ \E f \in File : x \in DepotHead[f]
      BY DEF Content
    <2>3. \A x : (\E f \in File : x \in t[f]) <=> x = e \/ \E f \in File : x \in DepotHead[f]
      BY <1>1, <1>3
    <2> QED BY <1>1, <2>1, <2>2, <2>3
  <1>7. History' = Append(History, Last(History) \cup {e})
    BY <1>0, <1>4, <1>5, <1>6, HistoryGrows, HistoryIs
  <1>8. UNCHANGED <<synced, verdict, hurt>>
    BY DEF UserSubmits, diskVars, userVars, badVars
  <1>9. TakenAt' = TakenAt BY <1>0, <1>8, TakenStays
  <1> QED BY <1>7, <1>8, <1>9, BridgeActions

\* The changelist of a push.
LEMMA SubmitMaps ==
    ASSUME BridgeInv, BaseInv', KnownInv', DepotKept, Submit, Accept
    PROVE  \E p \in Push : Bridged!AcceptPart(p)
  <1>0. Numbered /\ Numbered' /\ TypeOK /\ AtStep /\ BaseInv /\ KnownInv
    BY DEF BridgeInv, BaseInv
  <1>1. pc = "submit" /\ pc' = "commit push" /\ UNCHANGED <<synced, verdict, hurt, pushing>>
    BY DEF Submit, Accept, diskVars, userVars, badVars, workVars
  <1>2. pushing \in Push /\ verdict[pushing] = "none"
    BY <1>0, <1>1, PushFacts DEF Pulling
  <1> DEFINE d == [num |-> SubmittedAs, tree |-> SubmittedTree]
             E == EditsOf[pushing]
  <1>3. d \in Changelist /\ d.tree = SubmittedTree /\ depot' = Append(depot, d)
    <2>1. SubmittedTree \in Trees BY <1>0, <1>1, AcceptFacts
    <2>2. SubmittedAs \in Nat BY <1>0 DEF SubmittedAs, TypeOK
    <2>3. depot' = Append(depot, d)
      BY DEF Accept, Submitted, SubmittedAs, SubmittedTree
    <2> QED BY <2>1, <2>2, <2>3 DEF Changelist
  <1> HIDE DEF d, SubmittedTree
  <1>4. History' = Append(History, Content(SubmittedTree)) BY <1>0, <1>3, HistoryGrows
  <1>5. DepotHead' = SubmittedTree
        /\ \A f \in File : SubmittedTree[f] \subseteq Been(f) \cup EditsTo(pushing, f)
    BY <1>0, <1>1, SubmitBrings
  <1>6. /\ \A e \in E : \E f \in File : e \in EditsTo(pushing, f)
        /\ \A f \in File : EditsTo(pushing, f) \subseteq E
        /\ First \notin E
    BY <1>2, EditsAre
  <1>7. E \subseteq Content(SubmittedTree)
    <2>1. \A f \in File : EditsTo(pushing, f) \subseteq SubmittedTree[f]
      BY <1>0, <1>1, <1>5 DEF KnownInv, SubmitKnown, Committing, EditsTo
    <2> HIDE DEF E
    <2> QED BY <1>6, <2>1 DEF Content
  <1>8. Content(SubmittedTree) \ E \subseteq UNION Range(History)
    <2> SUFFICES ASSUME NEW e \in Content(SubmittedTree), e \notin E
                 PROVE  e \in UNION Range(History)
      OBVIOUS
    <2>1. PICK f \in File : e \in SubmittedTree[f] /\ e # First BY DEF Content
    <2>2. PICK k \in DOMAIN depot : e \in depot[k].tree[f]
      BY <1>5, <1>6, <2>1 DEF Been
    <2>3. e \in Content(depot[k].tree) BY <2>1, <2>2 DEF Content
    <2> QED BY <1>0, <2>3, HistoryIs
  <1>9. TakenAt' = TakenAt BY <1>0, <1>1, TakenStays
  <1>10. CASE hurt
    <2> DEFINE left == Content(SubmittedTree) \ E
    <2>1. Content(SubmittedTree) = left \cup E BY <1>7
    <2>2. \E l \in SUBSET UNION Range(History) : History' = Append(History, l \cup E)
      BY <1>4, <1>8, <2>1
    <2> QED BY <1>1, <1>2, <1>9, <1>10, <2>2, AcceptPartIs
  <1>11. CASE ~hurt
    <2>1. \A f \in File : /\ SubmittedTree[f] = DepotHead[f] \cup EditsTo(pushing, f)
                          /\ EditsTo(pushing, f) \cap DepotHead[f] = {}
      BY <1>5, <1>11, SubmitAdds DEF BridgeInv
    <2>2. Content(SubmittedTree) = Content(DepotHead) \cup E
      <3> HIDE DEF E
      <3> QED BY <1>6, <2>1 DEF Content
    <2>3. E \cap Content(DepotHead) = {}
      BY <1>0, <1>1, <1>2, NoneIn DEF BridgeInv, Fresh, Unsubmitted, PushingOn
    <2>4. Last(History) = Content(DepotHead) BY <1>0, HistoryIs
    <2> QED BY <1>1, <1>2, <1>4, <1>9, <1>11, <2>2, <2>3, <2>4, AcceptPartIs
  <1> QED BY <1>10, <1>11

\* What else tells a push its result.
LEMMA FailedMaps ==
    ASSUME BridgeInv, pushing \in Push, verdict[pushing] = "none",
           hurt' \/ (~hurt /\ pc \in RollingBack),
           hurt => hurt', FinishPush("failed"), UNCHANGED <<depot, synced>>
    PROVE  Bridged!TellTruth(pushing, "failed")
  <1>0. Numbered BY DEF BridgeInv, BaseInv
  <1>1. UNCHANGED <<History, TakenAt>> BY DEF History, TakenAt
  <1>2. hurt' \/ EditsOf[pushing] \cap Last(History) = {}
    <2>1. CASE ~hurt /\ pc \in RollingBack
      <3>1. \A f \in File : EditsTo(pushing, f) \cap Been(f) = {}
        BY <2>1 DEF BridgeInv, Fresh, Unsubmitted
      <3> QED BY <1>0, <3>1, NoneIn, HistoryIs DEF BridgeInv
    <2> QED BY <2>1
  <1>3. verdict' = [verdict EXCEPT ![pushing] = "failed"] BY DEF FinishPush, Conclude
  <1> QED BY <1>1, <1>2, <1>3, TellTruthIs

LEMMA RecordMaps ==
    ASSUME BridgeInv, BaseInv', Record
    PROVE  Bridged!TakeOver \/ UNCHANGED BridgeSees
  <1>0. Numbered /\ Numbered' /\ AtStep BY DEF BridgeInv, BaseInv
  <1>1. UNCHANGED <<depot, verdict, hurt>> BY DEF Record, p4Vars, userVars, badVars
  <1>2. History' = History BY <1>1 DEF History
  <1>3. CASE synced' = synced
    BY <1>1, <1>2, <1>3 DEF TakenAt, BridgeSees
  <1>4. CASE synced' = NextChange(synced).num
    <2>1. PICK k \in DOMAIN depot : depot[k].num = synced BY <1>0 DEF Numbered
    <2>2. Newer(synced) # {} BY <1>0 DEF Record, AtStep
    <2>3. k + 1 \in DOMAIN depot /\ NextChange(synced) = depot[k + 1]
      BY <1>0, <2>1, <2>2, NextIs
    <2>4. TakenAt = k /\ TakenAt' = k + 1
      BY <1>0, <1>1, <1>4, <2>1, <2>3, TakenIs, TakenIsNext
    <2>5. k < Len(History) BY <1>0, <2>1, <2>3, HistoryIs, DepotFacts
    <2> QED BY <1>1, <1>2, <2>4, <2>5, BridgeActions
  <1> QED BY <1>3, <1>4 DEF Record

LEMMA PushMaps ==
    ASSUME BridgeInv, BaseInv', KnownInv', DepotKept, PushThrough
    PROVE  Bridged!Next \/ UNCHANGED BridgeSees
  <1> USE DEF p4Vars, bzrVars, diskVars, workVars, userVars, badVars
  <1>0. Numbered /\ TypeOK /\ AtStep /\ KnownInv BY DEF BridgeInv, BaseInv
  <1>1. ASSUME UNCHANGED <<depot, synced, verdict, hurt>> PROVE UNCHANGED BridgeSees
    BY <1>1 DEF BridgeSees, History, TakenAt
  <1>2. CASE Submit /\ Accept BY <1>2, SubmitMaps DEF Bridged!Next
  <1>3. ASSUME NEW p \in Push, StartPush(p) PROVE Bridged!Next \/ UNCHANGED BridgeSees
    <2>1. UNCHANGED <<depot, synced, hurt>> /\ verdict[p] = "none"
      BY <1>3 DEF StartPush, Waiting
    <2>2. CASE Conclude(p, "nothing") /\ EditsOf[p] = {}
      <3>1. UNCHANGED <<History, TakenAt>> BY <2>1 DEF History, TakenAt
      <3>2. verdict' = [verdict EXCEPT ![p] = "nothing"] BY <2>2 DEF Conclude
      <3>3. Bridged!TellTruth(p, "nothing") BY <2>1, <2>2, <3>1, <3>2, TellTruthIs
      <3> QED BY <3>3 DEF Bridged!Next
    <2>3. CASE verdict' = verdict BY <1>1, <2>1, <2>3
    <2> QED BY <1>3, <2>2, <2>3 DEF StartPush
  <1>4. CASE DeleteTemp
    <2>1. pc \in Committing /\ UNCHANGED <<depot, synced, hurt>>
      BY <1>4 DEF DeleteTemp, Committing
    <2>2. pushing \in Push /\ verdict[pushing] = "none"
      BY <1>0, <1>4, PushFacts DEF DeleteTemp, Pulling
    <2>3. CASE FinishPush("ok")
      <3>1. UNCHANGED <<History, TakenAt>> BY <2>1 DEF History, TakenAt
      <3>2. verdict' = [verdict EXCEPT ![pushing] = "ok"] BY <2>3 DEF FinishPush, Conclude
      <3>3. \A f \in File : EditsTo(pushing, f) \subseteq DepotHead[f]
        BY <1>0, <2>1 DEF KnownInv, SubmitKnown
      <3>4. EditsOf[pushing] \subseteq Content(DepotHead)
        BY <2>2, <3>3, EditsAre DEF Content
      <3>5. EditsOf[pushing] \subseteq Last(History) BY <1>0, <3>4, HistoryIs
      <3>6. Bridged!TellTruth(pushing, "ok")
        BY <2>1, <2>2, <3>1, <3>2, <3>5, TellTruthIs
      <3> QED BY <2>2, <3>6 DEF Bridged!Next
    <2>4. CASE verdict' = verdict BY <1>1, <2>1, <2>4
    <2> QED BY <1>4, <2>3, <2>4 DEF DeleteTemp
  <1>5. CASE DropChangelist \/ DropTemp
    <2>1. pc \in RollingBack /\ UNCHANGED <<depot, synced, hurt>>
      BY <1>5 DEF DropChangelist, DropTemp, RollingBack
    <2>2. pushing \in Push /\ verdict[pushing] = "none"
      BY <1>0, <2>1, PushFacts DEF Pulling, RollingBack
    <2>3. CASE FinishPush("failed")
      <3>1. Bridged!TellTruth(pushing, "failed")
        BY <1>0, <2>1, <2>2, <2>3, FailedMaps DEF TypeOK
      <3> QED BY <2>2, <3>1 DEF Bridged!Next
    <2>4. CASE verdict' = verdict BY <1>1, <2>1, <2>4
    <2> QED BY <1>5, <2>3, <2>4 DEF DropChangelist, DropTemp
  <1>6. CASE \/ NoRequest \/ Merge \/ CreateChangelist \/ OpenFiles \/ WriteTemp
             \/ (Submit /\ ~Accept) \/ CommitPush \/ RevertTree
    <2>1. UNCHANGED <<depot, synced, verdict, hurt>>
      BY <1>6 DEF NoRequest, Merge, CreateChangelist, OpenFiles, WriteTemp, Submit, CommitPush,
                  RevertTree
    <2> QED BY <1>1, <2>1
  <1>7. CASE RevertOpened
    <2>1. UNCHANGED <<depot, synced, verdict>> /\ hurt' \in {hurt, TRUE}
      BY <1>0, <1>7 DEF RevertOpened, TypeOK
    <2>2. UNCHANGED <<History, TakenAt>> BY <2>1 DEF History, TakenAt
    <2>3. CASE hurt' = TRUE BY <2>1, <2>2, <2>3, BridgeActions DEF Bridged!Next
    <2>4. CASE hurt' = hurt BY <1>1, <2>1, <2>4
    <2> QED BY <2>1, <2>3, <2>4
  <1> QED BY <1>2, <1>3, <1>4, <1>5, <1>6, <1>7 DEF PushThrough

LEMMA TroubleMaps ==
    ASSUME BridgeInv, CommandFails \/ Crash
    PROVE  Bridged!Next \/ UNCHANGED BridgeSees
  <1>0. TypeOK /\ AtStep BY DEF BridgeInv, BaseInv
  <1>1. UNCHANGED <<depot, synced>> /\ (hurt => hurt') /\ hurt' \in BOOLEAN
    BY <1>0 DEF CommandFails, Crash, p4Vars, diskVars, TypeOK
  <1>2. UNCHANGED <<History, TakenAt>> BY <1>1 DEF History, TakenAt
  <1>3. ASSUME verdict' = verdict PROVE Bridged!Next \/ UNCHANGED BridgeSees
    <2>1. CASE hurt' = hurt BY <1>2, <1>3, <2>1 DEF BridgeSees
    <2>2. CASE hurt' # hurt
      <3>1. hurt' = TRUE BY <1>0, <1>1, <2>2 DEF TypeOK
      <3> QED BY <1>2, <1>3, <3>1, BridgeActions DEF Bridged!Next
    <2> QED BY <2>1, <2>2
  <1>4. CASE CommandFails
    <2>1. CASE verdict' = verdict BY <1>3, <2>1
    <2>2. CASE pc \in RollingBack /\ FinishPush("failed")
      <3>1. pushing \in Push /\ verdict[pushing] = "none"
        BY <1>0, <2>2, PushFacts DEF Pulling, RollingBack
      <3>2. hurt' BY <1>4, <2>2 DEF CommandFails
      <3>3. Bridged!TellTruth(pushing, "failed") BY <1>1, <2>2, <3>1, <3>2, FailedMaps
      <3> QED BY <3>1, <3>3 DEF Bridged!Next
    <2> QED BY <1>4, <2>1, <2>2 DEF CommandFails
  <1>5. CASE Crash
    <2>1. verdict' = [p \in Push |-> IF p = pushing THEN "lost" ELSE verdict[p]]
      BY <1>5 DEF Crash
    <2>2. CASE pushing = None
      <3>1. verdict' = verdict BY <1>0, <2>1, <2>2, ConstantsAssumption DEF TypeOK
      <3> QED BY <1>3, <3>1
    <2>3. CASE pushing # None
      <3>1. pushing \in Push /\ verdict[pushing] = "none" BY <1>0, <2>3 DEF TypeOK, AtStep
      <3>2. verdict' = [verdict EXCEPT ![pushing] = "lost"]
        BY <1>0, <2>1 DEF TypeOK
      <3>3. Bridged!TellTruth(pushing, "lost") BY <1>1, <1>2, <3>1, <3>2, TellTruthIs
      <3> QED BY <3>1, <3>3 DEF Bridged!Next
    <2> QED BY <2>2, <2>3
  <1> QED BY <1>4, <1>5

LEMMA StepMaps ==
    ASSUME BridgeInv, BaseInv', KnownInv', DepotKept, [Next]_vars
    PROVE  Bridged!Next \/ UNCHANGED BridgeSees
  <1>1. CASE People
    <2>1. ASSUME NEW e \in UserEdit, UserSubmits(e) PROVE Bridged!Next
      BY <2>1, UserMaps DEF Bridged!Next
    <2>2. ASSUME NEW p \in Push, SessionBranches(p) PROVE UNCHANGED BridgeSees
      BY <2>2 DEF SessionBranches, p4Vars, diskVars, badVars, BridgeSees, History, TakenAt
    <2> QED BY <1>1, <2>1, <2>2 DEF People
  <1>2. CASE Record BY <1>2, RecordMaps DEF Bridged!Next
  <1>3. CASE UNCHANGED vars \/ (Pull /\ ~Record)
    <2>1. UNCHANGED <<depot, synced, verdict, hurt>>
      BY <1>3
      DEF vars, p4Vars, diskVars, userVars, badVars, Pull, StartPull, LookForChanges, Sync, Add,
          CommitChange
    <2> QED BY <2>1 DEF BridgeSees, History, TakenAt
  <1> QED BY <1>1, <1>2, <1>3, PushMaps, TroubleMaps DEF Next, Pull

LEMMA BridgeInductive ==
    BridgeInv /\ [Next]_vars => BridgeInv' /\ KnownInv' /\ BaseInv' /\ DepotKept
  <1> SUFFICES ASSUME BridgeInv, [Next]_vars
               PROVE  BridgeInv' /\ DepotKept
    BY DEF BridgeInv
  <1>1. BaseInv /\ SoundInv /\ KnownInv /\ Fresh /\ GrowsInv /\ Homed BY DEF BridgeInv
  <1>2. BaseInv' /\ DepotKept /\ SoundInv' BY <1>1, BaseStep, SoundStep
  <1>3. KnownInv' BY <1>1, KnownPull, KnownPush, KnownOthers DEF Next
  <1>4. Fresh' /\ GrowsInv' /\ Homed' BY <1>1, <1>2, FreshStep, GrowsStep, HomedStep
  <1> QED BY <1>2, <1>3, <1>4 DEF BridgeInv

\* The pump keeps what Bridge promises: what users submit stays, a push is
\* accepted as a whole and once, changelists are taken over in order, and who is
\* told that a push came through, or did not, was told the truth; whichever
\* commands fail, whenever the server ends, and however people and pump interleave.
THEOREM BzrPumpIsBridge == Spec => ImplementsBridge
  <1>1. Init => BridgeInv
    BY BaseInit, SoundInit, KnownInit, FreshInit, GrowsInit, HomedInit DEF BridgeInv
  <1>2. BridgeInv /\ [Next]_vars => BridgeInv' /\ [Bridged!Next]_(Bridged!vars)
    <2> SUFFICES ASSUME BridgeInv, [Next]_vars
                 PROVE  BridgeInv' /\ (Bridged!Next \/ UNCHANGED Bridged!vars)
      OBVIOUS
    <2>1. UNCHANGED BridgeSees => UNCHANGED Bridged!vars
      BY DEF BridgeSees, Bridged!vars, History, Content, TakenAt
    <2> QED BY <2>1, BridgeInductive, StepMaps
  <1> QED BY <1>1, <1>2, BridgeInitially, PTL DEF Spec, ImplementsBridge, Bridged!Spec
=============================================================================
