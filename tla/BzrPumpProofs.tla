--------------------------- MODULE BzrPumpProofs ----------------------------
(***************************************************************************)
(* What holds of the bzr pump for any files, pushes and number of failed   *)
(* commands and crashes: the types, and that the mirror is exact after     *)
(* every pull.                                                             *)
(*                                                                         *)
(* The changelists have ascending numbers, and the one on record is among  *)
(* them. What the proof of the mirror needs besides is a description of    *)
(* the tree, the files and the workspace at every step of a pull, a push   *)
(* and a rollback; it holds until a command fails, or the server ends,     *)
(* where the pump does not recover.                                        *)
(***************************************************************************)
EXTENDS BzrPump, TLAPS

-----------------------------------------------------------------------------
(* The changelists                                                          *)

Changelist == [num : Nat, tree : Trees]

\* The depot's numbers ascend, the record has one of them, and none of them is
\* that of a pending changelist.
Numbered ==
    /\ depot \in Seq(Changelist)
    /\ \A j, k \in DOMAIN depot : j < k => depot[j].num < depot[k].num
    /\ \E k \in DOMAIN depot : depot[k].num = synced
    /\ \A n \in DOMAIN pending : \A k \in DOMAIN depot : depot[k].num # n

\* What each step of the pump may rely on.
AtStep ==
    /\ pc \in {"sync", "add", "commit", "record"} => Newer(synced) # {}
    /\ pc \in {"open", "write temp", "submit"} => number \in DOMAIN pending
    /\ pc = "submit" => temp = number
    /\ pushing = None <=> pc \in {"idle", "pop"} \cup Pulling
    /\ pc \notin {"add", "commit"} => adds = {}
    /\ pushing # None => verdict[pushing] = "none" /\ clone[pushing] # None

BaseInv == TypeOK /\ Numbered /\ AtStep

LEMMA DepotFacts ==
    ASSUME Numbered
    PROVE  /\ DOMAIN depot = 1..Len(depot) /\ Len(depot) \in Nat \ {0}
           /\ \A k \in DOMAIN depot : depot[k].num \in Nat /\ depot[k].tree \in Trees
           /\ DepotHead = depot[Len(depot)].tree /\ Len(depot) \in DOMAIN depot
  <1>1. DOMAIN depot = 1..Len(depot) /\ Len(depot) \in Nat BY DEF Numbered
  <1>2. Len(depot) # 0 BY <1>1 DEF Numbered
  <1>3. \A k \in DOMAIN depot : depot[k] \in Changelist BY DEF Numbered
  <1> QED BY <1>1, <1>2, <1>3 DEF Changelist, DepotHead, Last

LEMMA DepotAtIs ==
    ASSUME Numbered, NEW k \in DOMAIN depot
    PROVE  DepotAt(depot[k].num) = depot[k].tree
  <1> DEFINE c == CHOOSE j \in DOMAIN depot : depot[j].num = depot[k].num
  <1>1. c \in DOMAIN depot /\ depot[c].num = depot[k].num OBVIOUS
  <1>2. c = k
    <2>1. c \in Nat /\ k \in Nat /\ depot[k].num \in Nat BY <1>1, DepotFacts
    <2>2. ~(c < k) /\ ~(k < c) BY <1>1, <2>1 DEF Numbered
    <2> QED BY <2>1, <2>2
  <1> QED BY <1>2 DEF DepotAt

\* The changelist that comes next is the one after that on record.
LEMMA NextIs ==
    ASSUME Numbered, NEW k \in DOMAIN depot, depot[k].num = synced
    PROVE  /\ Newer(synced) = {j \in DOMAIN depot : k < j}
           /\ Newer(synced) = {} <=> k = Len(depot)
           /\ Newer(synced) # {} => /\ k + 1 \in DOMAIN depot
                                    /\ NextChange(synced) = depot[k + 1]
           /\ DepotAt(synced) = depot[k].tree
  <1>1. DOMAIN depot = 1..Len(depot) /\ Len(depot) \in Nat \ {0} BY DepotFacts
  <1>2. \A j \in DOMAIN depot : depot[j].num \in Nat BY DepotFacts
  <1>3. \A j \in DOMAIN depot : depot[j].num > synced <=> k < j
    <2> TAKE j \in DOMAIN depot
    <2>1. k < j => depot[k].num < depot[j].num BY DEF Numbered
    <2>2. j < k => depot[j].num < depot[k].num BY DEF Numbered
    <2> QED BY <1>1, <1>2, <2>1, <2>2
  <1>4. Newer(synced) = {j \in DOMAIN depot : k < j} BY <1>3 DEF Newer
  <1>5. Newer(synced) = {} <=> k = Len(depot)
    <2>1. CASE k = Len(depot) BY <1>1, <1>4, <2>1
    <2>2. CASE k # Len(depot)
      <3>1. k + 1 \in Newer(synced) BY <1>1, <1>4, <2>2
      <3> QED BY <2>2, <3>1
    <2> QED BY <2>1, <2>2
  <1>6. ASSUME Newer(synced) # {}
        PROVE  k + 1 \in DOMAIN depot /\ NextChange(synced) = depot[k + 1]
    <2>1. k + 1 \in DOMAIN depot BY <1>1, <1>5, <1>6
    <2>2. k + 1 \in Newer(synced) /\ \A j \in Newer(synced) : k + 1 <= j
      BY <1>1, <1>4, <2>1
    <2>3. \A j \in Newer(synced) : j \in Nat BY <1>1, <1>4
    <2>4. \A x \in Newer(synced) : (\A j \in Newer(synced) : x <= j) => x = k + 1
      BY <2>2, <2>3
    <2>5. Min(Newer(synced)) = k + 1 BY <2>2, <2>4 DEF Min
    <2> QED BY <2>1, <2>5 DEF NextChange
  <1>7. DepotAt(synced) = depot[k].tree BY DepotAtIs
  <1> QED BY <1>4, <1>5, <1>6, <1>7

\* The same, now and after the step.
RecordFacts ==
    \A k \in DOMAIN depot : depot[k].num = synced =>
        /\ Newer(synced) = {j \in DOMAIN depot : k < j}
        /\ Newer(synced) = {} <=> k = Len(depot)
        /\ Newer(synced) # {} => /\ k + 1 \in DOMAIN depot
                                 /\ NextChange(synced) = depot[k + 1]
        /\ DepotAt(synced) = depot[k].tree

LEMMA RecordKnown == Numbered => RecordFacts
  BY NextIs DEF RecordFacts

LEMMA RecordKnownNext == (Numbered => RecordFacts)'
  BY RecordKnown, PTL

LEMMA NextTyped ==
    ASSUME Numbered, Newer(synced) # {}
    PROVE  NextChange(synced).tree \in Trees /\ NextChange(synced).num \in Nat
  <1>1. PICK k \in DOMAIN depot : depot[k].num = synced BY DEF Numbered
  <1> QED BY <1>1, NextIs, DepotFacts

LEMMA DepotAtTyped ==
    ASSUME Numbered
    PROVE  DepotAt(synced) \in Trees
  <1>1. PICK k \in DOMAIN depot : depot[k].num = synced BY DEF Numbered
  <1> QED BY <1>1, NextIs, DepotFacts

\* What the depot has, it keeps: changelists only come on top.
DepotKept == \/ depot' = depot
             \/ \E d \in Changelist : depot' = Append(depot, d)

LEMMA KeptFacts ==
    ASSUME Numbered, DepotKept
    PROVE  /\ Len(depot') \in Nat /\ Len(depot) <= Len(depot')
           /\ \A k \in DOMAIN depot : k \in DOMAIN depot' /\ depot'[k] = depot[k]
  <1>1. depot \in Seq(Changelist) BY DEF Numbered
  <1>2. CASE depot' = depot BY <1>1, <1>2
  <1>3. ASSUME NEW d \in Changelist, depot' = Append(depot, d)
        PROVE  /\ Len(depot') = Len(depot) + 1
               /\ \A k \in DOMAIN depot : k \in DOMAIN depot' /\ depot'[k] = depot[k]
    BY <1>1, <1>3
  <1> QED BY <1>1, <1>2, <1>3 DEF DepotKept

LEMMA KeptOnRecord ==
    ASSUME Numbered, Numbered', DepotKept, synced' = synced
    PROVE  /\ DepotAt(synced)' = DepotAt(synced)
           /\ Newer(synced) # {} => /\ Newer(synced)' # {}
                                    /\ NextChange(synced)' = NextChange(synced)
  <1>1. PICK k \in DOMAIN depot : depot[k].num = synced BY DEF Numbered
  <1>2. /\ k \in DOMAIN depot' /\ depot'[k].num = synced' /\ depot'[k] = depot[k]
        /\ Len(depot') \in Nat /\ Len(depot) <= Len(depot')
    BY <1>1, KeptFacts
  <1>3. DepotAt(synced)' = depot'[k].tree /\ DepotAt(synced) = depot[k].tree
    BY <1>1, <1>2, RecordKnown, RecordKnownNext DEF RecordFacts
  <1>4. ASSUME Newer(synced) # {}
        PROVE  Newer(synced)' # {} /\ NextChange(synced)' = NextChange(synced)
    <2>1. k + 1 \in DOMAIN depot /\ NextChange(synced) = depot[k + 1]
      BY <1>1, <1>4, RecordKnown DEF RecordFacts
    <2>2. k + 1 \in DOMAIN depot' /\ depot'[k + 1] = depot[k + 1]
      BY <2>1, KeptFacts
    <2>3. k \in Nat BY <1>1, DepotFacts
    <2>4. k + 1 \in Newer(synced)'
      BY <1>2, <2>2, <2>3, RecordKnownNext DEF RecordFacts
    <2>5. NextChange(synced)' = depot'[k + 1]
      BY <1>2, <2>4, RecordKnownNext DEF RecordFacts
    <2> QED BY <2>1, <2>2, <2>4, <2>5
  <1> QED BY <1>2, <1>3, <1>4

-----------------------------------------------------------------------------
(* Types                                                                    *)

\* The two ways in which the depot grows.
LEMMA NumberedOn ==
    ASSUME TypeOK, Numbered, NEW n \in Nat, NEW t \in Trees,
           \A k \in DOMAIN depot : depot[k].num < n,
           depot' = Append(depot, [num |-> n, tree |-> t]),
           synced' = synced, counter' \in Nat, n \in 1..counter', counter <= counter',
           DOMAIN pending' \subseteq DOMAIN pending, n \notin DOMAIN pending'
    PROVE  /\ Numbered' /\ DepotKept
           /\ \A k \in DOMAIN depot' : depot'[k].num \in 1..counter' /\ depot'[k].tree \in Trees
           /\ (DepotHead = t)' /\ DOMAIN depot' = DOMAIN depot \cup {Len(depot) + 1}
           /\ depot'[Len(depot) + 1] = [num |-> n, tree |-> t]
  <1> DEFINE d == [num |-> n, tree |-> t]
  <1>1. d \in Changelist BY DEF Changelist
  <1>2. depot \in Seq(Changelist) /\ depot' \in Seq(Changelist)
    BY <1>1 DEF Numbered
  <1>3. /\ Len(depot') = Len(depot) + 1 /\ Len(depot) \in Nat \ {0}
        /\ DOMAIN depot' = 1..Len(depot') /\ DOMAIN depot = 1..Len(depot)
        /\ \A k \in DOMAIN depot : depot'[k] = depot[k]
        /\ depot'[Len(depot')] = d
    BY <1>1, <1>2, DepotFacts
  <1>4. d.num = n /\ d.tree = t OBVIOUS
  <1>5. \A j, k \in DOMAIN depot' : j < k => depot'[j].num < depot'[k].num
    <2> SUFFICES ASSUME NEW j \in DOMAIN depot', NEW k \in DOMAIN depot', j < k
                 PROVE  depot'[j].num < depot'[k].num
      OBVIOUS
    <2>1. j \in DOMAIN depot BY <1>3
    <2>2. CASE k \in DOMAIN depot BY <1>3, <2>1, <2>2 DEF Numbered
    <2>3. CASE k = Len(depot') BY <1>3, <1>4, <2>1, <2>3
    <2> QED BY <1>3, <2>2, <2>3
  <1>6. \E k \in DOMAIN depot' : depot'[k].num = synced'
    BY <1>3 DEF Numbered
  <1>7. \A m \in DOMAIN pending' : \A k \in DOMAIN depot' : depot'[k].num # m
    BY <1>3, <1>4 DEF Numbered
  <1>8. Numbered' BY <1>2, <1>5, <1>6, <1>7 DEF Numbered
  <1>9. DepotKept BY <1>1 DEF DepotKept
  <1>10. ASSUME NEW k \in DOMAIN depot'
         PROVE  depot'[k].num \in 1..counter' /\ depot'[k].tree \in Trees
    <2>1. CASE k \in DOMAIN depot
      BY <1>3, <2>1 DEF TypeOK
    <2>2. CASE k = Len(depot') BY <1>3, <1>4, <2>2
    <2> QED BY <1>3, <2>1, <2>2
  <1>11. (DepotHead = t)' BY <1>3, <1>4 DEF DepotHead, Last
  <1> QED BY <1>3, <1>8, <1>9, <1>10, <1>11

LEMMA NumberedSame ==
    ASSUME Numbered, UNCHANGED <<depot, synced>>, DOMAIN pending' \subseteq DOMAIN pending
    PROVE  Numbered' /\ DepotKept
  BY DEF Numbered, DepotKept

\* What is open, changelist by changelist.
PendingFacts ==
    /\ Opened \subseteq File <=> \A n \in DOMAIN pending : pending[n] \subseteq File
    /\ Opened = {} <=> \A n \in DOMAIN pending : pending[n] = {}
    /\ \A n \in DOMAIN pending : pending[n] \subseteq Opened

LEMMA PendingKnown == PendingFacts
  BY DEF PendingFacts, Opened

LEMMA PendingKnownNext == PendingFacts'
  BY PendingKnown, PTL

\* bzr commit leaves nothing to commit.
LEMMA CommitLeaves ==
    ASSUME TypeOK, BzrCommit, files' = files
    PROVE  /\ IsUnchanged' /\ tree' \in Trees /\ versioned' \subseteq File
           /\ merging' = FALSE
           /\ \A f \in File : tree'[f] = IF f \in versioned THEN files[f] ELSE {}
  BY DEF TypeOK, BzrCommit, IsUnchanged, Work, In, Trees

LEMMA BaseInit == Init => BaseInv
  <1> SUFFICES ASSUME Init PROVE BaseInv OBVIOUS
  <1>1. Everything \in Trees BY DEF Everything, Trees
  <1> DEFINE d == [num |-> 1, tree |-> Everything]
  <1>2. d \in Changelist /\ d.num = 1 /\ d.tree = Everything BY <1>1 DEF Changelist
  <1>3. depot \in Seq(Changelist) /\ DOMAIN depot = {1} /\ depot[1] = d
    BY <1>2 DEF Init
  <1>4. DOMAIN pending = {} /\ Opened \subseteq File
    <2>1. DOMAIN pending = {} BY DEF Init
    <2> QED BY <2>1, PendingKnown DEF PendingFacts
  <1>5. Numbered BY <1>2, <1>3, <1>4 DEF Init, Numbered
  <1>6. AtStep BY DEF Init, AtStep, Pulling
  <1>7. Existing \subseteq File /\ MaxTroubles \in Nat BY ConstantsAssumption
  <1>8. TypeOK
    <2>1. \A k \in DOMAIN depot : depot[k].num \in 1..counter /\ depot[k].tree \in Trees
      BY <1>1, <1>2, <1>3 DEF Init
    <2>2. clone \in [Push -> Trees \cup {None}]
          /\ verdict \in [Push -> {"none", "nothing", "ok", "failed", "lost"}]
      BY DEF Init
    <2>3. temp \in 0..counter /\ number \in 0..counter /\ synced \in 1..counter
          /\ counter \in Nat /\ troubles \in 0..MaxTroubles
      BY <1>7 DEF Init
    <2> QED BY <1>1, <1>4, <1>7, <2>1, <2>2, <2>3 DEF Init, TypeOK
  <1> QED BY <1>5, <1>6, <1>8 DEF BaseInv

LEMMA BasePull ==
    ASSUME BaseInv, Pull
    PROVE  BaseInv' /\ DepotKept
  <1> USE DEF p4Vars, bzrVars, diskVars, workVars, userVars, badVars
  <1>0. TypeOK /\ Numbered /\ AtStep BY DEF BaseInv
  <1>1. CASE StartPull
    <2>1. Numbered' /\ DepotKept BY <1>0, <1>1, NumberedSame DEF StartPull
    <2>2. AtStep' BY <1>0, <1>1 DEF StartPull, AtStep, Pulling
    <2>3. TypeOK' BY <1>0, <1>1 DEF StartPull, TypeOK, Opened, Pulling
    <2> QED BY <2>1, <2>2, <2>3 DEF BaseInv
  <1>2. CASE LookForChanges
    <2>1. Numbered' /\ DepotKept BY <1>0, <1>2, NumberedSame DEF LookForChanges
    <2>2. AtStep' BY <1>0, <1>2 DEF LookForChanges, AtStep, Pulling, Newer
    <2>3. TypeOK' BY <1>0, <1>2 DEF LookForChanges, TypeOK, Opened, Pulling
    <2> QED BY <2>1, <2>2, <2>3 DEF BaseInv
  <1>3. CASE Sync
    <2>1. Numbered' /\ DepotKept BY <1>0, <1>3, NumberedSame DEF Sync
    <2>2. AtStep' BY <1>0, <1>3 DEF Sync, AtStep, Pulling, Newer
    <2>3. NextChange(synced).tree \in Trees
      BY <1>0, <1>3, NextTyped DEF Sync, AtStep
    <2>4. have' \in Trees /\ files' \in Trees /\ adds' \subseteq File
      BY <1>0, <1>3, <2>3 DEF Sync, TypeOK, Trees, In
    <2>5. TypeOK' BY <1>0, <1>3, <2>4 DEF Sync, TypeOK, Opened, Pulling
    <2> QED BY <2>1, <2>2, <2>5 DEF BaseInv
  <1>4. CASE Add
    <2>1. Numbered' /\ DepotKept BY <1>0, <1>4, NumberedSame DEF Add
    <2>2. AtStep' BY <1>0, <1>4 DEF Add, AtStep, Pulling, Newer
    <2>3. TypeOK' BY <1>0, <1>4 DEF Add, TypeOK, Opened, Pulling
    <2> QED BY <2>1, <2>2, <2>3 DEF BaseInv
  <1>5. CASE CommitChange
    <2>1. Numbered' /\ DepotKept BY <1>0, <1>5, NumberedSame DEF CommitChange
    <2>2. AtStep' BY <1>0, <1>5 DEF CommitChange, AtStep, Pulling, Newer
    <2>3. tree' \in Trees /\ versioned' \subseteq File /\ merging' = FALSE
      BY <1>0, <1>5, CommitLeaves DEF CommitChange
    <2>4. TypeOK' BY <1>0, <1>5, <2>3 DEF CommitChange, TypeOK, Opened, Pulling
    <2> QED BY <2>1, <2>2, <2>4 DEF BaseInv
  <1>6. CASE Record
    <2>1. PICK k \in DOMAIN depot : depot[k].num = synced BY <1>0 DEF Numbered
    <2>2. k + 1 \in DOMAIN depot /\ NextChange(synced) = depot[k + 1]
      BY <1>0, <1>6, <2>1, NextIs DEF Record, AtStep
    <2>3. /\ \E j \in DOMAIN depot : depot[j].num = synced'
          /\ synced' \in 1..counter
      BY <1>0, <1>6, <2>1, <2>2 DEF Record, TypeOK
    <2>4. depot' = depot /\ pending' = pending BY <1>6 DEF Record
    <2>5. Numbered' /\ DepotKept BY <1>0, <2>3, <2>4 DEF Numbered, DepotKept
    <2>6. AtStep' BY <1>0, <1>6 DEF Record, AtStep, Pulling
    <2>7. TypeOK' BY <1>0, <1>6, <2>3 DEF Record, TypeOK, Opened, Pulling
    <2> QED BY <2>5, <2>6, <2>7 DEF BaseInv
  <1> QED BY <1>1, <1>2, <1>3, <1>4, <1>5, <1>6 DEF Pull

\* A push that is under way has a branch, and edits of files.
LEMMA PushFacts ==
    ASSUME TypeOK, AtStep, pc \notin {"idle", "pop"} \cup Pulling
    PROVE  /\ pushing \in Push /\ verdict[pushing] = "none"
           /\ clone[pushing] \in Trees
           /\ Touched(pushing) \subseteq File
           /\ \A f \in File : EditsTo(pushing, f) \subseteq Edit \ UserEdit
  <1>1. pushing \in Push /\ pushing # None /\ verdict[pushing] = "none"
    BY DEF TypeOK, AtStep
  <1>2. clone[pushing] \in Trees BY <1>1 DEF TypeOK, AtStep
  <1>3. EditsOf[pushing] \subseteq Edit \ UserEdit BY <1>1, ConstantsAssumption
  <1> QED BY <1>1, <1>2, <1>3 DEF Touched, EditsTo

LEMMA FinishFacts ==
    ASSUME TypeOK, NEW v \in {"ok", "failed"}, FinishPush(v)
    PROVE  /\ verdict' \in [Push -> {"none", "nothing", "ok", "failed", "lost"}]
           /\ pushing' = None /\ number' = 0 /\ pc' = "idle"
  BY DEF TypeOK, FinishPush, Conclude

\* What p4 submit takes, and the number it gets.
SubmittedTree == [f \in File |-> IF f \in pending[temp] THEN files[f] ELSE DepotHead[f]]
SubmittedAs == IF counter = temp THEN temp ELSE counter + 1

LEMMA AcceptFacts ==
    ASSUME BaseInv, pc = "submit", Accept, synced' = synced
    PROVE  /\ Numbered' /\ DepotKept
           /\ temp \in DOMAIN pending
           /\ SubmittedTree \in Trees
           /\ \A k \in DOMAIN depot' :
                  depot'[k].num \in 1..counter' /\ depot'[k].tree \in Trees
           /\ (DepotHead)' = SubmittedTree
           /\ DOMAIN depot' = DOMAIN depot \cup {Len(depot) + 1}
           /\ depot'[Len(depot) + 1] = [num |-> SubmittedAs, tree |-> SubmittedTree]
           /\ \A k \in DOMAIN depot : depot'[k] = depot[k]
           /\ counter' \in Nat /\ counter <= counter'
           /\ DOMAIN pending' = DOMAIN pending \ {temp}
           /\ \A n \in DOMAIN pending' : pending'[n] = pending[n]
           /\ foreign' \subseteq DOMAIN pending'
  <1>0. TypeOK /\ Numbered /\ AtStep BY DEF BaseInv
  <1>1. temp \in DOMAIN pending /\ temp \in 1..counter BY <1>0 DEF AtStep, TypeOK
  <1>2. DOMAIN pending' = DOMAIN pending \ {temp}
        /\ \A n \in DOMAIN pending' : pending'[n] = pending[n]
    BY DEF Accept, Restrict
  <1>3. /\ SubmittedAs \in Nat /\ SubmittedAs \in 1..counter' /\ counter <= counter'
        /\ counter' \in Nat /\ SubmittedAs \notin DOMAIN pending'
        /\ counter' = SubmittedAs
    <2>1. counter' = SubmittedAs BY DEF Accept, SubmittedAs
    <2>2. counter \in Nat /\ DOMAIN pending \subseteq 1..counter BY <1>0 DEF TypeOK
    <2>3. CASE counter = temp
      <3>1. SubmittedAs = temp BY <2>3 DEF SubmittedAs
      <3> QED BY <1>1, <1>2, <2>1, <2>2, <2>3, <3>1
    <2>4. CASE counter # temp
      <3>1. SubmittedAs = counter + 1 BY <2>4 DEF SubmittedAs
      <3>2. counter + 1 \notin 1..counter BY <2>2
      <3> QED BY <1>2, <2>1, <2>2, <3>1, <3>2
    <2> QED BY <2>3, <2>4
  <1>4. \A k \in DOMAIN depot : depot[k].num < SubmittedAs
    BY <1>0, <1>1 DEF SubmittedAs, TypeOK, Numbered
  <1>5. SubmittedTree \in Trees
    BY <1>0, DepotFacts DEF SubmittedTree, TypeOK, Trees
  <1>6. depot' = Append(depot, [num |-> SubmittedAs, tree |-> SubmittedTree])
    BY DEF Accept, Submitted, SubmittedAs, SubmittedTree
  <1>7. \A k \in DOMAIN depot : depot'[k] = depot[k]
    BY <1>0, <1>6, DepotFacts, <1>3, <1>5 DEF Numbered, Changelist
  <1>8. foreign' \subseteq DOMAIN pending' BY <1>0, <1>2 DEF Accept, TypeOK
  <1> HIDE DEF SubmittedAs, SubmittedTree
  <1> QED BY <1>0, <1>1, <1>2, <1>3, <1>4, <1>5, <1>6, <1>7, <1>8, NumberedOn

LEMMA BasePush ==
    ASSUME BaseInv, PushThrough
    PROVE  BaseInv' /\ DepotKept
  <1> USE DEF p4Vars, bzrVars, diskVars, workVars, userVars, badVars
  <1>0. TypeOK /\ Numbered /\ AtStep BY DEF BaseInv
  <1>1. 0 \in 0..counter BY <1>0 DEF TypeOK
  <1>2. CASE NoRequest
    <2>1. Numbered' /\ DepotKept BY <1>0, <1>2, NumberedSame DEF NoRequest
    <2>2. AtStep' BY <1>0, <1>2 DEF NoRequest, AtStep, Pulling
    <2>3. TypeOK' BY <1>0, <1>2 DEF NoRequest, TypeOK, Opened
    <2> QED BY <2>1, <2>2, <2>3 DEF BaseInv
  <1>3. ASSUME NEW p \in Push, StartPush(p) PROVE BaseInv' /\ DepotKept
    <2>1. Numbered' /\ DepotKept BY <1>0, <1>3, NumberedSame DEF StartPush
    <2>2. AtStep'
      BY <1>0, <1>3, ConstantsAssumption DEF StartPush, AtStep, Pulling, Waiting
    <2>3. TypeOK'
      BY <1>0, <1>3 DEF StartPush, Conclude, TypeOK, Opened, PushingOn, RollingBack
    <2> QED BY <2>1, <2>2, <2>3 DEF BaseInv
  <1>4. CASE Merge
    <2>1. Numbered' /\ DepotKept BY <1>0, <1>4, NumberedSame DEF Merge
    <2>2. AtStep' BY <1>0, <1>4 DEF Merge, AtStep, Pulling
    <2>3. /\ clone[pushing] \in Trees /\ Touched(pushing) \subseteq File
          /\ \A f \in File : EditsTo(pushing, f) \subseteq Edit
      BY <1>0, <1>4, PushFacts DEF Merge, Pulling
    <2>4. files' \in Trees /\ versioned' \subseteq File /\ merging' \in BOOLEAN
          /\ tree' = tree
      <3>1. CASE \E f \in versioned : files[f] # tree[f]
        BY <1>0, <1>4, <3>1 DEF Merge, TypeOK
      <3>2. CASE ~ \E f \in versioned : files[f] # tree[f]
        <4> DEFINE base == clone[pushing]
                   theirs == [f \in File |-> base[f] \cup EditsTo(pushing, f)]
        <4>1. theirs \in Trees BY <2>3 DEF Trees
        <4>2. PICK conflicts \in SUBSET Touched(pushing) :
                 files' = [f \in File |->
                   IF f \notin Touched(pushing) THEN files[f]
                   ELSE IF f \in conflicts \/ files[f] = base[f] THEN theirs[f]
                   ELSE files[f] \cup theirs[f]]
          BY <1>4, <3>2 DEF Merge
        <4>3. \A f \in File : files[f] \subseteq Edit \cup {First}
          BY <1>0 DEF TypeOK, Trees
        <4>4. \A f \in File : theirs[f] \subseteq Edit \cup {First}
          BY <4>1 DEF Trees
        <4> HIDE DEF theirs
        <4>5. files' \in Trees BY <4>2, <4>3, <4>4 DEF Trees
        <4> QED BY <1>0, <1>4, <2>3, <3>2, <4>5 DEF Merge, TypeOK
      <3> QED BY <3>1, <3>2
    <2>5. TypeOK' BY <1>0, <1>4, <2>4 DEF Merge, TypeOK, Opened, PushingOn, RollingBack
    <2> QED BY <2>1, <2>2, <2>5 DEF BaseInv
  <1>5. CASE CreateChangelist
    <2>1. UNCHANGED <<depot, synced>> BY <1>5 DEF CreateChangelist
    <2>2. \/ UNCHANGED <<counter, number, pending>> /\ pc' = "rollback"
          \/ /\ counter' = counter + 1 /\ number' = counter + 1 /\ pc' = "open"
             /\ DOMAIN pending' = DOMAIN pending \cup {counter + 1}
             /\ \A n \in DOMAIN pending' : pending'[n] = pending[n] \/ pending'[n] = {}
             /\ \A n \in DOMAIN pending' \ DOMAIN pending : pending'[n] = {}
      BY <1>5 DEF CreateChangelist
    <2>3. foreign' \subseteq DOMAIN pending' BY <1>0, <1>5 DEF CreateChangelist, TypeOK
    <2>4. \A k \in DOMAIN depot : depot[k].num <= counter /\ depot[k].num \in Nat
      BY <1>0 DEF TypeOK
    <2>5. Numbered' /\ DepotKept
      BY <1>0, <2>1, <2>2, <2>4 DEF Numbered, DepotKept, TypeOK
    <2>6. AtStep' BY <1>0, <1>5, <2>2 DEF CreateChangelist, AtStep, Pulling
    <2>7. Opened' \subseteq File
      BY <1>0, <2>2, PendingKnown, PendingKnownNext DEF PendingFacts, TypeOK
    <2>8. /\ \A k \in DOMAIN depot' : depot'[k].num \in 1..counter'
          /\ counter' \in Nat /\ DOMAIN pending' \subseteq 1..counter'
          /\ temp \in 0..counter' /\ number' \in 0..counter' /\ synced \in 1..counter'
          /\ pc' \in PushingOn \cup RollingBack
      <3>1. /\ \A k \in DOMAIN depot : depot[k].num \in 1..counter
            /\ counter \in Nat /\ DOMAIN pending \subseteq 1..counter
            /\ temp \in 0..counter /\ number \in 0..counter /\ synced \in 1..counter
        BY <1>0 DEF TypeOK
      <3>2. pc' \in PushingOn \cup RollingBack BY <2>2 DEF PushingOn, RollingBack
      <3>3. CASE counter' = counter + 1
        <4>1. \A m \in 0..counter : m \in 0..counter' BY <3>1, <3>3
        <4>2. \A m \in 1..counter : m \in 1..counter' BY <3>1, <3>3
        <4>3. counter + 1 \in 1..counter' /\ counter + 1 \in 0..counter' BY <3>1, <3>3
        <4>4. DOMAIN pending' \subseteq DOMAIN pending \cup {counter + 1}
              /\ number' \in {number, counter + 1}
          BY <2>2
        <4> QED BY <2>1, <3>1, <3>2, <3>3, <4>1, <4>2, <4>3, <4>4
      <3>4. CASE UNCHANGED <<counter, number, pending>>
        BY <2>1, <3>1, <3>2, <3>4
      <3> QED BY <2>2, <3>3, <3>4
    <2>9. TypeOK' BY <1>0, <1>5, <2>1, <2>3, <2>7, <2>8 DEF CreateChangelist, TypeOK
    <2> QED BY <2>5, <2>6, <2>9 DEF BaseInv
  <1>6. CASE OpenFiles
    <2>1. PICK done \in SUBSET Changed : pending' = [pending EXCEPT ![number] = done]
      BY <1>6 DEF OpenFiles
    <2>2. /\ DOMAIN pending' = DOMAIN pending
          /\ \A n \in DOMAIN pending : pending'[n] = pending[n] \/ pending'[n] = done
      BY <2>1
    <2>3. Numbered' /\ DepotKept BY <1>0, <1>6, <2>2, NumberedSame DEF OpenFiles
    <2>4. AtStep' BY <1>0, <1>6, <2>2 DEF OpenFiles, AtStep, Pulling
    <2>5. done \subseteq File BY DEF Changed
    <2>6. Opened' \subseteq File
      BY <1>0, <2>2, <2>5, PendingKnown, PendingKnownNext DEF PendingFacts, TypeOK
    <2>7. TypeOK'
      BY <1>0, <1>6, <2>2, <2>6 DEF OpenFiles, TypeOK, PushingOn, RollingBack
    <2> QED BY <2>3, <2>4, <2>7 DEF BaseInv
  <1>7. CASE WriteTemp
    <2>1. Numbered' /\ DepotKept BY <1>0, <1>7, NumberedSame DEF WriteTemp
    <2>2. AtStep' BY <1>0, <1>7 DEF WriteTemp, AtStep, Pulling
    <2>3. TypeOK' BY <1>0, <1>7 DEF WriteTemp, TypeOK, Opened, PushingOn
    <2> QED BY <2>1, <2>2, <2>3 DEF BaseInv
  <1>8. CASE Submit
    <2>1. CASE pc' = "rollback" /\ UNCHANGED p4Vars
      <3>1. Numbered' /\ DepotKept BY <1>0, <1>8, <2>1, NumberedSame DEF Submit
      <3>2. AtStep' BY <1>0, <1>8, <2>1 DEF Submit, AtStep, Pulling
      <3>3. TypeOK' BY <1>0, <1>8, <2>1 DEF Submit, TypeOK, Opened, RollingBack
      <3> QED BY <3>1, <3>2, <3>3 DEF BaseInv
    <2>2. CASE Accept
      <3>1. pc = "submit" /\ UNCHANGED <<bzrVars, diskVars, workVars, userVars, badVars>>
        BY <1>8 DEF Submit
      <3>2. /\ Numbered' /\ DepotKept
            /\ \A k \in DOMAIN depot' :
                  depot'[k].num \in 1..counter' /\ depot'[k].tree \in Trees
            /\ counter' \in Nat /\ counter <= counter'
            /\ DOMAIN pending' = DOMAIN pending \ {temp}
            /\ \A n \in DOMAIN pending' : pending'[n] = pending[n]
            /\ foreign' \subseteq DOMAIN pending'
        BY <2>2, <3>1, AcceptFacts
      <3>3. AtStep' BY <1>0, <2>2, <3>1 DEF Accept, AtStep, Pulling
      <3>4. Opened' \subseteq File
        BY <1>0, <3>2, PendingKnown, PendingKnownNext DEF PendingFacts, TypeOK
      <3>5. have' \in Trees BY <1>0, <2>2 DEF Accept, TypeOK, Trees
      <3>6. /\ DOMAIN pending' \subseteq 1..counter' /\ temp \in 0..counter'
            /\ number \in 0..counter' /\ synced \in 1..counter'
        BY <1>0, <3>2 DEF TypeOK
      <3>7. pc' \in Committing BY <2>2 DEF Accept, Committing
      <3>8. TypeOK' BY <1>0, <3>1, <3>2, <3>4, <3>5, <3>6, <3>7 DEF TypeOK
      <3> QED BY <3>2, <3>3, <3>8 DEF BaseInv
    <2> QED BY <1>8, <2>1, <2>2 DEF Submit
  <1>9. CASE CommitPush
    <2>1. Numbered' /\ DepotKept BY <1>0, <1>9, NumberedSame DEF CommitPush
    <2>2. AtStep' BY <1>0, <1>9 DEF CommitPush, AtStep, Pulling
    <2>3. tree' \in Trees /\ versioned' \subseteq File /\ merging' = FALSE
      BY <1>0, <1>9, CommitLeaves DEF CommitPush
    <2>4. TypeOK' BY <1>0, <1>9, <2>3 DEF CommitPush, TypeOK, Opened, Committing
    <2> QED BY <2>1, <2>2, <2>4 DEF BaseInv
  <1>10. CASE DeleteTemp
    <2>1. Numbered' /\ DepotKept BY <1>0, <1>10, NumberedSame DEF DeleteTemp
    <2>2. AtStep' BY <1>0, <1>10 DEF DeleteTemp, FinishPush, AtStep, Pulling
    <2>3. /\ verdict' \in [Push -> {"none", "nothing", "ok", "failed", "lost"}]
          /\ pushing' \in Push \cup {None} /\ number' \in 0..counter
          /\ pc' \in {"idle"} \cup RollingBack
      <3>1. CASE FinishPush("ok") BY <1>0, <3>1, FinishFacts DEF TypeOK
      <3>2. CASE UNCHANGED <<pushing, number, verdict>> /\ pc' = "rollback"
        BY <1>0, <3>2 DEF TypeOK, RollingBack
      <3> QED BY <1>10, <3>1, <3>2 DEF DeleteTemp
    <2>4. TypeOK' BY <1>0, <1>1, <1>10, <2>3 DEF DeleteTemp, TypeOK, Opened
    <2> QED BY <2>1, <2>2, <2>4 DEF BaseInv
  <1>11. CASE RevertOpened
    <2>1. DOMAIN pending' = DOMAIN pending BY <1>11 DEF RevertOpened
    <2>2. Numbered' /\ DepotKept BY <1>0, <1>11, <2>1, NumberedSame DEF RevertOpened
    <2>3. AtStep' BY <1>0, <1>11 DEF RevertOpened, AtStep, Pulling
    <2>4. files' \in Trees BY <1>0, <1>11 DEF RevertOpened, TypeOK, Trees
    <2>5. \A n \in DOMAIN pending' :
              n \in DOMAIN pending /\ pending'[n] \in {pending[n], {}}
      BY <1>11 DEF RevertOpened
    <2>6. hurt' \in BOOLEAN BY <1>0, <1>11 DEF RevertOpened, TypeOK
    <2>7. Opened' \subseteq File
      BY <1>0, <2>5, PendingKnown, PendingKnownNext DEF PendingFacts, TypeOK
    <2>8. TypeOK' BY <1>0, <1>11, <2>1, <2>4, <2>6, <2>7 DEF RevertOpened, TypeOK, RollingBack
    <2> QED BY <2>2, <2>3, <2>8 DEF BaseInv
  <1>12. CASE RevertTree
    <2>1. Numbered' /\ DepotKept BY <1>0, <1>12, NumberedSame DEF RevertTree
    <2>2. AtStep' BY <1>0, <1>12 DEF RevertTree, AtStep, Pulling
    <2>3. files' \in Trees /\ versioned' \subseteq File /\ merging' = FALSE
      BY <1>0, <1>12 DEF RevertTree, BzrRevert, TypeOK, Trees, In
    <2>4. TypeOK' BY <1>0, <1>12, <2>3 DEF RevertTree, TypeOK, Opened, RollingBack
    <2> QED BY <2>1, <2>2, <2>4 DEF BaseInv
  <1>13. CASE DropChangelist
    <2>1. /\ DOMAIN pending' \subseteq DOMAIN pending
          /\ \A n \in DOMAIN pending' : pending'[n] = pending[n]
      BY <1>13 DEF DropChangelist, Restrict
    <2>2. foreign' \subseteq DOMAIN pending'
      BY <1>0, <1>13 DEF DropChangelist, Restrict, TypeOK
    <2>3. Numbered' /\ DepotKept BY <1>0, <1>13, <2>1, NumberedSame DEF DropChangelist
    <2>4. AtStep' BY <1>0, <1>13 DEF DropChangelist, FinishPush, AtStep, Pulling
    <2>5. Opened' \subseteq File
      BY <1>0, <2>1, PendingKnown, PendingKnownNext DEF PendingFacts, TypeOK
    <2>6. /\ verdict' \in [Push -> {"none", "nothing", "ok", "failed", "lost"}]
          /\ pushing' \in Push \cup {None} /\ number' \in 0..counter
          /\ pc' \in {"idle"} \cup RollingBack
      <3>1. CASE FinishPush("failed") BY <1>0, <3>1, FinishFacts DEF TypeOK
      <3>2. CASE UNCHANGED <<pushing, number, verdict>> /\ pc' = "drop temp"
        BY <1>0, <3>2 DEF TypeOK, RollingBack
      <3> QED BY <1>13, <3>1, <3>2 DEF DropChangelist
    <2>7. TypeOK' BY <1>0, <1>13, <2>1, <2>2, <2>5, <2>6 DEF DropChangelist, TypeOK
    <2> QED BY <2>3, <2>4, <2>7 DEF BaseInv
  <1>14. CASE DropTemp
    <2>1. Numbered' /\ DepotKept BY <1>0, <1>14, NumberedSame DEF DropTemp
    <2>2. AtStep' BY <1>0, <1>14 DEF DropTemp, FinishPush, AtStep, Pulling
    <2>3. /\ verdict' \in [Push -> {"none", "nothing", "ok", "failed", "lost"}]
          /\ pushing' = None /\ number' = 0 /\ pc' = "idle"
      BY <1>0, <1>14, FinishFacts DEF DropTemp
    <2>4. TypeOK' BY <1>0, <1>1, <1>14, <2>3 DEF DropTemp, TypeOK, Opened
    <2> QED BY <2>1, <2>2, <2>4 DEF BaseInv
  <1> QED BY <1>2, <1>3, <1>4, <1>5, <1>6, <1>7, <1>8, <1>9, <1>10, <1>11, <1>12,
             <1>13, <1>14 DEF PushThrough

LEMMA BasePeople ==
    ASSUME BaseInv, People
    PROVE  BaseInv' /\ DepotKept
  <1> USE DEF p4Vars, bzrVars, diskVars, workVars, userVars, badVars
  <1>0. TypeOK /\ Numbered /\ AtStep BY DEF BaseInv
  <1>1. ASSUME NEW e \in UserEdit, UserSubmits(e) PROVE BaseInv' /\ DepotKept
    <2> DEFINE t == [DepotHead EXCEPT ![FileOf[e]] = @ \cup {e}]
    <2>1. FileOf[e] \in File /\ e \in Edit BY ConstantsAssumption
    <2>2. DepotHead \in Trees BY <1>0, DepotFacts
    <2>3. t \in Trees BY <2>1, <2>2 DEF Trees
    <2>4. /\ \A k \in DOMAIN depot : depot[k].num \in 1..counter
          /\ counter \in Nat /\ DOMAIN pending \subseteq 1..counter
          /\ temp \in 0..counter /\ number \in 0..counter /\ synced \in 1..counter
      BY <1>0 DEF TypeOK
    <2>5. counter' = counter + 1
          /\ depot' = Append(depot, [num |-> counter + 1, tree |-> t])
          /\ UNCHANGED <<have, pending, foreign, bzrVars, diskVars, pc, workVars,
                         userVars, badVars>>
      BY <1>1 DEF UserSubmits
    <2>6. /\ counter + 1 \in Nat /\ counter' \in Nat /\ counter + 1 \in 1..counter'
          /\ counter <= counter' /\ counter + 1 \notin DOMAIN pending'
          /\ \A k \in DOMAIN depot : depot[k].num < counter + 1
          /\ \A m \in 0..counter : m \in 0..counter'
          /\ \A m \in 1..counter : m \in 1..counter'
      BY <2>4, <2>5
    <2> HIDE DEF t
    <2>7. /\ Numbered' /\ DepotKept
          /\ \A k \in DOMAIN depot' :
                depot'[k].num \in 1..counter' /\ depot'[k].tree \in Trees
      BY <1>0, <2>3, <2>5, <2>6, NumberedOn
    <2>8. Newer(synced) # {} => Newer(synced)' # {}
      BY <1>0, <2>5, <2>7, KeptOnRecord
    <2>9. AtStep' BY <1>0, <2>5, <2>8 DEF AtStep
    <2>10. TypeOK' BY <1>0, <2>4, <2>5, <2>6, <2>7 DEF TypeOK, Opened
    <2> QED BY <2>7, <2>9, <2>10 DEF BaseInv
  <1>2. ASSUME NEW p \in Push, SessionBranches(p) PROVE BaseInv' /\ DepotKept
    <2>1. Numbered' /\ DepotKept BY <1>0, <1>2, NumberedSame DEF SessionBranches
    <2>2. pushing # None => pushing \in Push /\ clone'[pushing] = clone[pushing]
      BY <1>0, <1>2 DEF SessionBranches, AtStep, TypeOK
    <2>3. AtStep' BY <1>0, <1>2, <2>2 DEF SessionBranches, AtStep, Newer
    <2>4. TypeOK' BY <1>0, <1>2 DEF SessionBranches, TypeOK, Opened
    <2> QED BY <2>1, <2>3, <2>4 DEF BaseInv
  <1> QED BY <1>1, <1>2 DEF People

LEMMA BaseTrouble ==
    ASSUME BaseInv, CommandFails \/ Crash
    PROVE  BaseInv' /\ DepotKept
  <1> USE DEF p4Vars, bzrVars, diskVars, workVars, userVars, badVars
  <1>0. TypeOK /\ Numbered /\ AtStep BY DEF BaseInv
  <1>1. hurt' \in BOOLEAN BY DEF CommandFails, Crash
  <1>2. troubles' \in 0..MaxTroubles
    BY <1>0, ConstantsAssumption DEF CommandFails, Crash, TypeOK
  <1>3. CASE CommandFails
    <2>1. Numbered' /\ DepotKept BY <1>0, <1>3, NumberedSame DEF CommandFails
    <2>2. UNCHANGED <<p4Vars, bzrVars, diskVars, clone>> BY <1>3 DEF CommandFails
    <2>3. CASE /\ pc \in Pulling /\ pc' = "idle" /\ adds' = {}
               /\ UNCHANGED <<pushing, number, verdict>>
      <3>1. AtStep' BY <1>0, <2>2, <2>3 DEF AtStep, Pulling
      <3>2. TypeOK' BY <1>0, <1>1, <1>2, <2>2, <2>3 DEF TypeOK, Opened
      <3> QED BY <2>1, <3>1, <3>2 DEF BaseInv
    <2>4. CASE /\ pc \in PushingOn \cup Committing /\ pc' = "rollback"
               /\ UNCHANGED <<pushing, adds, number, verdict>>
      <3>1. AtStep' BY <1>0, <2>2, <2>4 DEF AtStep, Pulling, PushingOn, Committing
      <3>2. TypeOK' BY <1>0, <1>1, <1>2, <2>2, <2>4 DEF TypeOK, Opened, RollingBack
      <3> QED BY <2>1, <3>1, <3>2 DEF BaseInv
    <2>5. CASE pc \in RollingBack /\ FinishPush("failed") /\ UNCHANGED adds
      <3>1. /\ verdict' \in [Push -> {"none", "nothing", "ok", "failed", "lost"}]
            /\ pushing' = None /\ number' = 0 /\ pc' = "idle"
        BY <1>0, <2>5, FinishFacts
      <3>2. AtStep' BY <1>0, <2>2, <2>5, <3>1 DEF AtStep, Pulling, RollingBack
      <3>3. TypeOK' BY <1>0, <1>1, <1>2, <2>2, <2>5, <3>1 DEF TypeOK, Opened
      <3> QED BY <2>1, <3>2, <3>3 DEF BaseInv
    <2> QED BY <1>3, <2>3, <2>4, <2>5 DEF CommandFails
  <1>4. CASE Crash
    <2>1. Numbered' /\ DepotKept BY <1>0, <1>4, NumberedSame DEF Crash
    <2>2. AtStep' BY <1>4 DEF Crash, AtStep
    <2>3. verdict' \in [Push -> {"none", "nothing", "ok", "failed", "lost"}]
      BY <1>0, <1>4 DEF Crash, TypeOK
    <2>4. TypeOK' BY <1>0, <1>1, <1>2, <1>4, <2>3 DEF Crash, TypeOK, Opened
    <2> QED BY <2>1, <2>2, <2>4 DEF BaseInv
  <1> QED BY <1>3, <1>4

LEMMA BaseStep == BaseInv /\ [Next]_vars => BaseInv' /\ DepotKept
  <1> SUFFICES ASSUME BaseInv, [Next]_vars PROVE BaseInv' /\ DepotKept OBVIOUS
  <1>1. CASE UNCHANGED vars
    <2> USE <1>1 DEF vars, p4Vars, bzrVars, diskVars, workVars, userVars, badVars, BaseInv
    <2>1. TypeOK' BY DEF TypeOK, Opened
    <2>2. Numbered' /\ DepotKept BY NumberedSame
    <2>3. AtStep' BY DEF AtStep, Newer
    <2> QED BY <2>1, <2>2, <2>3
  <1> QED BY <1>1, BasePull, BasePush, BasePeople, BaseTrouble DEF Next

\* Every variable keeps its type: the numbers are numbers Perforce gave away, and
\* what is pulled, submitted or reverted are the files of some tree.
THEOREM BzrTypeCorrect == Spec => []TypeOK
  <1>1. BaseInv => TypeOK BY DEF BaseInv
  <1> QED BY <1>1, BaseInit, BaseStep, PTL DEF Spec

-----------------------------------------------------------------------------
(* The mirror, step by step                                                 *)

\* Branch, workspace and files agree on a tree.
Agree(t) == tree = t /\ have = t /\ files = t
NoneOpen == Opened = {}

\* What a push may leave behind: the number of another user's changelist.
TempLeft == temp \in foreign \cup {0}

\* Nothing but what bzr tracks is on disk.
NoStrays == \A f \in File \ versioned : files[f] = {}

\* Between pulls: bzr has nothing to commit. The branch may be behind the files
\* if a pull was cut off, and before the record after a push, but then there is
\* a changelist yet to take.
Resting ==
    /\ IsUnchanged /\ files = have /\ In(have) \subseteq versioned
    /\ NoneOpen /\ TempLeft
    /\ Newer(synced) = {} => Agree(DepotAt(synced))

\* p4 sync is done, bzr commit is not.
Taking ==
    /\ ~merging /\ have = NextChange(synced).tree /\ files = have
    /\ In(have) \subseteq versioned \cup adds
    /\ adds = {} => versioned = In(tree)
    /\ NoneOpen /\ TempLeft

Taken == IsUnchanged /\ Agree(NextChange(synced).tree) /\ NoneOpen /\ TempLeft

Mirrored == IsUnchanged /\ Agree(DepotAt(synced)) /\ NoneOpen

\* The push is merged and only opened files differ from the mirror.
Merged ==
    /\ merging /\ tree = DepotAt(synced) /\ have = tree
    /\ In(tree) \subseteq versioned /\ NoStrays
AllOpened == \A n \in DOMAIN pending : pending[n] = IF n = number THEN Changed ELSE {}

\* It is in Perforce: there is a changelist yet to take.
InPerforce == files = have /\ NoStrays /\ NoneOpen /\ Newer(synced) # {}
Committed == IsUnchanged /\ Agree(files) /\ NoneOpen /\ Newer(synced) # {}

\* What a rollback takes away is what the merge brought.
Undoing ==
    /\ tree = DepotAt(synced) /\ have = tree
    /\ \A f \in File : tree[f] = {} /\ files[f] # {} => merging /\ f \in versioned
TempThere == temp = 0 \/ temp \in DOMAIN pending

SoundAt ==
    /\ pc \in {"idle", "pull", "sync"} => Resting
    /\ pc = "add" => Taking
    /\ pc = "commit" => Taking /\ adds \subseteq versioned
    /\ pc = "record" => Taken
    /\ pc \in {"pop", "merge"} => Mirrored /\ TempLeft
    /\ pc \in {"create", "open"} => Merged /\ NoneOpen /\ TempLeft
    /\ pc = "write temp" => Merged /\ AllOpened /\ TempLeft
    /\ pc = "submit" => Merged /\ AllOpened
    /\ pc = "commit push" => InPerforce
    /\ pc = "delete temp" => Committed
    /\ pc = "rollback" => Undoing /\ TempThere
    /\ pc = "revert" => Undoing /\ TempThere /\ NoneOpen
    /\ pc = "drop" => Mirrored /\ TempThere
    /\ pc = "drop temp" => Mirrored

SoundInv == ~hurt => SoundAt

LEMMA SoundInit == Init => SoundInv
  <1> SUFFICES ASSUME Init PROVE SoundInv OBVIOUS
  <1>1. NoneOpen
    <2>1. DOMAIN pending = {} BY DEF Init
    <2> QED BY <2>1, PendingKnown DEF PendingFacts, NoneOpen
  <1>2. Numbered BY BaseInit DEF BaseInv
  <1>3. 1 \in DOMAIN depot /\ depot[1].num = synced /\ depot[1].tree = Everything
    BY DEF Init
  <1>4. DepotAt(synced) = Everything BY <1>2, <1>3, NextIs
  <1>5. IsUnchanged /\ In(have) \subseteq versioned
    <2>1. In(Everything) = Existing
      BY ConstantsAssumption DEF In, Everything
    <2> QED BY <2>1 DEF Init, IsUnchanged
  <1>6. Resting BY <1>1, <1>4, <1>5 DEF Init, Resting, Agree, TempLeft
  <1> QED BY <1>6 DEF Init, SoundInv, SoundAt

\* What people do meanwhile is not seen.
LEMMA SoundKept ==
    ASSUME BaseInv, BaseInv', DepotKept, SoundInv,
           UNCHANGED <<have, pending, foreign, bzrVars, diskVars, pc, workVars, hurt>>
    PROVE  SoundInv'
  <1> USE DEF bzrVars, diskVars, workVars
  <1>1. /\ DepotAt(synced)' = DepotAt(synced)
        /\ Newer(synced) # {} => /\ Newer(synced)' # {}
                                 /\ NextChange(synced)' = NextChange(synced)
    BY KeptOnRecord DEF BaseInv
  <1>2. /\ IsUnchanged' = IsUnchanged /\ NoneOpen' = NoneOpen /\ NoStrays' = NoStrays
        /\ Changed' = Changed /\ TempLeft' = TempLeft
        /\ \A t : Agree(t)' = Agree(t)
    BY DEF IsUnchanged, In, NoneOpen, Opened, NoStrays, Agree, Changed, Work, TempLeft
  <1>3. pc \in {"add", "commit", "record"} => Newer(synced) # {} BY DEF BaseInv, AtStep
  <1>4. Resting => Resting' BY <1>1, <1>2 DEF Resting, Agree
  <1>5. Newer(synced) # {} => (Taking => Taking') /\ (Taken => Taken')
    BY <1>1, <1>2 DEF Taking, Taken, Agree
  <1>6. /\ Mirrored => Mirrored'
        /\ Merged => Merged'
        /\ AllOpened => AllOpened'
        /\ InPerforce => InPerforce'
        /\ Committed => Committed'
        /\ Undoing => Undoing'
        /\ TempThere => TempThere'
    BY <1>1, <1>2
    DEF Mirrored, Merged, AllOpened, InPerforce, Committed, Undoing, TempThere, Agree
  <1> HIDE DEF Resting, Taking, Taken, Mirrored, Merged, AllOpened, InPerforce, Committed,
               Undoing, TempThere, NoneOpen
  <1> QED BY <1>2, <1>3, <1>4, <1>5, <1>6 DEF SoundInv, SoundAt

\* Where neither the depot nor the record moved, the record means the same.
LEMMA SameRecord ==
    ASSUME UNCHANGED <<depot, synced>>
    PROVE  /\ DepotAt(synced)' = DepotAt(synced) /\ Newer(synced)' = Newer(synced)
           /\ NextChange(synced)' = NextChange(synced)
  BY DEF DepotAt, Newer, NextChange

LEMMA MirroredRests ==
    ASSUME Mirrored, TempLeft
    PROVE  Resting
  BY DEF Mirrored, Resting, Agree, IsUnchanged

LEMMA MirroredRestsNext == (Mirrored /\ TempLeft => Resting)'
  BY MirroredRests, PTL

LEMMA LeftThere ==
    ASSUME TypeOK, TempLeft
    PROVE  TempThere
  BY DEF TypeOK, TempLeft, TempThere

LEMMA LeftThereNext == (TypeOK /\ TempLeft => TempThere)'
  BY LeftThere, PTL

\* What of a merge can be undone.
LEMMA MergedUndone ==
    ASSUME Merged
    PROVE  Undoing
  BY DEF Merged, Undoing, NoStrays

LEMMA MergedUndoneNext == (Merged => Undoing)'
  BY MergedUndone, PTL

LEMMA SoundPull ==
    ASSUME BaseInv, BaseInv', Pull, SoundInv
    PROVE  SoundInv'
  <1> USE DEF p4Vars, bzrVars, diskVars, workVars, userVars, badVars
  <1>1. hurt' = hurt
    BY DEF Pull, StartPull, LookForChanges, Sync, Add, CommitChange, Record
  <1>2. SUFFICES ASSUME SoundAt PROVE SoundAt' BY <1>1 DEF SoundInv
  <1>3. TypeOK /\ Numbered /\ Numbered' /\ AtStep BY DEF BaseInv
  <1>4. CASE StartPull
    <2>1. Resting BY <1>2, <1>4 DEF StartPull, SoundAt
    <2>2. Resting'
      BY <1>4, <2>1, SameRecord
      DEF StartPull, Resting, Agree, NoneOpen, Opened, IsUnchanged, In, TempLeft
    <2> QED BY <1>4, <2>2 DEF StartPull, SoundAt
  <1>5. CASE LookForChanges
    <2>1. Resting BY <1>2, <1>5 DEF LookForChanges, SoundAt
    <2>2. Resting'
      BY <1>5, <2>1, SameRecord
      DEF LookForChanges, Resting, Agree, NoneOpen, Opened, IsUnchanged, In, TempLeft
    <2>3. pc' = "pop" => Mirrored' /\ TempLeft'
      BY <1>5, <2>2, SameRecord DEF LookForChanges, Resting, Mirrored
    <2>4. pc' \in {"pop", "sync", "idle"} BY <1>5 DEF LookForChanges
    <2> QED BY <2>2, <2>3, <2>4 DEF SoundAt
  <1>6. CASE Sync
    <2> DEFINE there == NextChange(synced).tree
    <2>1. Resting /\ Newer(synced) # {} BY <1>2, <1>3, <1>6 DEF Sync, SoundAt, AtStep
    <2>2. there \in Trees BY <1>3, <2>1, NextTyped
    <2>3. files' = there
      <3>1. \A f \in File : files'[f] = there[f]
        BY <1>6, <2>1 DEF Sync, Resting, NoneOpen
      <3> QED BY <1>6, <2>2, <3>1 DEF Sync, Trees
    <2>4. have' = there /\ adds' = In(there) \ In(have) /\ versioned' = versioned
          /\ UNCHANGED <<merging, temp, pending, foreign, tree>> /\ pc' = "add"
      BY <1>6 DEF Sync
    <2>5. NextChange(synced)' = NextChange(synced) BY <1>6, SameRecord DEF Sync
    <2>6. Taking'
      BY <2>1, <2>3, <2>4, <2>5
      DEF Resting, Taking, NoneOpen, Opened, IsUnchanged, In, TempLeft
    <2> QED BY <2>4, <2>6 DEF SoundAt
  <1>7. CASE Add
    <2>1. Taking BY <1>2, <1>7 DEF Add, SoundAt
    <2>2. Taking' /\ adds' \subseteq versioned'
      BY <1>7, <2>1, SameRecord DEF Add, Taking, NoneOpen, Opened, In, TempLeft
    <2> QED BY <1>7, <2>2 DEF Add, SoundAt
  <1>8. CASE CommitChange
    <2>1. Taking /\ adds \subseteq versioned BY <1>2, <1>8 DEF CommitChange, SoundAt
    <2>2. IsUnchanged' /\ tree' \in Trees
          /\ \A f \in File : tree'[f] = IF f \in versioned THEN files[f] ELSE {}
      BY <1>3, <1>8, CommitLeaves DEF CommitChange
    <2>3. \A f \in File : f \in versioned \/ files[f] = {}
      BY <2>1 DEF Taking, In
    <2>4. tree' = files
      <3>1. \A f \in File : tree'[f] = files[f] BY <2>2, <2>3
      <3>2. tree' \in Trees /\ files \in Trees BY <1>3, <2>2 DEF TypeOK
      <3> QED BY <3>1, <3>2 DEF Trees
    <2>5. UNCHANGED <<depot, synced, have, pending, foreign, files, temp>> /\ pc' = "record"
      BY <1>8 DEF CommitChange
    <2>6. Taken'
      BY <2>1, <2>2, <2>4, <2>5, SameRecord
      DEF Taking, Taken, Agree, NoneOpen, Opened, TempLeft
    <2> QED BY <2>5, <2>6 DEF SoundAt
  <1>9. CASE Record
    <2>1. Taken /\ Newer(synced) # {} BY <1>2, <1>3, <1>9 DEF Record, SoundAt, AtStep
    <2>2. PICK k \in DOMAIN depot : depot[k].num = synced BY <1>3 DEF Numbered
    <2>3. k + 1 \in DOMAIN depot /\ NextChange(synced) = depot[k + 1]
      BY <1>3, <2>1, <2>2, NextIs
    <2>4. /\ UNCHANGED <<depot, have, pending, foreign, bzrVars, temp>>
          /\ synced' = depot[k + 1].num /\ pc' = "pull"
      BY <1>9, <2>1, <2>3 DEF Record, Taken
    <2>5. DepotAt(synced)' = depot[k + 1].tree
      BY <1>3, <2>3, <2>4, RecordKnownNext DEF RecordFacts
    <2>6. Agree(DepotAt(synced))' /\ IsUnchanged' /\ NoneOpen' /\ TempLeft'
      BY <2>1, <2>3, <2>4, <2>5
      DEF Taken, Agree, IsUnchanged, NoneOpen, Opened, In, TempLeft
    <2>7. Resting' BY <2>6, MirroredRestsNext DEF Mirrored
    <2> QED BY <2>4, <2>7 DEF SoundAt
  <1> QED BY <1>4, <1>5, <1>6, <1>7, <1>8, <1>9 DEF Pull

LEMMA SoundPush ==
    ASSUME BaseInv, BaseInv', PushThrough, SoundInv
    PROVE  SoundInv'
  <1> USE DEF p4Vars, bzrVars, diskVars, workVars, userVars, badVars
  <1>1. hurt => hurt'
    BY DEF PushThrough, NoRequest, StartPush, Merge, CreateChangelist, OpenFiles,
           WriteTemp, Submit, CommitPush, DeleteTemp, RevertOpened, RevertTree,
           DropChangelist, DropTemp
  <1>2. SUFFICES ASSUME SoundAt, ~hurt' PROVE SoundAt' BY <1>1 DEF SoundInv
  <1>3. TypeOK /\ TypeOK' /\ Numbered /\ Numbered' /\ AtStep BY DEF BaseInv
  <1>4. have \in Trees /\ tree \in Trees /\ files \in Trees BY <1>3 DEF TypeOK
  <1>5. have' \in Trees /\ tree' \in Trees /\ files' \in Trees BY <1>3 DEF TypeOK
  <1>6. CASE NoRequest
    <2>1. Mirrored /\ TempLeft BY <1>2, <1>6 DEF NoRequest, SoundAt
    <2>2. Mirrored' /\ TempLeft'
      BY <1>6, <2>1, SameRecord
      DEF NoRequest, Mirrored, Agree, NoneOpen, Opened, IsUnchanged, In, TempLeft
    <2> QED BY <1>6, <2>2, MirroredRestsNext DEF NoRequest, SoundAt
  <1>7. ASSUME NEW p \in Push, StartPush(p) PROVE SoundAt'
    <2>1. Mirrored /\ TempLeft BY <1>2, <1>7 DEF StartPush, SoundAt
    <2>2. Mirrored' /\ TempLeft'
      BY <1>7, <2>1, SameRecord
      DEF StartPush, Mirrored, Agree, NoneOpen, Opened, IsUnchanged, In, TempLeft
    <2>3. pc' \in {"idle", "merge"} BY <1>7, <2>1 DEF StartPush, Mirrored
    <2> QED BY <2>2, <2>3, MirroredRestsNext DEF SoundAt
  <1>8. CASE Merge
    <2>1. Mirrored /\ TempLeft BY <1>2, <1>8 DEF Merge, SoundAt
    <2>2. tree = DepotAt(synced) /\ have = tree /\ files = tree /\ versioned = In(tree)
          /\ NoneOpen
      BY <2>1 DEF Mirrored, Agree, IsUnchanged
    <2>3. ~\E f \in versioned : files[f] # tree[f] BY <2>2
    <2>4. /\ UNCHANGED <<depot, synced, have, pending, foreign, tree, temp>>
          /\ merging' = TRUE /\ versioned' = versioned \cup Touched(pushing)
          /\ \A f \in File \ Touched(pushing) : files'[f] = files[f]
          /\ pc' \in {"create", "rollback"}
      BY <1>8, <2>3 DEF Merge
    <2>5. NoneOpen' BY <2>2, <2>4 DEF NoneOpen, Opened
    <2>6. NoStrays' BY <2>2, <2>4 DEF NoStrays, In
    <2>7. Merged'
      BY <2>2, <2>4, <2>6, SameRecord DEF Merged, In
    <2>8. Undoing' BY <2>7, MergedUndoneNext
    <2>9. TempLeft' /\ TempThere' BY <1>3, <2>1, <2>4, LeftThereNext DEF TempLeft
    <2> QED BY <2>4, <2>5, <2>7, <2>8, <2>9 DEF SoundAt
  <1>9. CASE CreateChangelist
    <2>1. Merged /\ NoneOpen /\ TempLeft BY <1>2, <1>9 DEF CreateChangelist, SoundAt
    <2>2. UNCHANGED <<depot, synced, have, bzrVars, temp>> /\ pc' \in {"open", "rollback"}
      BY <1>9 DEF CreateChangelist
    <2>3. Merged' BY <2>1, <2>2, SameRecord DEF Merged, In, NoStrays
    <2>4. NoneOpen'
      <3>1. \A n \in DOMAIN pending : pending[n] = {}
        BY <2>1, PendingKnown DEF PendingFacts, NoneOpen
      <3>2. \A n \in DOMAIN pending' : pending'[n] = {} BY <1>9, <3>1 DEF CreateChangelist
      <3> QED BY <3>2, PendingKnownNext DEF PendingFacts, NoneOpen
    <2>5. Undoing' BY <2>3, MergedUndoneNext
    <2>6. foreign \subseteq foreign' BY <1>9 DEF CreateChangelist
    <2>7. TempLeft' /\ TempThere' BY <1>3, <2>1, <2>2, <2>6, LeftThereNext DEF TempLeft
    <2> QED BY <2>2, <2>3, <2>4, <2>5, <2>7 DEF SoundAt
  <1>10. CASE OpenFiles
    <2>1. Merged /\ NoneOpen /\ TempLeft BY <1>2, <1>10 DEF OpenFiles, SoundAt
    <2>2. UNCHANGED <<depot, synced, have, foreign, bzrVars, temp, number>>
          /\ pc' \in {"write temp", "rollback"}
      BY <1>10 DEF OpenFiles
    <2>3. Merged' BY <2>1, <2>2, SameRecord DEF Merged, In, NoStrays
    <2>4. pc' = "write temp" => AllOpened'
      <3>1. \A n \in DOMAIN pending : pending[n] = {}
        BY <2>1, PendingKnown DEF PendingFacts, NoneOpen
      <3>2. Changed' = Changed BY <2>2 DEF Changed, Work
      <3>3. pc' = "write temp" => pending' = [pending EXCEPT ![number] = Changed]
        BY <1>10 DEF OpenFiles
      <3> QED BY <2>2, <3>1, <3>2, <3>3 DEF AllOpened
    <2>5. Undoing' BY <2>3, MergedUndoneNext
    <2>6. TempLeft' /\ TempThere' BY <1>3, <2>1, <2>2, LeftThereNext DEF TempLeft
    <2> QED BY <2>2, <2>3, <2>4, <2>5, <2>6 DEF SoundAt
  <1>11. CASE WriteTemp
    <2>1. Merged /\ AllOpened BY <1>2, <1>11 DEF WriteTemp, SoundAt
    <2>2. Merged' /\ AllOpened'
      BY <1>11, <2>1, SameRecord
      DEF WriteTemp, Merged, In, NoStrays, AllOpened, Changed, Work
    <2> QED BY <1>11, <2>2 DEF WriteTemp, SoundAt
  <1>12. CASE Submit
    <2>1. Merged /\ AllOpened /\ pc = "submit" /\ UNCHANGED <<bzrVars, diskVars, number>>
      BY <1>2, <1>12 DEF Submit, SoundAt
    <2>2. temp = number /\ number \in DOMAIN pending BY <1>3, <2>1 DEF AtStep
    <2>3. CASE pc' = "rollback" /\ UNCHANGED p4Vars
      <3>1. Merged' BY <2>1, <2>3, SameRecord DEF Merged, In, NoStrays
      <3>2. TempThere' BY <2>1, <2>2, <2>3 DEF TempThere
      <3> QED BY <2>3, <3>1, <3>2, MergedUndoneNext DEF SoundAt
    <2>4. CASE Accept
      <3>1. /\ pc' = "commit push" /\ \A f \in File :
                  have'[f] = IF f \in pending[temp] THEN files[f] ELSE have[f]
        BY <2>4 DEF Accept
      <3>2. pending[temp] = Changed BY <2>1, <2>2 DEF AllOpened
      <3>3. \A f \in File : f \notin Changed => have[f] = files[f]
        BY <2>1 DEF Changed, Work, Merged, NoStrays, In
      <3>4. files' = have'
        <4>1. \A f \in File : have'[f] = files'[f] BY <2>1, <3>1, <3>2, <3>3
        <4> QED BY <1>5, <4>1 DEF Trees
      <3>5. NoStrays' BY <2>1 DEF Merged, NoStrays
      <3>6. /\ DOMAIN depot' = DOMAIN depot \cup {Len(depot) + 1}
            /\ \A k \in DOMAIN depot : depot'[k] = depot[k]
            /\ DOMAIN pending' = DOMAIN pending \ {temp}
            /\ \A n \in DOMAIN pending' : pending'[n] = pending[n]
        BY <2>1, <2>4, AcceptFacts
      <3>7. NoneOpen'
        <4>1. \A n \in DOMAIN pending' : pending'[n] = {}
          BY <2>1, <2>2, <3>6 DEF AllOpened
        <4> QED BY <4>1, PendingKnownNext DEF PendingFacts, NoneOpen
      <3>8. Newer(synced)' # {}
        <4>1. PICK k \in DOMAIN depot : depot[k].num = synced BY <1>3 DEF Numbered
        <4>2. k \in DOMAIN depot' /\ depot'[k].num = synced' BY <2>1, <3>6, <4>1
        <4>3. Newer(synced)' = {j \in DOMAIN depot' : k < j}
          BY <1>3, <4>2, RecordKnownNext DEF RecordFacts
        <4>4. Len(depot) + 1 \in DOMAIN depot' /\ k < Len(depot) + 1
          BY <1>3, <3>6, <4>1, DepotFacts
        <4> QED BY <4>3, <4>4
      <3> QED BY <3>1, <3>4, <3>5, <3>7, <3>8 DEF SoundAt, InPerforce
    <2> QED BY <1>12, <2>3, <2>4 DEF Submit
  <1>13. CASE CommitPush
    <2>1. InPerforce BY <1>2, <1>13 DEF CommitPush, SoundAt
    <2>2. UNCHANGED <<depot, synced, have, pending, files, temp>> /\ pc' = "delete temp"
      BY <1>13 DEF CommitPush
    <2>3. IsUnchanged' /\ \A f \in File : tree'[f] = IF f \in versioned THEN files[f] ELSE {}
      BY <1>3, <1>13, CommitLeaves DEF CommitPush
    <2>4. tree' = files'
      <3>1. \A f \in File : tree'[f] = files'[f]
        BY <2>1, <2>2, <2>3 DEF InPerforce, NoStrays
      <3> QED BY <1>5, <3>1 DEF Trees
    <2>5. Committed'
      BY <2>1, <2>2, <2>3, <2>4, SameRecord
      DEF InPerforce, Committed, Agree, NoneOpen, Opened
    <2> QED BY <2>2, <2>5 DEF SoundAt
  <1>14. CASE DeleteTemp
    <2>1. Committed BY <1>2, <1>14 DEF DeleteTemp, SoundAt
    <2>2. IsUnchanged BY <2>1 DEF Committed
    <2>3. UNCHANGED <<depot, synced, have, pending, bzrVars>> /\ temp' = 0 /\ pc' = "idle"
      BY <1>14, <2>2 DEF DeleteTemp, FinishPush
    <2>4. Resting'
      BY <2>1, <2>3, SameRecord
      DEF Committed, Resting, Agree, NoneOpen, Opened, IsUnchanged, In, TempLeft
    <2> QED BY <2>3, <2>4 DEF SoundAt
  <1>15. CASE RevertOpened
    <2>1. Undoing /\ TempThere BY <1>2, <1>15 DEF RevertOpened, SoundAt
    <2>2. /\ UNCHANGED <<depot, synced, have, tree, versioned, merging, temp>>
          /\ DOMAIN pending' = DOMAIN pending /\ pc' = "revert"
          /\ \A f \in File : have[f] = {} => files'[f] = files[f]
      BY <1>15 DEF RevertOpened
    <2>3. NoneOpen' BY <1>2, <1>15 DEF RevertOpened, NoneOpen
    <2>4. Undoing' BY <2>1, <2>2, SameRecord DEF Undoing
    <2>5. TempThere' BY <2>1, <2>2 DEF TempThere
    <2> QED BY <2>2, <2>3, <2>4, <2>5 DEF SoundAt
  <1>16. CASE RevertTree
    <2>1. Undoing /\ TempThere /\ NoneOpen BY <1>2, <1>16 DEF RevertTree, SoundAt
    <2>2. /\ UNCHANGED <<depot, synced, have, pending, tree, temp>> /\ pc' = "drop"
          /\ versioned' = In(tree) /\ merging' = FALSE
          /\ \A f \in File : files'[f] = IF tree[f] # {} \/ (merging /\ f \in versioned)
                                         THEN tree[f] ELSE files[f]
      BY <1>16 DEF RevertTree, BzrRevert
    <2>3. files' = tree'
      <3>1. \A f \in File : files'[f] = tree'[f] BY <2>1, <2>2 DEF Undoing
      <3> QED BY <1>5, <3>1 DEF Trees
    <2>4. Mirrored'
      BY <2>1, <2>2, <2>3, SameRecord
      DEF Undoing, Mirrored, Agree, IsUnchanged, In, NoneOpen, Opened
    <2>5. TempThere' BY <2>1, <2>2 DEF TempThere
    <2> QED BY <2>2, <2>4, <2>5 DEF SoundAt
  <1>17. CASE DropChangelist
    <2>1. Mirrored /\ TempThere BY <1>2, <1>17 DEF DropChangelist, SoundAt
    <2>2. /\ UNCHANGED <<depot, synced, have, foreign, bzrVars, temp>>
          /\ DOMAIN pending' \subseteq DOMAIN pending
          /\ \A n \in DOMAIN pending' : pending'[n] = pending[n]
          /\ pc' = "drop temp" \/ (pc' = "idle" /\ temp \notin DOMAIN pending \ foreign)
      BY <1>17 DEF DropChangelist, Restrict, FinishPush
    <2>3. NoneOpen'
      <3>1. \A n \in DOMAIN pending : pending[n] = {}
        BY <2>1, PendingKnown DEF PendingFacts, NoneOpen, Mirrored
      <3> QED BY <2>2, <3>1, PendingKnownNext DEF PendingFacts, NoneOpen
    <2>4. Mirrored' BY <2>1, <2>2, <2>3, SameRecord DEF Mirrored, Agree, IsUnchanged, In
    <2>5. pc' = "idle" => TempLeft' BY <2>1, <2>2 DEF TempThere, TempLeft
    <2> QED BY <2>2, <2>4, <2>5, MirroredRestsNext DEF SoundAt
  <1>18. CASE DropTemp
    <2>1. Mirrored BY <1>2, <1>18 DEF DropTemp, SoundAt
    <2>2. Mirrored' /\ temp' = 0 /\ pc' = "idle"
      BY <1>18, <2>1, SameRecord
      DEF DropTemp, FinishPush, Mirrored, Agree, NoneOpen, Opened, IsUnchanged, In
    <2> QED BY <2>2, MirroredRestsNext DEF SoundAt, TempLeft
  <1> QED BY <1>6, <1>7, <1>8, <1>9, <1>10, <1>11, <1>12, <1>13, <1>14, <1>15, <1>16,
             <1>17, <1>18 DEF PushThrough

\* A failed command or a crash ends a pull where the next one begins, and brings a
\* push to where rollback begins.
LEMMA SoundTrouble ==
    ASSUME BaseInv, BaseInv', CommandFails \/ Crash, SoundInv
    PROVE  SoundInv'
  <1> USE DEF p4Vars, bzrVars, diskVars
  <1>1. SUFFICES ASSUME ~hurt' PROVE SoundAt' BY DEF SoundInv
  <1>2. SoundAt /\ ~AddsLost BY <1>1 DEF SoundInv, CommandFails, Crash
  <1>3. TypeOK /\ Numbered /\ AtStep BY DEF BaseInv
  <1>4. UNCHANGED <<p4Vars, bzrVars, diskVars>> BY DEF CommandFails, Crash
  <1>5. /\ Resting => Resting'
        /\ Undoing => Undoing'
        /\ TempThere => TempThere'
    BY <1>4, SameRecord
    DEF Resting, Undoing, TempThere, TempLeft, Agree, NoneOpen, Opened, IsUnchanged, In
  <1>6. ASSUME pc \in {"pop", "merge"} \cup Pulling PROVE Resting
    <2>1. CASE pc \in {"pop", "merge"} BY <1>2, <2>1, MirroredRests DEF SoundAt
    <2>2. CASE pc \in {"pull", "sync"} BY <1>2, <2>2 DEF SoundAt
    <2>3. CASE pc \in {"add", "commit"}
      <3>1. Taking /\ adds = {} BY <1>2, <2>3 DEF SoundAt, AddsLost
      <3>2. Newer(synced) # {} BY <1>3, <2>3 DEF AtStep
      <3> QED BY <3>1, <3>2 DEF Taking, Resting, IsUnchanged
    <2>4. CASE pc = "record"
      <3>1. Taken BY <1>2, <2>4 DEF SoundAt
      <3>2. Newer(synced) # {} BY <1>3, <2>4 DEF AtStep
      <3> QED BY <3>1, <3>2 DEF Taken, Resting, IsUnchanged, Agree
    <2> QED BY <1>6, <2>1, <2>2, <2>3, <2>4 DEF Pulling
  <1>7. ASSUME pc \in PushingOn PROVE Undoing /\ TempThere
    <2>1. CASE pc = "merge"
      BY <1>2, <1>3, <2>1, LeftThere DEF SoundAt, Mirrored, Agree, Undoing
    <2>2. CASE pc \in {"create", "open", "write temp"}
      BY <1>2, <1>3, <2>2, MergedUndone, LeftThere DEF SoundAt
    <2>3. CASE pc = "submit"
      BY <1>2, <1>3, <2>3, MergedUndone DEF SoundAt, TempThere, AtStep
    <2> QED BY <1>7, <2>1, <2>2, <2>3 DEF PushingOn
  <1>8. CASE CommandFails
    <2>1. \/ pc \in Pulling /\ pc' = "idle"
          \/ pc \in PushingOn /\ pc' = "rollback"
      BY <1>1, <1>8 DEF CommandFails
    <2> QED BY <1>5, <1>6, <1>7, <2>1 DEF SoundAt
  <1>9. CASE Crash
    <2>1. pc # "idle" /\ pc' = "idle" /\ (pushing = None \/ pc = "merge")
      BY <1>1, <1>9 DEF Crash
    <2>2. pc \in {"pop", "merge"} \cup Pulling BY <1>3, <2>1 DEF AtStep
    <2> QED BY <1>5, <1>6, <2>1, <2>2 DEF SoundAt
  <1> QED BY <1>8, <1>9

LEMMA SoundStep == BaseInv /\ SoundInv /\ [Next]_vars => SoundInv'
  <1> SUFFICES ASSUME BaseInv, SoundInv, [Next]_vars PROVE SoundInv' OBVIOUS
  <1>1. BaseInv' /\ DepotKept BY BaseStep
  <1>2. CASE UNCHANGED vars \/ People
    <2>1. UNCHANGED <<have, pending, foreign, bzrVars, diskVars, pc, workVars, hurt>>
      BY <1>2 DEF vars, p4Vars, badVars, People, UserSubmits, SessionBranches
    <2> QED BY <1>1, <2>1, SoundKept
  <1> QED BY <1>1, <1>2, SoundPull, SoundPush, SoundTrouble DEF Next

\* After every pull the branch, the files and the workspace are those of the
\* changelist on record, with nothing open in Perforce and nothing to commit in
\* bzr, however the pushes before it ended. .scm-conduit-temp is gone, or has the
\* number of a changelist that a user other than the conduit's own left pending.
THEOREM MirrorIsExact == Spec => []MirrorExact
  <1>1. BaseInv /\ SoundInv => MirrorExact
    BY DEF SoundInv, SoundAt, MirrorExact, Mirrored, Agree, IsUnchanged, NoneOpen, TempLeft
  <1> QED BY <1>1, BaseInit, SoundInit, BaseStep, SoundStep, PTL DEF Spec
=============================================================================
