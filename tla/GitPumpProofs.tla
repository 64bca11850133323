--------------------------- MODULE GitPumpProofs ----------------------------
(***************************************************************************)
(* Whatever fails, races or crashes, the changelist on record has a tag,   *)
(* no changelist is passed over, and everything keeps its type.            *)
(*                                                                         *)
(* The pump writes the record one step after the tag, of a number it keeps *)
(* in newStuff meanwhile: what the first invariant needs besides is that a *)
(* pump about to record a number has its tag, made now or found. No tag is *)
(* ever taken away. The second needs that newStuff always holds the very   *)
(* numbers that follow the one on record, whoever submits meanwhile. The   *)
(* types need the second, and what each step relies on when it takes the   *)
(* head of a sequence. What is built commit by commit (git cherry, a       *)
(* rebase) is a function on 0..n, whose values are typed since there is no *)
(* least number at which they are not.                                     *)
(***************************************************************************)
EXTENDS GitPump, FiniteSetTheorems, SequenceTheorems, NaturalsInduction,
        WellFoundedInduction, TLAPS

RecordsATagged == pc = "record" => Head(newStuff) \in DOMAIN tags

TagInv == SyncedIsTagged /\ RecordsATagged

-----------------------------------------------------------------------------
\* An exception never leads on to the record.
LEMMA ThrownElsewhere == Thrown => pc' # "record"
  BY DEF Thrown

\* The first tag is that of the first changelist, which is on record.
LEMMA InitTagInv == Init => TagInv
  BY DEF Init, TagInv, SyncedIsTagged, RecordsATagged

\* Steps that neither tag nor record, and do not go on to record.
LEMMA QuietSteps ==
    ASSUME TagInv, tags' = tags, synced' = synced, pc' # "record"
    PROVE  TagInv'
  BY DEF TagInv, SyncedIsTagged, RecordsATagged

\* The steps of a pull.
LEMMA PullKeepsTagInv == TagInv /\ Pull => TagInv'
  <1> SUFFICES ASSUME TagInv, Pull PROVE TagInv'
    OBVIOUS
  <1>1. CASE StartPull
    BY <1>1, ThrownElsewhere, QuietSteps DEF StartPull, refVars
  <1>2. CASE CheckoutMaster
    BY <1>2, ThrownElsewhere, QuietSteps DEF CheckoutMaster
  <1>3. CASE BranchIncoming
    BY <1>3, ThrownElsewhere, QuietSteps DEF BranchIncoming
  <1>4. CASE NextChange
    <2>1. tags' = tags /\ synced' = synced /\ newStuff' = newStuff
      BY <1>4 DEF NextChange, refVars, workVars
    <2>2. pc' = "record" => Head(newStuff) \in DOMAIN tags
      BY <1>4, ThrownElsewhere DEF NextChange, HasTag
    <2> QED
      BY <2>1, <2>2 DEF TagInv, SyncedIsTagged, RecordsATagged
  <1>5. CASE Sync
    BY <1>5, QuietSteps DEF Sync, refVars
  <1>6. CASE Stage
    BY <1>6, ThrownElsewhere, QuietSteps DEF Stage, refVars
  <1>7. CASE CommitChange
    BY <1>7, ThrownElsewhere, QuietSteps DEF CommitChange
  <1>8. CASE TagChange
    <2>1. DOMAIN tags' = DOMAIN tags \cup {Head(newStuff)}
      BY <1>8 DEF TagChange, Tagged
    <2>2. synced' = synced /\ newStuff' = newStuff
      BY <1>8 DEF TagChange, workVars
    <2> QED
      BY <2>1, <2>2 DEF TagInv, SyncedIsTagged, RecordsATagged
  <1>9. CASE Record
    <2>1. tags' = tags /\ pc' # "record"
      BY <1>9, ThrownElsewhere DEF Record, refVars
    <2>2. synced' \in {synced, Head(newStuff)}
      BY <1>9 DEF Record
    <2>3. Head(newStuff) \in DOMAIN tags
      BY <1>9 DEF Record, TagInv, RecordsATagged
    <2> QED
      BY <2>1, <2>2, <2>3 DEF TagInv, SyncedIsTagged, RecordsATagged
  <1>10. CASE Rebase
    BY <1>10, ThrownElsewhere, QuietSteps DEF Rebase, refVars
  <1> QED
    BY <1>1, <1>2, <1>3, <1>4, <1>5, <1>6, <1>7, <1>8, <1>9, <1>10 DEF Pull

\* The steps of a push.
LEMMA PushKeepsTagInv == TagInv /\ PushThrough => TagInv'
  <1> SUFFICES ASSUME TagInv, PushThrough PROVE TagInv'
    OBVIOUS
  <1>1. CASE NoRequest
    BY <1>1, QuietSteps DEF NoRequest, refVars
  <1>2. CASE \E p \in Push : StartPush(p)
    BY <1>2, QuietSteps DEF StartPush, refVars
  <1>3. CASE MergeRev
    BY <1>3, ThrownElsewhere, QuietSteps DEF MergeRev
  <1>4. CASE OpenFiles
    BY <1>4, QuietSteps DEF OpenFiles, refVars
  <1>5. CASE Submit
    BY <1>5, QuietSteps DEF Submit, refVars
  <1>6. CASE TagPush
    <2>1. DOMAIN tags \subseteq DOMAIN tags'
      <3>1. CASE final.renamed
        BY <1>6, <3>1 DEF TagPush
      <3>2. CASE ~final.renamed
        <4>1. tags' = Tagged(final.num, master)
          BY <1>6, <3>2 DEF TagPush
        <4> QED
          BY <4>1 DEF Tagged
      <3> QED
        BY <3>1, <3>2
    <2>2. synced' = synced /\ pc' # "record"
      BY <1>6 DEF TagPush
    <2> QED
      BY <2>1, <2>2 DEF TagInv, SyncedIsTagged, RecordsATagged
  <1>7. CASE NextRev
    BY <1>7, QuietSteps DEF NextRev, refVars
  <1>8. CASE ResetPush
    BY <1>8, QuietSteps DEF ResetPush
  <1>9. CASE RevertOpened
    BY <1>9, QuietSteps DEF RevertOpened, refVars
  <1>10. CASE ResetFiles
    BY <1>10, QuietSteps DEF ResetFiles, GiveUpPush
  <1> QED
    BY <1>1, <1>2, <1>3, <1>4, <1>5, <1>6, <1>7, <1>8, <1>9, <1>10 DEF PushThrough

\* What people do meanwhile, failures and crashes.
LEMMA OthersKeepTagInv == TagInv /\ (People \/ CommandFails \/ Crash) => TagInv'
  <1> SUFFICES ASSUME TagInv, People \/ CommandFails \/ Crash PROVE TagInv'
    OBVIOUS
  <1>1. CASE People
    <2>1. tags' = tags /\ synced' = synced /\ pc' = pc /\ newStuff' = newStuff
      BY <1>1 DEF People, UserSubmits, SessionClones, refVars, workVars
    <2> QED
      BY <2>1 DEF TagInv, SyncedIsTagged, RecordsATagged
  <1>2. CASE CommandFails
    BY <1>2, ThrownElsewhere, QuietSteps DEF CommandFails, GiveUpPush, refVars
  <1>3. CASE Crash
    BY <1>3, QuietSteps DEF Crash, refVars
  <1> QED
    BY <1>1, <1>2, <1>3

-----------------------------------------------------------------------------
\* For any files, edits, pushes and rare events: the number recorded as synced
\* has a tag, so that a pull after a failure or a restart finds the branch point.
THEOREM RecordHasTag == Spec => []SyncedIsTagged
  <1>1. TagInv /\ [Next]_vars => TagInv'
    <2> SUFFICES ASSUME TagInv, [Next]_vars PROVE TagInv'
      OBVIOUS
    <2>1. CASE Next
      BY <2>1, PullKeepsTagInv, PushKeepsTagInv, OthersKeepTagInv DEF Next
    <2>2. CASE UNCHANGED vars
      BY <2>2 DEF vars, refVars, workVars, TagInv, SyncedIsTagged, RecordsATagged
    <2> QED
      BY <2>1, <2>2
  <1>2. TagInv => SyncedIsTagged
    BY DEF TagInv
  <1> QED
    BY InitTagInv, <1>1, <1>2, PTL DEF Spec

-----------------------------------------------------------------------------
(* The changelists that a pull imports                                      *)

\* The depot's numbers ascend, the record has one of them, and none of them is
\* that of the pending changelist.
Numbered ==
    /\ \E S : depot \in Seq(S)
    /\ counter \in Nat /\ pending \in 0..counter
    /\ \A k \in DOMAIN depot : depot[k].num \in 1..counter /\ depot[k].num # pending
    /\ \A j, k \in DOMAIN depot : j < k => depot[j].num < depot[k].num
    /\ \E j \in DOMAIN depot : depot[j].num = synced
    /\ pc = "submit" => pending # 0

Importing == {"next", "sync", "stage", "commit", "tag", "record"}

\* What is left to import are the changelists right after the one on record.
Follows(j) ==
    /\ j \in DOMAIN depot /\ depot[j].num = synced
    /\ \A k \in 1..Len(newStuff) : j + k \in DOMAIN depot /\ newStuff[k] = depot[j + k].num

InOrder ==
    /\ newStuff \in Seq(Nat)
    /\ pc \in Importing => \E j \in DOMAIN depot : Follows(j)
    /\ pc \in Importing \ {"next"} => newStuff # <<>>

OrderInv == Numbered /\ InOrder

LEMMA DepotFacts ==
    ASSUME Numbered
    PROVE  /\ DOMAIN depot = 1..Len(depot) /\ Len(depot) \in Nat
           /\ \A k \in DOMAIN depot : depot[k].num \in Nat \ {0}
  <1>1. PICK S : depot \in Seq(S) BY DEF Numbered
  <1>2. \A k \in DOMAIN depot : depot[k].num \in Nat \ {0} BY DEF Numbered
  <1> QED BY <1>1, <1>2

LEMMA DepotGrows ==
    ASSUME Numbered, NEW d, depot' = Append(depot, d)
    PROVE  /\ \E S : depot' \in Seq(S)
           /\ DOMAIN depot' = DOMAIN depot \cup {Len(depot) + 1}
           /\ \A k \in DOMAIN depot : depot'[k] = depot[k]
           /\ depot'[Len(depot) + 1] = d
  <1>1. PICK S : depot \in Seq(S) BY DEF Numbered
  <1>2. depot \in Seq(S \cup {d}) BY <1>1
  <1>3. /\ depot' \in Seq(S \cup {d})
        /\ DOMAIN depot' = DOMAIN depot \cup {Len(depot) + 1}
        /\ \A k \in DOMAIN depot : depot'[k] = depot[k]
        /\ depot'[Len(depot) + 1] = d
    BY <1>2
  <1> QED BY <1>3

\* What changesBetween returns: the numbers after that on record, oldest first.
LEMMA ChangesAre ==
    ASSUME Numbered, NEW j \in DOMAIN depot, depot[j].num = synced
    PROVE  ChangesSince(synced) = [k \in 1..(Len(depot) - j) |-> depot[j + k].num]
  <1> DEFINE later == {i \in DOMAIN depot : depot[i].num > synced}
             size  == Len(depot) - j
  <1>1. /\ DOMAIN depot = 1..Len(depot) /\ Len(depot) \in Nat
        /\ \A k \in DOMAIN depot : depot[k].num \in Nat
    BY DepotFacts
  <1>2. later = (j + 1)..Len(depot)
    <2>1. \A i \in DOMAIN depot : depot[i].num > synced <=> i > j
      <3> TAKE i \in DOMAIN depot
      <3>1. i < j => depot[i].num < depot[j].num BY DEF Numbered
      <3>2. j < i => depot[j].num < depot[i].num BY DEF Numbered
      <3> QED BY <1>1, <3>1, <3>2
    <2> QED BY <1>1, <2>1
  <1>3. j + 1 \in Int /\ Len(depot) \in Int /\ size \in Nat BY <1>1
  <1> HIDE DEF later
  <1>4. Cardinality(later) = size
    <2>1. Cardinality((j + 1)..Len(depot)) =
              IF j + 1 > Len(depot) THEN 0 ELSE Len(depot) - (j + 1) + 1
      BY <1>3, FS_Interval
    <2> QED BY <1>1, <1>2, <2>1
  <1>5. Listed(synced) = [k \in 1..size |-> depot[Len(depot) + 1 - k].num]
    BY <1>4 DEF Listed, later
  <1>6. \A k \in 1..size : depot[Len(depot) + 1 - k].num \in Nat
    BY <1>1
  <1>7. Listed(synced) \in Seq(Nat) /\ Len(Listed(synced)) = size
    BY <1>3, <1>5, <1>6
  <1>8. ChangesSince(synced) = [i \in 1..size |-> Listed(synced)[(size - i) + 1]]
    BY <1>7 DEF ChangesSince, Reverse
  <1>9. \A i \in 1..size : Listed(synced)[(size - i) + 1] = depot[j + i].num
    <2> TAKE i \in 1..size
    <2>1. (size - i) + 1 \in 1..size /\ Len(depot) + 1 - ((size - i) + 1) = j + i
      BY <1>1, <1>3
    <2> QED BY <1>5, <2>1
  <1> QED BY <1>8, <1>9

LEMMA OrderInit == Init => OrderInv
  <1> SUFFICES ASSUME Init PROVE OrderInv OBVIOUS
  <1> DEFINE d == [num |-> 1, tree |-> Everything]
  <1>1. depot \in Seq({d}) /\ DOMAIN depot = {1} /\ depot[1] = d /\ d.num = 1
    BY DEF Init
  <1>2. counter = 1 /\ pending = 0 /\ synced = 1 /\ pc = "idle" /\ newStuff = <<>>
    BY DEF Init
  <1>3. Numbered BY <1>1, <1>2 DEF Numbered
  <1>4. InOrder BY <1>2 DEF InOrder, Importing
  <1> QED BY <1>3, <1>4 DEF OrderInv

\* Steps that only move the pump, or work on git.
LEMMA NumberedStays ==
    ASSUME Numbered, UNCHANGED <<depot, counter, synced>>,
           pending' = pending \/ pending' = 0, pc' = "submit" => pending' # 0
    PROVE  Numbered'
  BY DEF Numbered

LEMMA OrderStays ==
    ASSUME InOrder, UNCHANGED <<depot, synced, newStuff>>,
           pc' \in Importing => pc \in Importing /\ (pc' = "next" \/ newStuff # <<>>)
    PROVE  InOrder'
  BY DEF InOrder, Follows

\* A submit, or a user's.
LEMMA OrderGrows ==
    ASSUME OrderInv, NEW t, NEW n \in Nat, depot' = Append(depot, [num |-> n, tree |-> t]),
           \A k \in DOMAIN depot : depot[k].num < n,
           counter' \in Nat, n \in 1..counter', counter <= counter',
           pending' \in 0..counter, pending' # n, pending' = pending \/ pending' = 0,
           pc' = "submit" => pending' # 0,
           UNCHANGED <<synced, newStuff>>, pc' \in Importing => pc' = pc
    PROVE  OrderInv'
  <1> DEFINE d == [num |-> n, tree |-> t]
  <1>1. d.num = n OBVIOUS
  <1> HIDE DEF d
  <1>2. /\ \E S : depot' \in Seq(S)
        /\ DOMAIN depot' = DOMAIN depot \cup {Len(depot) + 1}
        /\ \A k \in DOMAIN depot : depot'[k] = depot[k]
        /\ depot'[Len(depot) + 1] = d
    BY DepotGrows DEF OrderInv, d
  <1>3. /\ DOMAIN depot = 1..Len(depot) /\ Len(depot) \in Nat
        /\ \A k \in DOMAIN depot : depot[k].num \in Nat \ {0}
    BY DepotFacts DEF OrderInv
  <1>4. counter \in Nat /\ \A k \in DOMAIN depot : depot[k].num \in 1..counter
                                                   /\ depot[k].num # pending
    BY DEF OrderInv, Numbered
  <1>5. \A k \in DOMAIN depot' : depot'[k].num \in 1..counter' /\ depot'[k].num # pending'
    <2> TAKE k \in DOMAIN depot'
    <2>1. CASE k \in DOMAIN depot BY <1>2, <1>3, <1>4, <2>1
    <2>2. CASE k = Len(depot) + 1 BY <1>1, <1>2, <2>2
    <2> QED BY <1>2, <2>1, <2>2
  <1>6. \A j, k \in DOMAIN depot' : j < k => depot'[j].num < depot'[k].num
    <2> SUFFICES ASSUME NEW j \in DOMAIN depot', NEW k \in DOMAIN depot', j < k
                 PROVE  depot'[j].num < depot'[k].num
      OBVIOUS
    <2>1. j \in DOMAIN depot BY <1>2, <1>3
    <2>2. CASE k \in DOMAIN depot BY <1>2, <2>1, <2>2 DEF OrderInv, Numbered
    <2>3. CASE k = Len(depot) + 1 BY <1>1, <1>2, <2>1, <2>3
    <2> QED BY <1>2, <2>2, <2>3
  <1>7. \E j \in DOMAIN depot' : depot'[j].num = synced'
    BY <1>2 DEF OrderInv, Numbered
  <1>8. pending' \in 0..counter' BY <1>4
  <1>9. Numbered' BY <1>2, <1>5, <1>6, <1>7, <1>8 DEF Numbered
  <1>10. \A j \in DOMAIN depot : Follows(j) => Follows(j)'
    BY <1>2 DEF Follows
  <1>11. InOrder' BY <1>2, <1>10 DEF OrderInv, InOrder
  <1> QED BY <1>9, <1>11 DEF OrderInv

LEMMA OrderPull ==
    ASSUME OrderInv, Pull
    PROVE  OrderInv'
  <1> USE DEF p4Vars, refVars, diskVars, workVars, userVars
  <1>0. Numbered /\ InOrder BY DEF OrderInv
  <1>1. pc' \notin {"submit"} /\ UNCHANGED <<depot, counter, pending>>
    BY DEF Pull, StartPull, CheckoutMaster, BranchIncoming, NextChange, Sync, Stage,
           CommitChange, TagChange, Record, Rebase, Thrown
  <1>2. CASE StartPull \/ CheckoutMaster \/ Rebase
    <2>1. UNCHANGED <<synced, newStuff>> /\ pc' \notin Importing
      BY <1>2 DEF StartPull, CheckoutMaster, Rebase, Thrown, Importing
    <2> QED BY <1>0, <1>1, <2>1, NumberedStays, OrderStays DEF OrderInv
  <1>3. CASE BranchIncoming
    <2>1. synced' = synced BY <1>3 DEF BranchIncoming
    <2>2. Numbered' BY <1>0, <1>1, <2>1, NumberedStays
    <2>3. CASE pc' = "next"
      <3>1. newStuff' = ChangesSince(synced) BY <1>3, <2>3 DEF BranchIncoming, Thrown
      <3>2. PICK j \in DOMAIN depot : depot[j].num = synced BY <1>0 DEF Numbered
      <3>3. newStuff' = [k \in 1..(Len(depot) - j) |-> depot[j + k].num]
        BY <1>0, <3>1, <3>2, ChangesAre
      <3>4. /\ DOMAIN depot = 1..Len(depot) /\ Len(depot) \in Nat
            /\ \A k \in DOMAIN depot : depot[k].num \in Nat
        BY <1>0, DepotFacts
      <3>5. \A k \in 1..(Len(depot) - j) : j + k \in DOMAIN depot BY <3>2, <3>4
      <3>6. newStuff' \in Seq(Nat) /\ Len(newStuff') = Len(depot) - j
        BY <3>2, <3>3, <3>4, <3>5
      <3>7. Follows(j)' BY <1>1, <2>1, <3>2, <3>3, <3>5, <3>6 DEF Follows
      <3> QED BY <1>1, <2>2, <2>3, <3>6, <3>7 DEF OrderInv, InOrder, Importing
    <2>4. CASE pc' # "next"
      <3>1. newStuff' = newStuff /\ pc' \notin Importing
        BY <1>3, <2>4 DEF BranchIncoming, Thrown, Importing
      <3> QED BY <1>0, <1>1, <2>1, <2>2, <3>1, OrderStays DEF OrderInv
    <2> QED BY <2>3, <2>4
  <1>4. CASE NextChange \/ Sync \/ Stage \/ CommitChange \/ TagChange
    <2>1. UNCHANGED <<synced, newStuff>>
      BY <1>4 DEF NextChange, Sync, Stage, CommitChange, TagChange
    <2>2. pc' \in Importing => pc \in Importing /\ newStuff # <<>>
      BY <1>0, <1>4
      DEF InOrder, NextChange, Sync, Stage, CommitChange, TagChange, Thrown, Importing
    <2> QED BY <1>0, <1>1, <2>1, <2>2, NumberedStays, OrderStays DEF OrderInv
  <1>5. CASE Record
    <2>1. CASE pc' = "next"
      <3>1. synced' = Head(newStuff) /\ newStuff' = Tail(newStuff)
        BY <1>5, <2>1 DEF Record, Thrown
      <3>2. PICK j \in DOMAIN depot : Follows(j)
        BY <1>0, <1>5 DEF InOrder, Record, Importing
      <3>3. newStuff \in Seq(Nat) /\ newStuff # <<>>
        BY <1>0, <1>5 DEF InOrder, Record, Importing
      <3>4. /\ synced' = newStuff[1] /\ newStuff' \in Seq(Nat)
            /\ Len(newStuff) \in Nat \ {0} /\ Len(newStuff') = Len(newStuff) - 1
            /\ \A k \in 1..Len(newStuff') : newStuff'[k] = newStuff[k + 1]
        BY <3>1, <3>3
      <3>5. j \in Nat BY <1>0, DepotFacts
      <3>6. j + 1 \in DOMAIN depot /\ depot[j + 1].num = synced'
        BY <3>2, <3>4 DEF Follows
      <3>7. \A k \in 1..Len(newStuff') :
                (j + 1) + k \in DOMAIN depot /\ newStuff'[k] = depot[(j + 1) + k].num
        <4> TAKE k \in 1..Len(newStuff')
        <4>1. k + 1 \in 1..Len(newStuff) /\ j + (k + 1) = (j + 1) + k BY <3>4, <3>5
        <4> QED BY <3>2, <3>4, <4>1 DEF Follows
      <3>8. Follows(j + 1)' BY <1>1, <3>6, <3>7 DEF Follows
      <3>9. Numbered' BY <1>0, <1>1, <3>6 DEF Numbered
      <3>10. InOrder' BY <1>1, <2>1, <3>4, <3>6, <3>8 DEF InOrder, Importing
      <3> QED BY <3>9, <3>10 DEF OrderInv
    <2>2. CASE pc' # "next"
      <3>1. UNCHANGED <<synced, newStuff>> /\ pc' \notin Importing
        BY <1>5, <2>2 DEF Record, Thrown, Importing
      <3> QED BY <1>0, <1>1, <3>1, NumberedStays, OrderStays DEF OrderInv
    <2> QED BY <2>1, <2>2
  <1> QED BY <1>2, <1>3, <1>4, <1>5 DEF Pull

LEMMA OrderPush ==
    ASSUME OrderInv, PushThrough
    PROVE  OrderInv'
  <1> USE DEF p4Vars, refVars, diskVars, workVars, userVars
  <1>0. Numbered /\ InOrder BY DEF OrderInv
  <1>1. synced' = synced /\ newStuff' = newStuff /\ pc' \notin Importing
    BY DEF PushThrough, NoRequest, StartPush, MergeRev, OpenFiles, Submit, TagPush,
           NextRev, ResetPush, RevertOpened, ResetFiles, GiveUpPush, Thrown, Importing
  <1>2. CASE OpenFiles
    <2>1. depot' = depot /\ counter \in Nat BY <1>0, <1>2 DEF OpenFiles, Numbered
    <2>2. \/ counter' = counter /\ pending' = pending /\ pc' # "submit"
          \/ counter' = counter + 1 /\ pending' = counter + 1
      BY <1>2 DEF OpenFiles
    <2>3. Numbered' BY <1>0, <1>1, <2>1, <2>2 DEF Numbered
    <2> QED BY <1>0, <1>1, <2>1, <2>3, OrderStays DEF OrderInv
  <1>3. CASE Submit
    <2>1. pc = "submit" /\ pending \in 1..counter /\ counter \in Nat
      <3>1. pc = "submit" BY <1>3 DEF Submit
      <3>2. pending # 0 /\ pending \in 0..counter /\ counter \in Nat
        BY <1>0, <3>1 DEF Numbered
      <3> QED BY <3>1, <3>2
    <2>2. CASE depot' = depot
      <3>1. UNCHANGED p4Vars /\ pc' = "reset"
        <4>1. ~\E d : depot' = Append(depot, d)
          <5> SUFFICES ASSUME NEW d, depot' = Append(depot, d) PROVE FALSE OBVIOUS
          <5>1. Len(depot) + 1 \in DOMAIN depot BY <1>0, <2>2, DepotGrows
          <5> QED BY <1>0, <5>1, DepotFacts
        <4> QED BY <1>3, <4>1 DEF Submit
      <3> QED BY <1>0, <1>1, <3>1, NumberedStays, OrderStays DEF OrderInv
    <2>3. CASE depot' # depot
      <3> DEFINE num == IF counter = pending THEN pending ELSE counter + 1
                 t   == [f \in File |-> IF f \in opened THEN files[f] ELSE DepotHead[f]]
      <3>1. /\ depot' = Append(depot, [num |-> num, tree |-> t])
            /\ counter' = num /\ pending' = 0 /\ pc' = "tag push"
        BY <1>3, <2>3 DEF Submit
      <3>2. /\ num \in Nat /\ num \in 1..counter' /\ counter <= counter'
            /\ pending' \in 0..counter /\ pending' # num /\ counter' \in Nat
        <4>1. num \in Nat \ {0} BY <2>1
        <4>2. counter <= num BY <2>1
        <4>3. 0 \in 0..counter BY <2>1
        <4> HIDE DEF num, t
        <4>4. counter' = num /\ pending' = 0 BY <3>1
        <4>5. num \in 1..num BY <4>1
        <4> QED BY <4>1, <4>2, <4>3, <4>4, <4>5
      <3>3. \A k \in DOMAIN depot : depot[k].num < num
        BY <1>0, <2>1 DEF Numbered
      <3> HIDE DEF num, t
      <3> QED BY <1>1, <3>1, <3>2, <3>3, OrderGrows
    <2> QED BY <2>2, <2>3
  <1>4. CASE ~(OpenFiles \/ Submit)
    <2>1. /\ UNCHANGED <<depot, counter>> /\ pc' # "submit"
          /\ pending' = pending \/ pending' = 0
      BY <1>4 DEF PushThrough, NoRequest, StartPush, MergeRev, TagPush, NextRev, ResetPush,
                  RevertOpened, ResetFiles, GiveUpPush, Thrown
    <2> QED BY <1>0, <1>1, <2>1, NumberedStays, OrderStays DEF OrderInv
  <1> QED BY <1>2, <1>3, <1>4

LEMMA OrderOthers ==
    ASSUME OrderInv, People \/ CommandFails \/ Crash
    PROVE  OrderInv'
  <1> USE DEF p4Vars, refVars, diskVars, workVars, userVars
  <1>0. Numbered /\ InOrder BY DEF OrderInv
  <1>1. ASSUME NEW e \in UserEdit, UserSubmits(e) PROVE OrderInv'
    <2> DEFINE t == [DepotHead EXCEPT ![FileOf[e]] = @ \cup {e}]
    <2>1. /\ depot' = Append(depot, [num |-> counter + 1, tree |-> t])
          /\ counter' = counter + 1 /\ UNCHANGED <<pending, synced, newStuff, pc>>
      BY <1>1 DEF UserSubmits
    <2>2. counter \in Nat /\ pending \in 0..counter BY <1>0 DEF Numbered
    <2>3. /\ counter + 1 \in Nat /\ counter' \in Nat /\ counter + 1 \in 1..counter'
          /\ counter <= counter' /\ pending' \in 0..counter /\ pending' # counter + 1
      BY <2>1, <2>2
    <2>4. \A k \in DOMAIN depot : depot[k].num < counter + 1
      BY <1>0, <2>2 DEF Numbered
    <2>5. pc' = "submit" => pending' # 0 BY <1>0, <2>1 DEF Numbered
    <2> HIDE DEF t
    <2> QED BY <2>1, <2>3, <2>4, <2>5, OrderGrows
  <1>2. CASE \E p \in Push : SessionClones(p)
    <2>1. UNCHANGED <<depot, counter, pending, synced, newStuff, pc>>
      BY <1>2 DEF SessionClones
    <2> QED BY <1>0, <2>1 DEF OrderInv, Numbered, InOrder, Follows
  <1>3. CASE CommandFails \/ Crash
    <2>1. UNCHANGED <<depot, counter, pending, synced, newStuff>>
      BY <1>3 DEF CommandFails, Crash
    <2>2. pc' \notin Importing \cup {"submit"}
      BY <1>3 DEF CommandFails, Crash, Thrown, GiveUpPush, Importing
    <2> QED BY <1>0, <2>1, <2>2, NumberedStays, OrderStays DEF OrderInv
  <1> QED BY <1>1, <1>2, <1>3 DEF People

LEMMA OrderStep == OrderInv /\ [Next]_vars => OrderInv'
  <1> SUFFICES ASSUME OrderInv, [Next]_vars PROVE OrderInv' OBVIOUS
  <1>1. CASE UNCHANGED vars
    BY <1>1 DEF vars, p4Vars, workVars, OrderInv, Numbered, InOrder, Follows
  <1> QED BY <1>1, OrderPull, OrderPush, OrderOthers DEF Next

\* Whatever fails, races or crashes, the record moves from one changelist to the
\* next: a pull lists those after the record, oldest first, imports the first of
\* them, and nobody submits in between.
THEOREM NothingSkipped == Spec => NoChangelistSkipped
  <1>1. OrderInv /\ [Next]_vars =>
            [synced' # synced =>
                \E k \in 1..(Len(depot) - 1) :
                    depot[k].num = synced /\ depot[k + 1].num = synced']_vars
    <2> SUFFICES ASSUME OrderInv, [Next]_vars, synced' # synced
                 PROVE  \E k \in 1..(Len(depot) - 1) :
                            depot[k].num = synced /\ depot[k + 1].num = synced'
      OBVIOUS
    <2>1. Record /\ synced' = Head(newStuff)
      BY DEF Next, vars, Pull, StartPull, CheckoutMaster, BranchIncoming, NextChange, Sync,
             Stage, CommitChange, TagChange, Record, Rebase, PushThrough, NoRequest,
             StartPush, MergeRev, OpenFiles, Submit, TagPush, NextRev, ResetPush,
             RevertOpened, ResetFiles, People, UserSubmits, SessionClones, CommandFails, Crash
    <2>2. PICK j \in DOMAIN depot : Follows(j)
      BY <2>1 DEF Record, OrderInv, InOrder, Importing
    <2>3. newStuff \in Seq(Nat) /\ newStuff # <<>>
      BY <2>1 DEF Record, OrderInv, InOrder, Importing
    <2>4. 1 \in 1..Len(newStuff) /\ Head(newStuff) = newStuff[1] BY <2>3
    <2>5. j + 1 \in DOMAIN depot /\ depot[j + 1].num = synced' /\ depot[j].num = synced
      BY <2>1, <2>2, <2>4 DEF Follows
    <2>6. DOMAIN depot = 1..Len(depot) /\ Len(depot) \in Nat
      BY DepotFacts DEF OrderInv
    <2>7. j \in 1..(Len(depot) - 1) BY <2>5, <2>6
    <2> QED BY <2>5, <2>7
  <1> QED BY <1>1, OrderInit, OrderStep, PTL DEF Spec, NoChangelistSkipped

-----------------------------------------------------------------------------
(* Least and greatest numbers, and functions defined by recursion on one      *)

LEMMA LeastNumber ==
    ASSUME NEW S \in SUBSET Nat, S # {}
    PROVE  \E m \in S : \A n \in S : m <= n
  <1>1. \E m \in S : \A n \in S : <<n, m>> \notin OpToRel(<, Nat)
    BY WFMin, NatLessThanWellFounded
  <1>2. PICK m \in S : \A n \in S : <<n, m>> \notin OpToRel(<, Nat) BY <1>1
  <1>3. ASSUME NEW n \in S PROVE m <= n
    <2>1. n \in Nat /\ m \in Nat OBVIOUS
    <2>2. ~(n < m) BY <1>2, <2>1, Zenon DEF OpToRel
    <2> QED BY <2>1, <2>2
  <1> QED BY <1>3

LEMMA GreatestNumber ==
    ASSUME NEW N \in Nat, NEW S \in SUBSET (0..N), S # {}
    PROVE  \E m \in S : \A n \in S : n <= m
  <1> DEFINE U == {m \in Nat : \A n \in S : n <= m}
  <1>1. N \in U OBVIOUS
  <1>2. PICK m \in U : \A u \in U : m <= u
    <2> HIDE DEF U
    <2>1. U \in SUBSET Nat /\ U # {} BY <1>1 DEF U
    <2> QED BY <2>1, LeastNumber
  <1>3. m \in S
    <2> SUFFICES ASSUME m \notin S PROVE FALSE OBVIOUS
    <2>1. m \in Nat /\ \A n \in S : n <= m BY <1>2
    <2>2. ASSUME NEW n \in S PROVE n \in Nat /\ n <= m - 1
      <3>1. n # m /\ n \in Nat /\ n <= m BY <2>1
      <3> QED BY <2>1, <3>1
    <2>3. m - 1 \in Nat
      <3>1. PICK n \in S : TRUE OBVIOUS
      <3>2. n \in Nat /\ n <= m - 1 BY <2>2
      <3> QED BY <2>1, <3>2
    <2>4. m - 1 \in U BY <2>2, <2>3
    <2> QED BY <1>2, <2>1, <2>4
  <1> QED BY <1>2, <1>3

\* A function with a given value at 0 and given steps, and that there is one.
Stepwise(f, base, N, next) == f[0] = base /\ \A n \in 1..N : f[n] = next[n][f[n - 1]]

LEMMA StepwiseExists ==
    ASSUME NEW X, NEW base \in X, NEW N \in Nat, NEW next \in [1..N -> [X -> X]]
    PROVE  \E f \in [0..N -> X] : Stepwise(f, base, N, next)
  <1> USE DEF Stepwise
  <1> DEFINE Upto(m) == \E f \in [0..m -> X] : Stepwise(f, base, m, next)
             Bad == {m \in 0..N : ~Upto(m)}
  <1>1. Upto(0)
    <2> DEFINE g == [k \in 0..0 |-> base]
    <2>1. g \in [0..0 -> X] /\ g[0] = base /\ 1..0 = {} OBVIOUS
    <2> HIDE DEF g
    <2> QED BY <2>1
  <1>2. ASSUME NEW m \in 1..N, Upto(m - 1) PROVE Upto(m)
    <2>1. PICK f \in [0..(m - 1) -> X] : Stepwise(f, base, m - 1, next) BY <1>2
    <2> DEFINE g == [k \in 0..m |-> IF k = m THEN next[m][f[m - 1]] ELSE f[k]]
    <2>2. f[m - 1] \in X /\ next[m] \in [X -> X] BY <2>1
    <2>3. next[m][f[m - 1]] \in X BY <2>2
    <2>4. g \in [0..m -> X] BY <2>1, <2>3
    <2>5. g[0] = base BY <2>1
    <2>6. ASSUME NEW n \in 1..m PROVE g[n] = next[n][g[n - 1]]
      <3>1. CASE n = m BY <3>1
      <3>2. CASE n # m BY <2>1, <3>2
      <3> QED BY <3>1, <3>2
    <2> HIDE DEF g
    <2> QED BY <2>4, <2>5, <2>6
  <1>3. Bad = {}
    <2> HIDE DEF Upto
    <2> SUFFICES ASSUME Bad # {} PROVE FALSE OBVIOUS
    <2>1. Bad \in SUBSET Nat OBVIOUS
    <2>2. PICK m \in Bad : \A n \in Bad : m <= n BY <2>1, LeastNumber
    <2>3. m # 0 BY <1>1
    <2>4. m \in 1..N /\ m - 1 \in 0..N /\ m - 1 \notin Bad BY <2>2, <2>3
    <2> QED BY <1>2, <2>2, <2>4
  <1> HIDE DEF Upto
  <1>4. Upto(N) BY <1>3
  <1> QED BY <1>4 DEF Upto

\* And any function with these steps stays in the sets they lead to.
LEMMA StepwiseStays ==
    ASSUME NEW X, NEW N \in Nat, NEW f, f[0] \in X[0],
           \A n \in 1..N : f[n - 1] \in X[n - 1] => f[n] \in X[n]
    PROVE  \A n \in 0..N : f[n] \in X[n]
  <1> DEFINE Bad == {m \in 0..N : f[m] \notin X[m]}
  <1> SUFFICES ASSUME Bad # {} PROVE FALSE OBVIOUS
  <1>1. Bad \in SUBSET Nat OBVIOUS
  <1>2. PICK m \in Bad : \A n \in Bad : m <= n BY <1>1, LeastNumber
  <1>3. m \in 1..N /\ m - 1 \in 0..N /\ m - 1 \notin Bad BY <1>2
  <1> QED BY <1>2, <1>3

-----------------------------------------------------------------------------
(* Commits, branches and their files                                        *)

Content == SUBSET (Edit \cup {First})
CommitSet == UNION {[from : [d -> Content], to : [d -> Content]] : d \in SUBSET File}

LEMMA CommitHas ==
    ASSUME NEW c \in CommitSet
    PROVE  /\ DOMAIN c.to \subseteq File
           /\ \A f \in DOMAIN c.to : c.from[f] \in Content /\ c.to[f] \in Content
  <1>1. PICK d \in SUBSET File : c \in [from : [d -> Content], to : [d -> Content]]
    BY DEF CommitSet
  <1>2. c.to \in [d -> Content] /\ c.from \in [d -> Content] BY <1>1
  <1> QED BY <1>2

LEMMA CommitTyped ==
    ASSUME NEW old \in Trees, NEW new \in Trees
    PROVE  Commit(old, new) \in CommitSet
  <1> DEFINE d == {f \in File : old[f] # new[f]}
  <1>1. [f \in d |-> old[f]] \in [d -> Content] /\ [f \in d |-> new[f]] \in [d -> Content]
    BY DEF Trees, Content
  <1>2. Commit(old, new) \in [from : [d -> Content], to : [d -> Content]]
    BY <1>1 DEF Commit
  <1>3. d \in SUBSET File OBVIOUS
  <1> HIDE DEF d
  <1> QED BY <1>2, <1>3 DEF CommitSet

LEMMA TreeTyped ==
    ASSUME commits \in Seq(CommitSet), NEW b \in Branches
    PROVE  Tree(b) \in Trees
  <1> SUFFICES ASSUME NEW f \in File PROVE Tree(b)[f] \in Content
    BY DEF Tree, Trees, Content
  <1> DEFINE here == {i \in b : f \in DOMAIN commits[i].to}
             last == CHOOSE i \in here : \A j \in here : j <= i
  <1>1. CASE here = {}
    <2>1. Tree(b)[f] = {} BY <1>1 DEF Tree
    <2> QED BY <2>1 DEF Content
  <1>2. CASE here # {}
    <2>1. Len(commits) \in Nat OBVIOUS
    <2>8. here \in SUBSET (0..Len(commits))
      <3>1. here \subseteq b OBVIOUS
      <3> HIDE DEF here
      <3> QED BY <2>1, <3>1 DEF Branches
    <2>2. \E i \in here : \A j \in here : j <= i
      <3> HIDE DEF here
      <3> QED BY <1>2, <2>1, <2>8, GreatestNumber
    <2>3. last \in here BY <2>2
    <2>4. last \in 1..Len(commits) /\ f \in DOMAIN commits[last].to BY <2>3 DEF Branches
    <2>5. commits[last] \in CommitSet BY <2>4
    <2>6. commits[last].to[f] \in Content BY <2>4, <2>5, CommitHas
    <2>7. Tree(b)[f] = commits[last].to[f] BY <1>2 DEF Tree
    <2> QED BY <2>6, <2>7
  <1> QED BY <1>1, <1>2

\* What is checked out.
LEMMA HeadTyped ==
    ASSUME commits \in Seq(CommitSet), master \in Branches, incoming \in Branches
    PROVE  HeadTree \in Trees
  BY TreeTyped DEF HeadTree

LEMMA CheckoutTyped ==
    ASSUME files \in Trees, index \in Trees, NEW t \in Trees, Checkout(t)
    PROVE  files' \in Trees /\ index' \in Trees
  BY DEF Checkout, Over, Trees

\* The files at a changelist that was submitted.
LEMMA DepotTyped ==
    ASSUME Numbered, NEW j \in DOMAIN depot, \A k \in DOMAIN depot : depot[k].tree \in Trees
    PROVE  DepotAt(depot[j].num) \in Trees /\ DepotHead \in Trees
  <1>1. /\ DOMAIN depot = 1..Len(depot) /\ Len(depot) \in Nat
        /\ \A k \in DOMAIN depot : depot[k].num \in Nat
    BY DepotFacts
  <1> DEFINE till == {i \in 1..Len(depot) : depot[i].num <= depot[j].num}
             last == CHOOSE i \in till : \A m \in till : m <= i
  <1>2. till \in SUBSET (0..Len(depot)) /\ j \in till BY <1>1
  <1>3. \E i \in till : \A m \in till : m <= i
    <2> HIDE DEF till
    <2> QED BY <1>1, <1>2, GreatestNumber
  <1>4. last \in till BY <1>3
  <1>5. DepotAt(depot[j].num) = depot[last].tree BY DEF DepotAt
  <1> QED BY <1>1, <1>4, <1>5 DEF DepotHead

-----------------------------------------------------------------------------
(* What git cherry and git rebase make                                      *)

\* Commits of a set in the order they were made, up to each number.
LEMMA AscendingIn ==
    ASSUME Len(commits) \in Nat, NEW S, NEW X, <<>> \in X[0],
           \A n \in 1..Len(commits) : \A x \in X[n - 1] :
               /\ n \in S => Append(x, n) \in X[n]
               /\ n \notin S => x \in X[n],
           \A n \in 0..Len(commits) : X[n] \subseteq Seq(S)
    PROVE  Ascending(S) \in X[Len(commits)]
  <1> DEFINE N == Len(commits)
             Y == Seq(S)
             base == <<>>
             Steps(f) == [n \in 0..N |-> IF n = 0 THEN base
                                         ELSE IF n \in S THEN Append(f[n - 1], n)
                                         ELSE f[n - 1]]
             upTo == CHOOSE f : f = Steps(f)
             next == [n \in 1..N |-> [x \in Y |-> IF n \in S THEN Append(x, n) ELSE x]]
  <1>1. Ascending(S) = upTo[N] BY DEF Ascending
  <1>2. \A n \in 1..N, x \in Y : (IF n \in S THEN Append(x, n) ELSE x) \in Y OBVIOUS
  <1>3. next \in [1..N -> [Y -> Y]] BY <1>2
  <1>4. N \in Nat OBVIOUS
  <1>5. base \in Y /\ base \in X[0] OBVIOUS
  <1>12. \A n \in 1..N : \A x \in X[n - 1] : (IF n \in S THEN Append(x, n) ELSE x) \in X[n]
    OBVIOUS
  <1> HIDE DEF N, Y, base
  <1>6. \E f : f = Steps(f)
    <2>1. PICK f \in [0..N -> Y] : Stepwise(f, base, N, next)
      <3> HIDE DEF next, Steps, upTo
      <3> QED BY <1>3, <1>4, <1>5, StepwiseExists
    <2> USE DEF Stepwise
    <2>2. ASSUME NEW n \in 0..N PROVE f[n] = Steps(f)[n]
      <3>1. CASE n = 0 BY <2>1, <3>1
      <3>2. CASE n # 0
        <4>1. n \in 1..N /\ n - 1 \in 0..N BY <1>4, <3>2
        <4>2. f[n - 1] \in Y BY <2>1, <4>1
        <4>3. f[n] = next[n][f[n - 1]] BY <2>1, <4>1
        <4>4. next[n][f[n - 1]] = IF n \in S THEN Append(f[n - 1], n) ELSE f[n - 1]
          BY <4>1, <4>2
        <4> QED BY <3>2, <4>3, <4>4
      <3> QED BY <3>1, <3>2
    <2>3. f = [n \in 0..N |-> f[n]] BY <2>1
    <2>4. f = Steps(f) BY <2>2, <2>3
    <2> QED BY <2>4
  <1>7. upTo = Steps(upTo)
    <2> HIDE DEF Steps
    <2> QED BY <1>6
  <1> HIDE DEF upTo
  <1>8. upTo[0] = base BY <1>4, <1>7
  <1>9. ASSUME NEW n \in 1..N, upTo[n - 1] \in X[n - 1] PROVE upTo[n] \in X[n]
    <2>1. n \in 0..N /\ n # 0 BY <1>4
    <2>2. upTo[n] = Steps(upTo)[n] BY <1>7
    <2>3. upTo[n] = IF n \in S THEN Append(upTo[n - 1], n) ELSE upTo[n - 1]
      BY <2>1, <2>2
    <2> QED BY <1>9, <1>12, <2>3
  <1>10. \A n \in 0..N : upTo[n] \in X[n]
    <2> HIDE DEF Steps
    <2> QED BY <1>4, <1>5, <1>8, <1>9, StepwiseStays
  <1>11. upTo[N] \in X[N] BY <1>4, <1>10
  <1> QED BY <1>1, <1>11 DEF N

LEMMA AscendingTyped ==
    ASSUME Len(commits) \in Nat, NEW S
    PROVE  Ascending(S) \in Seq(S)
  <1> DEFINE X == [n \in 0..Len(commits) |-> Seq(S)]
  <1>1. \A n \in 0..Len(commits) : X[n] = Seq(S) OBVIOUS
  <1>2. \A n \in 1..Len(commits) : n \in 0..Len(commits) /\ n - 1 \in 0..Len(commits)
    OBVIOUS
  <1>3. 0 \in 0..Len(commits) /\ Len(commits) \in 0..Len(commits) OBVIOUS
  <1> HIDE DEF X
  <1>7. <<>> \in Seq(S) /\ \A n \in S : \A x \in Seq(S) : Append(x, n) \in Seq(S) OBVIOUS
  <1>4. <<>> \in X[0]
    <2>1. X[0] = Seq(S) BY <1>1, <1>3
    <2> QED BY <1>7, <2>1
  <1>5. ASSUME NEW n \in 1..Len(commits), NEW x \in X[n - 1]
        PROVE  (n \in S => Append(x, n) \in X[n]) /\ (n \notin S => x \in X[n])
    <2>1. X[n] = Seq(S) /\ X[n - 1] = Seq(S) BY <1>1, <1>2
    <2> QED BY <1>7, <2>1
  <1>6. Ascending(S) \in X[Len(commits)] BY <1>1, <1>4, <1>5, AscendingIn
  <1> QED BY <1>1, <1>3, <1>6

\* What a rebase replays one commit on.
Replays == [ok : BOOLEAN, tree : Trees, made : Seq(CommitSet)]

LEMMA ReplayTyped ==
    ASSUME commits \in Seq(CommitSet), NEW i \in 1..Len(commits), NEW at \in Replays
    PROVE  Replay(at, i) \in Replays
  <1> DEFINE its == commits[i]
             changes == {f \in DOMAIN its.to : at.tree[f] # its.to[f]}
             new == [f \in File |-> IF f \in changes THEN its.to[f] ELSE at.tree[f]]
  <1>1. its \in CommitSet OBVIOUS
  <1>2. at.tree \in Trees /\ at.made \in Seq(CommitSet) /\ at.ok \in BOOLEAN
    BY DEF Replays
  <1>3. new \in Trees
    <2>1. ASSUME NEW f \in File
          PROVE  (IF f \in changes THEN its.to[f] ELSE at.tree[f]) \in Content
      <3>1. at.tree[f] \in Content BY <1>2 DEF Trees, Content
      <3>2. f \in changes => its.to[f] \in Content BY <1>1, CommitHas
      <3> QED BY <3>1, <3>2
    <2> HIDE DEF changes, its
    <2> QED BY <2>1 DEF Trees, Content
  <1> HIDE DEF new
  <1>4. Append(at.made, Commit(at.tree, new)) \in Seq(CommitSet)
    BY <1>2, <1>3, CommitTyped
  <1>5. [ok |-> TRUE, tree |-> new, made |-> Append(at.made, Commit(at.tree, new))] \in Replays
    BY <1>3, <1>4 DEF Replays
  <1>6. [at EXCEPT !.ok = FALSE] \in Replays BY DEF Replays
  <1>7. Replay(at, i) \in {[at EXCEPT !.ok = FALSE], at,
            [ok |-> TRUE, tree |-> new, made |-> Append(at.made, Commit(at.tree, new))]}
    BY DEF Replay, new
  <1> QED BY <1>5, <1>6, <1>7

\* What every replayed commit leads to, the rebase does.
LEMMA RebasedIn ==
    ASSUME commits \in Seq(CommitSet), NEW X,
           [ok |-> TRUE, tree |-> Tree(incoming), made |-> <<>>] \in X,
           \A n \in (1..Len(commits)) \cap (master \ incoming) : \A x \in X : Replay(x, n) \in X
    PROVE  Rebased \in X
  <1> DEFINE N == Len(commits)
             S == {i \in master \ incoming : ~\E j \in incoming \ master : SamePatch(i, j)}
             base == [ok |-> TRUE, tree |-> Tree(incoming), made |-> <<>>]
             Steps(f) == [n \in 0..N |-> IF n = 0 THEN base
                                         ELSE IF n \in S THEN Replay(f[n - 1], n)
                                         ELSE f[n - 1]]
             upTo == CHOOSE f : f = Steps(f)
             next == [n \in 1..N |-> [x \in X |-> IF n \in S THEN Replay(x, n) ELSE x]]
             sets == [n \in 0..N |-> X]
  <1>1. Rebased = upTo[N] BY DEF Rebased
  <1>2. N \in Nat OBVIOUS
  <1>3. base \in X OBVIOUS
  <1>4. \A n \in 1..N, x \in X : n \in S => Replay(x, n) \in X OBVIOUS
  <1> HIDE DEF N, base, S
  <1>5. next \in [1..N -> [X -> X]] BY <1>4
  <1>6. \E f : f = Steps(f)
    <2>1. PICK f \in [0..N -> X] : Stepwise(f, base, N, next)
      <3> HIDE DEF next, Steps, upTo, sets
      <3> QED BY <1>2, <1>3, <1>5, StepwiseExists
    <2> USE DEF Stepwise
    <2>2. ASSUME NEW n \in 0..N PROVE f[n] = Steps(f)[n]
      <3>1. CASE n = 0 BY <2>1, <3>1
      <3>2. CASE n # 0
        <4>1. n \in 1..N /\ n - 1 \in 0..N BY <1>2, <3>2
        <4>2. f[n - 1] \in X BY <2>1, <4>1
        <4>3. f[n] = next[n][f[n - 1]] BY <2>1, <4>1
        <4>4. next[n][f[n - 1]] = IF n \in S THEN Replay(f[n - 1], n) ELSE f[n - 1]
          BY <4>1, <4>2
        <4> QED BY <3>2, <4>3, <4>4
      <3> QED BY <3>1, <3>2
    <2>3. f = [n \in 0..N |-> f[n]] BY <2>1
    <2>4. f = Steps(f) BY <2>2, <2>3
    <2> QED BY <2>4
  <1>7. upTo = Steps(upTo)
    <2> HIDE DEF Steps
    <2> QED BY <1>6
  <1> HIDE DEF upTo
  <1>8. upTo[0] = base BY <1>2, <1>7
  <1>9. ASSUME NEW n \in 1..N, upTo[n - 1] \in X PROVE upTo[n] \in X
    <2>1. n \in 0..N /\ n # 0 BY <1>2
    <2>2. upTo[n] = Steps(upTo)[n] BY <1>7
    <2>3. upTo[n] = IF n \in S THEN Replay(upTo[n - 1], n) ELSE upTo[n - 1]
      BY <2>1, <2>2
    <2> QED BY <1>4, <1>9, <2>3
  <1>10. \A n \in 0..N : upTo[n] \in X
    <2>1. \A n \in 0..N : sets[n] = X OBVIOUS
    <2>2. \A n \in 1..N : n \in 0..N /\ n - 1 \in 0..N BY <1>2
    <2>3. 0 \in 0..N BY <1>2
    <2> HIDE DEF Steps, sets
    <2>4. upTo[0] \in sets[0] BY <1>3, <1>8, <2>1, <2>3
    <2>5. \A n \in 1..N : upTo[n - 1] \in sets[n - 1] => upTo[n] \in sets[n]
      BY <1>9, <2>1, <2>2
    <2>6. \A n \in 0..N : upTo[n] \in sets[n] BY <1>2, <2>4, <2>5, StepwiseStays
    <2> QED BY <2>1, <2>6
  <1> QED BY <1>1, <1>2, <1>10

LEMMA RebasedTyped ==
    ASSUME commits \in Seq(CommitSet), incoming \in Branches
    PROVE  Rebased \in Replays
  <1>1. [ok |-> TRUE, tree |-> Tree(incoming), made |-> <<>>] \in Replays
    <2>1. <<>> \in Seq(CommitSet) OBVIOUS
    <2> QED BY <2>1, TreeTyped DEF Replays
  <1>2. \A n \in (1..Len(commits)) \cap (master \ incoming) : \A x \in Replays :
            Replay(x, n) \in Replays
    BY ReplayTyped
  <1> QED BY <1>1, <1>2, RebasedIn

-----------------------------------------------------------------------------
(* Types                                                                    *)

Submitting == {"merge", "open", "submit", "tag push", "reset", "pull", "pushed"}

Shaped ==
    /\ commits \in Seq(CommitSet)
    /\ revs \in Seq([id : Nat, plus : BOOLEAN])
    /\ pc \in Submitting => pushing # None
    /\ pushing # None /\ pc \notin {"rollback", "clean up"} => revs # <<>>
    /\ pc = "tag push" => final.num # 0

TypeInv == OrderInv /\ TypeOK /\ Shaped

LEMMA TypeInit == Init => TypeInv
  <1> SUFFICES ASSUME Init PROVE TypeInv OBVIOUS
  <1>1. Everything \in Trees BY DEF Everything, Trees
  <1>2. Commit([f \in File |-> {}], Everything) \in CommitSet
    <2>1. [f \in File |-> {}] \in Trees BY DEF Trees
    <2> QED BY <1>1, <2>1, CommitTyped
  <1>3. commits \in Seq(CommitSet) /\ Len(commits) = 1
    <2> DEFINE c == Commit([f \in File |-> {}], Everything)
    <2>1. commits = <<c>> BY DEF Init
    <2> HIDE DEF c
    <2> QED BY <1>2, <2>1 DEF c
  <1>4. \A k \in 1..Len(depot) : depot[k].num = 1 /\ depot[k].tree = Everything
    BY DEF Init
  <1>5. /\ counter = 1 /\ pending = 0 /\ synced = 1 /\ pc = "idle" /\ pushing = None
        /\ have = Everything /\ files = Everything /\ index = Everything
        /\ opened = {} /\ changed = {} /\ newStuff = <<>> /\ revs = <<>>
        /\ master = {1} /\ incoming = {} /\ currentRev = {}
    BY DEF Init
  <1>6. /\ DOMAIN tags = {1} /\ tags[1] = {1}
        /\ head = "master" /\ unmerged = FALSE /\ rebasing = FALSE /\ oddTag = FALSE
        /\ final = [num |-> 0, renamed |-> FALSE]
        /\ clone = [p \in Push |-> {}] /\ verdict = [p \in Push |-> "none"]
    BY DEF Init
  <1>7. {} \in Branches /\ {1} \in Branches BY <1>3 DEF Branches
  <1>8. TypeOK
    <2>1. \A k \in 1..Len(depot) : depot[k].num \in 1..counter /\ depot[k].tree \in Trees
      BY <1>1, <1>4, <1>5
    <2>2. have \in Trees /\ files \in Trees /\ index \in Trees BY <1>1, <1>5
    <2>8. {master, incoming, currentRev} \subseteq Branches BY <1>5, <1>7
    <2>3. \A n \in DOMAIN tags : n \in 1..counter /\ tags[n] \in Branches
      <3>1. counter = 1 BY <1>5
      <3> QED BY <1>6, <1>7, <3>1
    <2>4. final \in [num : 0..counter, renamed : BOOLEAN] BY <1>5, <1>6
    <2>5. clone \in [Push -> Branches] BY <1>6, <1>7
    <2>6. verdict \in [Push -> {"none", "nothing", "ok", "failed", "lost"}] BY <1>6
    <2>7. /\ \A k \in 1..Len(newStuff) : newStuff[k] \in 1..counter
          /\ \A k \in 1..Len(revs) : revs[k] \in [id : 1..Len(commits), plus : BOOLEAN]
      BY <1>5
    <2> QED BY <1>5, <1>6, <2>1, <2>2, <2>3, <2>4, <2>5, <2>6, <2>7, <2>8 DEF TypeOK
  <1>9. Shaped BY <1>3, <1>5 DEF Shaped, Submitting
  <1> QED BY <1>8, <1>9, OrderInit DEF TypeInv

\* The parts of the type: files, what refers to commits, and the rest.
TreesTyped ==
    /\ \A k \in DOMAIN depot : depot[k].tree \in Trees
    /\ have \in Trees /\ files \in Trees /\ index \in Trees
    /\ opened \subseteq File /\ changed \subseteq File

RefsTyped ==
    /\ master \in Branches /\ incoming \in Branches /\ currentRev \in Branches
    /\ \A n \in DOMAIN tags : n \in 1..counter /\ tags[n] \in Branches
    /\ clone \in [Push -> Branches]
    /\ \A k \in 1..Len(revs) : revs[k] \in [id : 1..Len(commits), plus : BOOLEAN]

RestTyped ==
    /\ head \in {"master", "p4-incoming"}
    /\ unmerged \in BOOLEAN /\ rebasing \in BOOLEAN /\ oddTag \in BOOLEAN
    /\ pushing \in Push \cup {None}
    /\ \A k \in 1..Len(newStuff) : newStuff[k] \in 1..counter
    /\ final \in [num : 0..counter, renamed : BOOLEAN]
    /\ verdict \in [Push -> {"none", "nothing", "ok", "failed", "lost"}]

LEMMA TypeParts ==
    ASSUME Numbered
    PROVE  TypeOK <=> TreesTyped /\ RefsTyped /\ RestTyped
  <1>1. DOMAIN depot = 1..Len(depot) BY DepotFacts
  <1>2. /\ \A k \in DOMAIN depot : depot[k].num \in 1..counter
        /\ counter \in Nat /\ pending \in 0..counter /\ synced \in 1..counter
    BY DEF Numbered
  <1>3. TypeOK => TreesTyped BY <1>1 DEF TypeOK, TreesTyped
  <1>4. TypeOK => RefsTyped BY DEF TypeOK, RefsTyped
  <1>5. TypeOK => RestTyped BY DEF TypeOK, RestTyped
  <1>6. TreesTyped /\ RefsTyped /\ RestTyped => TypeOK
    BY <1>1, <1>2 DEF TypeOK, TreesTyped, RefsTyped, RestTyped
  <1> QED BY <1>3, <1>4, <1>5, <1>6

\* Later there are more commits, and more numbers.
Later == /\ counter \in Nat /\ counter' \in Nat /\ counter <= counter'
         /\ Len(commits) \in Nat /\ Len(commits') \in Nat /\ Len(commits) <= Len(commits')

LEMMA BranchesStay ==
    ASSUME Later, NEW b \in Branches
    PROVE  b \in Branches'
  BY DEF Later, Branches

LEMMA RefsStay ==
    ASSUME RefsTyped, Later, UNCHANGED <<tags, clone, revs>>,
           master' \in Branches', incoming' \in Branches', currentRev' \in Branches'
    PROVE  RefsTyped'
  <1>1. Branches \subseteq Branches' BY DEF Branches, Later
  <1>2. \A n \in DOMAIN tags' : n \in 1..counter' /\ tags'[n] \in Branches'
    BY <1>1 DEF RefsTyped, Later
  <1>3. clone' \in [Push -> Branches'] BY <1>1 DEF RefsTyped
  <1>4. \A k \in 1..Len(revs') : revs'[k] \in [id : 1..Len(commits'), plus : BOOLEAN]
    <2> SUFFICES ASSUME NEW k \in 1..Len(revs)
                 PROVE  revs[k] \in [id : 1..Len(commits'), plus : BOOLEAN]
      OBVIOUS
    <2>1. revs[k] \in [id : 1..Len(commits), plus : BOOLEAN] BY DEF RefsTyped
    <2>2. 1..Len(commits) \subseteq 1..Len(commits') BY DEF Later
    <2> QED BY <2>1, <2>2
  <1> QED BY <1>2, <1>3, <1>4 DEF RefsTyped

LEMMA RestStays ==
    ASSUME RestTyped, Later, UNCHANGED <<newStuff, final>>,
           head' \in {"master", "p4-incoming"},
           unmerged' \in BOOLEAN, rebasing' \in BOOLEAN, oddTag' \in BOOLEAN,
           pushing' \in Push \cup {None},
           verdict' \in [Push -> {"none", "nothing", "ok", "failed", "lost"}]
    PROVE  RestTyped'
  <1>1. 1..counter \subseteq 1..counter' /\ 0..counter \subseteq 0..counter' BY DEF Later
  <1> QED BY <1>1 DEF RestTyped

\* What is known before each step.
LEMMA TypeFacts ==
    ASSUME TypeInv
    PROVE  /\ Numbered /\ TreesTyped /\ RefsTyped /\ RestTyped /\ Shaped
           /\ commits \in Seq(CommitSet) /\ Len(commits) \in Nat /\ counter \in Nat
           /\ HeadTree \in Trees
  <1>1. Numbered /\ TypeOK /\ Shaped BY DEF TypeInv, OrderInv
  <1>2. TreesTyped /\ RefsTyped /\ RestTyped BY <1>1, TypeParts
  <1>3. commits \in Seq(CommitSet) /\ counter \in Nat BY <1>1 DEF Shaped, Numbered
  <1>4. HeadTree \in Trees BY <1>2, <1>3, HeadTyped DEF RefsTyped
  <1> QED BY <1>1, <1>2, <1>3, <1>4

LEMMA TypeBuilt ==
    ASSUME OrderInv', TreesTyped', RefsTyped', RestTyped', Shaped'
    PROVE  TypeInv'
  <1>1. Numbered' BY DEF OrderInv
  <1>2. DOMAIN depot' = 1..Len(depot')
    <2>1. PICK S : depot' \in Seq(S) BY <1>1 DEF Numbered
    <2> QED BY <2>1
  <1>3. /\ \A k \in DOMAIN depot' : depot'[k].num \in 1..counter'
        /\ counter' \in Nat /\ pending' \in 0..counter' /\ synced' \in 1..counter'
    BY <1>1 DEF Numbered
  <1>4. TypeOK' BY <1>2, <1>3 DEF TypeOK, TreesTyped, RefsTyped, RestTyped
  <1> QED BY <1>4 DEF TypeInv

\* Steps that make no commit and leave the push alone.
LEMMA ShapedStays ==
    ASSUME Shaped, UNCHANGED <<commits, revs, pushing>>,
           pc' \in Submitting => pushing # None,
           pushing # None /\ pc' \notin {"rollback", "clean up"} =>
               pc \notin {"rollback", "clean up"},
           pc' # "tag push"
    PROVE  Shaped'
  BY DEF Shaped

LEMMA TypePull ==
    ASSUME TypeInv, OrderInv', Pull
    PROVE  TypeInv'
  <1> USE DEF p4Vars, refVars, diskVars, workVars, userVars
  <1>0. /\ Numbered /\ TreesTyped /\ RefsTyped /\ RestTyped /\ Shaped
        /\ commits \in Seq(CommitSet) /\ Len(commits) \in Nat /\ counter \in Nat
        /\ HeadTree \in Trees
    BY TypeFacts
  <1>1. /\ UNCHANGED <<depot, counter, pending, opened, clone, pushing, revs, currentRev>>
        /\ UNCHANGED <<final, verdict>> /\ pc' # "tag push"
    BY DEF Pull, StartPull, CheckoutMaster, BranchIncoming, NextChange, Sync, Stage,
           CommitChange, TagChange, Record, Rebase, Thrown
  <1>2. /\ pc' \in Submitting => pushing # None
        /\ pushing # None /\ pc' \notin {"rollback", "clean up"} =>
               pc \notin {"rollback", "clean up"}
    BY DEF Pull, StartPull, CheckoutMaster, BranchIncoming, NextChange, Sync, Stage,
           CommitChange, TagChange, Record, Rebase, Thrown, Submitting
  <1>3. commits' = commits => Shaped' BY <1>0, <1>1, <1>2, ShapedStays
  <1>19. counter' = counter /\ counter \in Nat /\ Len(commits) \in Nat BY <1>0, <1>1
  <1>4. commits' = commits => Later /\ Branches' = Branches
    BY <1>19 DEF Later, Branches
  <1>5. master \in Branches /\ incoming \in Branches /\ currentRev \in Branches
    BY <1>0 DEF RefsTyped
  <1>6. Tree(master) \in Trees BY <1>0, <1>5, TreeTyped
  <1>7. /\ head \in {"master", "p4-incoming"}
        /\ unmerged \in BOOLEAN /\ rebasing \in BOOLEAN /\ oddTag \in BOOLEAN
        /\ pushing \in Push \cup {None}
        /\ verdict \in [Push -> {"none", "nothing", "ok", "failed", "lost"}]
        /\ files \in Trees /\ index \in Trees
    BY <1>0 DEF RestTyped, TreesTyped
  <1>8. ASSUME UNCHANGED <<refVars, diskVars, have, changed, newStuff>> PROVE TypeInv'
    <2>1. Later /\ Branches' = Branches BY <1>4, <1>8
    <2>2. TreesTyped' BY <1>0, <1>1, <1>8 DEF TreesTyped
    <2>3. RefsTyped' BY <1>0, <1>1, <1>5, <1>8, <2>1, RefsStay
    <2>4. RestTyped' BY <1>0, <1>1, <1>7, <1>8, <2>1, RestStays
    <2> QED BY <1>3, <1>8, <2>2, <2>3, <2>4, TypeBuilt
  <1>9. CASE StartPull BY <1>8, <1>9 DEF StartPull
  <1>10. CASE CheckoutMaster
    <2>0. UNCHANGED <<commits, master, have, changed, newStuff, tags, unmerged, rebasing, oddTag>>
      BY <1>10 DEF CheckoutMaster
    <2>1. Later /\ Branches' = Branches BY <1>4, <2>0
    <2>2. files' \in Trees /\ index' \in Trees
      BY <1>6, <1>7, <1>10, CheckoutTyped DEF CheckoutMaster
    <2>3. TreesTyped' BY <1>0, <1>1, <2>0, <2>2 DEF TreesTyped
    <2>4. incoming' \in Branches /\ head' \in {"master", "p4-incoming"}
      BY <1>5, <1>7, <1>10 DEF CheckoutMaster, Branches
    <2>5. RefsTyped' BY <1>0, <1>1, <1>5, <2>0, <2>1, <2>4, RefsStay
    <2>6. RestTyped' BY <1>0, <1>1, <1>7, <2>0, <2>1, <2>4, RestStays
    <2> QED BY <1>3, <2>0, <2>3, <2>5, <2>6, TypeBuilt
  <1>11. CASE BranchIncoming
    <2>0. UNCHANGED <<commits, master, have, changed, tags, unmerged, rebasing, oddTag>>
      BY <1>11 DEF BranchIncoming
    <2>1. Later /\ Branches' = Branches BY <1>4, <2>0
    <2>2. synced \in DOMAIN tags => tags[synced] \in Branches /\ Tree(tags[synced]) \in Trees
      BY <1>0, TreeTyped DEF RefsTyped
    <2>3. files' \in Trees /\ index' \in Trees
      BY <1>7, <1>11, <2>2, CheckoutTyped DEF BranchIncoming
    <2>4. TreesTyped' BY <1>0, <1>1, <2>0, <2>3 DEF TreesTyped
    <2>5. incoming' \in Branches
      BY <1>11, <2>2 DEF BranchIncoming, Branches
    <2>6. RefsTyped' BY <1>0, <1>1, <1>5, <2>0, <2>1, <2>5, RefsStay
    <2>7. \A k \in 1..Len(newStuff') : newStuff'[k] \in 1..counter
      <3>1. CASE newStuff' = newStuff BY <1>0, <3>1 DEF RestTyped
      <3>2. CASE newStuff' = ChangesSince(synced)
        <4>1. PICK j \in DOMAIN depot : depot[j].num = synced BY <1>0 DEF Numbered
        <4>2. ChangesSince(synced) = [k \in 1..(Len(depot) - j) |-> depot[j + k].num]
          BY <1>0, <4>1, ChangesAre
        <4>3. DOMAIN depot = 1..Len(depot) /\ Len(depot) \in Nat BY <1>0, DepotFacts
        <4>4. Len(depot) - j \in Nat BY <4>1, <4>3
        <4>5. Len(newStuff') = Len(depot) - j BY <3>2, <4>2, <4>4
        <4>6. \A k \in 1..(Len(depot) - j) : j + k \in DOMAIN depot BY <4>1, <4>3
        <4>7. \A k \in DOMAIN depot : depot[k].num \in 1..counter BY <1>0 DEF Numbered
        <4> QED BY <3>2, <4>2, <4>5, <4>6, <4>7
      <3> QED BY <1>11, <3>1, <3>2 DEF BranchIncoming
    <2>8. head' \in {"master", "p4-incoming"} BY <1>7, <1>11 DEF BranchIncoming
    <2>9. RestTyped' BY <1>0, <1>1, <2>0, <2>7, <2>8 DEF RestTyped
    <2> QED BY <1>3, <2>0, <2>4, <2>6, <2>9, TypeBuilt
  <1>12. CASE NextChange BY <1>8, <1>12 DEF NextChange
  <1>13. CASE Sync
    <2>0. UNCHANGED <<refVars, index, newStuff>> BY <1>13 DEF Sync
    <2>1. Later /\ Branches' = Branches BY <1>4, <2>0
    <2>2. pc = "sync" BY <1>13 DEF Sync
    <2>3. PICK j \in DOMAIN depot : Follows(j)
      BY <2>2 DEF TypeInv, OrderInv, InOrder, Importing
    <2>4. newStuff \in Seq(Nat) /\ newStuff # <<>>
      BY <2>2 DEF TypeInv, OrderInv, InOrder, Importing
    <2>5. 1 \in 1..Len(newStuff) /\ Head(newStuff) = newStuff[1] BY <2>4
    <2>6. j + 1 \in DOMAIN depot /\ Head(newStuff) = depot[j + 1].num
      BY <2>3, <2>5 DEF Follows
    <2>7. DepotAt(Head(newStuff)) \in Trees
      BY <1>0, <2>6, DepotTyped DEF TreesTyped
    <2>8. have' \in Trees /\ files' \in Trees /\ changed' \subseteq File
      <3>1. have' = DepotAt(Head(newStuff)) /\ changed' \subseteq File BY <1>13 DEF Sync
      <3>2. files' \in Trees BY <1>7, <1>13, <2>7 DEF Sync, Trees
      <3> QED BY <2>7, <3>1, <3>2
    <2>9. TreesTyped' BY <1>0, <1>1, <2>0, <2>8 DEF TreesTyped
    <2>10. RefsTyped' BY <1>0, <1>1, <1>5, <2>0, <2>1, RefsStay
    <2>11. RestTyped' BY <1>0, <1>1, <1>7, <2>0, <2>1, RestStays
    <2> QED BY <1>3, <2>0, <2>9, <2>10, <2>11, TypeBuilt
  <1>14. CASE Stage
    <2>0. UNCHANGED <<refVars, files, have, newStuff>> /\ changed' = {} BY <1>14 DEF Stage
    <2>1. Later /\ Branches' = Branches BY <1>4, <2>0
    <2>2. index' \in Trees BY <1>7, <1>14 DEF Stage, Trees
    <2>3. TreesTyped' BY <1>0, <1>1, <2>0, <2>2 DEF TreesTyped
    <2>4. RefsTyped' BY <1>0, <1>1, <1>5, <2>0, <2>1, RefsStay
    <2>5. RestTyped' BY <1>0, <1>1, <1>7, <2>0, <2>1, RestStays
    <2> QED BY <1>3, <2>0, <2>3, <2>4, <2>5, TypeBuilt
  <1>15. CASE CommitChange
    <2>0. UNCHANGED <<master, head, unmerged, rebasing, tags, oddTag, diskVars, have, changed,
                      newStuff>>
      BY <1>15 DEF CommitChange
    <2>1. CASE UNCHANGED <<commits, incoming>> BY <1>8, <2>0, <2>1
    <2>2. CASE /\ commits' = Append(commits, Commit(HeadTree, index))
               /\ incoming' = incoming \cup {Len(commits) + 1}
      <3>1. Commit(HeadTree, index) \in CommitSet BY <1>0, <1>7, CommitTyped
      <3>2. commits' \in Seq(CommitSet) /\ Len(commits') = Len(commits) + 1
        BY <1>0, <2>2, <3>1
      <3>3. Later BY <1>19, <3>2 DEF Later
      <3>4. master \in Branches' /\ incoming \in Branches' /\ currentRev \in Branches'
        BY <1>5, <3>3, BranchesStay
      <3>5. incoming' \in Branches'
        <4>1. incoming' = incoming \cup {Len(commits) + 1} BY <2>2
        <4>2. Len(commits) + 1 \in 1..Len(commits') BY <1>19, <3>2
        <4> QED BY <3>4, <4>1, <4>2 DEF Branches
      <3>6. TreesTyped' BY <1>0, <1>1, <2>0 DEF TreesTyped
      <3>7. RefsTyped' BY <1>0, <1>1, <2>0, <3>3, <3>4, <3>5, RefsStay
      <3>8. RestTyped' BY <1>0, <1>1, <1>7, <2>0, <3>3, RestStays
      <3>9. Shaped' BY <1>0, <1>1, <1>2, <3>2 DEF Shaped
      <3> QED BY <3>6, <3>7, <3>8, <3>9, TypeBuilt
    <2> QED BY <1>15, <2>1, <2>2 DEF CommitChange
  <1>16. CASE TagChange
    <2>0. UNCHANGED <<commits, master, incoming, head, unmerged, rebasing, oddTag, diskVars,
                      have, changed, newStuff>>
      BY <1>16 DEF TagChange
    <2>1. Later /\ Branches' = Branches BY <1>4, <2>0
    <2>2. pc = "tag" BY <1>16 DEF TagChange
    <2>3. newStuff \in Seq(Nat) /\ newStuff # <<>>
      BY <2>2 DEF TypeInv, OrderInv, InOrder, Importing
    <2>4. Head(newStuff) \in 1..counter
      <3>1. 1 \in 1..Len(newStuff) /\ Head(newStuff) = newStuff[1] BY <2>3
      <3> QED BY <1>0, <3>1 DEF RestTyped
    <2>5. tags' = Tagged(Head(newStuff), incoming) BY <1>16 DEF TagChange
    <2>6. \A n \in DOMAIN tags' : n \in 1..counter /\ tags'[n] \in Branches
      BY <1>0, <1>5, <2>4, <2>5 DEF Tagged, RefsTyped
    <2>7. TreesTyped' BY <1>0, <1>1, <2>0 DEF TreesTyped
    <2>8. RefsTyped' BY <1>0, <1>1, <2>0, <2>1, <2>6 DEF RefsTyped
    <2>9. RestTyped' BY <1>0, <1>1, <1>7, <2>0, <2>1, RestStays
    <2> QED BY <1>3, <2>0, <2>7, <2>8, <2>9, TypeBuilt
  <1>17. CASE Record
    <2>0. UNCHANGED <<refVars, diskVars, have, changed>> BY <1>17 DEF Record
    <2>1. Later /\ Branches' = Branches BY <1>4, <2>0
    <2>2. CASE newStuff' = newStuff BY <1>8, <2>0, <2>2
    <2>3. CASE newStuff' = Tail(newStuff)
      <3>1. newStuff \in Seq(Nat) /\ newStuff # <<>>
        BY <1>17 DEF Record, TypeInv, OrderInv, InOrder, Importing
      <3>2. Len(Tail(newStuff)) = Len(newStuff) - 1 /\ Len(newStuff) \in Nat
            /\ \A k \in 1..Len(Tail(newStuff)) : Tail(newStuff)[k] = newStuff[k + 1]
        BY <3>1
      <3>3. \A k \in 1..Len(newStuff') : newStuff'[k] \in 1..counter
        BY <1>0, <2>3, <3>2 DEF RestTyped
      <3>4. TreesTyped' BY <1>0, <1>1, <2>0 DEF TreesTyped
      <3>5. RefsTyped' BY <1>0, <1>1, <1>5, <2>0, <2>1, RefsStay
      <3>6. RestTyped' BY <1>0, <1>1, <2>0, <3>3 DEF RestTyped
      <3> QED BY <1>3, <2>0, <3>4, <3>5, <3>6, TypeBuilt
    <2> QED BY <1>17, <2>2, <2>3 DEF Record
  <1>18. CASE Rebase
    <2>0. UNCHANGED <<tags, oddTag, have, changed, newStuff>> BY <1>18 DEF Rebase
    <2>1. CASE UNCHANGED <<commits, master, incoming, head, diskVars>>
      <3>1. Later /\ Branches' = Branches BY <1>4, <2>1
      <3>2. unmerged' \in BOOLEAN /\ rebasing' \in BOOLEAN BY <1>7, <1>18 DEF Rebase
      <3>3. TreesTyped' BY <1>0, <1>1, <2>0, <2>1 DEF TreesTyped
      <3>4. RefsTyped' BY <1>0, <1>1, <1>5, <2>0, <2>1, <3>1, RefsStay
      <3>5. RestTyped' BY <1>0, <1>1, <1>7, <2>0, <2>1, <3>1, <3>2, RestStays
      <3> QED BY <1>3, <2>1, <3>3, <3>4, <3>5, TypeBuilt
    <2>2. CASE /\ Checkout(Tree(master)) /\ head' = "master" /\ incoming' = {}
               /\ UNCHANGED <<commits, master, unmerged, rebasing>>
      <3>1. Later /\ Branches' = Branches BY <1>4, <2>2
      <3>2. files' \in Trees /\ index' \in Trees BY <1>6, <1>7, <2>2, CheckoutTyped
      <3>3. TreesTyped' BY <1>0, <1>1, <2>0, <3>2 DEF TreesTyped
      <3>4. incoming' \in Branches BY <2>2 DEF Branches
      <3>5. RefsTyped' BY <1>0, <1>1, <1>5, <2>0, <2>2, <3>1, <3>4, RefsStay
      <3>6. RestTyped' BY <1>0, <1>1, <1>7, <2>0, <2>2, <3>1, RestStays
      <3> QED BY <1>3, <2>2, <3>3, <3>5, <3>6, TypeBuilt
    <2>3. CASE /\ commits' = commits \o Rebased.made
               /\ master' = incoming \cup (Len(commits) + 1)..Len(commits')
               /\ Checkout(Rebased.tree) /\ head' = "master" /\ incoming' = {}
               /\ UNCHANGED <<unmerged, rebasing>>
      <3>1. Rebased.made \in Seq(CommitSet) /\ Rebased.tree \in Trees
        BY <1>0, <1>5, RebasedTyped DEF Replays
      <3>2. /\ commits' \in Seq(CommitSet)
            /\ Len(commits') = Len(commits) + Len(Rebased.made) /\ Len(Rebased.made) \in Nat
        BY <1>0, <2>3, <3>1, ConcatProperties
      <3>3. Later BY <1>19, <3>2 DEF Later
      <3>4. incoming \in Branches' /\ currentRev \in Branches' BY <1>5, <3>3, BranchesStay
      <3>5. master' \in Branches'
        <4>1. master' = incoming \cup (Len(commits) + 1)..Len(commits') BY <2>3
        <4>2. (Len(commits) + 1)..Len(commits') \subseteq 1..Len(commits') BY <1>19
        <4> QED BY <3>4, <4>1, <4>2 DEF Branches
      <3>6. incoming' \in Branches' BY <2>3 DEF Branches
      <3>7. files' \in Trees /\ index' \in Trees BY <1>7, <2>3, <3>1, CheckoutTyped
      <3>8. TreesTyped' BY <1>0, <1>1, <2>0, <3>7 DEF TreesTyped
      <3>9. RefsTyped' BY <1>0, <1>1, <2>0, <3>3, <3>4, <3>5, <3>6, RefsStay
      <3>10. RestTyped' BY <1>0, <1>1, <1>7, <2>0, <2>3, <3>3, RestStays
      <3>11. Shaped' BY <1>0, <1>1, <1>2, <3>2 DEF Shaped
      <3> QED BY <3>8, <3>9, <3>10, <3>11, TypeBuilt
    <2> QED BY <1>18, <2>1, <2>2, <2>3 DEF Rebase
  <1> QED BY <1>9, <1>10, <1>11, <1>12, <1>13, <1>14, <1>15, <1>16, <1>17, <1>18 DEF Pull

\* The end of a push, or of its attempt.
PushStays == UNCHANGED <<pushing, revs, currentRev, verdict>>
PushGone ==
    /\ pushing' = None /\ revs' = <<>> /\ currentRev' = {}
    /\ \/ verdict' = verdict
       \/ \E v \in {"failed", "lost", "ok"} : verdict' = [verdict EXCEPT ![pushing] = v]

PushEnds == \/ PushStays /\ pc' \in {"rollback", "clean up"}
            \/ PushGone /\ pc' = "idle"

LEMMA TypePushEnds ==
    ASSUME TypeInv, OrderInv', UNCHANGED <<depot, counter, have, commits, incoming, head>>,
           UNCHANGED <<rebasing, tags, oddTag, newStuff, changed, final, clone>>,
           master' \in Branches, opened' \subseteq File, unmerged' \in BOOLEAN,
           files' \in Trees, index' \in Trees,
           PushEnds
    PROVE  TypeInv'
  <1>0. /\ Numbered /\ TreesTyped /\ RefsTyped /\ RestTyped /\ Shaped
        /\ commits \in Seq(CommitSet) /\ Len(commits) \in Nat /\ counter \in Nat
    BY TypeFacts
  <1>1. Branches' = Branches BY DEF Branches
  <1>2. TreesTyped' BY <1>0 DEF TreesTyped
  <1>3. /\ verdict' \in [Push -> {"none", "nothing", "ok", "failed", "lost"}]
        /\ pushing' \in Push \cup {None}
    BY <1>0 DEF RestTyped, PushEnds, PushStays, PushGone
  <1>7. revs' = revs \/ revs' = <<>> BY DEF PushEnds, PushStays, PushGone
  <1>8. pushing' # None /\ pc' \notin {"rollback", "clean up"} => FALSE
    BY DEF PushEnds, PushStays, PushGone
  <1>4. RestTyped' BY <1>0, <1>3 DEF RestTyped
  <1>5. RefsTyped'
    <2>1. currentRev' \in Branches BY <1>0 DEF RefsTyped, Branches, PushEnds, PushStays, PushGone
    <2>2. \A k \in 1..Len(revs') : revs'[k] \in [id : 1..Len(commits), plus : BOOLEAN]
      <3>1. CASE revs' = revs BY <1>0, <3>1 DEF RefsTyped
      <3>2. CASE revs' = <<>>
        <4>1. Len(revs') = 0 BY <3>2
        <4> QED BY <4>1
      <3> QED BY <1>7, <3>1, <3>2
    <2> QED BY <1>0, <1>1, <2>1, <2>2 DEF RefsTyped
  <1>6. Shaped'
    <2>1. pc' \notin Submitting /\ pc' # "tag push" BY DEF Submitting, PushEnds
    <2>2. revs' \in Seq([id : Nat, plus : BOOLEAN])
      <3>1. CASE revs' = revs BY <1>0, <3>1 DEF Shaped
      <3>2. CASE revs' = <<>>
        <4> DEFINE T == [id : Nat, plus : BOOLEAN]
        <4> HIDE DEF T
        <4>1. revs' \in Seq(T) BY <3>2
        <4> QED BY <4>1 DEF T
      <3> QED BY <1>7, <3>1, <3>2
    <2> QED BY <1>0, <1>8, <2>1, <2>2 DEF Shaped
  <1> QED BY <1>2, <1>4, <1>5, <1>6, TypeBuilt

\* The commits of a push that master lacks.
LEMMA CherryTyped ==
    ASSUME Len(commits) \in Nat, NEW p \in Push, clone[p] \in Branches
    PROVE  /\ Cherry(p) \in Seq([id : 1..Len(commits), plus : BOOLEAN])
           /\ Cherry(p) \in Seq([id : Nat, plus : BOOLEAN])
           /\ \A k \in 1..Len(Cherry(p)) :
                  Cherry(p)[k] \in [id : 1..Len(commits), plus : BOOLEAN]
  <1> DEFINE S == clone[p] \ master
             missing == Ascending(S)
             line == [k \in 1..Len(missing) |->
                 [id |-> missing[k],
                  plus |-> ~\E j \in master \ clone[p] : SamePatch(missing[k], j)]]
             R == [id : 1..Len(commits), plus : BOOLEAN]
             T == [id : Nat, plus : BOOLEAN]
  <1>1. missing \in Seq(S) BY AscendingTyped
  <1>2. Len(missing) \in Nat /\ \A k \in 1..Len(missing) : missing[k] \in S
    <2> HIDE DEF missing, S
    <2> QED BY <1>1
  <1>3. Cherry(p) = line BY DEF Cherry
  <1>4. \A i \in S : i \in 1..Len(commits) /\ i \in Nat BY DEF Branches
  <1>5. \A k \in 1..Len(missing) : line[k] \in R /\ line[k] \in T
    <2> HIDE DEF missing, S
    <2> QED BY <1>2, <1>4
  <1>6. line \in [1..Len(missing) -> R] /\ line \in [1..Len(missing) -> T]
    <2> HIDE DEF missing, S, R, T
    <2> QED BY <1>5
  <1> HIDE DEF missing, line, R, T
  <1>7. line \in Seq(R) /\ line \in Seq(T) /\ Len(line) = Len(missing) BY <1>2, <1>6
  <1> QED BY <1>3, <1>5, <1>7 DEF R, T

LEMMA TypePush ==
    ASSUME TypeInv, OrderInv', PushThrough
    PROVE  TypeInv'
  <1> USE DEF p4Vars, refVars, diskVars, workVars, userVars
  <1>0. /\ Numbered /\ TreesTyped /\ RefsTyped /\ RestTyped /\ Shaped
        /\ commits \in Seq(CommitSet) /\ Len(commits) \in Nat /\ counter \in Nat
        /\ HeadTree \in Trees
    BY TypeFacts
  <1>1. /\ UNCHANGED <<commits, incoming, head, rebasing, clone, synced, newStuff, changed>>
    BY DEF PushThrough, NoRequest, StartPush, MergeRev, OpenFiles, Submit, TagPush,
           NextRev, ResetPush, RevertOpened, ResetFiles
  <1>2. counter' \in Nat BY DEF OrderInv, Numbered
  <1>3. Branches' = Branches BY <1>1 DEF Branches
  <1>4. /\ master \in Branches /\ incoming \in Branches /\ currentRev \in Branches
        /\ clone \in [Push -> Branches]
    BY <1>0 DEF RefsTyped
  <1>5. Tree(master) \in Trees /\ Tree(currentRev) \in Trees BY <1>0, <1>4, TreeTyped
  <1>6. /\ head \in {"master", "p4-incoming"}
        /\ unmerged \in BOOLEAN /\ rebasing \in BOOLEAN /\ oddTag \in BOOLEAN
        /\ pushing \in Push \cup {None}
        /\ verdict \in [Push -> {"none", "nothing", "ok", "failed", "lost"}]
        /\ files \in Trees /\ index \in Trees /\ have \in Trees
        /\ opened \subseteq File /\ changed \subseteq File
        /\ \A k \in DOMAIN depot : depot[k].tree \in Trees
    BY <1>0 DEF RestTyped, TreesTyped
  <1>7. counter' = counter => Later BY <1>0, <1>1 DEF Later
  <1>8. pc \in Submitting => pushing # None /\ revs # <<>>
    BY <1>0 DEF Shaped, Submitting
  <1>9. CASE NoRequest
    <2>0. UNCHANGED <<p4Vars, refVars, diskVars, synced, workVars, userVars>>
          /\ pc' = "idle" /\ pc = "pop"
      BY <1>9 DEF NoRequest
    <2>1. TreesTyped' BY <1>0, <2>0 DEF TreesTyped
    <2>2. RefsTyped' BY <1>0, <1>3, <2>0 DEF RefsTyped
    <2>3. RestTyped' BY <1>0, <2>0 DEF RestTyped
    <2>4. Shaped' BY <1>0, <2>0 DEF Shaped, Submitting
    <2> QED BY <2>1, <2>2, <2>3, <2>4, TypeBuilt
  <1>10. ASSUME NEW p \in Push, StartPush(p) PROVE TypeInv'
    <2>0. UNCHANGED <<p4Vars, refVars, diskVars, synced, newStuff, changed, final, clone>>
          /\ pc = "pop"
      BY <1>10 DEF StartPush
    <2>1. TreesTyped' BY <1>0, <2>0 DEF TreesTyped
    <2>2. RestTyped'
      <3>1. pushing' \in Push \cup {None} BY <1>6, <1>10 DEF StartPush
      <3>2. verdict' \in [Push -> {"none", "nothing", "ok", "failed", "lost"}]
        BY <1>6, <1>10 DEF StartPush, Conclude
      <3> QED BY <1>0, <2>0, <3>1, <3>2 DEF RestTyped
    <2>3. p # None BY ConstantsAssumption
    <2>4. /\ Cherry(p) \in Seq([id : Nat, plus : BOOLEAN])
          /\ \A k \in 1..Len(Cherry(p)) :
                 Cherry(p)[k] \in [id : 1..Len(commits), plus : BOOLEAN]
      BY <1>0, <1>4, CherryTyped
    <2>5. CASE revs' = revs /\ currentRev' = currentRev /\ pc' \in {"rollback", "idle"}
                 /\ (pc' = "idle" => pushing' = pushing)
      <3>1. RefsTyped' BY <1>0, <1>3, <2>0, <2>5 DEF RefsTyped
      <3>2. Shaped' BY <1>0, <2>0, <2>5 DEF Shaped, Submitting
      <3> QED BY <2>1, <2>2, <3>1, <3>2, TypeBuilt
    <2>6. CASE revs' = Cherry(p) /\ Cherry(p) # <<>> /\ currentRev' = master /\ pc' = "merge"
               /\ pushing' = p
      <3>1. RefsTyped' BY <1>0, <1>3, <1>4, <2>0, <2>4, <2>6 DEF RefsTyped
      <3>2. Shaped' BY <1>0, <2>0, <2>3, <2>4, <2>6 DEF Shaped, Submitting
      <3> QED BY <2>1, <2>2, <3>1, <3>2, TypeBuilt
    <2> QED BY <1>10, <2>5, <2>6 DEF StartPush
  <1>11. CASE MergeRev
    <2> DEFINE theirs == {i \in clone[pushing] : i <= Head(revs).id}
               base   == Tree(master \cap theirs)
               ours   == Tree(master)
               merged == [f \in File |-> IF ours[f] = base[f] THEN Tree(theirs)[f] ELSE ours[f]]
    <2>0. UNCHANGED <<p4Vars, commits, incoming, head, rebasing, tags, oddTag, synced,
                      workVars, userVars>> /\ pc = "merge"
      BY <1>11 DEF MergeRev
    <2>1. pushing \in Push BY <1>6, <1>8, <2>0 DEF Submitting
    <2>2. theirs \in Branches BY <1>4, <2>1 DEF Branches
    <2>3. master \cap theirs \in Branches /\ master \cup theirs \in Branches
      <3> HIDE DEF theirs
      <3> QED BY <1>4, <2>2 DEF Branches
    <2>4. base \in Trees /\ Tree(theirs) \in Trees
      <3> HIDE DEF theirs
      <3> QED BY <1>0, <2>2, <2>3, TreeTyped
    <2>5. merged \in Trees
      <3> HIDE DEF theirs, base
      <3> QED BY <1>5, <2>4 DEF Trees
    <2>6. /\ master' \in {master, master \cup theirs}
          /\ unmerged' \in BOOLEAN
          /\ pc' \in {"open", "rollback", "idle"} /\ (pc' = "idle" => pushing = None)
          /\ UNCHANGED diskVars \/ Checkout(merged)
      <3> HIDE DEF theirs, merged, base
      <3> QED BY <1>6, <1>11 DEF MergeRev, Thrown, theirs, merged, base
    <2> HIDE DEF theirs, merged, base
    <2>7. files' \in Trees /\ index' \in Trees BY <1>6, <2>5, <2>6, CheckoutTyped
    <2>8. TreesTyped' BY <1>0, <2>0, <2>7 DEF TreesTyped
    <2>9. Later BY <1>7, <2>0
    <2>10. RefsTyped' BY <1>0, <1>3, <1>4, <2>0, <2>3, <2>6, <2>9, RefsStay
    <2>11. RestTyped' BY <1>0, <1>6, <2>0, <2>6, <2>9, RestStays
    <2>12. Shaped' BY <1>0, <1>8, <2>0, <2>6 DEF Shaped, Submitting
    <2> QED BY <2>8, <2>10, <2>11, <2>12, TypeBuilt
  <1>12. CASE OpenFiles
    <2>0. UNCHANGED <<depot, have, refVars, diskVars, synced, workVars, userVars>>
          /\ pc = "open" /\ pc' \in {"submit", "reset"} /\ opened' \in {opened, CurrentFiles}
          /\ (counter' = counter \/ counter' = counter + 1)
      BY <1>12 DEF OpenFiles
    <2>1. CurrentFiles \subseteq File
      <3>1. CASE revs = <<>> BY <3>1 DEF CurrentFiles
      <3>2. CASE revs # <<>>
        <4>1. revs \in Seq([id : Nat, plus : BOOLEAN]) BY <1>0 DEF Shaped
        <4>2. 1 \in 1..Len(revs) /\ Head(revs) = revs[1] BY <3>2, <4>1
        <4>3. Head(revs).id \in 1..Len(commits) BY <1>0, <4>2 DEF RefsTyped
        <4>4. commits[Head(revs).id] \in CommitSet BY <1>0, <4>3
        <4> QED BY <3>2, <4>4, CommitHas DEF CurrentFiles
      <3> QED BY <3>1, <3>2
    <2>2. Later BY <1>0, <1>1, <2>0 DEF Later
    <2>3. TreesTyped' BY <1>0, <2>0, <2>1 DEF TreesTyped
    <2>4. RefsTyped' BY <1>0, <1>3, <1>4, <2>0, <2>2, RefsStay
    <2>5. RestTyped' BY <1>0, <1>6, <2>0, <2>2, RestStays
    <2>6. Shaped' BY <1>0, <1>8, <2>0 DEF Shaped, Submitting
    <2> QED BY <2>3, <2>4, <2>5, <2>6, TypeBuilt
  <1>13. CASE Submit
    <2>0. UNCHANGED <<refVars, diskVars, synced, pushing, newStuff, changed, revs,
                      currentRev, userVars>> /\ pc = "submit"
      BY <1>13 DEF Submit
    <2>1. CASE pc' = "reset" /\ UNCHANGED <<p4Vars, final>>
      <3>1. Later BY <1>7, <2>1
      <3>2. TreesTyped' BY <1>0, <2>0, <2>1 DEF TreesTyped
      <3>3. RefsTyped' BY <1>0, <1>3, <1>4, <2>0, <3>1, RefsStay
      <3>4. RestTyped' BY <1>0, <1>6, <2>0, <2>1, <3>1, RestStays
      <3>5. Shaped' BY <1>0, <1>8, <2>0, <2>1 DEF Shaped, Submitting
      <3> QED BY <3>2, <3>3, <3>4, <3>5, TypeBuilt
    <2>2. CASE pc' = "tag push"
      <3> DEFINE num == IF counter = pending THEN pending ELSE counter + 1
                 t == [f \in File |-> IF f \in opened THEN files[f] ELSE DepotHead[f]]
                 d == [num |-> num, tree |-> t]
      <3>0. /\ depot' = Append(depot, d) /\ counter' = num
            /\ have' = [f \in File |-> IF f \in opened THEN files[f] ELSE have[f]]
            /\ opened' = {} /\ final' = [num |-> num, renamed |-> num # pending]
        BY <1>13, <2>2 DEF Submit
      <3>1. pending \in 0..counter /\ \E j \in DOMAIN depot : depot[j].num = synced
        BY <1>0 DEF Numbered
      <3>2. num \in Nat \ {0} /\ counter <= num
        <4>1. pending # 0 BY <1>0, <2>0 DEF Numbered
        <4> QED BY <1>0, <3>1, <4>1
      <3>3. t \in Trees /\ have' \in Trees
        <4>1. DepotHead \in Trees BY <1>0, <1>6, <3>1, DepotTyped
        <4> QED BY <1>6, <3>0, <4>1 DEF Trees
      <3>4. d.tree = t OBVIOUS
      <3> HIDE DEF num, t
      <3>5. final' \in [num : 0..counter', renamed : BOOLEAN] /\ final'.num # 0
        BY <3>0, <3>2
      <3> HIDE DEF d
      <3>6. \A k \in DOMAIN depot' : depot'[k].tree \in Trees
        BY <1>0, <1>6, <3>0, <3>3, <3>4, DepotGrows
      <3>7. Later BY <1>0, <1>1, <3>0, <3>2 DEF Later
      <3>8. TreesTyped' BY <1>6, <2>0, <3>0, <3>3, <3>6 DEF TreesTyped
      <3>9. RefsTyped' BY <1>0, <1>3, <1>4, <2>0, <3>7, RefsStay
      <3>10. \A k \in 1..Len(newStuff') : newStuff'[k] \in 1..counter'
        <4>1. 1..counter \subseteq 1..counter' BY <3>7 DEF Later
        <4> QED BY <1>0, <2>0, <4>1 DEF RestTyped
      <3>11. RestTyped' BY <1>6, <2>0, <3>5, <3>10 DEF RestTyped
      <3>12. Shaped' BY <1>0, <1>8, <2>0, <2>2, <3>5 DEF Shaped, Submitting
      <3> QED BY <3>8, <3>9, <3>11, <3>12, TypeBuilt
    <2> QED BY <1>13, <2>1, <2>2 DEF Submit
  <1>14. CASE TagPush
    <2>0. UNCHANGED <<p4Vars, commits, master, incoming, head, unmerged, rebasing,
                      diskVars, synced, pushing, newStuff, changed, revs, currentRev,
                      userVars>> /\ pc = "tag push" /\ pc' \in {"reset", "pull"}
      BY <1>14 DEF TagPush
    <2>1. Later BY <1>7, <2>0
    <2>2. final.num \in 1..counter
      <3>1. final.num \in 0..counter /\ final.num # 0
        BY <1>0, <2>0 DEF RestTyped, Shaped
      <3> QED BY <1>0, <3>1
    <2>3. \A n \in DOMAIN tags' : n \in 1..counter /\ tags'[n] \in Branches
      <3>1. CASE tags' = tags BY <1>0, <3>1 DEF RefsTyped
      <3>2. CASE tags' = Tagged(final.num, master)
        BY <1>0, <1>4, <2>2, <3>2 DEF Tagged, RefsTyped
      <3> QED BY <1>14, <3>1, <3>2 DEF TagPush
    <2>4. final' \in [num : 0..counter, renamed : BOOLEAN] /\ oddTag' \in BOOLEAN
      <3>1. final' = [num |-> 0, renamed |-> FALSE] /\ oddTag' \in BOOLEAN
        BY <1>6, <1>14 DEF TagPush
      <3> QED BY <1>0, <3>1
    <2>5. TreesTyped' BY <1>0, <2>0 DEF TreesTyped
    <2>6. RefsTyped' BY <1>0, <1>3, <2>0, <2>3 DEF RefsTyped
    <2>7. RestTyped' BY <1>0, <2>0, <2>4 DEF RestTyped
    <2>8. Shaped' BY <1>0, <1>8, <2>0 DEF Shaped, Submitting
    <2> QED BY <2>5, <2>6, <2>7, <2>8, TypeBuilt
  <1>15. CASE NextRev
    <2>0. UNCHANGED <<p4Vars, refVars, diskVars, synced, newStuff, changed, final, clone>>
          /\ pc = "pushed" /\ revs' = Tail(revs)
      BY <1>15 DEF NextRev
    <2>1. revs \in Seq([id : Nat, plus : BOOLEAN]) /\ revs # <<>> /\ pushing # None
      BY <1>0, <1>8, <2>0 DEF Shaped, Submitting
    <2>2. /\ revs' \in Seq([id : Nat, plus : BOOLEAN]) /\ Len(revs') = Len(revs) - 1
          /\ \A k \in 1..Len(revs') : revs'[k] = revs[k + 1]
          /\ Len(revs) \in Nat
      BY <2>0, <2>1
    <2>3. \A k \in 1..Len(revs') : revs'[k] \in [id : 1..Len(commits), plus : BOOLEAN]
      <3> SUFFICES ASSUME NEW k \in 1..Len(revs')
                   PROVE  revs'[k] \in [id : 1..Len(commits), plus : BOOLEAN]
        OBVIOUS
      <3>1. k + 1 \in 1..Len(revs) BY <2>2
      <3> QED BY <1>0, <2>2, <3>1 DEF RefsTyped
    <2>4. currentRev' \in Branches /\ pushing' \in Push \cup {None}
      BY <1>4, <1>6, <1>15 DEF NextRev, Branches
    <2>5. verdict' \in [Push -> {"none", "nothing", "ok", "failed", "lost"}]
      BY <1>6, <1>15 DEF NextRev, Conclude
    <2>6. TreesTyped' BY <1>0, <2>0 DEF TreesTyped
    <2>7. RefsTyped' BY <1>0, <1>3, <2>0, <2>3, <2>4 DEF RefsTyped
    <2>8. RestTyped' BY <1>0, <2>0, <2>4, <2>5 DEF RestTyped
    <2>9. Shaped'
      <3>1. CASE Len(revs) > 1
        <4>1. pc' = "merge" /\ pushing' = pushing BY <1>15, <3>1 DEF NextRev
        <4>2. revs' # <<>> BY <2>2, <3>1
        <4> QED BY <1>0, <2>0, <2>1, <2>2, <4>1, <4>2 DEF Shaped, Submitting
      <3>2. CASE ~(Len(revs) > 1)
        <4>1. pc' = "idle" /\ pushing' = None BY <1>15, <3>2 DEF NextRev
        <4> QED BY <1>0, <2>0, <2>2, <4>1 DEF Shaped, Submitting
      <3> QED BY <3>1, <3>2
    <2> QED BY <2>6, <2>7, <2>8, <2>9, TypeBuilt
  <1>16. CASE ResetPush
    <2>1. files' \in Trees /\ index' \in Trees /\ unmerged' = FALSE
      BY <1>5, <1>6, <1>16 DEF ResetPush, ResetHard, Trees
    <2>2. UNCHANGED <<depot, counter, have, opened, tags, oddTag, final>>
          /\ PushStays /\ pc' = "rollback" /\ master' = currentRev
      BY <1>16 DEF ResetPush, PushStays
    <2>3. PushEnds BY <2>2 DEF PushEnds
    <2>4. opened' \subseteq File /\ master' \in Branches /\ unmerged' \in BOOLEAN
          /\ files' \in Trees /\ index' \in Trees
      BY <1>4, <1>6, <2>1, <2>2
    <2> QED BY <1>1, <2>2, <2>3, <2>4, TypePushEnds
  <1>17. CASE RevertOpened
    <2>1. files' \in Trees BY <1>6, <1>17 DEF RevertOpened, Trees
    <2>2. UNCHANGED <<depot, counter, have, index, unmerged, master, tags, oddTag, final>>
          /\ PushStays /\ pc' = "clean up" /\ opened' = {}
      BY <1>17 DEF RevertOpened, PushStays
    <2>3. PushEnds BY <2>2 DEF PushEnds
    <2>4. opened' \subseteq File /\ master' \in Branches /\ unmerged' \in BOOLEAN
          /\ files' \in Trees /\ index' \in Trees
      BY <1>4, <1>6, <2>1, <2>2
    <2> QED BY <1>1, <2>2, <2>3, <2>4, TypePushEnds
  <1>18. CASE ResetFiles
    <2>1. files' \in Trees /\ index' \in Trees /\ unmerged' = FALSE
      BY <1>0, <1>6, <1>18 DEF ResetFiles, ResetHard, Trees
    <2> QED BY <1>1, <1>4, <1>6, <1>18, <2>1, TypePushEnds
            DEF ResetFiles, GiveUpPush, Conclude, PushGone, PushEnds
  <1> QED BY <1>9, <1>10, <1>11, <1>12, <1>13, <1>14, <1>15, <1>16, <1>17, <1>18
          DEF PushThrough

LEMMA TypePeople ==
    ASSUME TypeInv, OrderInv', People
    PROVE  TypeInv'
  <1> USE DEF p4Vars, refVars, diskVars, workVars, userVars
  <1>0. /\ Numbered /\ TreesTyped /\ RefsTyped /\ RestTyped /\ Shaped
        /\ commits \in Seq(CommitSet) /\ Len(commits) \in Nat /\ counter \in Nat
        /\ HeadTree \in Trees
    BY TypeFacts
  <1>1. /\ master \in Branches /\ incoming \in Branches /\ currentRev \in Branches
        /\ clone \in [Push -> Branches]
    BY <1>0 DEF RefsTyped
  <1>2. /\ head \in {"master", "p4-incoming"}
        /\ unmerged \in BOOLEAN /\ rebasing \in BOOLEAN /\ oddTag \in BOOLEAN
        /\ pushing \in Push \cup {None}
        /\ verdict \in [Push -> {"none", "nothing", "ok", "failed", "lost"}]
    BY <1>0 DEF RestTyped
  <1>3. ASSUME NEW e \in UserEdit, UserSubmits(e) PROVE TypeInv'
    <2> DEFINE t == [DepotHead EXCEPT ![FileOf[e]] = @ \cup {e}]
               d == [num |-> counter + 1, tree |-> t]
    <2>0. /\ counter' = counter + 1 /\ depot' = Append(depot, d)
          /\ UNCHANGED <<have, pending, opened, refVars, diskVars, synced, pc, workVars,
                         userVars>>
      BY <1>3 DEF UserSubmits
    <2>1. Later BY <1>0, <2>0 DEF Later
    <2>2. e \in Edit BY ConstantsAssumption
    <2>3. t \in Trees
      <3>1. \E j \in DOMAIN depot : depot[j].num = synced BY <1>0 DEF Numbered
      <3>2. DepotHead \in Trees BY <1>0, <3>1, DepotTyped DEF TreesTyped
      <3> QED BY <2>2, <3>2 DEF Trees
    <2>4. d.tree = t OBVIOUS
    <2> HIDE DEF d
    <2>5. \A k \in DOMAIN depot' : depot'[k].tree \in Trees
      BY <1>0, <2>0, <2>3, <2>4, DepotGrows DEF TreesTyped
    <2>6. TreesTyped' BY <1>0, <2>0, <2>5 DEF TreesTyped
    <2>7. master \in Branches' /\ incoming \in Branches' /\ currentRev \in Branches'
      BY <1>1, <2>1, BranchesStay
    <2>8. RefsTyped' BY <1>0, <2>0, <2>1, <2>7, RefsStay
    <2>9. RestTyped' BY <1>0, <1>2, <2>0, <2>1, RestStays
    <2>10. Shaped' BY <1>0, <2>0 DEF Shaped
    <2> QED BY <2>6, <2>8, <2>9, <2>10, TypeBuilt
  <1>4. ASSUME NEW p \in Push, SessionClones(p) PROVE TypeInv'
    <2> DEFINE before(k) == [f \in File |->
                   Tree(master)[f] \cup {e \in Edit : FileOf[e] = f /\
                                            \E j \in 1..k : Series[p][j] = e}]
               size == Len(Series[p])
               made == [k \in 1..size |-> Commit(before(k - 1), before(k))]
               new  == (Len(commits) + 1)..(Len(commits) + size)
    <2>0. /\ commits' = commits \o made
          /\ clone' = [clone EXCEPT ![p] = master \cup new]
          /\ UNCHANGED <<p4Vars, master, incoming, head, unmerged, rebasing, tags, oddTag,
                         diskVars, synced, pc, workVars, verdict>>
      BY <1>4 DEF SessionClones
    <2>1. size \in Nat BY ConstantsAssumption
    <2>2. Tree(master) \in Trees BY <1>0, <1>1, TreeTyped
    <2>3. ASSUME NEW k PROVE before(k) \in Trees BY <2>2 DEF Trees
    <2> HIDE DEF before
    <2>4. \A k \in 1..size : Commit(before(k - 1), before(k)) \in CommitSet
      BY <2>3, CommitTyped
    <2> HIDE DEF size
    <2>5. made \in Seq(CommitSet) /\ Len(made) = size BY <2>1, <2>4
    <2> HIDE DEF made
    <2>6. commits' \in Seq(CommitSet) /\ Len(commits') = Len(commits) + size
      BY <1>0, <2>0, <2>5, ConcatProperties
    <2>7. Later BY <1>0, <2>0, <2>1, <2>6 DEF Later
    <2>8. master \in Branches' /\ incoming \in Branches' /\ currentRev \in Branches'
      BY <1>1, <2>7, BranchesStay
    <2>9. new \subseteq 1..Len(commits') BY <1>0, <2>1, <2>6
    <2>10. master \cup new \in Branches'
      <3> HIDE DEF new
      <3> QED BY <2>8, <2>9 DEF Branches
    <2>11. Branches \subseteq Branches' BY <2>7 DEF Branches, Later
    <2>12. clone' \in [Push -> Branches'] BY <1>1, <2>0, <2>10, <2>11
    <2>13. TreesTyped' BY <1>0, <2>0 DEF TreesTyped
    <2>14. RefsTyped'
      <3>1. \A n \in DOMAIN tags : n \in 1..counter /\ tags[n] \in Branches'
        BY <1>0, <2>11 DEF RefsTyped
      <3>2. \A k \in 1..Len(revs) : revs[k] \in [id : 1..Len(commits'), plus : BOOLEAN]
        <4> SUFFICES ASSUME NEW k \in 1..Len(revs)
                     PROVE  revs[k] \in [id : 1..Len(commits'), plus : BOOLEAN]
          OBVIOUS
        <4>1. revs[k] \in [id : 1..Len(commits), plus : BOOLEAN] BY <1>0 DEF RefsTyped
        <4>2. 1..Len(commits) \subseteq 1..Len(commits') BY <2>7 DEF Later
        <4> QED BY <4>1, <4>2
      <3> QED BY <2>0, <2>8, <2>12, <3>1, <3>2 DEF RefsTyped
    <2>15. RestTyped' BY <1>0, <1>2, <2>0, <2>7, RestStays
    <2>16. Shaped' BY <1>0, <2>0, <2>6 DEF Shaped
    <2> QED BY <2>13, <2>14, <2>15, <2>16, TypeBuilt
  <1> QED BY <1>3, <1>4 DEF People

LEMMA TypeTrouble ==
    ASSUME TypeInv, OrderInv', CommandFails \/ Crash
    PROVE  TypeInv'
  <1> USE DEF p4Vars, refVars, diskVars, workVars, userVars
  <1>0. /\ Numbered /\ TreesTyped /\ RefsTyped /\ RestTyped /\ Shaped
        /\ commits \in Seq(CommitSet) /\ Len(commits) \in Nat /\ counter \in Nat
    BY TypeFacts
  <1>1. UNCHANGED <<p4Vars, refVars, diskVars, synced, newStuff, changed, final, clone>>
    BY DEF CommandFails, Crash
  <1>2. /\ master \in Branches /\ opened \subseteq File /\ unmerged \in BOOLEAN
        /\ files \in Trees /\ index \in Trees
    BY <1>0 DEF RefsTyped, TreesTyped, RestTyped
  <1>3. CASE PushGone /\ pc' = "idle" BY <1>1, <1>2, <1>3, TypePushEnds DEF PushEnds
  <1>4. CASE PushStays /\ pc' = "rollback"
    <2>1. PushEnds BY <1>4 DEF PushEnds
    <2> QED BY <1>1, <1>2, <2>1, TypePushEnds
  <1>5. CASE PushStays /\ ((pc' = "idle" /\ pushing = None) \/ (pc' = "reset" /\ pc = "tag push"))
    <2>1. Branches' = Branches BY <1>1 DEF Branches
    <2>2. TreesTyped' BY <1>0, <1>1 DEF TreesTyped
    <2>3. RefsTyped' BY <1>0, <1>1, <1>5, <2>1 DEF RefsTyped, PushStays
    <2>4. RestTyped' BY <1>0, <1>1, <1>5 DEF RestTyped, PushStays
    <2>5. Shaped' BY <1>0, <1>1, <1>5 DEF Shaped, PushStays, Submitting
    <2> QED BY <2>2, <2>3, <2>4, <2>5, TypeBuilt
  <1>6. CASE CommandFails
    <2>1. CASE Thrown /\ PushStays BY <1>4, <1>5, <2>1 DEF Thrown
    <2>2. CASE pc = "tag push" /\ pc' = "reset" /\ PushStays BY <1>5, <2>2
    <2>3. CASE GiveUpPush BY <1>3, <2>3 DEF GiveUpPush, Conclude, PushGone
    <2> QED BY <1>6, <2>1, <2>2, <2>3 DEF CommandFails, PushStays
  <1>7. CASE Crash BY <1>3, <1>7 DEF Crash, Conclude, PushGone
  <1> QED BY <1>6, <1>7

LEMMA TypeStep ==
    ASSUME TypeInv, [Next]_vars
    PROVE  TypeInv'
  <1>1. OrderInv' BY OrderStep DEF TypeInv
  <1>2. CASE Pull BY <1>1, <1>2, TypePull
  <1>3. CASE PushThrough BY <1>1, <1>3, TypePush
  <1>4. CASE People BY <1>1, <1>4, TypePeople
  <1>5. CASE CommandFails \/ Crash BY <1>1, <1>5, TypeTrouble
  <1>6. CASE UNCHANGED vars
    BY <1>1, <1>6
    DEF vars, p4Vars, refVars, diskVars, workVars, userVars, TypeInv, TypeOK, Shaped,
        Branches
  <1> QED BY <1>2, <1>3, <1>4, <1>5, <1>6 DEF Next

LEMMA TypeAlways == Spec => []TypeInv
  BY TypeInit, TypeStep, PTL DEF Spec

\* Every variable keeps its type, whatever fails, races or crashes: branches and
\* tags have commits that were made, numbers are Perforce's, and what is
\* synced, checked out, rebased or merged are files of the edits there are.
THEOREM GitTypeCorrect == Spec => []TypeOK
  <1>1. TypeInv => TypeOK BY DEF TypeInv
  <1> QED BY <1>1, TypeAlways, PTL

-----------------------------------------------------------------------------
(***************************************************************************)
(* A git user who is told that a push succeeded finds all of it in         *)
(* Perforce, whatever fails, races or crashes.                             *)
(*                                                                         *)
(* Until a push brings an edit to master, the edit is nowhere but in the   *)
(* commits of the session it was pushed to. That is why the merge of its   *)
(* commit must change the file it belongs to, so that what is opened and   *)
(* submitted has the edit, whatever is left in the working tree by what    *)
(* failed before. And git cherry lists that commit, after those that do    *)
(* not have the edit.                                                      *)
(***************************************************************************)

\* No two pushes make the same edit.
EditsApart == \A p, q \in Push : EditsOf(p) \cap EditsOf(q) # {} => p = q

\* Files, commits and branches without an edit.
Bare(e) == {t \in Trees : \A f \in File : e \notin t[f]}
Lacking(e) == {c \in CommitSet : \A f \in DOMAIN c.to : e \notin c.to[f]}
Holders(e) == {i \in 1..Len(commits) : commits[i] \notin Lacking(e)}
Free(e) == SUBSET ((1..Len(commits)) \ Holders(e))

\* Nothing but the commits of p's session has the edit.
Clean(e) ==
    /\ have \in Bare(e) /\ files \in Bare(e) /\ index \in Bare(e)
    /\ \A k \in DOMAIN depot : depot[k].tree \in Bare(e)

Kept(e, p) ==
    /\ Clean(e)
    /\ master \in Free(e) /\ incoming \in Free(e) /\ currentRev \in Free(e)
    /\ \A n \in DOMAIN tags : tags[n] \in Free(e)
    /\ \A q \in Push \ {p} : clone[q] \in Free(e)
    /\ Holders(e) \subseteq clone[p]

\* The commit that made the edit.
Born(e, i) ==
    /\ i \in Holders(e)
    /\ \A j \in Holders(e) : i <= j
    /\ FileOf[e] \in DOMAIN commits[i].to
    /\ e \in commits[i].to[FileOf[e]]

\* The push at work, as long as it has not failed.
Live(p) == pushing = p /\ pc \notin {"reset", "rollback", "clean up"}

\* An edit whose commit is yet to be merged, and one that is about to be submitted.
Due(e, p) ==
    /\ Kept(e, p)
    /\ \E i : /\ Born(e, i)
              /\ \E k \in 1..Len(revs) : revs[k].id = i /\ (pc = "merge" \/ k > 1)

Merged(e) ==
    /\ e \in files[FileOf[e]]
    /\ \/ pc = "open" /\ FileOf[e] \in CurrentFiles
       \/ pc = "submit" /\ FileOf[e] \in opened

Waits(e, p) ==
    /\ Kept(e, p)
    /\ clone[p] # {} => \E i : Born(e, i)

Delivers(e, p) ==
    /\ verdict[p] = "none" /\ pushing # p => Waits(e, p)
    /\ Live(p) => InDepot(e) \/ Due(e, p) \/ Merged(e)
    /\ verdict[p] = "ok" => InDepot(e)

Rising == \A j, k \in 1..Len(revs) : j < k => revs[j].id < revs[k].id

Steady ==
    /\ pc = "pop" => pushing = None
    /\ pc \in {"pop", "pushed", "merge"} => head = "master"
    /\ \A p \in Push : clone[p] = {} => pushing # p /\ verdict[p] = "none"
    /\ Rising

Delivery == Steady /\ \A p \in Push : \A e \in EditsOf(p) : Delivers(e, p)

-----------------------------------------------------------------------------
(* What is made of what lacks an edit lacks it                              *)

LEMMA TreeBare ==
    ASSUME commits \in Seq(CommitSet), NEW e, NEW b \in Free(e)
    PROVE  Tree(b) \in Bare(e)
  <1>1. b \in Branches BY DEF Free, Branches
  <1>2. Tree(b) \in Trees BY <1>1, TreeTyped
  <1>3. ASSUME NEW f \in File PROVE e \notin Tree(b)[f]
    <2> DEFINE here == {i \in b : f \in DOMAIN commits[i].to}
               last == CHOOSE i \in here : \A j \in here : j <= i
    <2>1. CASE here = {}
      <3>1. Tree(b)[f] = {} BY <2>1 DEF Tree
      <3> QED BY <3>1
    <2>2. CASE here # {}
      <3>1. Len(commits) \in Nat OBVIOUS
      <3>2. here \in SUBSET (0..Len(commits))
        <4>1. here \subseteq b OBVIOUS
        <4> HIDE DEF here
        <4> QED BY <1>1, <3>1, <4>1 DEF Branches
      <3>3. \E i \in here : \A j \in here : j <= i
        <4> HIDE DEF here
        <4> QED BY <2>2, <3>1, <3>2, GreatestNumber
      <3>4. last \in here BY <3>3
      <3>5. last \in (1..Len(commits)) \ Holders(e) /\ f \in DOMAIN commits[last].to
        BY <3>4 DEF Free
      <3>6. commits[last] \in Lacking(e) BY <3>5 DEF Holders
      <3>7. e \notin commits[last].to[f] BY <3>5, <3>6 DEF Lacking
      <3>8. Tree(b)[f] = commits[last].to[f] BY <2>2 DEF Tree
      <3> QED BY <3>7, <3>8
    <2> QED BY <2>1, <2>2
  <1> QED BY <1>2, <1>3 DEF Bare

LEMMA HeadBare ==
    ASSUME commits \in Seq(CommitSet), NEW e, master \in Free(e), incoming \in Free(e)
    PROVE  HeadTree \in Bare(e)
  BY TreeBare DEF HeadTree

LEMMA CheckoutBare ==
    ASSUME NEW e, files \in Bare(e), index \in Bare(e), NEW t \in Bare(e), Checkout(t)
    PROVE  files' \in Bare(e) /\ index' \in Bare(e)
  <1>1. files' \in Trees /\ index' \in Trees BY CheckoutTyped DEF Bare
  <1>2. \A f \in File : e \notin files'[f] /\ e \notin index'[f]
    BY DEF Bare, Checkout, Over
  <1> QED BY <1>1, <1>2 DEF Bare

LEMMA ResetBare ==
    ASSUME NEW e, files \in Bare(e), NEW t \in Bare(e), ResetHard(t)
    PROVE  files' \in Bare(e) /\ index' \in Bare(e)
  <1>1. files' = [f \in File |-> IF index[f] # {} \/ HeadTree[f] # {} \/ t[f] # {}
                                 THEN t[f] ELSE files[f]]
        /\ index' = t
    BY DEF ResetHard
  <1>2. files' \in Trees BY <1>1 DEF Bare, Trees
  <1>3. \A f \in File : e \notin files'[f] BY <1>1 DEF Bare
  <1> QED BY <1>1, <1>2, <1>3 DEF Bare

LEMMA DepotBare ==
    ASSUME Numbered, NEW e, Clean(e), NEW j \in DOMAIN depot
    PROVE  DepotAt(depot[j].num) \in Bare(e) /\ DepotHead \in Bare(e)
  <1>1. /\ DOMAIN depot = 1..Len(depot) /\ Len(depot) \in Nat
        /\ \A k \in DOMAIN depot : depot[k].num \in Nat
    BY DepotFacts
  <1> DEFINE till == {i \in 1..Len(depot) : depot[i].num <= depot[j].num}
             last == CHOOSE i \in till : \A m \in till : m <= i
  <1>2. till \in SUBSET (0..Len(depot)) /\ j \in till BY <1>1
  <1>3. \E i \in till : \A m \in till : m <= i
    <2> HIDE DEF till
    <2> QED BY <1>1, <1>2, GreatestNumber
  <1>4. last \in till BY <1>3
  <1>5. DepotAt(depot[j].num) = depot[last].tree BY DEF DepotAt
  <1> QED BY <1>1, <1>4, <1>5 DEF DepotHead, Clean

LEMMA CommitLacks ==
    ASSUME NEW e, NEW old \in Trees, NEW new \in Bare(e)
    PROVE  Commit(old, new) \in Lacking(e)
  <1>1. Commit(old, new) \in CommitSet BY CommitTyped DEF Bare
  <1>2. Commit(old, new).to = [f \in {g \in File : old[g] # new[g]} |-> new[f]]
    BY DEF Commit
  <1> QED BY <1>1, <1>2 DEF Bare, Lacking

LEMMA ReplayLacks ==
    ASSUME commits \in Seq(CommitSet), NEW e, NEW i \in (1..Len(commits)) \ Holders(e),
           NEW at \in [ok : BOOLEAN, tree : Bare(e), made : Seq(Lacking(e))]
    PROVE  Replay(at, i) \in [ok : BOOLEAN, tree : Bare(e), made : Seq(Lacking(e))]
  <1> DEFINE its == commits[i]
             changes == {f \in DOMAIN its.to : at.tree[f] # its.to[f]}
             new == [f \in File |-> IF f \in changes THEN its.to[f] ELSE at.tree[f]]
             X == [ok : BOOLEAN, tree : Bare(e), made : Seq(Lacking(e))]
  <1>1. its \in Lacking(e) /\ its \in CommitSet BY DEF Holders
  <1>2. at.tree \in Bare(e) /\ at.tree \in Trees /\ at.made \in Seq(Lacking(e))
    BY DEF Bare
  <1>3. new \in Bare(e)
    <2>1. ASSUME NEW f \in File
          PROVE  /\ (IF f \in changes THEN its.to[f] ELSE at.tree[f]) \in Content
                 /\ e \notin (IF f \in changes THEN its.to[f] ELSE at.tree[f])
      <3>1. at.tree[f] \in Content /\ e \notin at.tree[f]
        BY <1>2 DEF Trees, Content, Bare
      <3>2. f \in changes => its.to[f] \in Content /\ e \notin its.to[f]
        BY <1>1, CommitHas DEF Lacking
      <3> QED BY <3>1, <3>2
    <2> HIDE DEF changes, its
    <2>2. new \in Trees BY <2>1 DEF Trees, Content
    <2>3. \A f \in File : e \notin new[f] BY <2>1
    <2> HIDE DEF new
    <2> QED BY <2>2, <2>3 DEF Bare
  <1> HIDE DEF new
  <1>4. Append(at.made, Commit(at.tree, new)) \in Seq(Lacking(e))
    BY <1>2, <1>3, CommitLacks
  <1>5. [ok |-> TRUE, tree |-> new, made |-> Append(at.made, Commit(at.tree, new))] \in X
    BY <1>3, <1>4
  <1>6. [at EXCEPT !.ok = FALSE] \in X OBVIOUS
  <1>7. Replay(at, i) \in {[at EXCEPT !.ok = FALSE], at,
            [ok |-> TRUE, tree |-> new, made |-> Append(at.made, Commit(at.tree, new))]}
    BY DEF Replay, new
  <1> QED BY <1>5, <1>6, <1>7

LEMMA RebasedLacks ==
    ASSUME commits \in Seq(CommitSet), NEW e, master \in Free(e), incoming \in Free(e)
    PROVE  Rebased.tree \in Bare(e) /\ Rebased.made \in Seq(Lacking(e))
  <1> DEFINE X == [ok : BOOLEAN, tree : Bare(e), made : Seq(Lacking(e))]
  <1>1. [ok |-> TRUE, tree |-> Tree(incoming), made |-> <<>>] \in X
    <2>1. <<>> \in Seq(Lacking(e)) OBVIOUS
    <2>2. Tree(incoming) \in Bare(e) BY TreeBare
    <2> QED BY <2>1, <2>2
  <1>2. \A n \in (1..Len(commits)) \cap (master \ incoming) : \A x \in X : Replay(x, n) \in X
    <2> SUFFICES ASSUME NEW n \in (1..Len(commits)) \cap (master \ incoming), NEW x \in X
                 PROVE  Replay(x, n) \in X
      OBVIOUS
    <2>1. n \in (1..Len(commits)) \ Holders(e) BY DEF Free
    <2> QED BY <2>1, ReplayLacks
  <1> HIDE DEF X
  <1>3. Rebased \in X BY <1>1, <1>2, RebasedIn
  <1> QED BY <1>3 DEF X

-----------------------------------------------------------------------------
(* An edit that is kept                                                     *)

\* More commits that do not have it make no difference.
LEMMA HoldersStay ==
    ASSUME commits \in Seq(CommitSet), NEW e, NEW made \in Seq(Lacking(e)),
           commits' = commits \o made
    PROVE  /\ Holders(e)' = Holders(e)
           /\ Len(commits') \in Nat /\ Len(commits) <= Len(commits')
           /\ \A b \in Free(e), c \in SUBSET ((Len(commits) + 1)..Len(commits')) :
                  b \in Free(e)' /\ b \cup c \in Free(e)'
           /\ \A i : Born(e, i) => Born(e, i)'
  <1>1. made \in Seq(CommitSet)
    <2>1. Lacking(e) \subseteq CommitSet BY DEF Lacking
    <2> HIDE DEF Lacking
    <2> QED BY <2>1
  <1>2. /\ Len(commits) \in Nat /\ Len(made) \in Nat
        /\ Len(commits') = Len(commits) + Len(made)
        /\ \A i \in 1..Len(commits) : commits'[i] = commits[i]
        /\ \A i \in (Len(commits) + 1)..Len(commits') : commits'[i] = made[i - Len(commits)]
    BY <1>1, ConcatProperties
  <1>3. \A i \in (Len(commits) + 1)..Len(commits') : commits'[i] \in Lacking(e)
    <2> SUFFICES ASSUME NEW i \in (Len(commits) + 1)..Len(commits')
                 PROVE  commits'[i] \in Lacking(e)
      OBVIOUS
    <2>1. i - Len(commits) \in 1..Len(made) BY <1>2
    <2>2. made[i - Len(commits)] \in Lacking(e)
      <3> HIDE DEF Lacking
      <3> QED BY <2>1
    <2> QED BY <1>2, <2>2
  <1>4. Lacking(e)' = Lacking(e) BY DEF Lacking, CommitSet, Content
  <1>5. Holders(e)' = Holders(e)
    <2>1. \A i \in 1..Len(commits') : i \in 1..Len(commits)
                                      \/ i \in (Len(commits) + 1)..Len(commits')
      BY <1>2
    <2>2. \A i \in 1..Len(commits) : i \in 1..Len(commits') BY <1>2
    <2> HIDE DEF Lacking
    <2> QED BY <1>2, <1>3, <1>4, <2>1, <2>2 DEF Holders
  <1>6. Len(commits') \in Nat /\ Len(commits) <= Len(commits') BY <1>2
  <1>7. ASSUME NEW b \in Free(e), NEW c \in SUBSET ((Len(commits) + 1)..Len(commits'))
        PROVE  b \in Free(e)' /\ b \cup c \in Free(e)'
    <2>1. \A i \in Holders(e) : i <= Len(commits) BY <1>2 DEF Holders
    <2>2. \A i \in b : i \in 1..Len(commits') /\ i \notin Holders(e) BY <1>2 DEF Free
    <2>3. \A i \in c : i \in 1..Len(commits') /\ i \notin Holders(e) BY <1>2, <2>1
    <2>4. b \in SUBSET ((1..Len(commits')) \ Holders(e))
          /\ b \cup c \in SUBSET ((1..Len(commits')) \ Holders(e))
      BY <2>2, <2>3
    <2> QED BY <1>5, <2>4 DEF Free
  <1>8. ASSUME NEW i, Born(e, i) PROVE Born(e, i)'
    <2>1. i \in 1..Len(commits) BY <1>8 DEF Born, Holders
    <2> HIDE DEF Holders
    <2> QED BY <1>2, <1>5, <1>8, <2>1 DEF Born
  <1> QED BY <1>5, <1>6, <1>7, <1>8

LEMMA HoldersSame ==
    ASSUME UNCHANGED commits, NEW e
    PROVE  /\ Holders(e)' = Holders(e) /\ Free(e)' = Free(e)
           /\ \A i : Born(e, i) <=> Born(e, i)'
  BY DEF Holders, Free, Born, Lacking, CommitSet, Content

\* Branches that lack it, made of branches that do.
LEMMA KeptStays ==
    ASSUME NEW e, NEW p, Kept(e, p), Clean(e)', UNCHANGED clone,
           Holders(e)' = Holders(e), Free(e) \subseteq Free(e)',
           master' \in Free(e)', incoming' \in Free(e)', currentRev' \in Free(e)',
           \A n \in DOMAIN tags' : tags'[n] \in Free(e)'
    PROVE  Kept(e, p)'
  BY DEF Kept

LEMMA CleanStays ==
    ASSUME NEW e, Clean(e), UNCHANGED <<depot, have>>,
           files' \in Bare(e), index' \in Bare(e)
    PROVE  Clean(e)'
  BY DEF Clean, Bare, Trees

\* Steps that make no commit.
LEMMA KeptQuietly ==
    ASSUME NEW e, NEW p, Kept(e, p), UNCHANGED <<commits, clone>>, Clean(e)',
           master' \in Free(e), incoming' \in Free(e), currentRev' \in Free(e),
           \A n \in DOMAIN tags' : tags'[n] \in Free(e)
    PROVE  Kept(e, p)'
  BY HoldersSame, KeptStays

\* What is synced is a changelist.
LEMMA HeadListed ==
    ASSUME OrderInv, pc = "sync"
    PROVE  \E j \in DOMAIN depot : depot[j].num = Head(newStuff)
  <1>1. PICK j \in DOMAIN depot : Follows(j) BY DEF OrderInv, InOrder, Importing
  <1>2. newStuff \in Seq(Nat) /\ newStuff # <<>> BY DEF OrderInv, InOrder, Importing
  <1>3. 1 \in 1..Len(newStuff) /\ Head(newStuff) = newStuff[1] BY <1>2
  <1>4. j + 1 \in DOMAIN depot /\ Head(newStuff) = depot[j + 1].num BY <1>1, <1>3 DEF Follows
  <1> QED BY <1>4

LEMMA KeptByPull ==
    ASSUME TypeInv, NEW e, NEW p, Kept(e, p), Pull
    PROVE  Kept(e, p)' /\ \A i : Born(e, i) => Born(e, i)'
  <1> USE DEF p4Vars, refVars, diskVars, workVars, userVars
  <1>0. /\ Numbered /\ commits \in Seq(CommitSet) /\ Len(commits) \in Nat
        /\ HeadTree \in Trees
    BY TypeFacts
  <1>1. /\ Clean(e) /\ files \in Bare(e) /\ index \in Bare(e) /\ have \in Bare(e)
        /\ master \in Free(e) /\ incoming \in Free(e) /\ currentRev \in Free(e)
        /\ \A n \in DOMAIN tags : tags[n] \in Free(e)
    BY DEF Kept, Clean
  <1>2. Tree(master) \in Bare(e) /\ Tree(incoming) \in Bare(e) /\ HeadTree \in Bare(e)
    BY <1>0, <1>1, TreeBare, HeadBare
  <1>3. UNCHANGED <<depot, currentRev, clone>>
    BY DEF Pull, StartPull, CheckoutMaster, BranchIncoming, NextChange, Sync, Stage,
           CommitChange, TagChange, Record, Rebase
  <1>4. {} \in Free(e) BY DEF Free
  <1>5. ASSUME UNCHANGED <<commits, master, tags>>, incoming' \in Free(e), Clean(e)'
        PROVE  Kept(e, p)' /\ \A i : Born(e, i) => Born(e, i)'
    BY <1>1, <1>3, <1>5, KeptQuietly, HoldersSame
  <1>6. CASE StartPull BY <1>1, <1>5, <1>6, <1>3, CleanStays DEF StartPull
  <1>7. CASE CheckoutMaster
    <2>1. UNCHANGED <<commits, master, tags, have>> BY <1>7 DEF CheckoutMaster
    <2>2. Checkout(Tree(master)) \/ UNCHANGED diskVars BY <1>7 DEF CheckoutMaster
    <2>3. files' \in Bare(e) /\ index' \in Bare(e) BY <1>1, <1>2, <2>2, CheckoutBare
    <2>4. incoming' \in Free(e) BY <1>1, <1>4, <1>7 DEF CheckoutMaster
    <2> QED BY <1>1, <1>3, <1>5, <2>1, <2>3, <2>4, CleanStays
  <1>8. CASE BranchIncoming
    <2>1. UNCHANGED <<commits, master, tags, have>> BY <1>8 DEF BranchIncoming
    <2>2. synced \in DOMAIN tags => Tree(tags[synced]) \in Bare(e)
      BY <1>0, <1>1, TreeBare
    <2>3. (synced \in DOMAIN tags /\ Checkout(Tree(tags[synced]))) \/ UNCHANGED diskVars
      BY <1>8 DEF BranchIncoming
    <2>4. files' \in Bare(e) /\ index' \in Bare(e) BY <1>1, <2>2, <2>3, CheckoutBare
    <2>5. incoming' \in Free(e) BY <1>1, <1>4, <1>8 DEF BranchIncoming
    <2> QED BY <1>1, <1>3, <1>5, <2>1, <2>4, <2>5, CleanStays
  <1>9. CASE NextChange BY <1>1, <1>3, <1>5, <1>9, CleanStays DEF NextChange
  <1>10. CASE Sync
    <2> DEFINE tree == DepotAt(Head(newStuff))
    <2>1. tree \in Bare(e)
      <3>1. \E j \in DOMAIN depot : depot[j].num = Head(newStuff)
        BY <1>10, HeadListed DEF Sync, TypeInv
      <3> QED BY <1>0, <1>1, <3>1, DepotBare
    <2>2. /\ UNCHANGED <<commits, master, incoming, tags, index>>
          /\ have' = tree
          /\ files' = [f \in File |-> IF have[f] # tree[f] THEN tree[f] ELSE files[f]]
      BY <1>10 DEF Sync
    <2> HIDE DEF tree
    <2>3. files' \in Bare(e)
      <3>1. files' \in Trees BY <1>1, <2>1, <2>2 DEF Bare, Trees
      <3>2. \A f \in File : e \notin files'[f] BY <1>1, <2>1, <2>2 DEF Bare
      <3> QED BY <3>1, <3>2 DEF Bare
    <2>4. Clean(e)' BY <1>1, <1>3, <2>1, <2>2, <2>3 DEF Clean, Bare, Trees
    <2> QED BY <1>1, <1>5, <2>2, <2>4
  <1>11. CASE Stage
    <2>1. /\ UNCHANGED <<commits, master, incoming, tags, files, have>>
          /\ \E done \in SUBSET changed :
                 index' = [f \in File |-> IF f \in done THEN files[f] ELSE index[f]]
      BY <1>11 DEF Stage
    <2>2. index' \in Bare(e)
      <3>1. index' \in Trees BY <1>1, <2>1 DEF Bare, Trees
      <3>2. \A f \in File : e \notin index'[f] BY <1>1, <2>1 DEF Bare
      <3> QED BY <3>1, <3>2 DEF Bare
    <2> QED BY <1>1, <1>3, <1>5, <2>1, <2>2, CleanStays
  <1>12. CASE CommitChange
    <2>1. UNCHANGED <<master, tags, files, index, have>> BY <1>12 DEF CommitChange
    <2>2. Clean(e)' BY <1>1, <1>3, <2>1, CleanStays
    <2>3. CASE UNCHANGED <<commits, incoming>> BY <1>1, <1>5, <2>1, <2>2, <2>3
    <2>4. CASE /\ commits' = Append(commits, Commit(HeadTree, index))
               /\ incoming' = incoming \cup {Len(commits) + 1}
      <3> DEFINE c == Commit(HeadTree, index)
      <3>1. c \in Lacking(e) BY <1>0, <1>1, CommitLacks
      <3>2. c \in CommitSet BY <3>1 DEF Lacking
      <3> HIDE DEF c
      <3>3. <<c>> \in Seq(Lacking(e))
        <4> HIDE DEF Lacking
        <4> QED BY <3>1
      <3>4. commits' = commits \o <<c>> /\ Len(commits') = Len(commits) + 1
        BY <1>0, <2>4, <3>2 DEF c
      <3> HIDE DEF Lacking
      <3>5. /\ Holders(e)' = Holders(e)
            /\ \A b \in Free(e), n \in SUBSET ((Len(commits) + 1)..Len(commits')) :
                   b \in Free(e)' /\ b \cup n \in Free(e)'
            /\ \A i : Born(e, i) => Born(e, i)'
        BY <1>0, <3>3, <3>4, HoldersStay
      <3>6. {Len(commits) + 1} \in SUBSET ((Len(commits) + 1)..Len(commits'))
        BY <1>0, <3>4
      <3>7. incoming' \in Free(e)' BY <1>1, <2>4, <3>5, <3>6
      <3> QED BY <1>1, <1>3, <2>1, <2>2, <3>5, <3>7, KeptStays
    <2> QED BY <1>12, <2>3, <2>4 DEF CommitChange
  <1>13. CASE TagChange
    <2>1. UNCHANGED <<commits, master, incoming, files, index, have>>
          /\ tags' = Tagged(Head(newStuff), incoming)
      BY <1>13 DEF TagChange
    <2>2. \A n \in DOMAIN tags' : tags'[n] \in Free(e) BY <1>1, <2>1 DEF Tagged
    <2>3. Clean(e)' BY <1>1, <1>3, <2>1, CleanStays
    <2> QED BY <1>1, <1>3, <2>1, <2>2, <2>3, KeptQuietly, HoldersSame
  <1>14. CASE Record BY <1>1, <1>3, <1>5, <1>14, CleanStays DEF Record
  <1>15. CASE Rebase
    <2>1. UNCHANGED <<tags, have>> BY <1>15 DEF Rebase
    <2>2. CASE UNCHANGED <<commits, master, incoming, files, index>>
      BY <1>1, <1>3, <1>5, <2>1, <2>2, CleanStays
    <2>3. CASE UNCHANGED <<commits, master>> /\ incoming' = {} /\ Checkout(Tree(master))
      <3>1. files' \in Bare(e) /\ index' \in Bare(e) BY <1>1, <1>2, <2>3, CheckoutBare
      <3> QED BY <1>1, <1>3, <1>4, <1>5, <2>1, <2>3, <3>1, CleanStays
    <2>4. CASE /\ commits' = commits \o Rebased.made
               /\ master' = incoming \cup (Len(commits) + 1)..Len(commits')
               /\ incoming' = {} /\ Checkout(Rebased.tree)
      <3>1. Rebased.tree \in Bare(e) /\ Rebased.made \in Seq(Lacking(e))
        BY <1>0, <1>1, RebasedLacks
      <3>2. files' \in Bare(e) /\ index' \in Bare(e) BY <1>1, <2>4, <3>1, CheckoutBare
      <3>3. Clean(e)' BY <1>1, <1>3, <2>1, <3>2, CleanStays
      <3> HIDE DEF Lacking
      <3>4. /\ Holders(e)' = Holders(e)
            /\ \A b \in Free(e), n \in SUBSET ((Len(commits) + 1)..Len(commits')) :
                   b \in Free(e)' /\ b \cup n \in Free(e)'
            /\ \A i : Born(e, i) => Born(e, i)'
        BY <1>0, <2>4, <3>1, HoldersStay
      <3>5. master' \in Free(e)' /\ incoming' \in Free(e)' /\ currentRev' \in Free(e)'
            /\ \A n \in DOMAIN tags' : tags'[n] \in Free(e)'
        BY <1>1, <1>3, <1>4, <2>1, <2>4, <3>4
      <3>6. Free(e) \subseteq Free(e)' BY <3>4
      <3> QED BY <1>3, <3>3, <3>4, <3>5, <3>6, KeptStays
    <2> QED BY <1>15, <2>2, <2>3, <2>4 DEF Rebase
  <1> QED BY <1>6, <1>7, <1>8, <1>9, <1>10, <1>11, <1>12, <1>13, <1>14, <1>15 DEF Pull

\* What the merge of the commit at hand brings to master.
Theirs == {i \in clone[pushing] : i <= Head(revs).id}

LEMMA KeptByPush ==
    ASSUME TypeInv, NEW e, NEW p, Kept(e, p), PushThrough,
           pc = "merge" => Theirs \in Free(e)
    PROVE  Kept(e, p)' /\ \A i : Born(e, i) => Born(e, i)'
  <1> USE DEF p4Vars, refVars, diskVars, workVars, userVars
  <1>0. /\ Numbered /\ commits \in Seq(CommitSet) /\ Len(commits) \in Nat
        /\ HeadTree \in Trees
    BY TypeFacts
  <1>1. /\ Clean(e) /\ files \in Bare(e) /\ index \in Bare(e) /\ have \in Bare(e)
        /\ master \in Free(e) /\ incoming \in Free(e) /\ currentRev \in Free(e)
        /\ \A n \in DOMAIN tags : tags[n] \in Free(e)
    BY DEF Kept, Clean
  <1>2. Tree(master) \in Bare(e) /\ Tree(currentRev) \in Bare(e) /\ HeadTree \in Bare(e)
    BY <1>0, <1>1, TreeBare, HeadBare
  <1>3. UNCHANGED <<commits, incoming, clone>>
    BY DEF PushThrough, NoRequest, StartPush, MergeRev, OpenFiles, Submit, TagPush,
           NextRev, ResetPush, RevertOpened, ResetFiles
  <1>4. {} \in Free(e) BY DEF Free
  <1>5. ASSUME Clean(e)', master' \in Free(e), currentRev' \in Free(e),
               \A n \in DOMAIN tags' : tags'[n] \in Free(e)
        PROVE  Kept(e, p)' /\ \A i : Born(e, i) => Born(e, i)'
    BY <1>1, <1>3, <1>5, KeptQuietly, HoldersSame
  <1>6. ASSUME UNCHANGED <<depot, have, master, tags>>, currentRev' \in Free(e),
               files' \in Bare(e), index' \in Bare(e)
        PROVE  Kept(e, p)' /\ \A i : Born(e, i) => Born(e, i)'
    BY <1>1, <1>5, <1>6, CleanStays
  <1>7. CASE NoRequest BY <1>1, <1>6, <1>7 DEF NoRequest
  <1>8. ASSUME NEW q \in Push, StartPush(q)
        PROVE  Kept(e, p)' /\ \A i : Born(e, i) => Born(e, i)'
    BY <1>1, <1>6, <1>8 DEF StartPush
  <1>9. CASE MergeRev
    <2> DEFINE base   == Tree(master \cap Theirs)
               ours   == Tree(master)
               merged == [f \in File |-> IF ours[f] = base[f] THEN Tree(Theirs)[f] ELSE ours[f]]
    <2>1. UNCHANGED <<depot, have, tags, currentRev>> /\ pc = "merge" BY <1>9 DEF MergeRev
    <2>2. master \cap Theirs \in Free(e) /\ master \cup Theirs \in Free(e)
      BY <1>1, <2>1 DEF Free
    <2>3. Tree(Theirs) \in Bare(e) BY <1>0, <2>1, TreeBare
    <2>4. merged \in Bare(e)
      <3>1. merged \in Trees BY <1>2, <2>3 DEF Bare, Trees
      <3>2. \A f \in File : e \notin merged[f] BY <1>2, <2>3 DEF Bare
      <3> HIDE DEF merged
      <3> QED BY <3>1, <3>2 DEF Bare
    <2>5. /\ master' \in {master, master \cup Theirs}
          /\ UNCHANGED diskVars \/ Checkout(merged)
      <3> HIDE DEF merged, base
      <3> QED BY <1>9 DEF MergeRev, Theirs, merged, base
    <2> HIDE DEF merged
    <2>6. files' \in Bare(e) /\ index' \in Bare(e) BY <1>1, <2>4, <2>5, CheckoutBare
    <2>7. Clean(e)' BY <1>1, <2>1, <2>6, CleanStays
    <2> QED BY <1>1, <1>5, <2>1, <2>2, <2>5, <2>7
  <1>10. CASE OpenFiles BY <1>1, <1>6, <1>10 DEF OpenFiles
  <1>11. CASE Submit
    <2>1. UNCHANGED <<files, index, master, tags, currentRev>> BY <1>11 DEF Submit
    <2>2. CASE UNCHANGED <<depot, have>> BY <1>1, <1>6, <2>1, <2>2
    <2>3. CASE \E n : /\ depot' = Append(depot, [num |-> n,
                            tree |-> [f \in File |-> IF f \in opened THEN files[f]
                                                     ELSE DepotHead[f]]])
                      /\ have' = [f \in File |-> IF f \in opened THEN files[f] ELSE have[f]]
      <3>1. PICK n : /\ depot' = Append(depot, [num |-> n,
                            tree |-> [f \in File |-> IF f \in opened THEN files[f]
                                                     ELSE DepotHead[f]]])
                     /\ have' = [f \in File |-> IF f \in opened THEN files[f] ELSE have[f]]
        BY <2>3
      <3> DEFINE t == [f \in File |-> IF f \in opened THEN files[f] ELSE DepotHead[f]]
                 d == [num |-> n, tree |-> t]
      <3>2. \E j \in DOMAIN depot : depot[j].num = synced BY <1>0 DEF Numbered
      <3>3. DepotHead \in Bare(e) BY <1>0, <1>1, <3>2, DepotBare
      <3>4. t \in Bare(e)
        <4>1. t \in Trees BY <1>1, <3>3 DEF Bare, Trees
        <4>2. \A f \in File : e \notin t[f] BY <1>1, <3>3 DEF Bare
        <4> HIDE DEF t
        <4> QED BY <4>1, <4>2 DEF Bare
      <3>5. have' \in Bare(e)
        <4>1. have' \in Trees BY <1>1, <3>1 DEF Bare, Trees
        <4>2. \A f \in File : e \notin have'[f] BY <1>1, <3>1 DEF Bare
        <4> QED BY <4>1, <4>2 DEF Bare
      <3>6. d.tree = t OBVIOUS
      <3>7. depot' = Append(depot, d) BY <3>1
      <3> HIDE DEF d, t
      <3>8. \A k \in DOMAIN depot : depot[k].tree \in Bare(e) BY <1>1 DEF Clean
      <3>9. \A k \in DOMAIN depot' : depot'[k].tree \in Bare(e)
        BY <1>0, <3>4, <3>6, <3>7, <3>8, DepotGrows
      <3>10. Clean(e)' BY <1>1, <2>1, <3>5, <3>9 DEF Clean, Bare, Trees
      <3> QED BY <1>1, <1>5, <2>1, <3>10
    <2> QED BY <1>11, <2>2, <2>3 DEF Submit
  <1>12. CASE TagPush
    <2>1. UNCHANGED <<depot, have, files, index, master, currentRev>>
          /\ (UNCHANGED tags \/ tags' = Tagged(final.num, master))
      BY <1>12 DEF TagPush
    <2>2. \A n \in DOMAIN tags' : tags'[n] \in Free(e) BY <1>1, <2>1 DEF Tagged
    <2>3. Clean(e)' BY <1>1, <2>1, CleanStays
    <2> QED BY <1>1, <1>5, <2>1, <2>2, <2>3
  <1>13. CASE NextRev BY <1>1, <1>4, <1>6, <1>13 DEF NextRev
  <1>14. CASE ResetPush
    <2>1. files' \in Bare(e) /\ index' \in Bare(e) BY <1>1, <1>2, <1>14, ResetBare DEF ResetPush
    <2>2. UNCHANGED <<depot, have, tags, currentRev>> /\ master' = currentRev
      BY <1>14 DEF ResetPush
    <2>3. Clean(e)' BY <1>1, <2>1, <2>2, CleanStays
    <2> QED BY <1>1, <1>5, <2>2, <2>3
  <1>15. CASE RevertOpened
    <2>1. /\ UNCHANGED <<depot, have, index, master, tags, currentRev>>
          /\ files' = [f \in File |-> IF f \in opened /\ have[f] # {} THEN have[f] ELSE files[f]]
      BY <1>15 DEF RevertOpened
    <2>2. files' \in Bare(e)
      <3>1. files' \in Trees BY <1>1, <2>1 DEF Bare, Trees
      <3>2. \A f \in File : e \notin files'[f] BY <1>1, <2>1 DEF Bare
      <3> QED BY <3>1, <3>2 DEF Bare
    <2> QED BY <1>1, <1>6, <2>1, <2>2
  <1>16. CASE ResetFiles
    <2>1. files' \in Bare(e) /\ index' \in Bare(e) BY <1>1, <1>2, <1>16, ResetBare DEF ResetFiles
    <2>2. UNCHANGED <<depot, have, tags, master>> /\ currentRev' = {}
      BY <1>16 DEF ResetFiles, GiveUpPush
    <2> QED BY <1>4, <1>6, <2>1, <2>2
  <1> QED BY <1>7, <1>8, <1>9, <1>10, <1>11, <1>12, <1>13, <1>14, <1>15, <1>16
          DEF PushThrough

\* A Perforce user's edit is another one.
LEMMA KeptByUser ==
    ASSUME TypeInv, NEW p \in Push, NEW e \in EditsOf(p), Kept(e, p),
           NEW x \in UserEdit, UserSubmits(x)
    PROVE  Kept(e, p)' /\ \A i : Born(e, i) => Born(e, i)'
  <1> USE DEF p4Vars, refVars, diskVars, workVars, userVars
  <1> DEFINE t == [DepotHead EXCEPT ![FileOf[x]] = @ \cup {x}]
             d == [num |-> counter + 1, tree |-> t]
  <1>1. /\ depot' = Append(depot, d)
        /\ UNCHANGED <<have, files, index, commits, master, incoming, currentRev, tags, clone>>
    BY DEF UserSubmits
  <1>2. Numbered BY TypeFacts
  <1>3. e # x
    <2>1. e \notin UserEdit
      <3>1. PICK k \in 1..Len(Series[p]) : e = Series[p][k] BY DEF EditsOf
      <3>2. Series[p] \in Seq(Edit \ UserEdit) BY ConstantsAssumption
      <3> QED BY <3>1, <3>2
    <2> QED BY <2>1
  <1>4. /\ Clean(e) /\ files \in Bare(e) /\ index \in Bare(e) /\ have \in Bare(e)
        /\ master \in Free(e) /\ incoming \in Free(e) /\ currentRev \in Free(e)
        /\ \A n \in DOMAIN tags : tags[n] \in Free(e)
        /\ \A k \in DOMAIN depot : depot[k].tree \in Bare(e)
    BY DEF Kept, Clean
  <1>5. t \in Bare(e)
    <2>1. \E j \in DOMAIN depot : depot[j].num = synced BY <1>2 DEF Numbered
    <2>2. DepotHead \in Bare(e) BY <1>2, <1>4, <2>1, DepotBare
    <2>3. x \in Edit BY ConstantsAssumption
    <2>4. t \in Trees BY <2>2, <2>3 DEF Bare, Trees
    <2>5. \A f \in File : e \notin t[f] BY <1>3, <2>2 DEF Bare, Trees
    <2> HIDE DEF t
    <2> QED BY <2>4, <2>5 DEF Bare
  <1>6. d.tree = t OBVIOUS
  <1> HIDE DEF d, t
  <1>7. \A k \in DOMAIN depot' : depot'[k].tree \in Bare(e)
    BY <1>1, <1>2, <1>4, <1>5, <1>6, DepotGrows
  <1>8. Clean(e)' BY <1>1, <1>4, <1>7 DEF Clean, Bare, Trees
  <1> QED BY <1>1, <1>4, <1>8, KeptQuietly, HoldersSame

\* The files before each commit of a session, and its commits.
Before(p, k) == [f \in File |->
    Tree(master)[f] \cup {e \in Edit : FileOf[e] = f /\ \E j \in 1..k : Series[p][j] = e}]
Made(p) == [k \in 1..Len(Series[p]) |-> Commit(Before(p, k - 1), Before(p, k))]
News(p) == (Len(commits) + 1)..(Len(commits) + Len(Series[p]))

LEMMA CloneMakes ==
    ASSUME TypeInv, NEW p \in Push, SessionClones(p)
    PROVE  /\ commits' = commits \o Made(p) /\ clone' = [clone EXCEPT ![p] = master \cup News(p)]
           /\ clone[p] = {}
           /\ UNCHANGED <<depot, have, files, index, master, incoming, currentRev, tags, pc>>
           /\ UNCHANGED <<pushing, revs, verdict, opened, head>>
           /\ Len(Series[p]) \in Nat \ {0}
           /\ Made(p) \in Seq(CommitSet) /\ Len(Made(p)) = Len(Series[p])
           /\ \A k \in 1..Len(Series[p]) : Made(p)[k] = Commit(Before(p, k - 1), Before(p, k))
           /\ \A k : Before(p, k) \in Trees
           /\ clone \in [Push -> Branches]
  <1> USE DEF p4Vars, refVars, diskVars, workVars, userVars
  <1>1. commits \in Seq(CommitSet) /\ clone \in [Push -> Branches] /\ master \in Branches
    BY TypeFacts DEF RefsTyped
  <1>2. Series[p] \in Seq(Edit \ UserEdit) /\ Series[p] # <<>> BY ConstantsAssumption
  <1>3. Len(Series[p]) \in Nat \ {0} BY <1>2
  <1>4. \A k : Before(p, k) \in Trees
    <2> SUFFICES ASSUME NEW k PROVE Before(p, k) \in Trees OBVIOUS
    <2>1. Tree(master) \in Trees BY <1>1, TreeTyped
    <2> QED BY <2>1 DEF Before, Trees
  <1>5. \A k \in 1..Len(Series[p]) : Commit(Before(p, k - 1), Before(p, k)) \in CommitSet
    BY <1>4, CommitTyped
  <1>6. Made(p) \in Seq(CommitSet) /\ Len(Made(p)) = Len(Series[p])
    <2> DEFINE size == Len(Series[p])
    <2> HIDE DEF size
    <2>1. Made(p) \in [1..size -> CommitSet] BY <1>5 DEF Made, size
    <2> QED BY <1>3, <2>1 DEF size
  <1>7. \A k \in 1..Len(Series[p]) : Made(p)[k] = Commit(Before(p, k - 1), Before(p, k))
    BY DEF Made
  <1>8. /\ commits' = commits \o Made(p) /\ clone' = [clone EXCEPT ![p] = master \cup News(p)]
        /\ clone[p] = {}
        /\ UNCHANGED <<depot, have, files, index, master, incoming, currentRev, tags, pc>>
        /\ UNCHANGED <<pushing, revs, verdict, opened, head>>
    BY DEF SessionClones, Made, Before, News
  <1> QED BY <1>1, <1>3, <1>4, <1>6, <1>7, <1>8

\* Another session's edits are other ones.
LEMMA KeptByClone ==
    ASSUME TypeInv, EditsApart, NEW p \in Push, NEW e \in EditsOf(p), Kept(e, p),
           NEW q \in Push \ {p}, SessionClones(q)
    PROVE  Kept(e, p)' /\ \A i : Born(e, i) => Born(e, i)'
  <1>0. /\ commits \in Seq(CommitSet) /\ Len(commits) \in Nat BY TypeFacts
  <1>1. /\ commits' = commits \o Made(q) /\ clone' = [clone EXCEPT ![q] = master \cup News(q)]
        /\ UNCHANGED <<depot, have, files, index, master, incoming, currentRev, tags>>
        /\ Len(Series[q]) \in Nat \ {0}
        /\ Made(q) \in Seq(CommitSet) /\ Len(Made(q)) = Len(Series[q])
        /\ \A k \in 1..Len(Series[q]) : Made(q)[k] = Commit(Before(q, k - 1), Before(q, k))
        /\ \A k : Before(q, k) \in Trees
        /\ clone \in [Push -> Branches]
    BY CloneMakes
  <1>2. /\ Clean(e) /\ files \in Bare(e) /\ index \in Bare(e)
        /\ master \in Free(e) /\ incoming \in Free(e) /\ currentRev \in Free(e)
        /\ \A n \in DOMAIN tags : tags[n] \in Free(e)
        /\ \A v \in Push \ {p} : clone[v] \in Free(e)
        /\ Holders(e) \subseteq clone[p]
    BY DEF Kept, Clean
  <1>3. Tree(master) \in Bare(e) BY <1>0, <1>2, TreeBare
  <1>4. e \notin EditsOf(q) BY DEF EditsApart
  <1>5. \A k \in 1..Len(Series[q]) : Before(q, k) \in Bare(e)
    <2> SUFFICES ASSUME NEW k \in 1..Len(Series[q]) PROVE Before(q, k) \in Bare(e) OBVIOUS
    <2>1. \A j \in 1..k : Series[q][j] # e BY <1>1, <1>4 DEF EditsOf
    <2>2. \A f \in File : e \notin Before(q, k)[f] BY <1>3, <2>1 DEF Before, Bare
    <2> QED BY <1>1, <2>2 DEF Bare
  <1>6. \A k \in 1..Len(Series[q]) : Made(q)[k] \in Lacking(e)
    BY <1>1, <1>5, CommitLacks
  <1>7. Made(q) \in Seq(Lacking(e))
    <2> HIDE DEF Lacking
    <2> QED BY <1>1, <1>6
  <1> HIDE DEF Lacking
  <1>8. /\ Holders(e)' = Holders(e) /\ Len(commits') = Len(commits) + Len(Series[q])
        /\ \A b \in Free(e), n \in SUBSET ((Len(commits) + 1)..Len(commits')) :
               b \in Free(e)' /\ b \cup n \in Free(e)'
        /\ \A i : Born(e, i) => Born(e, i)'
    <2>1. Len(commits') = Len(commits) + Len(Series[q])
      <3>1. Len(commits \o Made(q)) = Len(commits) + Len(Made(q))
        BY <1>0, <1>1, ConcatProperties
      <3> QED BY <1>1, <3>1
    <2> QED BY <1>0, <1>1, <1>7, <2>1, HoldersStay
  <1>9. master \cup News(q) \in Free(e)'
    <2>1. News(q) \in SUBSET ((Len(commits) + 1)..Len(commits')) BY <1>8 DEF News
    <2> QED BY <1>2, <1>8, <2>1
  <1>10. \A v \in Push \ {p} : clone'[v] \in Free(e)'
    <2> SUFFICES ASSUME NEW v \in Push \ {p} PROVE clone'[v] \in Free(e)' OBVIOUS
    <2>1. CASE v = q BY <1>1, <1>9, <2>1
    <2>2. CASE v # q
      <3>1. clone'[v] = clone[v] BY <1>1, <2>2
      <3> QED BY <1>2, <1>8, <3>1
    <2> QED BY <2>1, <2>2
  <1>11. clone'[p] = clone[p] BY <1>1
  <1>12. Clean(e)' BY <1>1, <1>2, CleanStays
  <1>13. /\ master' \in Free(e)' /\ incoming' \in Free(e)' /\ currentRev' \in Free(e)'
         /\ \A n \in DOMAIN tags' : tags'[n] \in Free(e)'
    BY <1>1, <1>2, <1>8
  <1>14. Holders(e)' \subseteq clone'[p] BY <1>2, <1>8, <1>11
  <1> HIDE DEF Holders, Free
  <1> QED BY <1>8, <1>10, <1>12, <1>13, <1>14 DEF Kept

\* And the session's own edit is in its new commits, from one on.
LEMMA WaitsByClone ==
    ASSUME TypeInv, NEW p \in Push, NEW e \in EditsOf(p), Kept(e, p), SessionClones(p)
    PROVE  Waits(e, p)'
  <1>0. /\ commits \in Seq(CommitSet) /\ Len(commits) \in Nat BY TypeFacts
  <1> DEFINE size == Len(Series[p])
             N == Len(commits)
  <1>1. /\ commits' = commits \o Made(p) /\ clone' = [clone EXCEPT ![p] = master \cup News(p)]
        /\ clone[p] = {}
        /\ UNCHANGED <<depot, have, files, index, master, incoming, currentRev, tags>>
        /\ size \in Nat \ {0}
        /\ Made(p) \in Seq(CommitSet) /\ Len(Made(p)) = size
        /\ \A k \in 1..size : Made(p)[k] = Commit(Before(p, k - 1), Before(p, k))
        /\ \A k : Before(p, k) \in Trees
        /\ clone \in [Push -> Branches]
    BY CloneMakes
  <1>2. /\ Clean(e) /\ files \in Bare(e) /\ index \in Bare(e)
        /\ master \in Free(e) /\ incoming \in Free(e) /\ currentRev \in Free(e)
        /\ \A n \in DOMAIN tags : tags[n] \in Free(e)
        /\ \A v \in Push \ {p} : clone[v] \in Free(e)
        /\ Holders(e) = {}
    BY <1>1 DEF Kept, Clean
  <1>3. Tree(master) \in Bare(e) BY <1>0, <1>2, TreeBare
  <1>4. PICK m \in 1..size : /\ Series[p][m] = e
                             /\ \A k \in 1..size : Series[p][k] = e => m <= k
    <2> DEFINE S == {k \in 1..size : Series[p][k] = e}
    <2>1. S \in SUBSET Nat /\ S # {} BY DEF EditsOf
    <2> HIDE DEF S
    <2>2. \E m \in S : \A n \in S : m <= n BY <2>1, LeastNumber
    <2> QED BY <2>2 DEF S
  <1>5. ASSUME NEW k \in 0..(m - 1) PROVE Before(p, k) \in Bare(e)
    <2>1. \A j \in 1..k : j \in 1..size /\ j < m BY <1>1, <1>4
    <2>2. \A j \in 1..k : Series[p][j] # e BY <1>1, <1>4, <2>1
    <2>3. \A f \in File : e \notin Before(p, k)[f] BY <1>3, <2>2 DEF Before, Bare
    <2> QED BY <1>1, <2>3 DEF Bare
  <1>18. PICK new \in Nat : new = N + m BY <1>0, <1>1, <1>4
  <1>6. /\ Len(commits') = N + size /\ new \in 1..Len(commits')
        /\ \A i \in 1..N : commits'[i] = commits[i]
        /\ \A i \in 1..size : commits'[N + i] = Made(p)[i]
    <2>1. /\ Len(commits') = N + Len(Made(p))
          /\ \A i \in 1..N : commits'[i] = commits[i]
          /\ \A i \in (N + 1)..(N + Len(Made(p))) : commits'[i] = Made(p)[i - N]
      <3> DEFINE both == commits \o Made(p)
      <3>1. /\ Len(both) = N + Len(Made(p))
            /\ \A i \in 1..Len(commits) + Len(Made(p)) :
                   both[i] = IF i <= Len(commits) THEN commits[i] ELSE Made(p)[i - Len(commits)]
        <4> HIDE DEF size
        <4> QED BY <1>0, <1>1, ConcatProperties
      <3>2. commits' = both BY <1>1
      <3>3. Len(Made(p)) \in Nat BY <1>1
      <3> HIDE DEF both, size
      <3> QED BY <1>0, <3>1, <3>2, <3>3
    <2> HIDE DEF size
    <2>2. ASSUME NEW i \in 1..size PROVE commits'[N + i] = Made(p)[i]
      <3>1. N + i \in (N + 1)..(N + Len(Made(p))) /\ (N + i) - N = i BY <1>0, <1>1
      <3> QED BY <2>1, <3>1
    <2> QED BY <1>0, <1>1, <1>4, <1>18, <2>1, <2>2
  <1>7. \A i \in 1..Len(commits') : i < new => commits'[i] \in Lacking(e)
    <2> SUFFICES ASSUME NEW i \in 1..Len(commits'), i < new PROVE commits'[i] \in Lacking(e)
      OBVIOUS
    <2>1. CASE i <= N
      <3>1. i \in 1..N BY <1>0, <2>1
      <3>2. commits[i] \in Lacking(e) BY <1>2, <3>1 DEF Holders
      <3> QED BY <1>6, <3>1, <3>2
    <2>2. CASE i > N
      <3> DEFINE k == i - N
      <3>1. k \in 1..size /\ k \in 0..(m - 1) /\ i = N + k BY <1>0, <1>1, <1>4, <1>6, <1>18, <2>2
      <3> HIDE DEF k, size
      <3>2. commits'[i] = Commit(Before(p, k - 1), Before(p, k)) BY <1>1, <1>6, <3>1
      <3>3. Before(p, k) \in Bare(e) BY <1>5, <3>1
      <3> QED BY <1>1, <3>2, <3>3, CommitLacks
    <2> QED BY <1>0, <2>1, <2>2
  <1>8. FileOf[e] \in DOMAIN commits'[new].to /\ e \in commits'[new].to[FileOf[e]]
    <2> DEFINE f == FileOf[e]
    <2>1. e \in Edit /\ f \in File
      <3>1. Series[p] \in Seq(Edit \ UserEdit) BY ConstantsAssumption
      <3>2. e \in Edit BY <1>4, <3>1
      <3> QED BY <3>2, ConstantsAssumption
    <2>2. commits'[new] = Commit(Before(p, m - 1), Before(p, m)) BY <1>1, <1>4, <1>6, <1>18
    <2>3. m - 1 \in 0..(m - 1) /\ m \in 1..m BY <1>1, <1>4
    <2>4. e \notin Before(p, m - 1)[f] BY <1>5, <2>1, <2>3 DEF Bare
    <2>5. e \in Before(p, m)[f] BY <1>4, <2>1, <2>3 DEF Before
    <2>6. f \in {g \in File : Before(p, m - 1)[g] # Before(p, m)[g]} BY <2>1, <2>4, <2>5
    <2>7. commits'[new].to = [g \in {g \in File : Before(p, m - 1)[g] # Before(p, m)[g]}
                                |-> Before(p, m)[g]]
      BY <2>2 DEF Commit
    <2> QED BY <2>5, <2>6, <2>7
  <1>9. Lacking(e)' = Lacking(e) BY DEF Lacking, CommitSet, Content
  <1>10. new \in Holders(e)'
    <2>1. commits'[new] \notin Lacking(e) BY <1>8 DEF Lacking
    <2> HIDE DEF Lacking
    <2> QED BY <1>6, <1>9, <2>1 DEF Holders
  <1>11. \A i \in Holders(e)' : i \in 1..Len(commits') /\ new <= i
    <2> SUFFICES ASSUME NEW i \in Holders(e)' PROVE i \in 1..Len(commits') /\ new <= i
      OBVIOUS
    <2>1. i \in 1..Len(commits') /\ commits'[i] \notin Lacking(e)
      <3> HIDE DEF Lacking
      <3> QED BY <1>9 DEF Holders
    <2>2. ~(i < new) BY <1>7, <2>1
    <2> QED BY <1>6, <2>1, <2>2
  <1>12. \A b \in Free(e) : b \in Free(e)'
    <2> SUFFICES ASSUME NEW b \in Free(e) PROVE b \in Free(e)' OBVIOUS
    <2>1. \A i \in b : i \in 1..N BY DEF Free
    <2>2. \A i \in b : i \in 1..Len(commits') /\ i < new BY <1>0, <1>1, <1>4, <1>6, <1>18, <2>1
    <2>3. \A i \in b : i \in 1..Len(commits') /\ i \notin Holders(e)' BY <1>6, <1>11, <2>2
    <2>4. b \in SUBSET ((1..Len(commits')) \ Holders(e)') BY <2>3
    <2> QED BY <2>4 DEF Free
  <1>13. Holders(e)' \subseteq clone'[p]
    <2>1. \A i \in Holders(e)' : i \in News(p)
      BY <1>0, <1>1, <1>4, <1>6, <1>11, <1>18 DEF News
    <2> QED BY <1>1, <2>1
  <1>14. \A v \in Push \ {p} : clone'[v] \in Free(e)'
    <2> SUFFICES ASSUME NEW v \in Push \ {p} PROVE clone'[v] \in Free(e)' OBVIOUS
    <2>1. clone'[v] = clone[v] BY <1>1
    <2> QED BY <1>2, <1>12, <2>1
  <1>15. Clean(e)' BY <1>1, <1>2, CleanStays
  <1>16. Kept(e, p)'
    <2>1. /\ master' \in Free(e)' /\ incoming' \in Free(e)' /\ currentRev' \in Free(e)'
          /\ \A n \in DOMAIN tags' : tags'[n] \in Free(e)'
      BY <1>1, <1>2, <1>12
    <2> HIDE DEF Holders, Free
    <2> QED BY <1>13, <1>14, <1>15, <2>1 DEF Kept
  <1>17. Born(e, new)' BY <1>8, <1>10, <1>11 DEF Born
  <1> QED BY <1>10, <1>16, <1>17 DEF Waits

LEMMA KeptByTrouble ==
    ASSUME NEW e, NEW p, Kept(e, p),
           UNCHANGED <<depot, have, files, index, commits, master, incoming, tags, clone>>,
           currentRev' \in {currentRev, {}}
    PROVE  Kept(e, p)' /\ \A i : Born(e, i) => Born(e, i)'
  <1>1. {} \in Free(e) BY DEF Free
  <1>2. /\ Clean(e) /\ files \in Bare(e) /\ index \in Bare(e)
        /\ master \in Free(e) /\ incoming \in Free(e) /\ currentRev \in Free(e)
        /\ \A n \in DOMAIN tags : tags[n] \in Free(e)
    BY DEF Kept, Clean
  <1>3. Clean(e)' BY <1>2, CleanStays
  <1>4. currentRev' \in Free(e) BY <1>1, <1>2
  <1> QED BY <1>2, <1>3, <1>4, KeptQuietly, HoldersSame

-----------------------------------------------------------------------------
(* What git cherry lists                                                    *)

LEMMA AscendingLists ==
    ASSUME Len(commits) \in Nat, NEW S \in SUBSET (1..Len(commits))
    PROVE  LET s == Ascending(S) IN
           /\ s \in Seq(S)
           /\ \A j, k \in 1..Len(s) : j < k => s[j] < s[k]
           /\ \A i \in S : \E k \in 1..Len(s) : s[k] = i
  <1> DEFINE N == Len(commits)
             Lists(n) == {s \in Seq(S) :
                 /\ \A k \in 1..Len(s) : s[k] <= n
                 /\ \A j, k \in 1..Len(s) : j < k => s[j] < s[k]
                 /\ \A i \in S : i <= n => \E k \in 1..Len(s) : s[k] = i}
             X == [n \in 0..N |-> Lists(n)]
  <1>1. \A i \in S : i \in 1..N /\ i \in Nat OBVIOUS
  <1>2. N \in Nat OBVIOUS
  <1>3. <<>> \in Lists(0) BY <1>1
  <1>4. ASSUME NEW n \in 1..N, NEW s \in Lists(n - 1)
        PROVE  (n \in S => Append(s, n) \in Lists(n)) /\ (n \notin S => s \in Lists(n))
    <2>1. /\ s \in Seq(S) /\ Len(s) \in Nat /\ n \in Nat
          /\ \A k \in 1..Len(s) : s[k] \in S /\ s[k] \in Nat /\ s[k] <= n - 1
          /\ \A j, k \in 1..Len(s) : j < k => s[j] < s[k]
          /\ \A i \in S : i <= n - 1 => \E k \in 1..Len(s) : s[k] = i
      <3>1. s \in Seq(S) BY <1>4
      <3>2. \A k \in 1..Len(s) : s[k] \in S BY <3>1
      <3>3. /\ \A k \in 1..Len(s) : s[k] <= n - 1
            /\ \A j, k \in 1..Len(s) : j < k => s[j] < s[k]
            /\ \A i \in S : i <= n - 1 => \E k \in 1..Len(s) : s[k] = i
        BY <1>4
      <3>4. \A k \in 1..Len(s) : s[k] \in Nat BY <1>1, <3>2
      <3>5. n \in Nat BY <1>2
      <3> QED BY <3>1, <3>2, <3>3, <3>4, <3>5
    <2>2. ASSUME n \in S PROVE Append(s, n) \in Lists(n)
      <3> DEFINE t == Append(s, n)
      <3>1. /\ t \in Seq(S) /\ Len(t) = Len(s) + 1 /\ t[Len(s) + 1] = n
            /\ \A k \in 1..Len(s) : t[k] = s[k]
        BY <2>1, <2>2
      <3> HIDE DEF t
      <3>2. \A k \in 1..Len(t) : k \in 1..Len(s) \/ k = Len(s) + 1 BY <2>1, <3>1
      <3>3. \A k \in 1..Len(t) : t[k] <= n BY <2>1, <3>1, <3>2
      <3>4. \A j, k \in 1..Len(t) : j < k => t[j] < t[k]
        <4> SUFFICES ASSUME NEW j \in 1..Len(t), NEW k \in 1..Len(t), j < k
                     PROVE  t[j] < t[k]
          OBVIOUS
        <4>1. j \in 1..Len(s) BY <2>1, <3>1
        <4>2. CASE k \in 1..Len(s) BY <2>1, <3>1, <4>1, <4>2
        <4>3. CASE k = Len(s) + 1
          <5>1. t[j] = s[j] /\ s[j] <= n - 1 /\ s[j] \in Nat BY <2>1, <3>1, <4>1
          <5> QED BY <2>1, <3>1, <4>3, <5>1
        <4> QED BY <3>2, <4>2, <4>3
      <3>5. ASSUME NEW i \in S, i <= n PROVE \E k \in 1..Len(t) : t[k] = i
        <4>1. CASE i = n BY <2>1, <3>1, <4>1
        <4>2. CASE i # n
          <5>1. i <= n - 1 BY <1>1, <2>1, <3>5, <4>2
          <5>2. PICK k \in 1..Len(s) : s[k] = i BY <2>1, <5>1
          <5>3. k \in 1..Len(t) /\ t[k] = i BY <2>1, <3>1, <5>2
          <5> QED BY <5>3
        <4> QED BY <4>1, <4>2
      <3> QED BY <3>1, <3>3, <3>4, <3>5 DEF t
    <2>3. ASSUME n \notin S PROVE s \in Lists(n)
      <3>1. \A i \in S : i <= n => i <= n - 1 BY <1>1, <2>1, <2>3
      <3>2. \A k \in 1..Len(s) : s[k] <= n BY <2>1
      <3> QED BY <2>1, <3>1, <3>2
    <2> QED BY <2>2, <2>3
  <1>5. \A n \in 0..N : X[n] = Lists(n) /\ Lists(n) \subseteq Seq(S) OBVIOUS
  <1>6. 0 \in 0..N /\ N \in 0..N /\ \A n \in 1..N : n \in 0..N /\ n - 1 \in 0..N BY <1>2
  <1> HIDE DEF X, Lists
  <1>7. Ascending(S) \in X[N]
    <2>1. <<>> \in X[0] BY <1>3, <1>5, <1>6
    <2>2. \A n \in 1..N : \A x \in X[n - 1] :
              /\ n \in S => Append(x, n) \in X[n]
              /\ n \notin S => x \in X[n]
      BY <1>4, <1>5, <1>6
    <2>3. \A n \in 0..N : X[n] \subseteq Seq(S) BY <1>5
    <2> QED BY <1>2, <2>1, <2>2, <2>3, AscendingIn
  <1>8. Ascending(S) \in Lists(N) BY <1>5, <1>6, <1>7
  <1> QED BY <1>1, <1>8 DEF Lists

LEMMA CherryLists ==
    ASSUME Len(commits) \in Nat, NEW p \in Push, clone[p] \in Branches
    PROVE  /\ \A j, k \in 1..Len(Cherry(p)) : j < k => Cherry(p)[j].id < Cherry(p)[k].id
           /\ \A i \in clone[p] \ master : \E k \in 1..Len(Cherry(p)) : Cherry(p)[k].id = i
  <1> DEFINE S == clone[p] \ master
             s == Ascending(S)
             line == [k \in 1..Len(s) |->
                 [id |-> s[k], plus |-> ~\E j \in master \ clone[p] : SamePatch(s[k], j)]]
  <1>1. S \in SUBSET (1..Len(commits)) BY DEF Branches
  <1>2. /\ s \in Seq(S)
        /\ \A j, k \in 1..Len(s) : j < k => s[j] < s[k]
        /\ \A i \in S : \E k \in 1..Len(s) : s[k] = i
    <2> HIDE DEF S
    <2> QED BY <1>1, AscendingLists
  <1>3. Cherry(p) = line BY DEF Cherry
  <1>4. Len(s) \in Nat
    <2> HIDE DEF s, S
    <2> QED BY <1>2
  <1>5. Len(line) = Len(s) /\ \A k \in 1..Len(s) : line[k].id = s[k]
    <2> HIDE DEF s, S
    <2> QED BY <1>4
  <1> HIDE DEF line, s
  <1> QED BY <1>2, <1>3, <1>5

-----------------------------------------------------------------------------
(* Delivery                                                                 *)

LEMMA EditOfPush ==
    ASSUME NEW p \in Push, NEW e \in EditsOf(p)
    PROVE  e \in Edit /\ FileOf[e] \in File /\ p # None
  <1>1. PICK k \in 1..Len(Series[p]) : e = Series[p][k] BY DEF EditsOf
  <1>2. Series[p] \in Seq(Edit \ UserEdit) BY ConstantsAssumption
  <1>3. e \in Edit BY <1>1, <1>2
  <1> QED BY <1>3, ConstantsAssumption

LEMMA DeliveryInit == Init => Delivery
  <1> SUFFICES ASSUME Init PROVE Delivery OBVIOUS
  <1>1. /\ commits = <<Commit([f \in File |-> {}], Everything)>>
        /\ have = Everything /\ files = Everything /\ index = Everything
        /\ master = {1} /\ incoming = {} /\ currentRev = {} /\ revs = <<>>
        /\ pc = "idle" /\ pushing = None
        /\ DOMAIN tags = {1} /\ tags[1] = {1}
        /\ clone = [p \in Push |-> {}] /\ verdict = [p \in Push |-> "none"]
        /\ \A k \in DOMAIN depot : depot[k].tree = Everything
    BY DEF Init
  <1>2. Steady BY <1>1, ConstantsAssumption DEF Steady, Rising
  <1>3. ASSUME NEW p \in Push, NEW e \in EditsOf(p) PROVE Delivers(e, p)
    <2>1. e \in Edit /\ p # None BY EditOfPush
    <2>2. Everything \in Bare(e)
      <3>1. Everything \in Trees BY DEF Everything, Trees
      <3>2. \A f \in File : e \notin Everything[f] BY <2>1, ConstantsAssumption DEF Everything
      <3> QED BY <3>1, <3>2 DEF Bare
    <2>3. Clean(e) BY <1>1, <2>2 DEF Clean
    <2>4. Holders(e) = {}
      <3>1. [f \in File |-> {}] \in Trees BY DEF Trees
      <3> DEFINE c == Commit([f \in File |-> {}], Everything)
      <3>2. c \in Lacking(e) BY <2>2, <3>1, CommitLacks
      <3>3. commits = <<c>> BY <1>1
      <3> HIDE DEF c, Lacking
      <3>4. Len(commits) = 1 /\ commits[1] = c BY <3>3
      <3> QED BY <3>2, <3>4 DEF Holders
    <2>5. Len(commits) = 1
      <3> DEFINE c == Commit([f \in File |-> {}], Everything)
      <3>1. commits = <<c>> BY <1>1
      <3> HIDE DEF c
      <3> QED BY <3>1
    <2>6. {1} \in Free(e) /\ {} \in Free(e) BY <2>4, <2>5 DEF Free
    <2>7. Kept(e, p) BY <1>1, <2>3, <2>4, <2>6 DEF Kept
    <2>8. Waits(e, p) BY <1>1, <2>7 DEF Waits
    <2> QED BY <1>1, <2>1, <2>8 DEF Delivers, Live
  <1> QED BY <1>2, <1>3 DEF Delivery

\* What is in Perforce stays there.
LEMMA DepotKeeps ==
    ASSUME TypeInv, [Next]_vars, NEW e, InDepot(e)
    PROVE  InDepot(e)'
  <1> USE DEF p4Vars, refVars, diskVars, workVars, userVars
  <1>1. UNCHANGED depot \/ \E d : depot' = Append(depot, d)
    BY DEF Next, Pull, StartPull, CheckoutMaster, BranchIncoming, NextChange, Sync, Stage,
           CommitChange, TagChange, Record, Rebase, PushThrough, NoRequest, StartPush,
           MergeRev, OpenFiles, Submit, TagPush, NextRev, ResetPush, RevertOpened,
           ResetFiles, People, UserSubmits, SessionClones, CommandFails, Crash, vars
  <1>2. CASE UNCHANGED depot BY <1>2 DEF InDepot
  <1>3. ASSUME NEW d, depot' = Append(depot, d) PROVE InDepot(e)'
    <2>1. /\ Len(depot) \in Nat /\ Len(depot') = Len(depot) + 1
          /\ \A k \in 1..Len(depot) : depot'[k] = depot[k]
      <3>1. PICK S : depot \in Seq(S) BY TypeFacts DEF Numbered
      <3> QED BY <1>3, <3>1
    <2>2. PICK k \in 1..Len(depot) : e \in depot[k].tree[FileOf[e]] BY DEF InDepot
    <2>3. k \in 1..Len(depot') /\ depot'[k] = depot[k] BY <2>1, <2>2
    <2> QED BY <2>2, <2>3 DEF InDepot
  <1> QED BY <1>1, <1>2, <1>3

LEMMA DeliveryByPull ==
    ASSUME TypeInv, Delivery, Pull
    PROVE  Delivery'
  <1> USE DEF p4Vars, refVars, diskVars, workVars, userVars
  <1>1. /\ UNCHANGED <<clone, verdict, pushing, revs>>
        /\ pc \notin {"merge", "open", "submit", "reset", "rollback", "clean up"}
    BY DEF Pull, StartPull, CheckoutMaster, BranchIncoming, NextChange, Sync, Stage,
           CommitChange, TagChange, Record, Rebase
  <1>2. pc' \in {"pop", "pushed", "merge"} =>
            pc' # "merge" /\ head' = "master" /\ (pc' = "pop" => pushing = None)
    BY DEF Pull, StartPull, CheckoutMaster, BranchIncoming, NextChange, Sync, Stage,
           CommitChange, TagChange, Record, Rebase, Thrown
  <1>3. Steady' BY <1>1, <1>2 DEF Delivery, Steady, Rising
  <1>4. ASSUME NEW p \in Push, NEW e \in EditsOf(p) PROVE Delivers(e, p)'
    <2>1. Delivers(e, p) BY DEF Delivery
    <2>2. InDepot(e) => InDepot(e)' BY DepotKeeps DEF Next
    <2>3. Kept(e, p) => Kept(e, p)' /\ \A i : Born(e, i) => Born(e, i)' BY KeptByPull
    <2>4. verdict'[p] = "none" /\ pushing' # p => Waits(e, p)'
      <3> HIDE DEF p4Vars, refVars, diskVars, workVars, userVars
      <3> QED BY <1>1, <2>1, <2>3 DEF Delivers, Waits
    <2>5. ASSUME Live(p)' PROVE InDepot(e)' \/ Due(e, p)'
      <3>1. Live(p) BY <1>1, <2>5 DEF Live
      <3>2. InDepot(e) \/ Due(e, p) BY <1>1, <2>1, <3>1 DEF Delivers, Merged
      <3>3. CASE Due(e, p)
        <4>1. PICK i : Born(e, i) /\ \E k \in 1..Len(revs) : revs[k].id = i /\ k > 1
          BY <1>1, <3>3 DEF Due
        <4>2. Kept(e, p)' /\ Born(e, i)' BY <2>3, <3>3, <4>1 DEF Due
        <4>3. \E k \in 1..Len(revs') : revs'[k].id = i /\ k > 1 BY <1>1, <4>1
        <4> QED BY <4>2, <4>3 DEF Due
      <3> QED BY <2>2, <3>2, <3>3
    <2>6. verdict'[p] = "ok" => InDepot(e)' BY <1>1, <2>1, <2>2 DEF Delivers
    <2> QED BY <2>4, <2>5, <2>6 DEF Delivers
  <1> QED BY <1>3, <1>4 DEF Delivery

\* Steps of a push that only go on with it or fail.
LEMMA DeliversStill ==
    ASSUME TypeInv, NEW p \in Push, NEW e \in EditsOf(p), Delivers(e, p), [Next]_vars,
           UNCHANGED <<clone, verdict, pushing, revs>>,
           Kept(e, p) => Kept(e, p)' /\ \A i : Born(e, i) => Born(e, i)',
           Live(p)' => Live(p) /\ (pc = "merge" => pc' = "merge"),
           Live(p)' /\ Merged(e) => Merged(e)' \/ InDepot(e)'
    PROVE  Delivers(e, p)'
  <1>1. InDepot(e) => InDepot(e)' BY DepotKeeps
  <1>2. Waits(e, p) => Waits(e, p)' BY DEF Waits
  <1>3. Live(p)' /\ Due(e, p) => Due(e, p)'
    <2> SUFFICES ASSUME Live(p)', Due(e, p) PROVE Due(e, p)' OBVIOUS
    <2>1. PICK i : /\ Born(e, i)
                   /\ \E k \in 1..Len(revs) : revs[k].id = i /\ (pc = "merge" \/ k > 1)
      BY DEF Due
    <2>2. Kept(e, p)' /\ Born(e, i)' BY <2>1 DEF Due
    <2>3. \E k \in 1..Len(revs') : revs'[k].id = i /\ (pc' = "merge" \/ k > 1) BY <2>1
    <2> QED BY <2>2, <2>3 DEF Due
  <1> QED BY <1>1, <1>2, <1>3 DEF Delivers

\* Steps after which no push is at work but one that failed.
LEMMA DeliversNot ==
    ASSUME TypeInv, NEW p \in Push, NEW e \in EditsOf(p), Delivers(e, p), [Next]_vars,
           UNCHANGED clone, Kept(e, p) => Kept(e, p)' /\ \A i : Born(e, i) => Born(e, i)',
           ~Live(p)',
           verdict'[p] = "none" /\ pushing' # p => verdict[p] = "none" /\ pushing # p,
           verdict'[p] = "ok" => verdict[p] = "ok"
    PROVE  Delivers(e, p)'
  <1>1. InDepot(e) => InDepot(e)' BY DepotKeeps
  <1>2. Waits(e, p) => Waits(e, p)' BY DEF Waits
  <1> QED BY <1>1, <1>2 DEF Delivers

LEMMA MergeDelivers ==
    ASSUME TypeInv, Steady, MergeRev, NEW p \in Push, NEW e \in EditsOf(p), Delivers(e, p)
    PROVE  Delivers(e, p)'
  <1> USE DEF p4Vars, refVars, diskVars, workVars, userVars
  <1>0. /\ commits \in Seq(CommitSet) /\ Len(commits) \in Nat
        /\ clone \in [Push -> Branches] /\ Next /\ PushThrough
    BY TypeFacts DEF RefsTyped, Next, PushThrough
  <1>1. /\ pc = "merge" /\ UNCHANGED <<commits, clone, verdict, pushing, revs, opened, depot>>
        /\ pushing # None /\ revs # <<>> /\ revs \in Seq([id : Nat, plus : BOOLEAN])
    BY TypeFacts DEF MergeRev, Shaped, Submitting
  <1>2. pushing \in Push BY <1>1, TypeFacts DEF RestTyped
  <1>3. 1 \in 1..Len(revs) /\ Head(revs) = revs[1] /\ Len(revs) \in Nat BY <1>1
  <1>7. revs[1].id \in Nat
    <2>1. revs[1] \in [id : 1..Len(commits), plus : BOOLEAN]
      BY <1>3, TypeFacts DEF RefsTyped
    <2> QED BY <2>1
  <1>4. CASE Kept(e, p) /\ Theirs \in Free(e)
    <2>1. Kept(e, p)' /\ \A i : Born(e, i) => Born(e, i)' BY <1>0, <1>4, KeptByPush
    <2>2. ~Merged(e) BY <1>1 DEF Merged
    <2>3. Waits(e, p) => Waits(e, p)' BY <1>1, <2>1 DEF Waits
    <2>4. ASSUME Live(p)' PROVE InDepot(e)' \/ Due(e, p)'
      <3>1. Live(p) /\ pushing = p BY <1>1, <2>4 DEF Live
      <3>2. CASE InDepot(e) BY <1>0, <3>2, DepotKeeps
      <3>3. CASE Due(e, p)
        <4>1. PICK i : Born(e, i) /\ \E k \in 1..Len(revs) : revs[k].id = i BY <3>3 DEF Due
        <4>2. PICK k \in 1..Len(revs) : revs[k].id = i BY <4>1
        <4>3. i \notin Theirs /\ i \in clone[pushing]
          <5>1. i \in Holders(e) BY <4>1 DEF Born
          <5>2. i \notin Theirs BY <1>4, <5>1 DEF Free
          <5>3. i \in clone[pushing] BY <1>4, <3>1, <5>1 DEF Kept
          <5> QED BY <5>2, <5>3
        <4>6. i \in Nat BY <4>1 DEF Born, Holders
        <4>4. k # 1
          <5>1. ~(i <= Head(revs).id) BY <4>3 DEF Theirs
          <5> QED BY <1>3, <4>2, <4>6, <5>1
        <4>5. k > 1 /\ k \in 1..Len(revs') BY <1>1, <1>3, <4>4
        <4> QED BY <1>1, <2>1, <4>1, <4>2, <4>5 DEF Due
      <3> QED BY <2>2, <3>1, <3>2, <3>3 DEF Delivers
    <2> QED BY <1>0, <1>1, <2>3, <2>4, DepotKeeps DEF Delivers
  <1>5. CASE p # pushing
    <2>1. Kept(e, p) => Theirs \in Free(e)
      <3>1. Kept(e, p) => clone[pushing] \in Free(e) BY <1>2, <1>5 DEF Kept
      <3> QED BY <3>1 DEF Theirs, Free
    <2>2. CASE Kept(e, p) BY <1>4, <2>1, <2>2
    <2>3. CASE ~Kept(e, p)
      <3>1. ~Live(p)' BY <1>1, <1>5 DEF Live
      <3> QED BY <1>0, <1>1, <2>3, <3>1, DeliversNot
    <2> QED BY <2>2, <2>3
  <1>6. CASE p = pushing
    <2>1. CASE ~Live(p)'
      <3>1. verdict'[p] = "ok" => InDepot(e)' BY <1>0, <1>1, DepotKeeps DEF Delivers
      <3> QED BY <1>1, <1>6, <2>1, <3>1 DEF Delivers
    <2>2. CASE Live(p)' /\ InDepot(e)
      <3>1. InDepot(e)' BY <1>0, <2>2, DepotKeeps
      <3> QED BY <1>1, <1>6, <3>1 DEF Delivers
    <2>3. CASE Live(p)' /\ ~InDepot(e)
      <3>1. Live(p) /\ ~Merged(e) BY <1>1, <1>6 DEF Live, Merged
      <3>2. Due(e, p) BY <2>3, <3>1 DEF Delivers
      <3>3. PICK i : /\ Born(e, i)
                     /\ \E k \in 1..Len(revs) : revs[k].id = i
        BY <3>2 DEF Due
      <3>4. PICK k \in 1..Len(revs) : revs[k].id = i BY <3>3
      <3>5. Kept(e, p) /\ i \in Holders(e) /\ \A j \in Holders(e) : i <= j
        BY <3>2, <3>3 DEF Due, Born
      <3>6. i \in Nat /\ \A j \in Holders(e) : j \in Nat BY <3>5 DEF Holders
      <3>7. CASE k # 1
        <4>1. revs[1].id < revs[k].id BY <1>3, <3>7 DEF Steady, Rising
        <4>2. \A j \in Holders(e) : j \notin Theirs
          <5> SUFFICES ASSUME NEW j \in Holders(e) PROVE ~(j <= revs[1].id)
            BY <1>3 DEF Theirs
          <5>1. i <= j /\ i \in Nat /\ j \in Nat BY <3>5, <3>6
          <5>2. revs[1].id < i BY <3>4, <4>1
          <5> HIDE DEF Holders
          <5> QED BY <1>7, <5>1, <5>2
        <4>3. Theirs \in Free(e)
          <5>1. Theirs \subseteq 1..Len(commits) BY <1>0, <1>2 DEF Theirs, Branches
          <5> QED BY <4>2, <5>1 DEF Free
        <4> QED BY <1>4, <3>5, <4>3
      <3>8. CASE k = 1
        <4> DEFINE base   == Tree(master \cap Theirs)
                   ours   == Tree(master)
                   their  == Tree(Theirs)
                   merged == [f \in File |-> IF ours[f] = base[f] THEN their[f] ELSE ours[f]]
                   f == FileOf[e]
        <4>1. /\ pc' = "open"
              /\ Checkout(merged) /\ \A g \in File : their[g] \in {base[g], merged[g]}
          <5>1. ~Thrown BY <1>1, <1>6, <2>3, EditOfPush DEF Thrown, Live
          <5> HIDE DEF base, merged, ours, their
          <5> QED BY <5>1 DEF MergeRev, Theirs, merged, base, ours, their
        <4>2. f \in File /\ Head(revs).id = i BY <1>3, <3>4, <3>8, EditOfPush
        <4>3. e \notin ours[f] /\ e \notin base[f]
          <5>1. master \in Free(e) /\ master \cap Theirs \in Free(e)
            BY <3>5 DEF Kept, Free
          <5>2. ours \in Bare(e) /\ base \in Bare(e) BY <1>0, <5>1, TreeBare
          <5> HIDE DEF ours, base
          <5> QED BY <4>2, <5>2 DEF Bare
        <4>4. f \in DOMAIN commits[i].to /\ e \in commits[i].to[f] BY <3>3 DEF Born
        <4>5. e \in their[f]
          <5> DEFINE here == {j \in Theirs : f \in DOMAIN commits[j].to}
                     last == CHOOSE j \in here : \A m \in here : m <= j
          <5>1. i \in here
            <6>1. i \in clone[pushing] BY <1>6, <3>5 DEF Kept
            <6> QED BY <3>6, <4>2, <4>4, <6>1 DEF Theirs
          <5>2. \A j \in here : j <= i BY <4>2 DEF Theirs
          <5>3. last \in here /\ \A m \in here : m <= last
            <6> HIDE DEF here
            <6> QED BY <5>1, <5>2
          <5>4. last = i
            <6>1. last \in Nat BY <1>0, <1>2, <5>3 DEF Theirs, Branches
            <6> HIDE DEF here, last
            <6> QED BY <3>6, <5>1, <5>2, <5>3, <6>1
          <5>5. their[f] = commits[last].to[f]
            <6>1. here # {} BY <5>1
            <6> QED BY <4>2, <6>1 DEF Tree
          <5> HIDE DEF last, their
          <5> QED BY <4>4, <5>4, <5>5
        <4>6. e \in merged[f]
          <5>1. merged[f] = IF ours[f] = base[f] THEN their[f] ELSE ours[f] BY <4>2
          <5>2. their[f] \in {base[f], merged[f]} BY <4>1, <4>2
          <5> HIDE DEF merged, ours, base, their
          <5> QED BY <4>3, <4>5, <5>1, <5>2
        <4>7. HeadTree = ours BY <1>1 DEF Steady, HeadTree
        <4>8. e \in files'[f]
          <5>1. files' = Over(files, merged) BY <4>1 DEF Checkout
          <5> HIDE DEF merged, ours
          <5>2. ours[f] # merged[f] BY <4>3, <4>6
          <5>3. files'[f] = merged[f] BY <4>2, <4>7, <5>1, <5>2 DEF Over
          <5> QED BY <4>6, <5>3
        <4>9. f \in CurrentFiles' BY <1>1, <4>2, <4>4 DEF CurrentFiles
        <4>10. Merged(e)' BY <4>1, <4>8, <4>9 DEF Merged
        <4> HIDE DEF merged, ours, base, their
        <4> QED BY <1>0, <1>1, <1>6, <4>10, DepotKeeps DEF Delivers
      <3> QED BY <1>3, <3>7, <3>8
    <2> QED BY <2>1, <2>2, <2>3
  <1> QED BY <1>5, <1>6

LEMMA StartDelivers ==
    ASSUME TypeInv, Steady, NEW q \in Push, StartPush(q),
           NEW p \in Push, NEW e \in EditsOf(p), Delivers(e, p)
    PROVE  Delivers(e, p)'
  <1> USE DEF p4Vars, refVars, diskVars, workVars, userVars
  <1>0. /\ commits \in Seq(CommitSet) /\ Len(commits) \in Nat /\ clone \in [Push -> Branches]
        /\ verdict \in [Push -> {"none", "nothing", "ok", "failed", "lost"}]
        /\ [Next]_vars /\ PushThrough
    BY TypeFacts DEF RefsTyped, RestTyped, Next, PushThrough
  <1>1. /\ pc = "pop" /\ pushing = None /\ clone[q] # {} /\ verdict[q] = "none" /\ p # None
        /\ UNCHANGED <<clone, files, opened>>
    BY EditOfPush DEF StartPush, Ready, Waiting, Steady
  <1>2. Kept(e, p) => Kept(e, p)' /\ \A i : Born(e, i) => Born(e, i)'
    BY <1>0, <1>1, KeptByPush
  <1>3. CASE pushing' = q /\ pc' = "rollback" /\ UNCHANGED verdict
    BY <1>0, <1>1, <1>2, <1>3, DeliversNot DEF Live
  <1>4. CASE Conclude(q, "nothing") /\ pc' = "idle" /\ pushing' = pushing
    BY <1>0, <1>1, <1>2, <1>4, DeliversNot DEF Live, Conclude
  <1>5. CASE pushing' = q /\ revs' = Cherry(q) /\ pc' = "merge" /\ UNCHANGED verdict
    <2>1. CASE p # q BY <1>0, <1>1, <1>2, <1>5, <2>1, DeliversNot DEF Live
    <2>2. CASE p = q
      <3>1. Kept(e, p) /\ \E i : Born(e, i) BY <1>1, <2>2 DEF Delivers, Waits
      <3>2. PICK i : Born(e, i) BY <3>1
      <3>3. i \in clone[q] \ master BY <2>2, <3>1, <3>2 DEF Kept, Born, Free
      <3>4. PICK k \in 1..Len(Cherry(q)) : Cherry(q)[k].id = i
        BY <1>0, <3>3, CherryLists
      <3>5. Due(e, p)'
        <4>1. Kept(e, p)' /\ Born(e, i)' BY <1>2, <3>1, <3>2
        <4>2. k \in 1..Len(revs') /\ revs'[k].id = i BY <1>5, <3>4
        <4> QED BY <1>5, <4>1, <4>2 DEF Due
      <3> QED BY <1>1, <1>5, <2>2, <3>5 DEF Delivers
    <2> QED BY <2>1, <2>2
  <1> QED BY <1>3, <1>4, <1>5 DEF StartPush

\* A submit has the files that are opened.
LEMMA SubmitDelivers ==
    ASSUME TypeInv, Submit, NEW p \in Push, NEW e \in EditsOf(p), Delivers(e, p)
    PROVE  Delivers(e, p)'
  <1> USE DEF p4Vars, refVars, diskVars, workVars, userVars
  <1>0. Numbered /\ [Next]_vars /\ PushThrough BY TypeFacts DEF Next, PushThrough
  <1>1. /\ pc = "submit" /\ UNCHANGED <<clone, verdict, pushing, revs>>
        /\ pc' \in {"tag push", "reset"}
    BY DEF Submit
  <1>2. Kept(e, p) => Kept(e, p)' /\ \A i : Born(e, i) => Born(e, i)'
    BY <1>0, <1>1, KeptByPush
  <1>3. CASE pc' = "reset" BY <1>0, <1>1, <1>2, <1>3, DeliversNot DEF Live
  <1>4. CASE pc' = "tag push"
    <2>1. PICK n : depot' = Append(depot, [num |-> n,
                       tree |-> [f \in File |-> IF f \in opened THEN files[f] ELSE DepotHead[f]]])
      BY <1>4 DEF Submit
    <2> DEFINE t == [f \in File |-> IF f \in opened THEN files[f] ELSE DepotHead[f]]
               d == [num |-> n, tree |-> t]
    <2>2. PICK S : depot \in Seq(S) BY <1>0 DEF Numbered
    <2>3. d.tree = t OBVIOUS
    <2>4. ASSUME Merged(e) PROVE InDepot(e)'
      <3>1. e \in files[FileOf[e]] /\ FileOf[e] \in opened /\ FileOf[e] \in File
        BY <1>1, <2>4, EditOfPush DEF Merged
      <3>2. e \in t[FileOf[e]] BY <3>1
      <3>3. depot' = Append(depot, d) BY <2>1
      <3> HIDE DEF d, t
      <3>4. Len(depot) + 1 \in 1..Len(depot') /\ depot'[Len(depot) + 1] = d BY <2>2, <3>3
      <3> QED BY <2>3, <3>2, <3>4 DEF InDepot
    <2> HIDE DEF d, t
    <2> QED BY <1>0, <1>1, <1>2, <1>4, <2>4, DeliversStill DEF Live
  <1> QED BY <1>1, <1>3, <1>4

\* The next commit is at hand only after the last one was submitted.
LEMMA NextDelivers ==
    ASSUME TypeInv, NextRev, NEW p \in Push, NEW e \in EditsOf(p), Delivers(e, p)
    PROVE  Delivers(e, p)'
  <1> USE DEF p4Vars, refVars, diskVars, workVars, userVars
  <1>0. /\ [Next]_vars /\ PushThrough
        /\ verdict \in [Push -> {"none", "nothing", "ok", "failed", "lost"}]
    BY TypeFacts DEF Next, PushThrough, RestTyped
  <1>1. /\ pc = "pushed" /\ UNCHANGED clone /\ revs' = Tail(revs)
        /\ pushing # None /\ revs # <<>> /\ revs \in Seq([id : Nat, plus : BOOLEAN])
        /\ p # None
    BY TypeFacts, EditOfPush DEF NextRev, Shaped, Submitting
  <1>2. /\ Len(revs) \in Nat /\ Len(revs') = Len(revs) - 1
        /\ \A k \in 1..Len(revs') : revs'[k] = revs[k + 1]
    BY <1>1
  <1>3. Kept(e, p) => Kept(e, p)' /\ \A i : Born(e, i) => Born(e, i)'
    BY <1>0, <1>1, KeptByPush
  <1>4. InDepot(e) => InDepot(e)' BY <1>0, DepotKeeps
  <1>5. CASE p # pushing
    BY <1>0, <1>1, <1>3, <1>5, DeliversNot DEF NextRev, Live, Conclude
  <1>6. CASE p = pushing
    <2>1. InDepot(e) \/ Due(e, p) BY <1>1, <1>6 DEF Delivers, Live, Merged
    <2>2. CASE Len(revs) > 1
      <3>1. pc' = "merge" /\ UNCHANGED <<pushing, verdict>> BY <2>2 DEF NextRev
      <3>2. CASE Due(e, p)
        <4>1. PICK i : Born(e, i) /\ \E k \in 1..Len(revs) : revs[k].id = i /\ k > 1
          BY <1>1, <3>2 DEF Due
        <4>2. PICK k \in 1..Len(revs) : revs[k].id = i /\ k > 1 BY <4>1
        <4>3. Kept(e, p)' /\ Born(e, i)' BY <1>3, <3>2, <4>1 DEF Due
        <4>4. k - 1 \in 1..Len(revs') /\ (k - 1) + 1 = k BY <1>2, <4>2
        <4>5. revs'[k - 1].id = i BY <1>2, <4>2, <4>4
        <4>6. Due(e, p)' BY <3>1, <4>3, <4>4, <4>5 DEF Due
        <4> QED BY <1>4, <1>6, <3>1, <4>6 DEF Delivers
      <3>3. CASE InDepot(e) BY <1>4, <1>6, <3>1, <3>3 DEF Delivers
      <3> QED BY <2>1, <3>2, <3>3
    <2>3. CASE ~(Len(revs) > 1)
      <3>1. pc' = "idle" /\ pushing' = None /\ verdict' = [verdict EXCEPT ![pushing] = "ok"]
        BY <2>3 DEF NextRev, Conclude
      <3>2. ~Due(e, p)
        <4>1. \A k \in 1..Len(revs) : ~(k > 1) BY <1>2, <2>3
        <4> QED BY <1>1, <4>1 DEF Due
      <3>3. InDepot(e)' BY <1>4, <2>1, <3>2
      <3> QED BY <1>0, <1>1, <1>6, <3>1, <3>3 DEF Delivers, Live
    <2> QED BY <2>2, <2>3
  <1> QED BY <1>5, <1>6

LEMMA SteadyByPush ==
    ASSUME TypeInv, Steady, PushThrough
    PROVE  Steady'
  <1> USE DEF p4Vars, refVars, diskVars, workVars, userVars
  <1>0. /\ commits \in Seq(CommitSet) /\ Len(commits) \in Nat /\ clone \in [Push -> Branches]
        /\ verdict \in [Push -> {"none", "nothing", "ok", "failed", "lost"}]
        /\ pushing \in Push \cup {None}
    BY TypeFacts DEF RefsTyped, RestTyped
  <1>1. UNCHANGED <<clone, head>> /\ pc' # "pop" /\ pc' # "pushed"
    BY DEF PushThrough, NoRequest, StartPush, MergeRev, OpenFiles, Submit, TagPush,
           NextRev, ResetPush, RevertOpened, ResetFiles, Thrown, GiveUpPush
  <1>2. pc' = "merge" => head = "master"
    BY DEF PushThrough, NoRequest, StartPush, MergeRev, OpenFiles, Submit, TagPush,
           NextRev, ResetPush, RevertOpened, ResetFiles, Thrown, GiveUpPush, Steady
  <1>3. \A p \in Push : clone'[p] = {} => pushing' # p /\ verdict'[p] = "none"
    <2> SUFFICES ASSUME NEW p \in Push, clone[p] = {}
                 PROVE  pushing' # p /\ verdict'[p] = "none"
      BY <1>1
    <2>1. pushing # p /\ verdict[p] = "none" /\ p # None
      BY ConstantsAssumption DEF Steady
    <2>2. CASE UNCHANGED <<pushing, verdict>> BY <2>1, <2>2
    <2>3. ASSUME NEW q \in Push, StartPush(q) PROVE pushing' # p /\ verdict'[p] = "none"
      <3>1. q # p BY <2>3 DEF StartPush, Ready, Waiting
      <3> QED BY <1>0, <2>1, <2>3, <3>1 DEF StartPush, Conclude
    <2>4. CASE NextRev BY <1>0, <2>1, <2>4 DEF NextRev, Conclude
    <2>5. CASE ResetFiles BY <1>0, <2>1, <2>5 DEF ResetFiles, GiveUpPush, Conclude
    <2> QED BY <2>2, <2>3, <2>4, <2>5
            DEF PushThrough, NoRequest, MergeRev, OpenFiles, Submit, TagPush, ResetPush,
                RevertOpened
  <1>4. Rising'
    <2>1. CASE UNCHANGED revs BY <2>1 DEF Steady, Rising
    <2>2. ASSUME NEW q \in Push, StartPush(q) PROVE Rising'
      <3>1. \A j, k \in 1..Len(Cherry(q)) : j < k => Cherry(q)[j].id < Cherry(q)[k].id
        BY <1>0, CherryLists
      <3>2. CASE revs' = Cherry(q) BY <3>1, <3>2 DEF Rising
      <3> QED BY <2>1, <2>2, <3>2 DEF StartPush
    <2>3. CASE NextRev
      <3>1. /\ revs # <<>> /\ revs \in Seq([id : Nat, plus : BOOLEAN]) /\ revs' = Tail(revs)
        BY <2>3, TypeFacts DEF NextRev, Shaped, Submitting
      <3>2. /\ Len(revs) \in Nat /\ Len(revs') = Len(revs) - 1
            /\ \A k \in 1..Len(revs') : revs'[k] = revs[k + 1]
        BY <3>1
      <3> SUFFICES ASSUME NEW j \in 1..Len(revs'), NEW k \in 1..Len(revs'), j < k
                   PROVE  revs'[j].id < revs'[k].id
        BY DEF Rising
      <3>3. j + 1 \in 1..Len(revs) /\ k + 1 \in 1..Len(revs) /\ j + 1 < k + 1 BY <3>2
      <3>4. revs[j + 1].id < revs[k + 1].id BY <3>3 DEF Steady, Rising
      <3> QED BY <3>2, <3>4
    <2>4. CASE ResetFiles
      <3>1. revs' = <<>> BY <2>4 DEF ResetFiles, GiveUpPush
      <3> QED BY <3>1 DEF Rising
    <2> QED BY <2>1, <2>2, <2>3, <2>4
            DEF PushThrough, NoRequest, MergeRev, OpenFiles, Submit, TagPush, ResetPush,
                RevertOpened
  <1> QED BY <1>1, <1>2, <1>3, <1>4 DEF Steady

LEMMA DeliveryByPush ==
    ASSUME TypeInv, Delivery, PushThrough
    PROVE  Delivery'
  <1> USE DEF p4Vars, refVars, diskVars, workVars, userVars
  <1>1. Steady' BY SteadyByPush DEF Delivery
  <1>2. ASSUME NEW p \in Push, NEW e \in EditsOf(p) PROVE Delivers(e, p)'
    <2>1. Delivers(e, p) /\ Steady /\ [Next]_vars /\ p # None
      BY EditOfPush DEF Delivery, Next
    <2>2. verdict \in [Push -> {"none", "nothing", "ok", "failed", "lost"}]
      BY TypeFacts DEF RestTyped
    <2>3. pc # "merge" => (Kept(e, p) => Kept(e, p)' /\ \A i : Born(e, i) => Born(e, i)')
      BY KeptByPush
    <2>4. CASE NoRequest
      <3>1. pc = "pop" /\ pc' = "idle" /\ UNCHANGED <<clone, verdict, pushing>> BY <2>4 DEF NoRequest
      <3>2. ~Live(p)' BY <2>1, <3>1 DEF Live, Steady
      <3> QED BY <2>1, <2>3, <3>1, <3>2, DeliversNot
    <2>5. ASSUME NEW q \in Push, StartPush(q) PROVE Delivers(e, p)'
      BY <2>1, <2>5, StartDelivers
    <2>6. CASE MergeRev BY <2>1, <2>6, MergeDelivers
    <2>7. CASE OpenFiles
      <3>1. /\ pc = "open" /\ UNCHANGED <<clone, verdict, pushing, revs, files, commits>>
            /\ pc' \in {"submit", "reset"} /\ (pc' = "submit" => opened' = CurrentFiles)
        BY <2>7 DEF OpenFiles
      <3>2. CASE pc' = "reset" BY <2>1, <2>3, <3>1, <3>2, DeliversNot DEF Live
      <3>3. CASE pc' = "submit"
        <4>1. Merged(e) => Merged(e)' BY <3>1, <3>3 DEF Merged
        <4> QED BY <2>1, <2>3, <3>1, <3>3, <4>1, DeliversStill DEF Live
      <3> QED BY <3>1, <3>2, <3>3
    <2>8. CASE Submit BY <2>1, <2>8, SubmitDelivers
    <2>9. CASE TagPush
      <3>1. /\ pc = "tag push" /\ UNCHANGED <<clone, verdict, pushing, revs>>
        BY <2>9 DEF TagPush
      <3>2. ~Merged(e) BY <3>1 DEF Merged
      <3> QED BY <2>1, <2>3, <3>1, <3>2, DeliversStill DEF Live
    <2>10. CASE NextRev BY <2>1, <2>10, NextDelivers
    <2>11. CASE ResetPush
      <3>1. pc = "reset" /\ pc' = "rollback" /\ UNCHANGED <<clone, verdict, pushing>>
        BY <2>11 DEF ResetPush
      <3> QED BY <2>1, <2>3, <3>1, DeliversNot DEF Live
    <2>12. CASE RevertOpened
      <3>1. pc = "rollback" /\ pc' = "clean up" /\ UNCHANGED <<clone, verdict, pushing>>
        BY <2>12 DEF RevertOpened
      <3> QED BY <2>1, <2>3, <3>1, DeliversNot DEF Live
    <2>13. CASE ResetFiles
      <3>1. /\ pc = "clean up" /\ pc' = "idle" /\ UNCHANGED clone /\ pushing' = None
            /\ verdict' = [verdict EXCEPT ![pushing] = "failed"]
        BY <2>13 DEF ResetFiles, GiveUpPush, Conclude
      <3>2. ~Live(p)' BY <2>1, <3>1 DEF Live
      <3> QED BY <2>1, <2>2, <2>3, <3>1, <3>2, DeliversNot
    <2> QED BY <2>4, <2>5, <2>6, <2>7, <2>8, <2>9, <2>10, <2>11, <2>12, <2>13 DEF PushThrough
  <1> QED BY <1>1, <1>2 DEF Delivery

LEMMA DeliveryByPeople ==
    ASSUME TypeInv, EditsApart, Delivery, People
    PROVE  Delivery'
  <1> USE DEF p4Vars, refVars, diskVars, workVars, userVars
  <1>0. /\ commits \in Seq(CommitSet) /\ Len(commits) \in Nat /\ clone \in [Push -> Branches]
        /\ [Next]_vars
    BY TypeFacts DEF RefsTyped, Next
  <1>1. ASSUME NEW x \in UserEdit, UserSubmits(x) PROVE Delivery'
    <2>1. UNCHANGED <<pc, pushing, head, clone, verdict, revs, files, opened, commits>>
      BY <1>1 DEF UserSubmits
    <2>2. Steady' BY <2>1 DEF Delivery, Steady, Rising
    <2>3. ASSUME NEW p \in Push, NEW e \in EditsOf(p) PROVE Delivers(e, p)'
      <3>1. Delivers(e, p) BY DEF Delivery
      <3>2. Kept(e, p) => Kept(e, p)' /\ \A i : Born(e, i) => Born(e, i)'
        BY <1>1, KeptByUser
      <3>3. Merged(e) => Merged(e)' BY <2>1 DEF Merged, CurrentFiles
      <3> QED BY <1>0, <2>1, <3>1, <3>2, <3>3, DeliversStill DEF Live
    <2> QED BY <2>2, <2>3 DEF Delivery
  <1>2. ASSUME NEW q \in Push, SessionClones(q) PROVE Delivery'
    <2>1. /\ commits' = commits \o Made(q) /\ clone' = [clone EXCEPT ![q] = master \cup News(q)]
          /\ clone[q] = {}
          /\ UNCHANGED <<pc, pushing, head, verdict, revs, files, opened>>
          /\ Len(Series[q]) \in Nat \ {0}
          /\ Made(q) \in Seq(CommitSet)
      BY <1>2, CloneMakes
    <2>2. clone'[q] # {}
      <3>1. Len(commits) + 1 \in News(q) BY <1>0, <2>1 DEF News
      <3> QED BY <1>0, <2>1, <3>1
    <2>3. \A p \in Push \ {q} : clone'[p] = clone[p] BY <1>0, <2>1
    <2>4. Steady'
      <3>1. \A p \in Push : clone'[p] = {} => clone[p] = {} BY <2>2, <2>3
      <3> QED BY <2>1, <3>1 DEF Delivery, Steady, Rising
    <2>5. pushing # q /\ verdict[q] = "none" BY <2>1 DEF Delivery, Steady
    <2>6. ASSUME NEW p \in Push, NEW e \in EditsOf(p) PROVE Delivers(e, p)'
      <3>1. Delivers(e, p) BY DEF Delivery
      <3>2. CASE p = q
        <4>1. Waits(e, p)' BY <1>2, <2>5, <3>1, <3>2, WaitsByClone DEF Delivers, Waits
        <4> QED BY <2>1, <2>5, <3>2, <4>1 DEF Delivers, Live
      <3>3. CASE p # q
        <4>1. Kept(e, p) => Kept(e, p)' /\ \A i : Born(e, i) => Born(e, i)'
          BY <1>2, <3>3, KeptByClone
        <4>2. Waits(e, p) => Waits(e, p)' BY <2>3, <3>3, <4>1 DEF Waits
        <4>3. InDepot(e) => InDepot(e)' BY <1>0, DepotKeeps
        <4>4. Due(e, p) => Due(e, p)'
          <5> SUFFICES ASSUME Due(e, p) PROVE Due(e, p)' OBVIOUS
          <5>1. PICK i : /\ Born(e, i)
                         /\ \E k \in 1..Len(revs) : revs[k].id = i /\ (pc = "merge" \/ k > 1)
            BY DEF Due
          <5>2. Kept(e, p)' /\ Born(e, i)' BY <4>1, <5>1 DEF Due
          <5>3. \E k \in 1..Len(revs') : revs'[k].id = i /\ (pc' = "merge" \/ k > 1)
            BY <2>1, <5>1
          <5> QED BY <5>2, <5>3 DEF Due
        <4>5. CurrentFiles' = CurrentFiles
          <5>1. CASE revs = <<>> BY <2>1, <5>1 DEF CurrentFiles
          <5>2. CASE revs # <<>>
            <6>1. revs \in Seq([id : Nat, plus : BOOLEAN]) BY TypeFacts DEF Shaped
            <6>2. 1 \in 1..Len(revs) /\ Head(revs) = revs[1] BY <5>2, <6>1
            <6>3. revs[1] \in [id : 1..Len(commits), plus : BOOLEAN]
              BY <6>2, TypeFacts DEF RefsTyped
            <6>4. Head(revs).id \in 1..Len(commits) BY <6>2, <6>3
            <6>5. \A i \in 1..Len(commits) : (commits \o Made(q))[i] = commits[i]
              BY <1>0, <2>1, ConcatProperties
            <6> QED BY <2>1, <5>2, <6>4, <6>5 DEF CurrentFiles
          <5> QED BY <5>1, <5>2
        <4>6. Merged(e) => Merged(e)' BY <2>1, <4>5 DEF Merged
        <4> QED BY <2>1, <3>1, <4>2, <4>3, <4>4, <4>6 DEF Delivers, Live
      <3> QED BY <3>2, <3>3
    <2> QED BY <2>4, <2>6 DEF Delivery
  <1> QED BY <1>1, <1>2 DEF People

LEMMA DeliveryByTrouble ==
    ASSUME TypeInv, Delivery, CommandFails \/ Crash
    PROVE  Delivery'
  <1> USE DEF p4Vars, refVars, diskVars, workVars, userVars
  <1>0. /\ verdict \in [Push -> {"none", "nothing", "ok", "failed", "lost"}]
        /\ pushing \in Push \cup {None} /\ [Next]_vars
    BY TypeFacts DEF RestTyped, Next
  <1>1. /\ UNCHANGED <<depot, have, files, index, commits, master, incoming, tags, clone, head>>
        /\ currentRev' \in {currentRev, {}} /\ revs' \in {revs, <<>>}
    BY DEF CommandFails, Crash, GiveUpPush
  <1>2. /\ pc' \in {"idle", "rollback", "reset"} /\ (pc' = "idle" => pushing' = None)
        /\ \/ UNCHANGED <<pushing, verdict>>
           \/ pushing' = None /\ pushing = None /\ UNCHANGED verdict
           \/ pushing' = None /\ verdict' = [verdict EXCEPT ![pushing] = "failed"]
           \/ pushing' = None /\ verdict' = [verdict EXCEPT ![pushing] = "lost"]
    BY DEF CommandFails, Crash, GiveUpPush, Conclude, Thrown
  <1>3. Steady'
    <2>1. Rising'
      <3>1. CASE revs' = revs BY <3>1 DEF Delivery, Steady, Rising
      <3>2. CASE revs' = <<>> BY <3>2 DEF Rising
      <3> QED BY <1>1, <3>1, <3>2
    <2>2. \A p \in Push : clone'[p] = {} => pushing' # p /\ verdict'[p] = "none"
      <3> SUFFICES ASSUME NEW p \in Push, clone[p] = {}
                   PROVE  pushing' # p /\ verdict'[p] = "none"
        BY <1>1
      <3>1. pushing # p /\ verdict[p] = "none" /\ p # None
        BY ConstantsAssumption DEF Delivery, Steady
      <3> QED BY <1>0, <1>2, <3>1
    <2> QED BY <1>2, <2>1, <2>2 DEF Steady
  <1>4. ASSUME NEW p \in Push, NEW e \in EditsOf(p) PROVE Delivers(e, p)'
    <2>1. Delivers(e, p) /\ p # None BY EditOfPush DEF Delivery
    <2>2. Kept(e, p) => Kept(e, p)' /\ \A i : Born(e, i) => Born(e, i)'
      BY <1>1, KeptByTrouble
    <2>3. ~Live(p)' BY <1>2, <2>1 DEF Live
    <2>4. /\ verdict'[p] = "none" /\ pushing' # p => verdict[p] = "none" /\ pushing # p
          /\ verdict'[p] = "ok" => verdict[p] = "ok"
      BY <1>0, <1>2, <2>1
    <2> QED BY <1>0, <1>1, <2>1, <2>2, <2>3, <2>4, DeliversNot
  <1> QED BY <1>3, <1>4 DEF Delivery

LEMMA DeliveryStep ==
    ASSUME TypeInv, EditsApart, Delivery, [Next]_vars
    PROVE  Delivery'
  <1>1. CASE Pull BY <1>1, DeliveryByPull
  <1>2. CASE PushThrough BY <1>2, DeliveryByPush
  <1>3. CASE People BY <1>3, DeliveryByPeople
  <1>4. CASE CommandFails \/ Crash BY <1>4, DeliveryByTrouble
  <1>5. CASE UNCHANGED vars
    <2> USE <1>5 DEF vars, p4Vars, refVars, diskVars, workVars, userVars
    <2>1. Steady' BY DEF Delivery, Steady, Rising
    <2>2. ASSUME NEW p \in Push, NEW e \in EditsOf(p) PROVE Delivers(e, p)'
      <3>1. Delivers(e, p) BY DEF Delivery
      <3>2. Kept(e, p) => Kept(e, p)' /\ \A i : Born(e, i) => Born(e, i)'
        BY KeptByTrouble
      <3>3. Merged(e) => Merged(e)' BY DEF Merged, CurrentFiles
      <3> QED BY <3>1, <3>2, <3>3, DeliversStill DEF Live
    <2> QED BY <2>1, <2>2 DEF Delivery
  <1> QED BY <1>1, <1>2, <1>3, <1>4, <1>5 DEF Next

\* Who is told that a push succeeded finds all its edits in Perforce, whatever
\* fails, races or crashes, if no two pushes make the same edit. If they do, a push
\* can succeed by a commit that finds its edit in master, where a push that a
\* crash cut off has left it.
THEOREM OkMeansSubmitted ==
    ASSUME EditsApart
    PROVE  Spec => []OkIsSubmitted
  <1>1. Init => TypeInv /\ Delivery BY TypeInit, DeliveryInit
  <1>2. TypeInv /\ Delivery /\ [Next]_vars => TypeInv' /\ Delivery'
    BY TypeStep, DeliveryStep
  <1>3. Delivery => OkIsSubmitted BY DEF Delivery, Delivers, OkIsSubmitted
  <1> QED BY <1>1, <1>2, <1>3, PTL DEF Spec
=============================================================================
