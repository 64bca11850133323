-------------------------- MODULE GitMirrorProofs ---------------------------
(***************************************************************************)
(* In a run where nothing of the pump's own fails and nobody submits to    *)
(* Perforce while it works on a push, unless to a file of the commit at    *)
(* hand, the mirror of GitPump is exact after every pull: whatever is      *)
(* pushed, merged, refused or rolled back.                                 *)
(*                                                                         *)
(* The commits of a branch build on one another in the order in which they *)
(* were made, although they are not merged in this order: a commit is only *)
(* merged where the files it changes are as they were for its author. So   *)
(* the files of a branch are the last in it, merging one commit changes    *)
(* just the files that are then opened, and what is submitted is what is   *)
(* tagged.                                                                 *)
(***************************************************************************)
EXTENDS GitPumpProofs

\* The files after the commits B of cs, and the commits of B before i.
TreeAt(cs, B) == [f \in File |->
    LET here == {i \in B : f \in DOMAIN cs[i].to} IN
    IF here = {} THEN {} ELSE cs[CHOOSE i \in here : \A j \in here : j <= i].to[f]]
Below(B, i) == {j \in B : j < i}

\* A commit adds edits to the files it changes, and is of one file and one edit.
Grows(c) ==
    /\ DOMAIN c.from = DOMAIN c.to
    /\ \A f \in DOMAIN c.to : c.from[f] \subseteq c.to[f] /\ c.from[f] # c.to[f]
Small(c) == \E f \in File, e \in Edit :
    /\ DOMAIN c.to \subseteq {f}
    /\ f \in DOMAIN c.to => c.to[f] = c.from[f] \cup {e}

Sound(cs) ==
    /\ cs \in Seq(CommitSet) /\ cs # <<>>
    /\ \A i \in 1..Len(cs) : Grows(cs[i]) /\ (i # 1 => Small(cs[i]))

\* A branch each of whose commits builds on those made before it.
Built(cs, B) ==
    /\ 1 \in B /\ B \subseteq 1..Len(cs)
    /\ \A i \in B : \A f \in DOMAIN cs[i].to :
          /\ cs[i].from[f] = TreeAt(cs, Below(B, i))[f]
          /\ \A j \in Below(B, i) : f \in DOMAIN cs[j].to => cs[j].to[f] \subseteq cs[i].from[f]

-----------------------------------------------------------------------------
(* The files of a branch                                                    *)

LEMMA TreeIs == \A b : Tree(b) = TreeAt(commits, b)
  BY DEF Tree, TreeAt

LEMMA HeadIs ==
    HeadTree = IF head = "master" THEN TreeAt(commits, master) ELSE TreeAt(commits, incoming)
  BY TreeIs DEF HeadTree

\* The content of a file is that of the last commit that changes it.
LEMMA TreeTop ==
    ASSUME NEW cs \in Seq(CommitSet), NEW B \in SUBSET (1..Len(cs)), NEW f \in File
    PROVE  \/ /\ \A i \in B : f \notin DOMAIN cs[i].to
              /\ TreeAt(cs, B)[f] = {}
           \/ \E i \in B : /\ f \in DOMAIN cs[i].to
                           /\ \A j \in B : f \in DOMAIN cs[j].to => j <= i
                           /\ TreeAt(cs, B)[f] = cs[i].to[f]
  <1> DEFINE here == {i \in B : f \in DOMAIN cs[i].to}
             last == CHOOSE i \in here : \A j \in here : j <= i
  <1>1. TreeAt(cs, B)[f] = IF here = {} THEN {} ELSE cs[last].to[f] BY DEF TreeAt
  <1>2. CASE here = {} BY <1>1, <1>2
  <1>3. CASE here # {}
    <2>1. Len(cs) \in Nat OBVIOUS
    <2>2. here \in SUBSET (0..Len(cs))
      <3>1. here \subseteq B OBVIOUS
      <3> HIDE DEF here
      <3> QED BY <2>1, <3>1
    <2>3. \E i \in here : \A j \in here : j <= i
      <3> HIDE DEF here
      <3> QED BY <1>3, <2>1, <2>2, GreatestNumber
    <2>4. last \in here /\ \A j \in here : j <= last BY <2>3
    <2> QED BY <1>1, <1>3, <2>4
  <1> QED BY <1>2, <1>3

LEMMA TopIs ==
    ASSUME NEW cs \in Seq(CommitSet), NEW B \in SUBSET (1..Len(cs)), NEW f \in File,
           NEW i \in B, f \in DOMAIN cs[i].to, \A j \in B : f \in DOMAIN cs[j].to => j <= i
    PROVE  TreeAt(cs, B)[f] = cs[i].to[f]
  <1>1. \A j \in B : j \in Nat OBVIOUS
  <1> QED BY <1>1, TreeTop

LEMMA BranchTyped ==
    ASSUME NEW cs \in Seq(CommitSet), NEW B \in SUBSET (1..Len(cs))
    PROVE  TreeAt(cs, B) \in Trees
  <1>1. ASSUME NEW f \in File PROVE TreeAt(cs, B)[f] \in Content
    <2>1. CASE TreeAt(cs, B)[f] = {} BY <2>1 DEF Content
    <2>2. ASSUME NEW i \in B, f \in DOMAIN cs[i].to, TreeAt(cs, B)[f] = cs[i].to[f]
          PROVE  TreeAt(cs, B)[f] \in Content
      <3>1. cs[i] \in CommitSet OBVIOUS
      <3> QED BY <2>2, <3>1, CommitHas
    <2> QED BY <2>1, <2>2, TreeTop
  <1>2. TreeAt(cs, B) = [f \in File |-> TreeAt(cs, B)[f]] BY DEF TreeAt
  <1> QED BY <1>1, <1>2 DEF Trees, Content

\* Branches with the same commits of a file have the same content of it.
LEMMA SameTop ==
    ASSUME NEW cs \in Seq(CommitSet), NEW B \in SUBSET (1..Len(cs)),
           NEW ds \in Seq(CommitSet), NEW D \in SUBSET (1..Len(ds)), NEW f \in File,
           \A i : i \in B /\ f \in DOMAIN cs[i].to <=> i \in D /\ f \in DOMAIN ds[i].to,
           \A i \in B : f \in DOMAIN cs[i].to => ds[i] = cs[i]
    PROVE  TreeAt(cs, B)[f] = TreeAt(ds, D)[f]
  <1>1. CASE \A i \in B : f \notin DOMAIN cs[i].to
    <2>1. ASSUME NEW i \in D PROVE f \notin DOMAIN ds[i].to
      <3>1. i \in D /\ f \in DOMAIN ds[i].to => i \in B /\ f \in DOMAIN cs[i].to OBVIOUS
      <3> QED BY <1>1, <3>1
    <2>2. TreeAt(cs, B)[f] = {} BY <1>1, TreeTop
    <2>3. TreeAt(ds, D)[f] = {} BY <2>1, TreeTop
    <2> QED BY <2>2, <2>3
  <1>2. ASSUME NEW i \in B, f \in DOMAIN cs[i].to,
               \A j \in B : f \in DOMAIN cs[j].to => j <= i,
               TreeAt(cs, B)[f] = cs[i].to[f]
        PROVE  TreeAt(cs, B)[f] = TreeAt(ds, D)[f]
    <2>1. i \in D /\ f \in DOMAIN ds[i].to /\ ds[i] = cs[i] BY <1>2
    <2>2. \A j \in D : f \in DOMAIN ds[j].to => j <= i BY <1>2
    <2>3. TreeAt(ds, D)[f] = ds[i].to[f] BY <2>1, <2>2, TopIs
    <2> QED BY <1>2, <2>1, <2>3
  <1> QED BY <1>1, <1>2, TreeTop

LEMMA SameTree ==
    ASSUME NEW cs, NEW B, NEW t, DOMAIN t = File, t = [f \in File |-> t[f]],
           \A f \in File : TreeAt(cs, B)[f] = t[f]
    PROVE  TreeAt(cs, B) = t
  <1>1. TreeAt(cs, B) = [f \in File |-> TreeAt(cs, B)[f]] BY DEF TreeAt
  <1> QED BY <1>1

\* More commits change nothing of the branches that are there.
LEMMA TreeStays ==
    ASSUME NEW cs \in Seq(CommitSet), NEW ds \in Seq(CommitSet), Len(cs) <= Len(ds),
           \A i \in 1..Len(cs) : ds[i] = cs[i], NEW B \in SUBSET (1..Len(cs))
    PROVE  TreeAt(ds, B) = TreeAt(cs, B)
  <1>1. B \in SUBSET (1..Len(ds)) OBVIOUS
  <1>2. \A f \in File : TreeAt(cs, B)[f] = TreeAt(ds, B)[f] BY <1>1, SameTop
  <1>3. /\ TreeAt(cs, B) = [f \in File |-> TreeAt(cs, B)[f]]
        /\ TreeAt(ds, B) = [f \in File |-> TreeAt(ds, B)[f]]
    BY DEF TreeAt
  <1> QED BY <1>2, <1>3

LEMMA BuiltStays ==
    ASSUME NEW cs \in Seq(CommitSet), NEW ds \in Seq(CommitSet), Len(cs) <= Len(ds),
           \A i \in 1..Len(cs) : ds[i] = cs[i], NEW B, Built(cs, B)
    PROVE  Built(ds, B)
  <1>1. 1 \in B /\ B \subseteq 1..Len(cs) BY DEF Built
  <1>2. B \subseteq 1..Len(ds) BY <1>1
  <1>3. ASSUME NEW i \in B, NEW f \in DOMAIN ds[i].to
        PROVE  /\ ds[i].from[f] = TreeAt(ds, Below(B, i))[f]
               /\ \A j \in Below(B, i) : f \in DOMAIN ds[j].to =>
                     ds[j].to[f] \subseteq ds[i].from[f]
    <2>1. Below(B, i) \in SUBSET (1..Len(cs)) BY <1>1 DEF Below
    <2>2. TreeAt(ds, Below(B, i)) = TreeAt(cs, Below(B, i)) BY <2>1, TreeStays
    <2>3. ds[i] = cs[i] /\ \A j \in Below(B, i) : ds[j] = cs[j] BY <1>1, <2>1
    <2> QED BY <2>2, <2>3 DEF Built
  <1> QED BY <1>1, <1>2, <1>3 DEF Built

-----------------------------------------------------------------------------
(* Commits that build on a branch                                           *)

LEMMA TreeHolds ==
    ASSUME NEW cs \in Seq(CommitSet), NEW B, Built(cs, B), \A i \in B : Grows(cs[i]),
           NEW l \in B, NEW f \in DOMAIN cs[l].to
    PROVE  cs[l].to[f] \subseteq TreeAt(cs, B)[f]
  <1>1. cs \in Seq(CommitSet) /\ B \in SUBSET (1..Len(cs)) BY DEF Built
  <1>2. f \in File BY <1>1, CommitHas
  <1>3. PICK i \in B : /\ f \in DOMAIN cs[i].to
                       /\ \A j \in B : f \in DOMAIN cs[j].to => j <= i
                       /\ TreeAt(cs, B)[f] = cs[i].to[f]
    BY <1>1, <1>2, TreeTop
  <1>4. CASE l = i BY <1>3, <1>4
  <1>5. CASE l # i
    <2>1. l \in Below(B, i) BY <1>1, <1>3, <1>5 DEF Below
    <2>2. cs[l].to[f] \subseteq cs[i].from[f] BY <1>3, <2>1 DEF Built
    <2>3. cs[i].from[f] \subseteq cs[i].to[f] BY <1>3 DEF Grows
    <2> QED BY <1>3, <2>2, <2>3
  <1> QED BY <1>4, <1>5

\* A commit made on top of a branch.
LEMMA BuiltOnTop ==
    ASSUME NEW cs \in Seq(CommitSet), NEW B, Built(cs, B), \A i \in B : Grows(cs[i]),
           NEW j \in 1..Len(cs), \A i \in B : i < j,
           NEW new \in Trees, cs[j] = Commit(TreeAt(cs, B), new),
           \A f \in File : TreeAt(cs, B)[f] \subseteq new[f]
    PROVE  /\ TreeAt(cs, B \cup {j}) = new
           /\ Built(cs, B \cup {j})
           /\ Grows(cs[j])
  <1> DEFINE old == TreeAt(cs, B)
             d   == {f \in File : old[f] # new[f]}
             U   == B \cup {j}
  <1>1. B \in SUBSET (1..Len(cs)) /\ U \in SUBSET (1..Len(cs)) /\ 1 \in B BY DEF Built
  <1>2. cs[j].from = [f \in d |-> old[f]] /\ cs[j].to = [f \in d |-> new[f]] BY DEF Commit
  <1>3. /\ DOMAIN cs[j].from = d /\ DOMAIN cs[j].to = d
        /\ \A f \in d : cs[j].from[f] = old[f] /\ cs[j].to[f] = new[f]
    BY <1>2
  <1>4. Grows(cs[j]) BY <1>3 DEF Grows
  <1>5. \A i \in U : i <= j /\ i \in Nat BY <1>1
  <1>6. ASSUME NEW f \in File PROVE TreeAt(cs, U)[f] = new[f]
    <2>1. CASE f \in d
      <3>1. TreeAt(cs, U)[f] = cs[j].to[f] BY <1>1, <1>3, <1>5, <2>1, TopIs
      <3> QED BY <1>3, <2>1, <3>1
    <2>2. CASE f \notin d
      <3>1. \A i : i \in U /\ f \in DOMAIN cs[i].to <=> i \in B /\ f \in DOMAIN cs[i].to
        BY <1>3, <2>2
      <3>2. TreeAt(cs, U)[f] = TreeAt(cs, B)[f] BY <1>1, <3>1, SameTop
      <3> QED BY <2>2, <3>2
    <2> QED BY <2>1, <2>2
  <1>7. TreeAt(cs, U) = new
    <2>1. new = [f \in File |-> new[f]] BY DEF Trees
    <2>2. TreeAt(cs, U) = [f \in File |-> TreeAt(cs, U)[f]] BY DEF TreeAt
    <2> QED BY <1>6, <2>1, <2>2
  <1>8. ASSUME NEW l \in B, NEW f \in DOMAIN cs[l].to PROVE cs[l].to[f] \subseteq old[f]
    BY <1>8, TreeHolds
  <1>9. ASSUME NEW i \in U, NEW f \in DOMAIN cs[i].to
        PROVE  /\ cs[i].from[f] = TreeAt(cs, Below(U, i))[f]
               /\ \A l \in Below(U, i) : f \in DOMAIN cs[l].to =>
                     cs[l].to[f] \subseteq cs[i].from[f]
    <2>1. CASE i = j
      <3>1. j \in Nat /\ ~(j < j) /\ \A k \in B : k < j BY <1>1
      <3>2. \A k : k \in B \cup {j} /\ k < j <=> k \in B BY <3>1
      <3>3. Below(U, i) = B BY <2>1, <3>2 DEF Below
      <3>4. cs[i].from[f] = old[f] BY <1>3, <1>9, <2>1
      <3> HIDE DEF old
      <3> QED BY <1>8, <2>1, <3>3, <3>4 DEF old
    <2>2. CASE i # j
      <3>1. i \in B BY <2>2
      <3>2. Below(U, i) = Below(B, i) BY <1>1, <3>1 DEF Below
      <3> QED BY <1>9, <3>1, <3>2 DEF Built
    <2> QED BY <2>1, <2>2
  <1>10. Built(cs, U) BY <1>1, <1>9 DEF Built
  <1> QED BY <1>4, <1>7, <1>10

\* Two commits of one file that turn the same content into the same content.
LEMMA SameCommit ==
    ASSUME NEW c \in CommitSet, NEW d \in CommitSet, NEW f,
           DOMAIN c.to = {f}, DOMAIN d.to = {f}, DOMAIN c.from = {f}, DOMAIN d.from = {f},
           c.from[f] = d.from[f], c.to[f] = d.to[f]
    PROVE  c = d
  <1>1. PICK x \in SUBSET File : c \in [from : [x -> Content], to : [x -> Content]]
    BY DEF CommitSet
  <1>2. PICK y \in SUBSET File : d \in [from : [y -> Content], to : [y -> Content]]
    BY DEF CommitSet
  <1>3. /\ c = [from |-> c.from, to |-> c.to] /\ d = [from |-> d.from, to |-> d.to]
        /\ c.from \in [x -> Content] /\ c.to \in [x -> Content]
        /\ d.from \in [y -> Content] /\ d.to \in [y -> Content]
    BY <1>1, <1>2
  <1>4. x = {f} /\ y = {f} BY <1>3
  <1>5. c.from = d.from BY <1>3, <1>4
  <1>6. c.to = d.to BY <1>3, <1>4
  <1> QED BY <1>3, <1>5, <1>6

-----------------------------------------------------------------------------
(* Merging one commit of a session                                          *)

\* A commit r of C is merged into M where all of C before r is in M. If there is no
\* conflict in a file it changes, nor the same patch in M, then the file is in M as
\* it was before r, and nothing made after r changes it there.
LEMMA MergePlace ==
    ASSUME NEW cs, Sound(cs), NEW M, Built(cs, M), NEW C, Built(cs, C), NEW r \in C \ M,
           \A i \in Below(C, r) : i \in M, NEW f \in DOMAIN cs[r].to,
           LET base == TreeAt(cs, Below(C, r))[f]
               ours == TreeAt(cs, M)[f]
           IN  ours = base \/ cs[r].to[f] = base \/ cs[r].to[f] = ours,
           \A j \in M \ C : cs[j] # cs[r]
    PROVE  /\ TreeAt(cs, M)[f] = cs[r].from[f]
           /\ \A j \in M : f \in DOMAIN cs[j].to => j < r
  <1> DEFINE base == TreeAt(cs, Below(C, r))[f]
             ours == TreeAt(cs, M)[f]
  <1>1. /\ cs \in Seq(CommitSet) /\ M \in SUBSET (1..Len(cs)) /\ C \in SUBSET (1..Len(cs))
        /\ Below(C, r) \in SUBSET (1..Len(cs)) /\ 1 \in M /\ 1 \in C
        /\ \A i \in M \cup C : i \in Nat /\ i >= 1
    BY DEF Sound, Built, Below
  <1>2. f \in File
    <2>1. cs[r] \in CommitSet BY <1>1
    <2> QED BY <2>1, CommitHas
  <1>3. cs[r].from[f] = base BY DEF Built
  <1>4. base \subseteq cs[r].to[f] /\ base # cs[r].to[f] BY <1>1, <1>3 DEF Sound, Grows
  <1>5. ASSUME NEW i \in M \cup C, f \in DOMAIN cs[i].to
        PROVE  cs[i].from[f] \subseteq cs[i].to[f] /\ cs[i].from[f] # cs[i].to[f]
    BY <1>1, <1>5 DEF Sound, Grows
  <1>6. ASSUME NEW i \in M, NEW j \in M, i < j, f \in DOMAIN cs[i].to, f \in DOMAIN cs[j].to
        PROVE  cs[i].to[f] \subseteq cs[j].from[f]
    BY <1>6 DEF Built, Below
  <1>7. ASSUME NEW i \in M, f \in DOMAIN cs[i].to PROVE cs[i].to[f] \subseteq ours
    <2>1. \A k \in M : Grows(cs[k]) BY <1>1 DEF Sound
    <2> QED BY <1>1, <1>7, <2>1, TreeHolds
  \* What was there when r was made is in M, and was there before all that is later.
  <1>8. \/ base = {} /\ \A i \in Below(C, r) : f \notin DOMAIN cs[i].to
        \/ \E b \in M : b < r /\ b \in C /\ f \in DOMAIN cs[b].to /\ base = cs[b].to[f]
    <2>1. CASE \A i \in Below(C, r) : f \notin DOMAIN cs[i].to
      BY <1>1, <1>2, <2>1, TreeTop
    <2>2. ASSUME NEW b \in Below(C, r), f \in DOMAIN cs[b].to, base = cs[b].to[f]
          PROVE  \E b2 \in M : b2 < r /\ b2 \in C /\ f \in DOMAIN cs[b2].to /\ base = cs[b2].to[f]
      BY <2>2 DEF Below
    <2> QED BY <1>1, <1>2, <2>1, <2>2, TreeTop
  <1>9. ours = base
    <2> SUFFICES ASSUME ours # base PROVE FALSE OBVIOUS
    <2>1. cs[r].to[f] = ours BY <1>4
    <2>2. ours # {} BY <1>4, <2>1
    <2>3. PICK l \in M : f \in DOMAIN cs[l].to /\ ours = cs[l].to[f]
      BY <1>1, <1>2, <2>2, TreeTop
    <2>4. r # 1 /\ 1 \in Below(C, r) BY <1>1 DEF Below
    <2>5. l \notin C
      <3> SUFFICES ASSUME l \in C PROVE FALSE OBVIOUS
      <3>1. CASE l < r
        <4>1. l \in Below(C, r) BY <3>1 DEF Below
        <4>2. cs[l].to[f] \subseteq cs[r].from[f] BY <2>3, <4>1 DEF Built
        <4> QED BY <1>3, <1>4, <2>1, <2>3, <4>2
      <3>2. CASE r < l
        <4>1. r \in Below(C, l) BY <3>2 DEF Below
        <4>2. cs[r].to[f] \subseteq cs[l].from[f] BY <2>3, <4>1 DEF Built
        <4> QED BY <1>5, <2>1, <2>3, <4>2
      <3> QED BY <1>1, <3>1, <3>2
    <2>6. l # 1 /\ l \in M \ C BY <1>1, <2>5
    <2>7. PICK e \in Edit : cs[r].to[f] = base \cup {e} /\ DOMAIN cs[r].to = {f}
      <3>1. Small(cs[r]) BY <1>1, <2>4 DEF Sound
      <3> QED BY <1>3, <3>1 DEF Small
    <2>8. DOMAIN cs[l].to = {f}
      <3>1. Small(cs[l]) BY <1>1, <2>6 DEF Sound
      <3> QED BY <2>3, <3>1 DEF Small
    <2>9. base \subseteq cs[l].from[f]
      <3>1. CASE base = {} BY <3>1
      <3>2. ASSUME NEW b \in M, b \in C, f \in DOMAIN cs[b].to, base = cs[b].to[f]
            PROVE  base \subseteq cs[l].from[f]
        <4>1. b # l BY <2>5, <3>2
        <4>2. CASE b < l BY <1>6, <2>3, <3>2, <4>2
        <4>3. CASE l < b
          <5>1. cs[l].to[f] \subseteq cs[b].from[f] BY <1>6, <2>3, <3>2, <4>3
          <5>2. cs[b].from[f] \subseteq cs[b].to[f] BY <1>5, <3>2
          <5> QED BY <1>4, <2>1, <2>3, <3>2, <5>1, <5>2
        <4> QED BY <1>1, <4>1, <4>2, <4>3
      <3> QED BY <1>8, <3>1, <3>2
    <2>10. cs[l].from[f] = base
      <3>1. cs[l].from[f] \subseteq cs[l].to[f] /\ cs[l].from[f] # cs[l].to[f] BY <1>5, <2>3
      <3>2. cs[l].to[f] = base \cup {e} BY <2>1, <2>3, <2>7
      <3> QED BY <2>9, <3>1, <3>2
    <2>11. cs[l] = cs[r]
      <3>1. cs[l] \in CommitSet /\ cs[r] \in CommitSet BY <1>1
      <3>2. DOMAIN cs[l].from = {f} /\ DOMAIN cs[r].from = {f}
        BY <1>1, <2>7, <2>8 DEF Sound, Grows
      <3> QED BY <1>3, <2>1, <2>3, <2>7, <2>8, <2>10, <3>1, <3>2, SameCommit
    <2> QED BY <2>6, <2>11
  <1>10. ASSUME NEW j \in M, f \in DOMAIN cs[j].to PROVE j < r
    <2> SUFFICES ASSUME r < j PROVE FALSE BY <1>1
    <2>1. cs[j].to[f] \subseteq base BY <1>7, <1>9, <1>10
    <2>2. cs[j].to[f] # {} BY <1>5, <1>10
    <2>3. PICK b \in M : b < r /\ f \in DOMAIN cs[b].to /\ base = cs[b].to[f]
      BY <1>8, <2>1, <2>2
    <2>4. b < j BY <1>1, <2>3
    <2>5. cs[b].to[f] \subseteq cs[j].from[f] BY <1>6, <1>10, <2>3, <2>4
    <2>6. cs[j].from[f] \subseteq cs[j].to[f] /\ cs[j].from[f] # cs[j].to[f] BY <1>5, <1>10
    <2> QED BY <2>1, <2>3, <2>5, <2>6
  <1> QED BY <1>3, <1>9, <1>10

\* What git makes of a file in a merge of the commits of C up to r into M.
MergedTree(cs, M, C, r) ==
    LET theirs == {i \in C : i <= r}
        base   == TreeAt(cs, M \cap theirs)
        ours   == TreeAt(cs, M)
    IN [f \in File |-> IF ours[f] = base[f] THEN TreeAt(cs, theirs)[f] ELSE ours[f]]
NoConflict(cs, M, C, r) ==
    LET theirs == {i \in C : i <= r} IN
    \A f \in File : TreeAt(cs, theirs)[f] \in
                       {TreeAt(cs, M \cap theirs)[f], MergedTree(cs, M, C, r)[f]}

\* So the merge of r is of the files of r alone, and the branch is built as before.
LEMMA MergeBuilds ==
    ASSUME NEW cs, Sound(cs), NEW M, Built(cs, M), NEW C, Built(cs, C), NEW r \in C \ M,
           \A i \in Below(C, r) : i \in M, \A j \in M \ C : cs[j] # cs[r],
           NoConflict(cs, M, C, r)
    PROVE  /\ M \cup {i \in C : i <= r} = M \cup {r}
           /\ TreeAt(cs, M \cup {r}) = MergedTree(cs, M, C, r)
           /\ Built(cs, M \cup {r})
           /\ \A f \in File \ DOMAIN cs[r].to : MergedTree(cs, M, C, r)[f] = TreeAt(cs, M)[f]
  <1> DEFINE theirs == {i \in C : i <= r}
             before == Below(C, r)
             ours   == TreeAt(cs, M)
             U      == M \cup {r}
             merged == MergedTree(cs, M, C, r)
  <1>0. /\ cs \in Seq(CommitSet) /\ M \in SUBSET (1..Len(cs)) /\ C \in SUBSET (1..Len(cs))
        /\ 1 \in M /\ Len(cs) \in Nat
    BY DEF Sound, Built
  <1>1. /\ cs \in Seq(CommitSet) /\ M \in SUBSET (1..Len(cs)) /\ C \in SUBSET (1..Len(cs))
        /\ U \in SUBSET (1..Len(cs)) /\ theirs \in SUBSET (1..Len(cs))
        /\ before \in SUBSET (1..Len(cs)) /\ 1 \in M
        /\ \A i \in M \cup C : i \in Nat
    <2>1. U \in SUBSET (1..Len(cs)) BY <1>0
    <2>2. theirs \in SUBSET (1..Len(cs)) BY <1>0
    <2>3. before \in SUBSET (1..Len(cs)) BY <1>0 DEF Below
    <2>4. \A i \in M \cup C : i \in Nat BY <1>0
    <2> HIDE DEF U, theirs, before
    <2> QED BY <1>0, <2>1, <2>2, <2>3, <2>4
  <1>2. theirs = before \cup {r} /\ M \cap theirs = before /\ M \cup theirs = U
    <2>1. \A i \in C : i <= r <=> i < r \/ i = r BY <1>1
    <2>2. theirs = before \cup {r} BY <2>1 DEF Below
    <2>3. before \subseteq M /\ r \notin M OBVIOUS
    <2> QED BY <2>2, <2>3
  <1>3. /\ \A f \in File : merged[f] = IF ours[f] = TreeAt(cs, before)[f]
                                       THEN TreeAt(cs, theirs)[f] ELSE ours[f]
        /\ \A f \in File : TreeAt(cs, theirs)[f] \in {TreeAt(cs, before)[f], merged[f]}
        /\ merged = [f \in File |-> merged[f]]
    BY <1>2 DEF MergedTree, NoConflict
  <1>4. DOMAIN cs[r].to \subseteq File /\ \A i \in 1..Len(cs) : DOMAIN cs[i].to \subseteq File
    <2>1. \A i \in 1..Len(cs) : cs[i] \in CommitSet BY <1>1
    <2> QED BY <1>1, <2>1, CommitHas
  <1>5. /\ \A i \in theirs : i <= r
        /\ \A i : i \in U <=> i \in M \/ i = r
        /\ \A i \in U : i \in Nat
    BY <1>1
  <1> HIDE DEF theirs, U, merged
  <1>6. ASSUME NEW f \in DOMAIN cs[r].to
        PROVE  /\ ours[f] = cs[r].from[f] /\ merged[f] = cs[r].to[f]
               /\ \A j \in M : f \in DOMAIN cs[j].to => j < r
    <2>1. f \in File /\ r \in theirs BY <1>2, <1>4
    <2>2. TreeAt(cs, theirs)[f] = cs[r].to[f] BY <1>1, <1>5, <2>1, TopIs
    <2>3. \/ ours[f] = TreeAt(cs, before)[f] \/ cs[r].to[f] = TreeAt(cs, before)[f]
          \/ cs[r].to[f] = ours[f]
      BY <1>3, <2>1, <2>2
    <2>4. /\ ours[f] = cs[r].from[f]
          /\ \A j \in M : f \in DOMAIN cs[j].to => j < r
      BY <2>3, MergePlace
    <2>5. cs[r].from[f] = TreeAt(cs, before)[f] BY DEF Built
    <2> QED BY <1>3, <2>1, <2>2, <2>4, <2>5
  <1>7. ASSUME NEW f \in File, f \notin DOMAIN cs[r].to PROVE merged[f] = ours[f]
    <2>1. \A i : i \in theirs /\ f \in DOMAIN cs[i].to <=> i \in before /\ f \in DOMAIN cs[i].to
      BY <1>2, <1>7
    <2>2. TreeAt(cs, theirs)[f] = TreeAt(cs, before)[f] BY <1>1, <2>1, SameTop
    <2> QED BY <1>3, <2>2
  <1>8. ASSUME NEW f \in File PROVE TreeAt(cs, U)[f] = merged[f]
    <2>1. CASE f \in DOMAIN cs[r].to
      <3>1. \A j \in U : f \in DOMAIN cs[j].to => j <= r
        <4> TAKE j \in U
        <4>1. CASE j = r BY <1>5, <4>1
        <4>2. CASE j # r
          <5>1. f \in DOMAIN cs[j].to => j < r BY <1>5, <1>6, <2>1, <4>2
          <5> QED BY <1>5, <5>1
        <4> QED BY <4>1, <4>2
      <3>2. TreeAt(cs, U)[f] = cs[r].to[f] BY <1>1, <1>5, <2>1, <3>1, TopIs
      <3> QED BY <1>6, <2>1, <3>2
    <2>2. CASE f \notin DOMAIN cs[r].to
      <3>1. \A i : i \in U /\ f \in DOMAIN cs[i].to <=> i \in M /\ f \in DOMAIN cs[i].to
        BY <1>5, <2>2
      <3>2. TreeAt(cs, U)[f] = ours[f] BY <1>1, <3>1, SameTop
      <3> QED BY <1>7, <2>2, <3>2
    <2> QED BY <2>1, <2>2
  <1>9. TreeAt(cs, U) = merged
    <2>1. TreeAt(cs, U) = [f \in File |-> TreeAt(cs, U)[f]] BY DEF TreeAt
    <2>2. merged = [f \in File |-> merged[f]] BY <1>3
    <2> QED BY <1>8, <2>1, <2>2
  <1>10. ASSUME NEW i \in U, NEW f \in DOMAIN cs[i].to
         PROVE  /\ cs[i].from[f] = TreeAt(cs, Below(U, i))[f]
                /\ \A j \in Below(U, i) : f \in DOMAIN cs[j].to =>
                      cs[j].to[f] \subseteq cs[i].from[f]
    <2>1. f \in File /\ Below(U, i) \in SUBSET (1..Len(cs)) /\ Below(M, i) \in SUBSET (1..Len(cs))
      BY <1>1, <1>4 DEF Below
    <2>2. CASE i = r
      <3>1. \A j : j \in Below(U, r) /\ f \in DOMAIN cs[j].to <=> j \in M /\ f \in DOMAIN cs[j].to
        <4>1. \A j \in M : f \in DOMAIN cs[j].to => j < r BY <1>6, <1>10, <2>2
        <4>2. ~(r < r) BY <1>5
        <4> QED BY <1>5, <4>1, <4>2 DEF Below
      <3>2. TreeAt(cs, Below(U, r))[f] = ours[f] BY <1>1, <2>1, <2>2, <3>1, SameTop
      <3>3. ASSUME NEW j \in M, f \in DOMAIN cs[j].to PROVE cs[j].to[f] \subseteq ours[f]
        <4>1. \A k \in M : Grows(cs[k]) BY <1>1 DEF Sound
        <4> QED BY <1>1, <3>3, <4>1, TreeHolds
      <3> QED BY <1>6, <1>10, <2>2, <3>1, <3>2, <3>3
    <2>3. CASE i # r
      <3>1. i \in M /\ i \in Nat /\ r \in Nat BY <1>5, <2>3
      <3>2. ~(r < i /\ f \in DOMAIN cs[r].to)
        <4>1. f \in DOMAIN cs[r].to => i < r BY <1>6, <1>10, <3>1
        <4> QED BY <3>1, <4>1
      <3>3. \A j : j \in Below(U, i) /\ f \in DOMAIN cs[j].to
                   <=> j \in Below(M, i) /\ f \in DOMAIN cs[j].to
        BY <1>5, <3>2 DEF Below
      <3>4. TreeAt(cs, Below(U, i))[f] = TreeAt(cs, Below(M, i))[f] BY <1>1, <2>1, <3>3, SameTop
      <3>5. /\ cs[i].from[f] = TreeAt(cs, Below(M, i))[f]
            /\ \A j \in Below(M, i) : f \in DOMAIN cs[j].to => cs[j].to[f] \subseteq cs[i].from[f]
        BY <1>10, <3>1 DEF Built
      <3> QED BY <3>3, <3>4, <3>5
    <2> QED BY <2>2, <2>3
  <1>11. Built(cs, U)
    <2>1. 1 \in U /\ U \subseteq 1..Len(cs) BY <1>1, <1>5
    <2> QED BY <1>10, <2>1 DEF Built
  <1> QED BY <1>2, <1>7, <1>9, <1>11 DEF theirs, U, merged

-----------------------------------------------------------------------------
(* The inductive invariant of a calm run                                    *)

\* All branches are built of commits of one file and one edit, but for the first.
Linked ==
    /\ Sound(commits)
    /\ Built(commits, master)
    /\ incoming # {} => Built(commits, incoming)
    /\ pushing # None => Built(commits, currentRev)
    /\ \A n \in DOMAIN tags : Built(commits, tags[n])
    /\ \A p \in Push : clone[p] # {} => Built(commits, clone[p])

\* A tag has the files of its changelist.
TagsExact ==
    /\ synced \in DOMAIN tags
    /\ \A n \in DOMAIN tags : \E k \in DOMAIN depot :
          depot[k].num = n /\ depot[k].tree = TreeAt(commits, tags[n])

LastNum == depot[Len(depot)].num

\* A changelist without a tag is a Perforce user's, or was submitted just now.
ByUser(k) == \E e \in UserEdit :
    /\ e \notin depot[k - 1].tree[FileOf[e]]
    /\ depot[k].tree = [depot[k - 1].tree EXCEPT ![FileOf[e]] = @ \cup {e}]
Tagging == pc = "tag push"
TagsOrUsers == \A k \in DOMAIN depot \ {1} :
    \/ depot[k].num \in DOMAIN tags
    \/ Tagging /\ k = Len(depot)
    \/ ByUser(k)

\* No changelist after the one on record has a tag, but the one that is taken.
Counted == pushing # None /\ pc \in {"pull", "checkout", "branch", "next", "record"}
TagsTaken == \A n \in DOMAIN tags :
    \/ n <= synced
    \/ pc = "record" /\ n = Head(newStuff)
    \/ Counted /\ n = LastNum

\* The files on record, the files of master, and where the working tree is.
Fresh == TreeAt(commits, tags[synced])
Ours == TreeAt(commits, master)
Pulled == TreeAt(commits, incoming)
At(branch, t) == head = branch /\ ~unmerged /\ files = t /\ index = t
Idle == pending = 0 /\ opened = {}

\* Between pulls. The rollback of a push some commits of which were submitted can
\* leave a file that git does not track, as Perforce has it.
Resting ==
    /\ Idle /\ head = "master" /\ ~unmerged /\ have = Fresh /\ index = Ours
    /\ master \subseteq tags[synced]
    /\ \A f \in File : files[f] = index[f] \/ (index[f] = {} /\ files[f] = have[f])

\* A pull of the loop takes one user's changelist after the other.
Coming == DepotAt(Head(newStuff))
Unknown == Head(newStuff) \notin DOMAIN tags
Drawn ==
    /\ At("p4-incoming", Fresh) /\ have = Fresh /\ incoming = tags[synced]
Taking ==
    /\ Idle /\ head = "p4-incoming" /\ ~unmerged /\ master \subseteq tags[synced]
    /\ pc \in {"next", "sync", "rebase"} => Drawn
    /\ pc = "rebase" => newStuff = <<>>
    /\ pc \in {"sync", "stage", "commit", "tag"} => Unknown
    /\ pc \in {"stage", "commit"} =>
          incoming = tags[synced] /\ have = Coming /\ files = Coming
    /\ pc = "stage" => index = Fresh /\ changed = {f \in File : Fresh[f] # Coming[f]}
    /\ pc = "commit" => index = Coming
    /\ pc \in {"tag", "record"} =>
          /\ At("p4-incoming", Coming) /\ have = Coming /\ Pulled = Coming
          /\ tags[synced] \subseteq incoming
    /\ pc = "record" => HasTag(Head(newStuff)) /\ tags[Head(newStuff)] = incoming

\* The mirror is exact.
Exact == Idle /\ At("master", Fresh) /\ have = Fresh /\ master = tags[synced]

\* Nobody submitted since the pull, unless to a file of the commit at hand.
Raced == \E f \in CurrentFiles : DepotHead[f] # have[f]
Alone ==
    /\ \A f \in File \ CurrentFiles : DepotHead[f] = have[f]
    /\ LastNum = synced \/ Raced

\* A commit is merged, and to be submitted.
MergedOne ==
    /\ At("master", Ours) /\ have = Fresh /\ Alone
    /\ master = tags[synced] \cup {Head(revs).id}
    /\ \A f \in File \ CurrentFiles : files[f] = have[f]

\* It is submitted, and the pull takes it.
Behind == Len(depot) > 1 /\ depot[Len(depot) - 1].num = synced
Sent ==
    /\ Idle /\ At("master", Ours) /\ have = Ours /\ have = DepotHead
    /\ tags[synced] \subseteq master /\ Behind
LastTagged == HasTag(LastNum) /\ tags[LastNum] = master
TakenBack ==
    /\ Idle /\ At("p4-incoming", Pulled) /\ have = Ours /\ have = DepotHead
    /\ incoming # {} /\ incoming \subseteq master /\ tags[synced] \subseteq master /\ LastTagged
    /\ IF newStuff = <<>> THEN pc # "record" /\ LastNum = synced
       ELSE pc # "rebase" /\ newStuff = <<LastNum>> /\ Behind

RolledBack ==
    /\ Idle /\ head = "master" /\ have = Fresh /\ index = Ours
    /\ \A f \in File : files[f] \in {index[f], have[f]}

PushSteps == {"merge", "open", "submit", "tag push", "pull", "checkout", "branch", "next",
              "record", "rebase", "pushed", "reset", "rollback", "clean up"}
Pushes ==
    /\ pc \in PushSteps /\ currentRev \subseteq tags[synced]
    /\ pc \in {"merge", "pushed"} => Exact
    /\ pc = "merge" => Alone
    /\ pc \in {"open", "submit"} => MergedOne
    /\ pc = "open" => Idle
    /\ pc = "submit" => opened = CurrentFiles /\ (counter = pending \/ Raced)
    /\ pc \in {"tag push", "pull", "checkout", "branch"} => Sent
    /\ pc = "tag push" => final.num = LastNum /\ final.renamed = FALSE
    /\ pc \in {"pull", "checkout", "branch"} => LastTagged
    /\ pc \in {"next", "record", "rebase"} => TakenBack
    /\ pc = "pushed" => LastNum = synced
    /\ pc \in {"reset", "rollback"} =>
          head = "master" /\ files = Ours /\ index = Ours /\ have = Fresh
    /\ pc = "reset" => ~unmerged
    /\ pc \in {"rollback", "clean up"} => master \subseteq tags[synced]
    /\ pc = "clean up" => RolledBack

\* What git cherry listed and the push has yet to merge is what master lacks.
ToMerge == {revs[k].id : k \in (IF pc = "merge" THEN 1 ELSE 2)..Len(revs)}
Lines == pc \notin {"reset", "rollback", "clean up"} =>
    /\ Rising /\ clone[pushing] # {}
    /\ ToMerge = clone[pushing] \ master
    /\ \A k \in 1..Len(revs) : revs[k].id \in ToMerge /\ revs[k].plus =>
          \A j \in master \ clone[pushing] : commits[j] # commits[revs[k].id]

Phase ==
    /\ ~rebasing
    /\ pc = "idle" => pushing = None
    /\ pushing = None =>
          /\ pc \in {"idle", "checkout", "branch", "rebase", "pop"} \cup Importing
          /\ pc \in {"idle", "checkout", "branch"} => Resting
          /\ pc \in {"rebase"} \cup Importing => Taking
          /\ pc = "pop" => Exact /\ incoming = {}
    /\ pushing # None => Pushes /\ Lines

Mirrors == Linked /\ TagsExact /\ TagsOrUsers /\ TagsTaken /\ Phase

-----------------------------------------------------------------------------
(* The depot                                                                *)

FilesAt(d, n) == LET k == {j \in 1..Len(d) : d[j].num <= n} IN
                 d[CHOOSE j \in k : \A m \in k : m <= j].tree

LEMMA FilesAtIs ==
    ASSUME NEW d, Len(d) \in Nat, \A i \in 1..Len(d) : d[i].num \in Nat,
           \A i, k \in 1..Len(d) : i < k => d[i].num < d[k].num, NEW j \in 1..Len(d)
    PROVE  FilesAt(d, d[j].num) = d[j].tree
  <1> DEFINE upTo == {i \in 1..Len(d) : d[i].num <= d[j].num}
  <1>1. j \in upTo OBVIOUS
  <1>2. ASSUME NEW m \in upTo PROVE m <= j
    <2> SUFFICES ASSUME j < m PROVE FALSE OBVIOUS
    <2>1. d[j].num < d[m].num OBVIOUS
    <2> QED BY <2>1
  <1>3. (CHOOSE i \in upTo : \A m \in upTo : m <= i) = j
    <2>1. \A i \in upTo : (\A m \in upTo : m <= i) => i = j BY <1>1, <1>2
    <2> HIDE DEF upTo
    <2> QED BY <1>1, <1>2, <2>1
  <1> QED BY <1>3 DEF FilesAt

LEMMA DepotAtIs ==
    ASSUME Numbered, NEW j \in DOMAIN depot
    PROVE  DepotAt(depot[j].num) = depot[j].tree
  <1>1. DepotAt(depot[j].num) = FilesAt(depot, depot[j].num) BY DEF DepotAt, FilesAt
  <1>2. DOMAIN depot = 1..Len(depot) /\ Len(depot) \in Nat BY DepotFacts
  <1>3. \A i \in 1..Len(depot) : depot[i].num \in Nat BY <1>2, DepotFacts
  <1>4. \A i, k \in 1..Len(depot) : i < k => depot[i].num < depot[k].num
    BY <1>2 DEF Numbered
  <1> QED BY <1>1, <1>2, <1>3, <1>4, FilesAtIs

\* What was submitted stays as it is.
LEMMA DepotAtStays ==
    ASSUME Numbered, Numbered', NEW d, depot' = Append(depot, d), NEW j \in DOMAIN depot
    PROVE  /\ j \in DOMAIN depot' /\ depot'[j] = depot[j]
           /\ DepotAt(depot[j].num)' = DepotAt(depot[j].num)
  <1>1. j \in DOMAIN depot' /\ depot'[j] = depot[j] BY DepotGrows
  <1>2. DepotAt(depot[j].num)' = FilesAt(depot', depot'[j].num) BY DEF DepotAt, FilesAt
  <1>3. DOMAIN depot' = 1..Len(depot') /\ Len(depot') \in Nat BY DEF Numbered
  <1>4. \A i \in 1..Len(depot') : depot'[i].num \in Nat BY <1>3 DEF Numbered
  <1>5. \A i, k \in 1..Len(depot') : i < k => depot'[i].num < depot'[k].num
    BY <1>3 DEF Numbered
  <1>6. FilesAt(depot', depot'[j].num) = depot'[j].tree BY <1>1, <1>3, <1>4, <1>5, FilesAtIs
  <1> QED BY <1>1, <1>2, <1>6, DepotAtIs

-----------------------------------------------------------------------------
(* What the invariant says where                                            *)

LEMMA MirrorFacts ==
    ASSUME TypeInv, Mirrors
    PROVE  /\ Numbered /\ commits \in Seq(CommitSet) /\ Len(commits) \in Nat
           /\ synced \in DOMAIN tags
           /\ Fresh \in Trees /\ Ours \in Trees /\ Pulled \in Trees
           /\ have \in Trees /\ files \in Trees /\ index \in Trees
           /\ master \in SUBSET (1..Len(commits)) /\ incoming \in SUBSET (1..Len(commits))
           /\ \A n \in DOMAIN tags : n \in Nat /\ tags[n] \in SUBSET (1..Len(commits))
           /\ Tree(master) = Ours /\ Tree(incoming) = Pulled /\ Tree(tags[synced]) = Fresh
           /\ HeadTree = IF head = "master" THEN Ours ELSE Pulled
           /\ \E j \in DOMAIN depot : depot[j].num = synced /\ depot[j].tree = Fresh
  <1>1. /\ Numbered /\ commits \in Seq(CommitSet) /\ Len(commits) \in Nat
        /\ have \in Trees /\ files \in Trees /\ index \in Trees
        /\ master \in SUBSET (1..Len(commits)) /\ incoming \in SUBSET (1..Len(commits))
        /\ \A n \in DOMAIN tags : n \in Nat /\ tags[n] \in SUBSET (1..Len(commits))
    BY TypeFacts DEF TreesTyped, RefsTyped, Branches
  <1>2. synced \in DOMAIN tags BY DEF Mirrors, TagsExact
  <1>3. Fresh \in Trees /\ Ours \in Trees /\ Pulled \in Trees
    BY <1>1, <1>2, BranchTyped DEF Fresh, Ours, Pulled
  <1>4. /\ Tree(master) = Ours /\ Tree(incoming) = Pulled /\ Tree(tags[synced]) = Fresh
        /\ HeadTree = IF head = "master" THEN Ours ELSE Pulled
    BY TreeIs, HeadIs DEF Fresh, Ours, Pulled
  <1>5. \E j \in DOMAIN depot : depot[j].num = synced /\ depot[j].tree = Fresh
    BY <1>2 DEF Mirrors, TagsExact, Fresh
  <1> QED BY <1>1, <1>2, <1>3, <1>4, <1>5

LEMMA CheckoutGives ==
    ASSUME files \in Trees, index \in Trees, NEW t \in Trees, Checkout(t)
    PROVE  /\ \A f \in File : files[f] = HeadTree[f] => files'[f] = t[f]
           /\ files = HeadTree => files' = t
           /\ index = HeadTree => index' = t
           /\ t = HeadTree => files' = files /\ index' = index
  <1>1. /\ files' = Over(files, t) /\ index' = Over(index, t)
        /\ files = [f \in File |-> files[f]] /\ index = [f \in File |-> index[f]]
        /\ t = [f \in File |-> t[f]]
    BY DEF Checkout, Trees
  <1>2. ASSUME NEW old, files = old \/ index = old
        PROVE  /\ \A f \in File : old[f] = HeadTree[f] => Over(old, t)[f] = t[f]
               /\ old = HeadTree => Over(old, t) = t
               /\ t = HeadTree => Over(old, t) = old
    BY <1>1, <1>2 DEF Over
  <1> QED BY <1>1, <1>2

-----------------------------------------------------------------------------
(* The initial states                                                       *)

LEMMA MirrorsInit == Init => Mirrors
  <1> SUFFICES ASSUME Init PROVE Mirrors OBVIOUS
  <1> DEFINE nothing == [f \in File |-> {}]
             d == {f \in File : nothing[f] # Everything[f]}
  <1>1. TypeInv BY TypeInit
  <1>2. /\ commits \in Seq(CommitSet) /\ Len(commits) = 1
        /\ commits[1].from = [f \in d |-> {}] /\ commits[1].to = [f \in d |-> Everything[f]]
        /\ master = {1} /\ incoming = {} /\ currentRev = {} /\ head = "master"
        /\ tags = [n \in {1} |-> {1}] /\ synced = 1 /\ depot = <<[num |-> 1, tree |-> Everything]>>
        /\ have = Everything /\ files = Everything /\ index = Everything
        /\ pending = 0 /\ opened = {} /\ ~unmerged /\ ~rebasing /\ pc = "idle" /\ pushing = None
        /\ clone = [p \in Push |-> {}]
    BY <1>1, TypeFacts DEF Init, Commit
  <1>3. Grows(commits[1]) /\ DOMAIN commits[1].to = d
    BY <1>2 DEF Grows
  <1>4. Sound(commits) BY <1>2, <1>3 DEF Sound
  <1>5. ASSUME NEW f \in d PROVE TreeAt(commits, Below({1}, 1))[f] = {}
    BY DEF TreeAt, Below
  <1>6. Built(commits, {1})
    <2>1. Below({1}, 1) = {} BY DEF Below
    <2>2. 1 \in {1} /\ {1} \subseteq 1..Len(commits) BY <1>2
    <2>3. ASSUME NEW i \in {1}, NEW f \in DOMAIN commits[i].to
          PROVE  /\ commits[i].from[f] = TreeAt(commits, Below({1}, i))[f]
                 /\ \A j \in Below({1}, i) :
                        f \in DOMAIN commits[j].to => commits[j].to[f] \subseteq commits[i].from[f]
      <3>1. i = 1 /\ f \in d BY <1>3
      <3>2. commits[1].from[f] = {} BY <1>2, <3>1
      <3> HIDE DEF d
      <3> QED BY <1>5, <2>1, <3>1, <3>2
    <2> QED BY <2>2, <2>3 DEF Built
  <1>7. TreeAt(commits, {1}) = Everything
    <2>1. ASSUME NEW f \in File PROVE TreeAt(commits, {1})[f] = Everything[f]
      <3>1. {1} \in SUBSET (1..Len(commits)) BY <1>2
      <3>2. CASE f \in d
        <4>1. f \in DOMAIN commits[1].to /\ \A j \in {1} : j <= 1
          BY <1>3, <3>2
        <4>2. commits[1].to[f] = Everything[f] BY <1>2, <3>2
        <4> HIDE DEF d
        <4>3. TreeAt(commits, {1})[f] = commits[1].to[f]
          <5>1. commits \in Seq(CommitSet) BY <1>2
          <5>2. 1 \in {1} OBVIOUS
          <5> QED BY ONLY <2>1, <3>1, <4>1, <5>1, <5>2, TopIs
        <4> QED BY <4>2, <4>3
      <3>3. CASE f \notin d
        <4> HIDE DEF d
        <4>1. \A i \in {1} : f \notin DOMAIN commits[i].to BY <1>3, <3>3
        <4>2. commits \in Seq(CommitSet) BY <1>2
        <4>3. TreeAt(commits, {1})[f] = {} BY ONLY <2>1, <3>1, <4>1, <4>2, TreeTop
        <4> QED BY <3>3, <4>3 DEF d
      <3> QED BY <3>2, <3>3
    <2>2. Everything = [f \in File |-> Everything[f]] /\ DOMAIN Everything = File
      BY DEF Everything
    <2> HIDE DEF d
    <2> QED BY <2>1, <2>2, SameTree
  <1>8. Linked BY <1>2, <1>4, <1>6 DEF Linked
  <1>9. TagsExact /\ TagsOrUsers /\ TagsTaken
    <2>1. DOMAIN depot = {1} /\ depot[1] = [num |-> 1, tree |-> Everything] BY <1>2
    <2>2. TagsExact BY <1>2, <1>7, <2>1 DEF TagsExact
    <2>3. TagsOrUsers BY <2>1 DEF TagsOrUsers
    <2>4. TagsTaken BY <1>2 DEF TagsTaken
    <2> QED BY <2>2, <2>3, <2>4
  <1>10. Fresh = Everything /\ Ours = Everything BY <1>2, <1>7 DEF Fresh, Ours
  <1>11. Resting BY <1>2, <1>10 DEF Resting, Idle
  <1>12. Phase BY <1>2, <1>11 DEF Phase, Importing
  <1> QED BY <1>8, <1>9, <1>12 DEF Mirrors

-----------------------------------------------------------------------------
(* What a step leaves alone                                                 *)

LEMMA LinkedStays ==
    ASSUME Linked, UNCHANGED <<commits, clone>>, Built(commits, master'),
           incoming' # {} => Built(commits, incoming'),
           pushing' # None => Built(commits, currentRev'),
           \A n \in DOMAIN tags' : Built(commits, tags'[n])
    PROVE  Linked'
  BY DEF Linked

LEMMA TagsStay ==
    ASSUME TypeInv, Mirrors, UNCHANGED <<depot, commits, tags, synced, newStuff>>,
           pc = "record" => pc' = "record", ~Tagging,
           Counted => Counted' \/ LastNum = synced
    PROVE  TagsExact' /\ TagsOrUsers' /\ TagsTaken'
  <1>1. synced \in Nat /\ \A n \in DOMAIN tags : n \in Nat
    BY TypeFacts, DepotFacts DEF Numbered, RefsTyped
  <1>2. TagsExact' BY DEF Mirrors, TagsExact
  <1>3. TagsOrUsers' BY DEF Mirrors, TagsOrUsers, ByUser
  <1>4. TagsTaken'
    <2> SUFFICES ASSUME NEW n \in DOMAIN tags
                 PROVE  \/ n <= synced
                        \/ pc' = "record" /\ n = Head(newStuff)
                        \/ Counted' /\ n = LastNum'
      BY DEF TagsTaken
    <2>1. LastNum' = LastNum BY DEF LastNum
    <2>2. \/ n <= synced
          \/ pc = "record" /\ n = Head(newStuff)
          \/ Counted /\ n = LastNum
      BY DEF Mirrors, TagsTaken
    <2>3. n = LastNum /\ LastNum = synced => n <= synced BY <1>1
    <2> QED BY <2>1, <2>2, <2>3
  <1> QED BY <1>2, <1>3, <1>4

LEMMA LinesStay ==
    ASSUME Lines, UNCHANGED <<commits, master, pushing, clone, revs>>,
           pc \notin {"merge", "reset", "rollback", "clean up"}, pc' # "merge"
    PROVE  Lines'
  <1>1. ToMerge' = ToMerge BY DEF ToMerge
  <1>2. Rising' = Rising BY DEF Rising
  <1>3. /\ Rising /\ clone[pushing] # {} /\ ToMerge = clone[pushing] \ master
        /\ \A k \in 1..Len(revs) : revs[k].id \in ToMerge /\ revs[k].plus =>
              \A j \in master \ clone[pushing] : commits[j] # commits[revs[k].id]
    BY Zenon DEF Lines
  <1> QED BY <1>1, <1>2, <1>3, Zenon DEF Lines

-----------------------------------------------------------------------------
(* A pull, step by step                                                     *)

LEMMA MirrorsStartPull ==
    ASSUME TypeInv, Mirrors, StartPull
    PROVE  Mirrors'
  <1>1. /\ pc \in {"idle", "pull"}
        /\ UNCHANGED <<p4Vars, refVars, diskVars, synced, workVars, userVars>>
        /\ pc' = IF pending = 0 THEN "checkout" ELSE IF pushing = None THEN "idle" ELSE "rollback"
    BY DEF StartPull, Thrown
  <1>2. Phase BY DEF Mirrors
  <1>3. pending = 0
    <2>1. CASE pushing = None
      <3>1. pc = "idle" BY <1>1, <1>2, <2>1 DEF Phase, Importing
      <3> QED BY <1>2, <2>1, <3>1 DEF Phase, Resting, Idle
    <2>2. CASE pushing # None
      <3>1. pc = "pull" BY <1>1, <1>2, <2>2 DEF Phase
      <3> QED BY <1>2, <2>2, <3>1 DEF Phase, Pushes, Sent, Idle
    <2> QED BY <2>1, <2>2
  <1>4. pc' = "checkout" BY <1>1, <1>3
  <1>5. Linked' BY <1>1, LinkedStays DEF Mirrors, Linked, refVars, workVars, userVars
  <1>6. TagsExact' /\ TagsOrUsers' /\ TagsTaken'
    BY <1>1, <1>4, TagsStay DEF p4Vars, refVars, workVars, Counted, Tagging
  <1>7. CASE pushing = None
    <2>1. pc = "idle" BY <1>1, <1>2, <1>7 DEF Phase, Importing
    <2>2. Resting BY <1>2, <1>7, <2>1 DEF Phase
    <2>3. Resting'
      BY <1>1, <2>2 DEF Resting, Idle, Fresh, Ours, p4Vars, refVars, diskVars
    <2>4. Phase'
      BY <1>1, <1>2, <1>4, <1>7, <2>3 DEF Phase, Importing, refVars, workVars
    <2> QED BY <1>5, <1>6, <2>4 DEF Mirrors
  <1>8. CASE pushing # None
    <2>1. pc = "pull" BY <1>1, <1>2, <1>8 DEF Phase
    <2>2. Pushes /\ Lines BY <1>2, <1>8 DEF Phase
    <2>3. Sent /\ LastTagged BY <2>1, <2>2 DEF Pushes
    <2>4. Sent' /\ LastTagged'
      BY <1>1, <2>3 DEF Sent, LastTagged, Idle, At, Behind, Fresh, Ours, DepotHead, LastNum,
                        HasTag, p4Vars, refVars, diskVars
    <2>5. Pushes'
      BY <1>1, <1>4, <2>1, <2>2, <2>4 DEF Pushes, PushSteps, refVars, workVars
    <2>6. Lines'
      BY <1>1, <1>4, <2>1, <2>2 DEF Lines, Rising, ToMerge, refVars, workVars, userVars
    <2>7. Phase' BY <1>1, <1>2, <1>4, <1>8, <2>5, <2>6 DEF Phase, refVars, workVars
    <2> QED BY <1>5, <1>6, <2>7 DEF Mirrors
  <1> QED BY <1>7, <1>8

LEMMA MirrorsCheckout ==
    ASSUME TypeInv, Mirrors, CheckoutMaster
    PROVE  Mirrors'
  <1>1. /\ pc = "checkout"
        /\ UNCHANGED <<p4Vars, commits, master, unmerged, rebasing, tags, oddTag, synced,
                       workVars, userVars>>
    BY DEF CheckoutMaster
  <1>2. Phase /\ Linked BY DEF Mirrors
  <1>3. head = "master" /\ ~unmerged
    <2>1. CASE pushing = None BY <1>1, <1>2, <2>1 DEF Phase, Resting
    <2>2. CASE pushing # None BY <1>1, <1>2, <2>2 DEF Phase, Pushes, Sent, At
    <2> QED BY <2>1, <2>2
  <1>4. HeadTree = Tree(master) /\ files \in Trees /\ index \in Trees /\ Tree(master) \in Trees
    BY <1>3, MirrorFacts
  <1>5. CanCheckout(Tree(master)) BY <1>3, <1>4 DEF CanCheckout
  <1>6. Checkout(Tree(master)) /\ head' = "master" /\ incoming' = {} /\ pc' = "branch"
    BY <1>1, <1>5 DEF CheckoutMaster
  <1>7. UNCHANGED <<files, index, head>> BY <1>3, <1>4, <1>6, CheckoutGives
  <1>8. Linked' BY <1>1, <1>2, <1>6, LinkedStays DEF Linked, workVars, userVars
  <1>9. TagsExact' /\ TagsOrUsers' /\ TagsTaken'
    BY <1>1, <1>6, TagsStay DEF p4Vars, workVars, Counted, Tagging
  <1>10. CASE pushing = None
    <2>1. Resting BY <1>1, <1>2, <1>10 DEF Phase
    <2>2. Resting' BY <1>1, <1>7, <2>1 DEF Resting, Idle, Fresh, Ours, p4Vars
    <2>3. Phase' BY <1>1, <1>2, <1>6, <1>10, <2>2 DEF Phase, Importing, workVars
    <2> QED BY <1>8, <1>9, <2>3 DEF Mirrors
  <1>11. CASE pushing # None
    <2>1. Pushes /\ Lines BY <1>2, <1>11 DEF Phase
    <2>2. Sent /\ LastTagged BY <1>1, <2>1 DEF Pushes
    <2>3. Sent' /\ LastTagged'
      BY <1>1, <1>7, <2>2 DEF Sent, LastTagged, Idle, At, Behind, Fresh, Ours, DepotHead,
                              LastNum, HasTag, p4Vars
    <2>4. Pushes' BY <1>1, <1>6, <2>1, <2>3 DEF Pushes, PushSteps, workVars
    <2>5. Lines' BY <1>1, <1>6, <2>1 DEF Lines, Rising, ToMerge, workVars, userVars
    <2>6. Phase' BY <1>1, <1>2, <1>6, <1>11, <2>4, <2>5 DEF Phase, workVars
    <2> QED BY <1>8, <1>9, <2>6 DEF Mirrors
  <1> QED BY <1>10, <1>11

\* What is new to a push in its pull is what it submitted.
LEMMA BehindOne ==
    ASSUME Numbered, Behind
    PROVE  ChangesSince(synced) = <<LastNum>> /\ synced < LastNum /\ LastNum \in Nat
  <1> DEFINE j == Len(depot) - 1
  <1>1. Len(depot) \in Nat /\ DOMAIN depot = 1..Len(depot) /\ Len(depot) > 1
    BY DepotFacts DEF Behind
  <1>2. j \in DOMAIN depot /\ Len(depot) \in DOMAIN depot /\ depot[j].num = synced
    BY <1>1 DEF Behind
  <1>3. ChangesSince(synced) = [k \in 1..(Len(depot) - j) |-> depot[j + k].num]
    BY <1>2, ChangesAre
  <1>4. Len(depot) - j = 1 /\ j + 1 = Len(depot) /\ j < Len(depot) BY <1>1
  <1>5. ChangesSince(synced) = <<LastNum>>
    <2>1. ChangesSince(synced) = [k \in 1..1 |-> LastNum]
      <3> HIDE DEF j
      <3>1. \A k \in 1..1 : depot[j + k].num = LastNum BY <1>4 DEF LastNum
      <3> QED BY <1>3, <1>4, <3>1
    <2> QED BY <2>1
  <1>6. depot[j].num < depot[Len(depot)].num BY <1>2, <1>4 DEF Numbered
  <1>7. depot[Len(depot)].num \in Nat BY <1>2, DepotFacts
  <1> QED BY <1>2, <1>5, <1>6, <1>7 DEF LastNum

LEMMA MirrorsBranch ==
    ASSUME TypeInv, Mirrors, BranchIncoming
    PROVE  Mirrors'
  <1>1. /\ pc = "branch" /\ synced \in DOMAIN tags /\ incoming' = tags[synced]
        /\ UNCHANGED <<p4Vars, commits, master, unmerged, rebasing, tags, oddTag, synced,
                       pushing, changed, revs, currentRev, final, userVars>>
    BY MirrorFacts DEF BranchIncoming
  <1>2. Phase /\ Linked BY DEF Mirrors
  <1>3. Tree(tags[synced]) = Fresh /\ Fresh \in Trees /\ files \in Trees /\ index \in Trees
    BY MirrorFacts
  <1>4. Built(commits, tags[synced]) BY <1>1, <1>2 DEF Linked
  <1>5. Linked' BY <1>1, <1>2, <1>4, LinkedStays DEF Linked, userVars
  <1>6. HeadTree = Ours /\ index = Ours /\ ~unmerged /\ head = "master"
    <2>1. CASE pushing = None BY <1>1, <1>2, <2>1, MirrorFacts DEF Phase, Resting
    <2>2. CASE pushing # None BY <1>1, <1>2, <2>2, MirrorFacts DEF Phase, Pushes, Sent, At
    <2> QED BY <2>1, <2>2
  <1>7. CASE pushing = None
    <2>1. Resting BY <1>1, <1>2, <1>7 DEF Phase
    <2>2. CASE CanCheckout(Fresh)
      <3>1. /\ Checkout(Fresh) /\ head' = "p4-incoming"
            /\ newStuff' = ChangesSince(synced) /\ pc' = "next"
        BY <1>1, <1>3, <2>2 DEF BranchIncoming
      <3>2. index' = Fresh BY <1>3, <1>6, <3>1, CheckoutGives
      <3>3. ASSUME NEW f \in File PROVE files'[f] = Fresh[f]
        <4>1. CASE files[f] = HeadTree[f] BY <1>3, <3>1, <4>1, CheckoutGives
        <4>2. CASE files[f] # HeadTree[f]
          <5>1. HeadTree[f] = Fresh[f] BY <1>3, <2>2, <4>2 DEF CanCheckout
          <5>2. files'[f] = files[f] BY <3>1, <5>1 DEF Checkout, Over
          <5>3. files[f] = have[f] /\ have[f] = Fresh[f] BY <1>6, <2>1, <4>2 DEF Resting
          <5> QED BY <5>2, <5>3
        <4> QED BY <4>1, <4>2
      <3>4. files' = Fresh
        <4>1. files' \in Trees BY <1>3, <3>1, CheckoutTyped
        <4>2. files' = [f \in File |-> files'[f]] /\ Fresh = [f \in File |-> Fresh[f]]
          BY <1>3, <4>1 DEF Trees
        <4> QED BY <3>3, <4>2
      <3>5. Fresh' = Fresh /\ have = Fresh /\ pending = 0 /\ opened = {}
        BY <1>1, <2>1 DEF Fresh, Resting, Idle
      <3>6. Taking'
        BY <1>1, <1>6, <2>1, <3>1, <3>2, <3>4, <3>5
        DEF Taking, Drawn, Idle, At, Resting, p4Vars
      <3>7. Phase' BY <1>1, <1>2, <1>7, <3>1, <3>6 DEF Phase, Importing
      <3>8. TagsExact' /\ TagsOrUsers'
        BY <1>1, <3>1 DEF Mirrors, TagsExact, TagsOrUsers, ByUser, Tagging, p4Vars
      <3>9. TagsTaken' BY <1>1, <1>7, <3>1 DEF Mirrors, TagsTaken, Counted
      <3> QED BY <1>5, <3>7, <3>8, <3>9 DEF Mirrors
    <2>3. CASE ~CanCheckout(Fresh)
      <3>1. pc' = "idle" /\ UNCHANGED <<diskVars, head, newStuff>>
        BY <1>1, <1>3, <1>7, <2>3 DEF BranchIncoming, Thrown
      <3>2. Resting' BY <1>1, <2>1, <3>1 DEF Resting, Idle, Fresh, Ours, p4Vars, diskVars
      <3>3. Phase' BY <1>1, <1>2, <1>7, <3>1, <3>2 DEF Phase, Importing
      <3>4. TagsExact' /\ TagsOrUsers' /\ TagsTaken'
        BY <1>1, <1>7, <3>1, TagsStay DEF p4Vars, Counted, Tagging
      <3> QED BY <1>5, <3>3, <3>4 DEF Mirrors
    <2> QED BY <2>2, <2>3
  <1>8. CASE pushing # None
    <2>1. Pushes /\ Lines BY <1>2, <1>8 DEF Phase
    <2>2. Sent /\ LastTagged BY <1>1, <2>1 DEF Pushes
    <2>3. files = Ours BY <2>2 DEF Sent, At
    <2>4. CanCheckout(Fresh) BY <1>6, <2>3 DEF CanCheckout
    <2>5. /\ Checkout(Fresh) /\ head' = "p4-incoming"
          /\ newStuff' = ChangesSince(synced) /\ pc' = "next"
      BY <1>1, <1>3, <2>4 DEF BranchIncoming
    <2>6. files' = Fresh /\ index' = Fresh BY <1>3, <1>6, <2>3, <2>5, CheckoutGives
    <2>7. newStuff' = <<LastNum>> BY <2>2, <2>5, BehindOne, MirrorFacts DEF Sent
    <2>8. 1 \in tags[synced] BY <1>4 DEF Built
    <2>9. TakenBack'
      <3>1. Pulled' = Fresh /\ Ours' = Ours /\ LastNum' = LastNum /\ DepotHead' = DepotHead
        BY <1>1 DEF Pulled, Fresh, Ours, LastNum, DepotHead, p4Vars
      <3>2. Behind' /\ LastTagged'
        BY <1>1, <2>2 DEF Sent, Behind, LastTagged, HasTag, LastNum, p4Vars
      <3>3. newStuff' # <<>> BY <2>7
      <3> QED BY <1>1, <1>6, <2>2, <2>5, <2>6, <2>7, <2>8, <3>1, <3>2, <3>3
          DEF TakenBack, Sent, Idle, At, p4Vars
    <2>10. Pushes' BY <1>1, <2>1, <2>5, <2>9 DEF Pushes, PushSteps
    <2>11. Lines' BY <1>1, <2>1, <2>5 DEF Lines, Rising, ToMerge, userVars
    <2>12. Phase' BY <1>1, <1>2, <1>8, <2>5, <2>10, <2>11 DEF Phase
    <2>13. TagsExact' /\ TagsOrUsers'
      BY <1>1, <2>5 DEF Mirrors, TagsExact, TagsOrUsers, ByUser, Tagging, p4Vars
    <2>14. TagsTaken' BY <1>1, <2>5 DEF Mirrors, TagsTaken, Counted, LastNum, p4Vars
    <2> QED BY <1>5, <2>12, <2>13, <2>14 DEF Mirrors
  <1> QED BY <1>7, <1>8

\* What the pull takes next comes right after what is on record.
LEMMA ComingIs ==
    ASSUME TypeInv, Mirrors, pc \in Importing, newStuff # <<>>
    PROVE  \E j \in DOMAIN depot :
              /\ depot[j].num = synced /\ depot[j].tree = Fresh
              /\ j + 1 \in DOMAIN depot /\ Head(newStuff) = depot[j + 1].num
              /\ Coming = depot[j + 1].tree
              /\ Head(newStuff) \in Nat /\ synced < Head(newStuff)
  <1>1. Numbered /\ InOrder BY DEF TypeInv, OrderInv
  <1>2. PICK j \in DOMAIN depot : Follows(j) BY <1>1 DEF InOrder
  <1>3. /\ depot[j].num = synced
        /\ \A k \in 1..Len(newStuff) : j + k \in DOMAIN depot /\ newStuff[k] = depot[j + k].num
    BY <1>2 DEF Follows
  <1>4. 1 \in 1..Len(newStuff) /\ Head(newStuff) = newStuff[1]
    BY <1>1 DEF InOrder
  <1>5. j + 1 \in DOMAIN depot /\ Head(newStuff) = depot[j + 1].num BY <1>3, <1>4
  <1>6. \A i \in DOMAIN depot : i \in Nat /\ depot[i].num \in Nat BY <1>1, DepotFacts
  <1>7. depot[j].num < depot[j + 1].num BY <1>1, <1>5, <1>6 DEF Numbered
  <1>8. PICK i \in DOMAIN depot : depot[i].num = synced /\ depot[i].tree = Fresh
    BY MirrorFacts
  <1>9. i = j
    <2>1. ~(i < j) /\ ~(j < i) BY <1>1, <1>3, <1>6, <1>8 DEF Numbered
    <2> QED BY <1>6, <2>1
  <1>10. Coming = depot[j + 1].tree BY <1>1, <1>5, DepotAtIs DEF Coming
  <1> QED BY <1>3, <1>5, <1>6, <1>7, <1>8, <1>9, <1>10

\* Without a tag it is a Perforce user's.
LEMMA UserCame ==
    ASSUME TypeInv, Mirrors, pc \in Importing, newStuff # <<>>, Unknown
    PROVE  \E e \in UserEdit : /\ e \notin Fresh[FileOf[e]]
                               /\ Coming = [Fresh EXCEPT ![FileOf[e]] = @ \cup {e}]
  <1>1. PICK j \in DOMAIN depot :
              /\ depot[j].tree = Fresh
              /\ j + 1 \in DOMAIN depot /\ Head(newStuff) = depot[j + 1].num
              /\ Coming = depot[j + 1].tree
    BY ComingIs
  <1>2. ~Tagging BY DEF Tagging, Importing
  <1>3. j \in Nat \ {0} BY DepotFacts, MirrorFacts
  <1>4. ByUser(j + 1)
    <2>1. j + 1 \in DOMAIN depot \ {1} BY <1>1, <1>3
    <2> QED BY <1>1, <1>2, <2>1 DEF Mirrors, TagsOrUsers, Unknown
  <1>5. (j + 1) - 1 = j BY <1>3
  <1> QED BY <1>1, <1>4, <1>5 DEF ByUser

LEMMA MirrorsNext ==
    ASSUME TypeInv, Mirrors, NextChange
    PROVE  Mirrors'
  <1>1. /\ pc = "next"
        /\ UNCHANGED <<p4Vars, refVars, diskVars, synced, workVars, userVars>>
        /\ pc' = IF newStuff = <<>> THEN "rebase"
                 ELSE IF ~NoGitChanges THEN IF pushing = None THEN "idle" ELSE "rollback"
                 ELSE IF HasTag(Head(newStuff)) THEN "record"
                 ELSE "sync"
    BY DEF NextChange, Thrown
  <1>2. Phase /\ Linked BY DEF Mirrors
  <1>3. Linked' BY <1>1, <1>2, LinkedStays DEF Linked, refVars, workVars, userVars
  <1>4. TagsExact' /\ TagsOrUsers'
    BY <1>1 DEF Mirrors, TagsExact, TagsOrUsers, ByUser, Tagging, p4Vars, refVars
  <1>5. CASE pushing = None
    <2>1. Taking BY <1>1, <1>2, <1>5 DEF Phase, Importing
    <2>2. Drawn BY <1>1, <2>1 DEF Taking
    <2>3. Drawn' BY <1>1, <2>2 DEF Drawn, At, Fresh, p4Vars, refVars, diskVars
    <2>4. ~Counted /\ ~Counted' BY <1>1, <1>5 DEF Counted, workVars
    <2>5. TagsTaken' BY <1>1, <2>4 DEF Mirrors, TagsTaken, refVars
    <2>6. CASE newStuff = <<>>
      <3>1. pc' = "rebase" BY <1>1, <2>6
      <3>2. Taking'
        BY <1>1, <2>1, <2>3, <2>6, <3>1 DEF Taking, Idle, p4Vars, refVars, workVars
      <3>3. Phase' BY <1>1, <1>2, <1>5, <3>1, <3>2 DEF Phase, Importing, refVars, workVars
      <3> QED BY <1>3, <1>4, <2>5, <3>3 DEF Mirrors
    <2>7. CASE newStuff # <<>>
      <3>1. HeadTree = Fresh BY <2>2, MirrorFacts DEF Drawn, At, Pulled, Fresh
      <3>2. NoGitChanges BY <2>2, <3>1 DEF NoGitChanges, Drawn, At
      <3>3. Unknown
        <4>1. synced < Head(newStuff) /\ synced \in Nat /\ Head(newStuff) \in Nat
          BY <1>1, <2>7, ComingIs, MirrorFacts, DepotFacts DEF Importing
        <4>2. \A n \in DOMAIN tags : n \in Nat /\ n <= synced
          BY <1>1, <2>4, MirrorFacts DEF Mirrors, TagsTaken
        <4> QED BY <4>1, <4>2 DEF Unknown
      <3>4. pc' = "sync" BY <1>1, <2>7, <3>2, <3>3 DEF HasTag, Unknown
      <3>5. Unknown' BY <1>1, <3>3 DEF Unknown, refVars, workVars
      <3>6. Taking'
        BY <1>1, <2>1, <2>3, <3>4, <3>5 DEF Taking, Idle, p4Vars, refVars, workVars
      <3>7. Phase' BY <1>1, <1>2, <1>5, <3>4, <3>6 DEF Phase, Importing, refVars, workVars
      <3> QED BY <1>3, <1>4, <2>5, <3>7 DEF Mirrors
    <2> QED BY <2>6, <2>7
  <1>6. CASE pushing # None
    <2>1. Pushes /\ Lines BY <1>2, <1>6 DEF Phase
    <2>2. TakenBack BY <1>1, <2>1 DEF Pushes
    <2>3. HeadTree = Pulled BY <2>2, MirrorFacts DEF TakenBack, At
    <2>4. NoGitChanges BY <2>2, <2>3 DEF NoGitChanges, TakenBack, At
    <2>5. pc' = IF newStuff = <<>> THEN "rebase" ELSE "record"
      BY <1>1, <2>2, <2>4 DEF TakenBack, LastTagged
    <2>6. TakenBack'
      BY <1>1, <2>2, <2>5
      DEF TakenBack, LastTagged, HasTag, Idle, At, Behind, Pulled, Ours, DepotHead, LastNum,
          p4Vars, refVars, diskVars, workVars
    <2>7. Pushes' BY <1>1, <2>1, <2>5, <2>6 DEF Pushes, PushSteps, refVars, workVars
    <2>8. Lines'
      BY <1>1, <2>1, <2>5 DEF Lines, Rising, ToMerge, refVars, workVars, userVars
    <2>9. Phase' BY <1>1, <1>2, <1>6, <2>5, <2>7, <2>8 DEF Phase, refVars, workVars
    <2>10. TagsTaken'
      <3>1. CASE newStuff = <<>>
        <4>1. LastNum = synced BY <2>2, <3>1 DEF TakenBack
        <4>2. pc # "record" /\ ~Tagging BY <1>1 DEF Tagging
        <4> QED BY <1>1, <4>1, <4>2, TagsStay DEF p4Vars, refVars, workVars
      <3>2. CASE newStuff # <<>>
        <4>1. Counted' /\ LastNum' = LastNum
          BY <1>1, <1>6, <2>5, <3>2 DEF Counted, LastNum, p4Vars, workVars
        <4> QED BY <1>1, <4>1 DEF Mirrors, TagsTaken, refVars
      <3> QED BY <3>1, <3>2
    <2> QED BY <1>3, <1>4, <2>9, <2>10 DEF Mirrors
  <1> QED BY <1>5, <1>6

LEMMA MirrorsSync ==
    ASSUME TypeInv, Mirrors, Sync
    PROVE  Mirrors'
  <1>1. /\ pc = "sync"
        /\ files' = [f \in File |-> IF have[f] # Coming[f] THEN Coming[f] ELSE files[f]]
        /\ have' = Coming
        /\ IF index = HeadTree /\ files' = index
           THEN pc' = "tag" /\ changed' = {}
           ELSE pc' = "stage" /\ changed' = {f \in File : have[f] # Coming[f]}
        /\ UNCHANGED <<depot, counter, pending, opened, refVars, index, synced, pushing,
                       newStuff, revs, currentRev, final, userVars>>
    BY DEF Sync, Coming
  <1>2. Phase /\ Linked BY DEF Mirrors
  <1>3. pushing = None /\ newStuff # <<>> /\ pc \in Importing
    BY <1>1, <1>2 DEF Phase, Pushes, PushSteps, TypeInv, OrderInv, InOrder, Importing
  <1>4. Linked' BY <1>1, <1>2, LinkedStays DEF Linked, refVars, userVars
  <1>5. TagsExact' /\ TagsOrUsers' /\ TagsTaken'
    BY <1>1, <1>3, TagsStay DEF refVars, Counted, Tagging
  <1>6. Taking /\ Drawn BY <1>1, <1>2, <1>3 DEF Phase, Importing, Taking
  <1>7. HeadTree = Fresh BY <1>6, MirrorFacts DEF Drawn, At, Pulled, Fresh
  <1>8. Coming \in Trees
    BY <1>3, ComingIs, TypeFacts DEF TreesTyped
  <1>9. files' = Coming
    <2>1. have = Fresh /\ files = Fresh BY <1>6 DEF Drawn, At
    <2>2. Coming = [f \in File |-> Coming[f]] BY <1>8 DEF Trees
    <2> QED BY <1>1, <2>1, <2>2
  <1>10. Fresh' = Fresh /\ Coming' = Coming /\ Pulled' = Pulled
    BY <1>1 DEF Fresh, Coming, DepotAt, Pulled, refVars
  <1>11. Taking'
    <2>1. CASE pc' = "tag"
      <3>1. index = Fresh /\ Coming = Fresh BY <1>1, <1>7, <1>9, <2>1
      <3> QED BY <1>1, <1>6, <1>9, <1>10, <2>1, <3>1
          DEF Taking, Drawn, Idle, At, Unknown, Pulled, Fresh, refVars
    <2>2. CASE pc' = "stage"
      <3>1. changed' = {f \in File : Fresh[f] # Coming[f]} BY <1>1, <1>6, <2>2 DEF Drawn
      <3> QED BY <1>1, <1>6, <1>9, <1>10, <2>2, <3>1
          DEF Taking, Drawn, Idle, At, Unknown, refVars
    <2> QED BY <1>1, <2>1, <2>2
  <1>12. Phase' BY <1>1, <1>2, <1>3, <1>11 DEF Phase, Importing, refVars
  <1> QED BY <1>4, <1>5, <1>12 DEF Mirrors

LEMMA MirrorsStage ==
    ASSUME TypeInv, Mirrors, Stage
    PROVE  Mirrors'
  <1>1. /\ pc = "stage" /\ changed' = {}
        /\ UNCHANGED <<p4Vars, refVars, files, synced, pushing, newStuff, revs, currentRev,
                       final, userVars>>
    BY DEF Stage
  <1>2. Phase /\ Linked BY DEF Mirrors
  <1>3. pushing = None /\ newStuff # <<>> /\ pc \in Importing
    BY <1>1, <1>2 DEF Phase, Pushes, PushSteps, TypeInv, OrderInv, InOrder, Importing
  <1>4. Linked' BY <1>1, <1>2, LinkedStays DEF Linked, refVars, userVars
  <1>5. Taking BY <1>1, <1>2, <1>3 DEF Phase, Importing
  <1>6. /\ files = Coming /\ index = Fresh
        /\ changed = {f \in File : Fresh[f] # Coming[f]}
    BY <1>1, <1>5 DEF Taking
  <1>7. {f \in changed : files[f] = {} /\ index[f] = {}} = {} BY <1>6
  <1>8. index' = [f \in File |-> IF f \in changed THEN files[f] ELSE index[f]] /\ pc' = "commit"
    BY <1>1, <1>7 DEF Stage
  <1>9. index' = Coming
    <2>1. Coming = [f \in File |-> Coming[f]] BY <1>6, MirrorFacts DEF Trees
    <2> QED BY <1>6, <1>8, <2>1
  <1>10. TagsExact' /\ TagsOrUsers' /\ TagsTaken'
    BY <1>1, <1>3, TagsStay DEF p4Vars, refVars, Counted, Tagging
  <1>11. Coming' = Coming BY <1>1 DEF Coming, DepotAt, p4Vars
  <1>12. Taking'
    BY <1>1, <1>5, <1>8, <1>9, <1>11 DEF Taking, Idle, Unknown, p4Vars, refVars
  <1>13. Phase' BY <1>1, <1>2, <1>3, <1>8, <1>12 DEF Phase, Importing, refVars
  <1> QED BY <1>4, <1>10, <1>13 DEF Mirrors

\* New commits leave the branches as they are.
LEMMA MoreCommits ==
    ASSUME commits \in Seq(CommitSet), Linked, NEW made \in Seq(CommitSet),
           commits' = commits \o made
    PROVE  /\ commits' \in Seq(CommitSet) /\ Len(commits') = Len(commits) + Len(made)
           /\ Len(commits) \in Nat /\ Len(made) \in Nat /\ Len(commits) <= Len(commits')
           /\ \A i \in 1..Len(commits) : commits'[i] = commits[i]
           /\ \A k \in 1..Len(made) : commits'[Len(commits) + k] = made[k]
           /\ \A B : Built(commits, B) => Built(commits', B)
           /\ \A B \in SUBSET (1..Len(commits)) : TreeAt(commits', B) = TreeAt(commits, B)
           /\ (\A k \in 1..Len(made) : Grows(made[k]) /\ Small(made[k])) => Sound(commits')
  <1>1. /\ commits' \in Seq(CommitSet) /\ Len(commits') = Len(commits) + Len(made)
        /\ Len(commits) \in Nat /\ Len(made) \in Nat /\ Len(commits) <= Len(commits')
        /\ \A i \in 1..Len(commits) : commits'[i] = commits[i]
        /\ \A k \in 1..Len(made) : commits'[Len(commits) + k] = made[k]
    OBVIOUS
  <1>2. \A B : Built(commits, B) => Built(commits', B) BY <1>1, BuiltStays
  <1>3. \A B \in SUBSET (1..Len(commits)) : TreeAt(commits', B) = TreeAt(commits, B)
    BY <1>1, TreeStays
  <1>4. ASSUME \A k \in 1..Len(made) : Grows(made[k]) /\ Small(made[k]) PROVE Sound(commits')
    <2>1. commits # <<>> /\ Sound(commits) BY DEF Linked, Sound
    <2>2. commits' # <<>>
      <3>1. Len(commits) # 0 BY <2>1
      <3> QED BY <1>1, <3>1
    <2>3. ASSUME NEW i \in 1..Len(commits')
          PROVE  Grows(commits'[i]) /\ (i # 1 => Small(commits'[i]))
      <3>1. CASE i \in 1..Len(commits) BY <1>1, <2>1, <3>1 DEF Sound
      <3>2. CASE i \notin 1..Len(commits)
        <4>1. PICK k \in 1..Len(made) : i = Len(commits) + k
          <5>1. i - Len(commits) \in 1..Len(made) /\ i = Len(commits) + (i - Len(commits))
            BY <1>1, <3>2
          <5> QED BY <5>1
        <4>2. commits'[i] = made[k] BY <1>1, <4>1
        <4> QED BY <1>4, <4>2
      <3> QED BY <3>1, <3>2
    <2> QED BY <1>1, <2>2, <2>3 DEF Sound
  <1> QED BY <1>1, <1>2, <1>3, <1>4

LEMMA MirrorsCommit ==
    ASSUME TypeInv, Mirrors, CommitChange
    PROVE  Mirrors'
  <1> DEFINE c == Commit(HeadTree, index)
             n == Len(commits) + 1
             B == tags[synced]
  <1>1. /\ pc = "commit"
        /\ UNCHANGED <<p4Vars, master, head, unmerged, rebasing, tags, oddTag, diskVars,
                       synced, workVars, userVars>>
    BY DEF CommitChange
  <1>2. Phase /\ Linked BY DEF Mirrors
  <1>3. pushing = None /\ newStuff # <<>> /\ pc \in Importing
    BY <1>1, <1>2 DEF Phase, Pushes, PushSteps, TypeInv, OrderInv, InOrder, Importing
  <1>4. Taking /\ Unknown BY <1>1, <1>2, <1>3 DEF Phase, Importing, Taking
  <1>5. /\ incoming = B /\ have = Coming /\ files = Coming /\ index = Coming
        /\ head = "p4-incoming" /\ ~unmerged /\ master \subseteq B
    BY <1>1, <1>4 DEF Taking
  <1>6. PICK e \in UserEdit : /\ e \notin Fresh[FileOf[e]]
                              /\ Coming = [Fresh EXCEPT ![FileOf[e]] = @ \cup {e}]
    BY <1>3, <1>4, UserCame
  <1>7. e \in Edit /\ FileOf[e] \in File BY ConstantsAssumption
  <1>8. /\ commits \in Seq(CommitSet) /\ Fresh \in Trees /\ index \in Trees
        /\ synced \in DOMAIN tags /\ B \in SUBSET (1..Len(commits))
    BY MirrorFacts
  <1>9. HeadTree = Fresh BY <1>5, MirrorFacts DEF Pulled, Fresh
  <1>10. DOMAIN Fresh = File BY <1>8 DEF Trees
  <1>11. /\ Coming[FileOf[e]] = Fresh[FileOf[e]] \cup {e}
         /\ \A f \in File : f # FileOf[e] => Coming[f] = Fresh[f]
    BY <1>6, <1>7, <1>10
  <1>12. index # HeadTree BY <1>5, <1>6, <1>9, <1>11
  <1>13. commits' = Append(commits, c) /\ incoming' = incoming \cup {n} /\ pc' = "tag"
    BY <1>1, <1>12 DEF CommitChange
  <1>14. c \in CommitSet BY <1>8, <1>9, CommitTyped
  <1>15. <<c>> \in Seq(CommitSet) /\ Len(<<c>>) = 1 /\ <<c>>[1] = c /\ commits' = commits \o <<c>>
    <2> HIDE DEF c
    <2> QED BY <1>8, <1>13, <1>14
  <1>16. /\ commits' \in Seq(CommitSet) /\ Len(commits') = n /\ commits'[n] = c
         /\ \A D : Built(commits, D) => Built(commits', D)
         /\ \A D \in SUBSET (1..Len(commits)) : TreeAt(commits', D) = TreeAt(commits, D)
         /\ Grows(c) /\ Small(c) => Sound(commits')
         /\ \A i \in 1..Len(commits) : commits'[i] = commits[i]
    <2> HIDE DEF c
    <2>1. 1 \in 1..Len(<<c>>) /\ \A k \in 1..Len(<<c>>) : <<c>>[k] = c BY <1>15
    <2> QED BY <1>2, <1>8, <1>15, <2>1, MoreCommits
  <1>17. Built(commits', B) /\ TreeAt(commits', B) = Fresh
    BY <1>2, <1>8, <1>16 DEF Linked, Fresh
  <1>18. /\ TreeAt(commits', B \cup {n}) = Coming /\ Built(commits', B \cup {n}) /\ Grows(c)
    <2>1. \A i \in B : Grows(commits'[i]) BY <1>2, <1>8, <1>16 DEF Linked, Sound
    <2>2. n \in 1..Len(commits') /\ \A i \in B : i < n BY <1>8, <1>16
    <2>3. \A f \in File : TreeAt(commits', B)[f] \subseteq index[f] BY <1>5, <1>11, <1>17
    <2>4. commits'[n] = Commit(TreeAt(commits', B), index) BY <1>9, <1>16, <1>17
    <2> HIDE DEF B, c, n
    <2>5. /\ TreeAt(commits', B \cup {n}) = index /\ Built(commits', B \cup {n})
          /\ Grows(commits'[n])
      <3>1. commits' \in Seq(CommitSet) /\ Built(commits', B) /\ index \in Trees
        BY <1>8, <1>16, <1>17
      <3> QED BY ONLY <2>1, <2>2, <2>3, <2>4, <3>1, BuiltOnTop
    <2> QED BY <1>5, <1>16, <2>5
  <1>19. Small(c)
    <2>1. /\ c.to = [f \in {x \in File : Fresh[x] # Coming[x]} |-> Coming[f]]
          /\ c.from = [f \in {x \in File : Fresh[x] # Coming[x]} |-> Fresh[f]]
      BY <1>5, <1>9 DEF Commit
    <2>2. DOMAIN c.to \subseteq {FileOf[e]} BY <1>11, <2>1
    <2>3. FileOf[e] \in DOMAIN c.to => c.to[FileOf[e]] = c.from[FileOf[e]] \cup {e}
      BY <1>11, <2>1
    <2> QED BY <1>7, <2>2, <2>3 DEF Small
  <1>20. Linked'
    <2>1. Sound(commits') BY <1>16, <1>18, <1>19
    <2>2. Built(commits', incoming') BY <1>5, <1>13, <1>18
    <2> QED BY <1>1, <1>2, <1>16, <2>1, <2>2 DEF Linked, workVars, userVars
  <1>21. TagsExact' /\ TagsOrUsers' /\ TagsTaken'
    <2>1. \A m \in DOMAIN tags : TreeAt(commits', tags[m]) = TreeAt(commits, tags[m])
      BY <1>16, MirrorFacts
    <2>2. TagsExact' BY <1>1, <2>1 DEF Mirrors, TagsExact, p4Vars
    <2>3. TagsOrUsers' BY <1>1, <1>13 DEF Mirrors, TagsOrUsers, ByUser, Tagging, p4Vars
    <2>4. TagsTaken' BY <1>1, <1>3, <1>13 DEF Mirrors, TagsTaken, Counted, workVars
    <2> QED BY <2>2, <2>3, <2>4
  <1>22. Coming' = Coming /\ Fresh' = Fresh /\ Pulled' = Coming
    BY <1>1, <1>5, <1>13, <1>17, <1>18 DEF Coming, DepotAt, Fresh, Pulled, p4Vars, workVars
  <1>23. Taking'
    BY <1>1, <1>4, <1>5, <1>13, <1>22
    DEF Taking, Idle, At, Unknown, p4Vars, diskVars, workVars
  <1>24. Phase' BY <1>1, <1>2, <1>3, <1>13, <1>23 DEF Phase, Importing, workVars
  <1> QED BY <1>20, <1>21, <1>24 DEF Mirrors

LEMMA MirrorsTagChange ==
    ASSUME TypeInv, Mirrors, TagChange
    PROVE  Mirrors'
  <1> DEFINE n == Head(newStuff)
  <1>1. /\ pc = "tag" /\ pc' = "record" /\ tags' = Tagged(n, incoming)
        /\ UNCHANGED <<p4Vars, commits, master, incoming, head, unmerged, rebasing, oddTag,
                       diskVars, synced, workVars, userVars>>
    BY DEF TagChange
  <1>2. Phase /\ Linked BY DEF Mirrors
  <1>3. pushing = None /\ newStuff # <<>> /\ pc \in Importing
    BY <1>1, <1>2 DEF Phase, Pushes, PushSteps, TypeInv, OrderInv, InOrder, Importing
  <1>4. Taking /\ Unknown BY <1>1, <1>2, <1>3 DEF Phase, Importing, Taking
  <1>5. synced \in DOMAIN tags /\ n # synced BY <1>4, MirrorFacts DEF Unknown
  <1>6. /\ DOMAIN tags' = DOMAIN tags \cup {n} /\ tags'[n] = incoming
        /\ \A m \in DOMAIN tags : tags'[m] = tags[m]
    BY <1>1, <1>4 DEF Tagged, Unknown
  <1>7. Pulled = Coming /\ tags[synced] \subseteq incoming /\ 1 \in tags[synced]
    BY <1>1, <1>2, <1>4, <1>5 DEF Taking, Linked, Built
  <1>8. Linked'
    <2>1. Built(commits, incoming) BY <1>2, <1>7 DEF Linked
    <2>2. \A m \in DOMAIN tags' : Built(commits, tags'[m]) BY <1>2, <1>6, <2>1 DEF Linked
    <2> QED BY <1>1, <1>2, <2>2, LinkedStays DEF Linked, workVars, userVars
  <1>9. PICK j \in DOMAIN depot : depot[j].num = n /\ depot[j].tree = TreeAt(commits, incoming)
    BY <1>3, <1>7, ComingIs DEF Pulled
  <1>10. TagsExact' BY <1>1, <1>5, <1>6, <1>9 DEF Mirrors, TagsExact, p4Vars
  <1>11. TagsOrUsers'
    BY <1>1, <1>6 DEF Mirrors, TagsOrUsers, ByUser, Tagging, p4Vars
  <1>12. TagsTaken' BY <1>1, <1>3, <1>6 DEF Mirrors, TagsTaken, Counted, workVars
  <1>13. Fresh' = Fresh /\ Coming' = Coming /\ Pulled' = Pulled
    BY <1>1, <1>5, <1>6 DEF Coming, DepotAt, Fresh, Pulled, p4Vars, workVars
  <1>14. tags'[synced] = tags[synced] BY <1>5, <1>6
  <1>15. Taking'
    BY <1>1, <1>4, <1>6, <1>13, <1>14
    DEF Taking, Idle, At, HasTag, p4Vars, diskVars, workVars
  <1>16. Phase' BY <1>1, <1>2, <1>3, <1>15 DEF Phase, Importing, workVars
  <1> QED BY <1>8, <1>10, <1>11, <1>12, <1>16 DEF Mirrors

LEMMA MirrorsRecord ==
    ASSUME TypeInv, Mirrors, Record
    PROVE  Mirrors'
  <1> DEFINE n == Head(newStuff)
  <1>1. /\ pc = "record"
        /\ UNCHANGED <<p4Vars, refVars, diskVars, pushing, changed, revs, currentRev, final,
                       userVars>>
    BY DEF Record
  <1>2. Phase /\ Linked BY DEF Mirrors
  <1>3. newStuff # <<>> /\ newStuff \in Seq(Nat) /\ pc \in Importing
    BY <1>1 DEF TypeInv, OrderInv, InOrder, Importing
  <1>4. synced \in Nat /\ n \in Nat /\ synced < n
    BY <1>3, ComingIs, DepotFacts, MirrorFacts
  <1>5. Linked' BY <1>1, <1>2, LinkedStays DEF Linked, refVars, userVars
  <1>6. CASE pushing = None
    <2>1. Taking BY <1>1, <1>2, <1>6 DEF Phase, Importing
    <2>2. /\ At("p4-incoming", Coming) /\ have = Coming /\ Pulled = Coming
          /\ tags[synced] \subseteq incoming /\ n \in DOMAIN tags /\ tags[n] = incoming
          /\ master \subseteq tags[synced]
      BY <1>1, <2>1 DEF Taking, HasTag
    <2>3. HeadTree = Coming BY <2>2, MirrorFacts DEF At
    <2>4. NoGitChanges BY <2>2, <2>3 DEF NoGitChanges, At
    <2>5. synced' = n /\ newStuff' = Tail(newStuff) /\ pc' = "next"
      BY <1>1, <2>4 DEF Record
    <2>6. TagsExact' /\ TagsOrUsers'
      BY <1>1, <2>2, <2>5
      DEF Mirrors, TagsExact, TagsOrUsers, ByUser, Tagging, p4Vars, refVars
    <2>7. TagsTaken'
      <3>1. ASSUME NEW m \in DOMAIN tags PROVE m <= n
        <4>1. m \in Nat /\ (m <= synced \/ m = n)
          BY <1>6, MirrorFacts DEF Mirrors, TagsTaken, Counted
        <4> QED BY <1>4, <4>1
      <3> QED BY <1>1, <2>5, <3>1 DEF TagsTaken, refVars
    <2>8. Fresh' = Coming BY <1>1, <2>2, <2>5 DEF Fresh, Pulled, refVars
    <2>9. Taking'
      BY <1>1, <2>1, <2>2, <2>5, <2>8 DEF Taking, Drawn, Idle, At, p4Vars, refVars, diskVars
    <2>10. Phase' BY <1>1, <1>2, <1>6, <2>5, <2>9 DEF Phase, Importing, refVars
    <2> QED BY <1>5, <2>6, <2>7, <2>10 DEF Mirrors
  <1>7. CASE pushing # None
    <2>1. Pushes /\ Lines BY <1>2, <1>7 DEF Phase
    <2>2. TakenBack BY <1>1, <2>1 DEF Pushes
    <2>3. newStuff = <<LastNum>> /\ n = LastNum /\ Tail(newStuff) = <<>>
      <3>1. newStuff = <<LastNum>> BY <1>3, <2>2 DEF TakenBack
      <3>2. Head(<<LastNum>>) = LastNum /\ Tail(<<LastNum>>) = <<>> OBVIOUS
      <3> QED BY <3>1, <3>2
    <2>4. HeadTree = Pulled BY <2>2, MirrorFacts DEF TakenBack, At
    <2>5. NoGitChanges BY <2>2, <2>4 DEF NoGitChanges, TakenBack, At
    <2>6. synced' = LastNum /\ newStuff' = <<>> /\ pc' = "next"
      BY <1>1, <2>3, <2>5 DEF Record
    <2>7. n \in DOMAIN tags /\ tags[n] = master /\ tags[synced] \subseteq master
      BY <2>2, <2>3 DEF TakenBack, LastTagged, HasTag
    <2>8. TagsExact' /\ TagsOrUsers'
      BY <1>1, <2>3, <2>6, <2>7
      DEF Mirrors, TagsExact, TagsOrUsers, ByUser, Tagging, p4Vars, refVars
    <2>9. TagsTaken'
      <3>1. ASSUME NEW m \in DOMAIN tags PROVE m <= n
        <4>1. m \in Nat /\ (m <= synced \/ m = n)
          BY <2>3, MirrorFacts DEF Mirrors, TagsTaken
        <4> QED BY <1>4, <4>1
      <3> QED BY <1>1, <2>3, <2>6, <3>1 DEF TagsTaken, refVars
    <2>10. TakenBack'
      BY <1>1, <2>2, <2>3, <2>6, <2>7
      DEF TakenBack, LastTagged, HasTag, Idle, At, Pulled, Ours, DepotHead, LastNum,
          p4Vars, refVars, diskVars
    <2>11. currentRev' \subseteq tags'[synced']
      BY <1>1, <2>1, <2>3, <2>6, <2>7 DEF Pushes, refVars
    <2>12. Pushes' BY <1>1, <2>1, <2>6, <2>10, <2>11 DEF Pushes, PushSteps
    <2>13. Lines' BY <1>1, <2>1, <2>6 DEF Lines, Rising, ToMerge, refVars, userVars
    <2>14. Phase' BY <1>1, <1>2, <1>7, <2>6, <2>12, <2>13 DEF Phase, refVars
    <2> QED BY <1>5, <2>8, <2>9, <2>14 DEF Mirrors
  <1> QED BY <1>6, <1>7

\* git rebase has nothing to replay: what master has is in p4-incoming.
LEMMA NothingToReplay ==
    ASSUME TypeInv, master \subseteq incoming
    PROVE  Rebased = [ok |-> TRUE, tree |-> Tree(incoming), made |-> <<>>]
  <1> DEFINE it == [ok |-> TRUE, tree |-> Tree(incoming), made |-> <<>>]
  <1>1. commits \in Seq(CommitSet) BY TypeFacts
  <1>2. (1..Len(commits)) \cap (master \ incoming) = {} OBVIOUS
  <1>3. Rebased \in {it}
    <2> HIDE DEF it
    <2>1. [ok |-> TRUE, tree |-> Tree(incoming), made |-> <<>>] \in {it} BY DEF it
    <2> QED BY <1>1, <1>2, <2>1, RebasedIn
  <1> QED BY <1>3

LEMMA MirrorsRebase ==
    ASSUME TypeInv, Mirrors, Rebase
    PROVE  Mirrors'
  <1>1. pc = "rebase" /\ UNCHANGED <<p4Vars, synced, workVars, userVars>>
    BY DEF Rebase
  <1>2. Phase /\ Linked BY DEF Mirrors
  <1>3. /\ commits \in Seq(CommitSet) /\ Len(commits) \in Nat /\ synced \in DOMAIN tags
        /\ files \in Trees /\ index \in Trees
        /\ Ours \in Trees /\ Pulled \in Trees /\ Tree(master) = Ours /\ Tree(incoming) = Pulled
    BY MirrorFacts
  <1>4. HeadTree = Pulled /\ files = Pulled /\ index = Pulled /\ ~unmerged
    <2>1. CASE pushing = None
      BY <1>1, <1>2, <2>1, MirrorFacts DEF Phase, Taking, Drawn, At, Pulled, Fresh
    <2>2. CASE pushing # None
      BY <1>1, <1>2, <2>2, MirrorFacts DEF Phase, Pushes, TakenBack, At
    <2> QED BY <2>1, <2>2
  <1>5. CanCheckout(Tree(master)) /\ ~rebasing
    BY <1>2, <1>4 DEF CanCheckout, Phase
  <1>6. ASSUME NEW t \in Trees, Checkout(t) PROVE files' = t /\ index' = t
    BY <1>3, <1>4, <1>6, CheckoutGives
  <1>7. CASE pushing = None
    <2>1. Taking /\ Drawn /\ master \subseteq incoming
      BY <1>1, <1>2, <1>7 DEF Phase, Taking, Drawn
    <2>2. /\ incoming = tags[synced] /\ Pulled = Fresh /\ have = Fresh
          /\ pending = 0 /\ opened = {}
      BY <2>1 DEF Drawn, Pulled, Fresh, Taking, Idle
    <2>3. /\ UNCHANGED <<commits, unmerged, rebasing, tags, oddTag>>
          /\ master' = tags[synced] /\ files' = Fresh /\ index' = Fresh
          /\ head' = "master" /\ incoming' = {} /\ pc' = "pop"
      <3>1. CASE incoming \subseteq master
        <4>1. Checkout(Tree(master)) /\ head' = "master" /\ incoming' = {} /\ pc' = "pop"
              /\ UNCHANGED <<commits, master, unmerged, rebasing, tags, oddTag>>
          BY <1>1, <1>5, <1>7, <3>1 DEF Rebase
        <4>2. master = incoming /\ Ours = Pulled BY <2>1, <3>1 DEF Ours, Pulled
        <4> QED BY <1>3, <1>6, <2>2, <4>1, <4>2
      <3>2. CASE ~(incoming \subseteq master)
        <4>1. Rebased = [ok |-> TRUE, tree |-> Pulled, made |-> <<>>]
          BY <1>3, <2>1, NothingToReplay
        <4>2. Rebased.ok /\ Rebased.tree = Pulled /\ Rebased.made = <<>> BY <4>1
        <4>3. /\ commits' = commits \o <<>>
              /\ master' = incoming \cup (Len(commits) + 1)..Len(commits')
              /\ Checkout(Pulled) /\ head' = "master" /\ incoming' = {} /\ pc' = "pop"
              /\ UNCHANGED <<unmerged, rebasing, tags, oddTag>>
          BY <1>1, <1>5, <1>7, <3>2, <4>2 DEF Rebase
        <4>4. commits' = commits BY <1>3, <4>3
        <4>5. (Len(commits) + 1)..Len(commits') = {} BY <1>3, <4>4
        <4> QED BY <1>3, <1>6, <2>2, <4>3, <4>4, <4>5
      <3> QED BY <3>1, <3>2
    <2>4. Linked'
      BY <1>1, <1>2, <1>3, <1>7, <2>3, LinkedStays DEF Linked, workVars, userVars
    <2>5. TagsExact' /\ TagsOrUsers' /\ TagsTaken'
      BY <1>1, <1>7, <2>3, TagsStay DEF p4Vars, workVars, Counted, Tagging
    <2>6. Fresh' = Fresh BY <1>1, <2>3 DEF Fresh
    <2>7. Exact' BY <1>1, <1>4, <2>2, <2>3, <2>6 DEF Exact, Idle, At, p4Vars
    <2>8. Phase' BY <1>1, <1>2, <1>7, <2>3, <2>7 DEF Phase, Importing, workVars
    <2> QED BY <2>4, <2>5, <2>8 DEF Mirrors
  <1>8. CASE pushing # None
    <2>1. Pushes /\ Lines BY <1>2, <1>8 DEF Phase
    <2>2. TakenBack /\ LastNum = synced BY <1>1, <2>1 DEF Pushes, TakenBack
    <2>3. /\ incoming \subseteq master /\ have = Ours /\ tags[synced] = master
          /\ pending = 0 /\ opened = {}
      BY <2>2 DEF TakenBack, LastTagged, Idle
    <2>4. Fresh = Ours BY <2>3 DEF Fresh, Ours
    <2>5. /\ Checkout(Tree(master)) /\ head' = "master" /\ incoming' = {} /\ pc' = "pushed"
          /\ UNCHANGED <<commits, master, unmerged, rebasing, tags, oddTag>>
      BY <1>1, <1>5, <1>8, <2>3 DEF Rebase
    <2>6. files' = Ours /\ index' = Ours BY <1>3, <1>6, <2>5
    <2>7. Linked' BY <1>1, <1>2, <2>5, LinkedStays DEF Linked, workVars, userVars
    <2>8. TagsExact' /\ TagsOrUsers' /\ TagsTaken'
      BY <1>1, <2>2, <2>5, TagsStay DEF p4Vars, workVars, Tagging
    <2>9. Exact'
      BY <1>1, <1>4, <2>3, <2>4, <2>5, <2>6 DEF Exact, Idle, At, Fresh, Ours, p4Vars
    <2>10. LastNum' = synced' BY <1>1, <2>2 DEF LastNum, p4Vars
    <2>11. Pushes' BY <1>1, <2>1, <2>5, <2>9, <2>10 DEF Pushes, PushSteps, workVars
    <2>12. Lines' BY <1>1, <2>1, <2>5 DEF Lines, Rising, ToMerge, workVars, userVars
    <2>13. Phase' BY <1>1, <1>2, <1>8, <2>5, <2>11, <2>12 DEF Phase, workVars
    <2> QED BY <2>7, <2>8, <2>13 DEF Mirrors
  <1> QED BY <1>7, <1>8

LEMMA MirrorsNoRequest ==
    ASSUME TypeInv, Mirrors, NoRequest
    PROVE  Mirrors'
  <1>1. /\ pc = "pop" /\ pc' = "idle"
        /\ UNCHANGED <<p4Vars, refVars, diskVars, synced, workVars, userVars>>
    BY DEF NoRequest
  <1>2. Phase /\ Linked BY DEF Mirrors
  <1>3. pushing = None /\ Exact BY <1>1, <1>2 DEF Phase, Pushes, PushSteps
  <1>4. Linked' BY <1>1, <1>2, LinkedStays DEF Linked, refVars, workVars, userVars
  <1>5. TagsExact' /\ TagsOrUsers' /\ TagsTaken'
    BY <1>1, TagsStay DEF p4Vars, refVars, workVars, Counted, Tagging
  <1>6. Ours = Fresh BY <1>3 DEF Exact, Ours, Fresh
  <1>7. Resting'
    BY <1>1, <1>3, <1>6
    DEF Resting, Exact, Idle, At, Fresh, Ours, p4Vars, refVars, diskVars
  <1>8. Phase' BY <1>1, <1>2, <1>3, <1>7 DEF Phase, Importing, refVars, workVars
  <1> QED BY <1>4, <1>5, <1>8 DEF Mirrors

-----------------------------------------------------------------------------
(* A push, step by step                                                     *)

LEMMA CherryMeans ==
    ASSUME Len(commits) \in Nat, NEW p \in Push, clone[p] \in Branches
    PROVE  LET s == Cherry(p) IN
           /\ \A k \in 1..Len(s) : s[k].id \in clone[p] \ master
           /\ \A i \in clone[p] \ master : \E k \in 1..Len(s) : s[k].id = i
           /\ \A k \in 1..Len(s) : s[k].plus =>
                 \A j \in master \ clone[p] : commits[j] # commits[s[k].id]
  <1> DEFINE S == clone[p] \ master
             missing == Ascending(S)
             s == Cherry(p)
             lacks(k) == ~\E j \in master \ clone[p] : SamePatch(missing[k], j)
  <1>1. S \in SUBSET (1..Len(commits)) BY DEF Branches
  <1>2. missing \in Seq(S)
    <2> HIDE DEF S
    <2> QED BY <1>1, AscendingLists
  <1>3. s = [k \in 1..Len(missing) |-> [id |-> missing[k], plus |-> lacks(k)]]
    BY DEF Cherry
  <1> HIDE DEF missing, lacks, s
  <1>4. /\ Len(missing) \in Nat /\ Len(s) = Len(missing)
        /\ \A k \in 1..Len(missing) : s[k] = [id |-> missing[k], plus |-> lacks(k)]
    <2>1. Len(missing) \in Nat BY <1>2
    <2> QED BY <1>3, <2>1
  <1>5. ASSUME NEW k \in 1..Len(s)
        PROVE  /\ s[k].id = missing[k] /\ missing[k] \in S
               /\ s[k].plus => lacks(k)
    <2>1. s[k].id = missing[k] /\ (s[k].plus => lacks(k))
      <3>1. s[k] = [id |-> missing[k], plus |-> lacks(k)] BY <1>4
      <3>2. s[k].id = missing[k] BY <3>1
      <3>3. ASSUME s[k].plus, ~lacks(k) PROVE FALSE
        <4>1. lacks(k) = FALSE BY <3>3 DEF lacks
        <4>2. [id |-> missing[k], plus |-> FALSE].plus = FALSE OBVIOUS
        <4> QED BY <3>1, <3>3, <4>1, <4>2
      <3> QED BY <3>2, <3>3
    <2>2. missing[k] \in S
      <3> HIDE DEF S
      <3> QED BY <1>2, <1>4
    <2> QED BY <2>1, <2>2
  <1>6. ASSUME NEW k \in 1..Len(s), s[k].plus, NEW j \in master \ clone[p]
        PROVE  commits[j] # commits[s[k].id]
    <2>1. lacks(k) /\ s[k].id = missing[k] BY <1>5, <1>6
    <2> QED BY <2>1 DEF lacks, SamePatch
  <1>7. \A i \in S : \E k \in 1..Len(s) : s[k].id = i
    BY CherryLists DEF s
  <1> QED BY <1>5, <1>6, <1>7 DEF s

\* With nothing after the changelist on record, the mirror is the depot as it is.
LEMMA UpToDate ==
    ASSUME TypeInv, Mirrors, LastNum = synced
    PROVE  DepotHead = Fresh
  <1>1. PICK j \in DOMAIN depot : depot[j].num = synced /\ depot[j].tree = Fresh
    BY MirrorFacts
  <1>2. Numbered /\ Len(depot) \in Nat /\ DOMAIN depot = 1..Len(depot)
    BY MirrorFacts, DepotFacts
  <1>3. j = Len(depot)
    <2>1. Len(depot) \in DOMAIN depot BY <1>2
    <2>2. ~(j < Len(depot))
      <3>1. depot[j].num \in Nat BY <1>2, DepotFacts
      <3>2. j < Len(depot) => depot[j].num < depot[Len(depot)].num
        BY <1>2, <2>1 DEF Numbered
      <3> QED BY <1>1, <3>1, <3>2 DEF LastNum
    <2> QED BY <1>2, <2>2
  <1> QED BY <1>1, <1>3 DEF DepotHead

LEMMA MirrorsStartPush ==
    ASSUME TypeInv, Mirrors, Calm, NEW p \in Push, StartPush(p)
    PROVE  Mirrors'
  <1>1. /\ pc = "pop" /\ Ready(p)
        /\ UNCHANGED <<p4Vars, refVars, diskVars, synced, newStuff, changed, final, clone>>
    BY DEF StartPush
  <1>2. Phase /\ Linked BY DEF Mirrors
  <1>3. pushing = None /\ Exact BY <1>1, <1>2 DEF Phase, Pushes, PushSteps
  <1>4. pending = 0 BY <1>3 DEF Exact, Idle
  <1>5. clone[p] # {} /\ LastNum = synced
    BY <1>1 DEF Ready, Waiting, Calm, LastNum
  <1>6. Ours = Fresh BY <1>3 DEF Exact, Ours, Fresh
  <1>7. p # None BY ConstantsAssumption
  <1>8. TagsExact' /\ TagsOrUsers' /\ TagsTaken'
    BY <1>1, <1>5, TagsStay DEF p4Vars, refVars, Tagging
  <1>9. CASE Cherry(p) = <<>>
    <2>1. pc' = "idle" /\ UNCHANGED <<pushing, revs, currentRev>>
      BY <1>4, <1>9 DEF StartPush
    <2>2. Linked' BY <1>1, <1>2, <2>1, LinkedStays DEF Linked, refVars
    <2>3. Resting'
      BY <1>1, <1>3, <1>6, <2>1
      DEF Resting, Exact, Idle, At, Fresh, Ours, p4Vars, refVars, diskVars
    <2>4. Phase' BY <1>1, <1>2, <1>3, <2>1, <2>3 DEF Phase, Importing, refVars
    <2> QED BY <1>8, <2>2, <2>4 DEF Mirrors
  <1>10. CASE Cherry(p) # <<>>
    <2>1. pushing' = p /\ revs' = Cherry(p) /\ currentRev' = master /\ pc' = "merge"
      BY <1>4, <1>10 DEF StartPush
    <2>2. Linked' BY <1>1, <1>2, <2>1, LinkedStays DEF Linked, refVars
    <2>3. Exact'
      BY <1>1, <1>3 DEF Exact, Idle, At, Fresh, p4Vars, refVars, diskVars
    <2>4. DepotHead = have BY <1>3, <1>5, UpToDate DEF Exact
    <2>5. Alone'
      BY <1>1, <1>5, <2>4 DEF Alone, DepotHead, LastNum, p4Vars
    <2>6. currentRev' \subseteq tags'[synced'] BY <1>1, <1>3, <2>1 DEF Exact, refVars
    <2>7. Pushes' BY <2>1, <2>3, <2>5, <2>6 DEF Pushes, PushSteps
    <2>8. Lines'
      <3>1. Len(commits) \in Nat /\ clone[p] \in Branches
        BY TypeFacts DEF RefsTyped
      <3>2. /\ \A k \in 1..Len(revs') : revs'[k].id \in clone[p] \ master
            /\ \A i \in clone[p] \ master : \E k \in 1..Len(revs') : revs'[k].id = i
            /\ \A k \in 1..Len(revs') : revs'[k].plus =>
                  \A j \in master \ clone[p] : commits[j] # commits[revs'[k].id]
        BY <2>1, <3>1, CherryMeans
      <3>3. Rising' BY <2>1, <3>1, CherryLists DEF Rising
      <3>4. ToMerge' = {revs'[k].id : k \in 1..Len(revs')} BY <2>1 DEF ToMerge
      <3>5. ToMerge' = clone[p] \ master BY <3>2, <3>4
      <3> QED BY <1>1, <1>5, <2>1, <3>2, <3>3, <3>5 DEF Lines, refVars
    <2>9. Phase' BY <1>1, <1>2, <1>7, <2>1, <2>7, <2>8 DEF Phase, refVars
    <2> QED BY <1>8, <2>2, <2>9 DEF Mirrors
  <1> QED BY <1>9, <1>10

\* What a push has done so far fails, and nothing is undone yet.
LEMMA MirrorsThrown ==
    ASSUME TypeInv, Mirrors, pushing # None, pc = "merge", pc' = "rollback",
           UNCHANGED <<p4Vars, commits, master, incoming, head, rebasing, tags, oddTag,
                       diskVars, synced, workVars, userVars>>
    PROVE  Mirrors'
  <1>1. Phase /\ Linked BY DEF Mirrors
  <1>2. Pushes /\ Exact BY <1>1 DEF Phase, Pushes
  <1>3. Linked' BY <1>1, LinkedStays DEF Linked, workVars, userVars
  <1>4. TagsExact' /\ TagsOrUsers' /\ TagsTaken'
    BY TagsStay DEF p4Vars, workVars, Counted, Tagging
  <1>5. Fresh' = Fresh /\ Ours' = Ours /\ Ours = Fresh BY <1>2 DEF Fresh, Ours, Exact
  <1>6. Pushes'
    BY <1>2, <1>5 DEF Pushes, PushSteps, Exact, At, p4Vars, diskVars, workVars
  <1>7. Lines' BY DEF Lines
  <1>8. Phase' BY <1>1, <1>6, <1>7 DEF Phase, workVars
  <1> QED BY <1>3, <1>4, <1>8 DEF Mirrors

\* The commit at hand comes after all of its clone that master has not got.
LEMMA HeadOfPush ==
    ASSUME TypeInv, Mirrors, pushing # None, pc = "merge"
    PROVE  /\ revs # <<>> /\ Head(revs) = revs[1] /\ 1 \in 1..Len(revs) /\ Len(revs) \in Nat
           /\ \A k \in 1..Len(revs) : revs[k].id \in Nat
           /\ revs[1].id \in clone[pushing] \ master
           /\ \A i \in Below(clone[pushing], revs[1].id) : i \in master
           /\ revs[1].plus =>
                 \A j \in master \ clone[pushing] : commits[j] # commits[revs[1].id]
  <1>1. Lines BY DEF Mirrors, Phase
  <1>2. /\ Rising /\ ToMerge = clone[pushing] \ master
        /\ \A k \in 1..Len(revs) : revs[k].id \in ToMerge /\ revs[k].plus =>
              \A j \in master \ clone[pushing] : commits[j] # commits[revs[k].id]
    BY <1>1 DEF Lines
  <1>3. revs # <<>> /\ revs \in Seq([id : Nat, plus : BOOLEAN]) BY TypeFacts DEF Shaped
  <1>4. Head(revs) = revs[1] /\ 1 \in 1..Len(revs) /\ Len(revs) \in Nat BY <1>3
  <1>5. /\ ToMerge = {revs[k].id : k \in 1..Len(revs)}
        /\ \A k \in 1..Len(revs) : revs[k].id \in Nat
    <2>1. \A k \in 1..Len(revs) : revs[k] \in [id : 1..Len(commits), plus : BOOLEAN]
      BY TypeFacts DEF RefsTyped
    <2>2. Len(commits) \in Nat BY TypeFacts
    <2> QED BY <2>1, <2>2 DEF ToMerge
  <1>6. revs[1].id \in clone[pushing] \ master BY <1>2, <1>4, <1>5
  <1>7. ASSUME NEW i \in Below(clone[pushing], revs[1].id) PROVE i \in master
    <2> SUFFICES ASSUME i \notin master PROVE FALSE OBVIOUS
    <2>1. i \in clone[pushing] \ master /\ i < revs[1].id BY DEF Below
    <2>2. PICK k \in 1..Len(revs) : revs[k].id = i BY <1>2, <1>5, <2>1
    <2>3. \A l \in 1..Len(revs) : revs[l].id \in Nat BY <1>5
    <2>4. k = 1 \/ 1 < k BY <1>4
    <2>5. 1 < k => revs[1].id < revs[k].id BY <1>2, <1>4 DEF Rising
    <2> QED BY <1>4, <2>1, <2>2, <2>3, <2>4, <2>5
  <1> QED BY <1>2, <1>3, <1>4, <1>5, <1>6, <1>7

LEMMA MirrorsMerge ==
    ASSUME TypeInv, Mirrors, MergeRev
    PROVE  Mirrors'
  <1> DEFINE r == revs[1].id
             C == clone[pushing]
             merged == MergedTree(commits, master, C, r)
  <1>1. /\ pc = "merge"
        /\ UNCHANGED <<p4Vars, commits, incoming, head, rebasing, tags, oddTag, synced,
                       workVars, userVars>>
    BY DEF MergeRev
  <1>2. Phase /\ Linked BY DEF Mirrors
  <1>3. pushing # None BY <1>1, <1>2 DEF Phase, Importing
  <1>4. Pushes /\ Lines /\ Exact /\ Alone BY <1>1, <1>2, <1>3 DEF Phase, Pushes
  <1>5. /\ revs # <<>> /\ Head(revs) = revs[1] /\ 1 \in 1..Len(revs) /\ Len(revs) \in Nat
        /\ \A k \in 1..Len(revs) : revs[k].id \in Nat
        /\ r \in C \ master /\ \A i \in Below(C, r) : i \in master
        /\ revs[1].plus => \A j \in master \ C : commits[j] # commits[r]
    BY <1>1, <1>3, HeadOfPush
  <1>6. Head(revs).id = r /\ Head(revs).plus = revs[1].plus BY <1>5
  <1>7. \/ UNCHANGED <<master, diskVars>> /\ pc' = "rollback"
        \/ /\ revs[1].plus /\ NoConflict(commits, master, C, r)
           /\ master' = master \cup {i \in C : i <= r}
           /\ Checkout(merged) /\ pc' = "open" /\ UNCHANGED unmerged
    <2> DEFINE theirs == {i \in C : i <= r}
               base   == Tree(master \cap theirs)
               files2 == [f \in File |-> IF Tree(master)[f] = base[f] THEN Tree(theirs)[f]
                                         ELSE Tree(master)[f]]
    <2>1. files2 = merged BY TreeIs DEF MergedTree
    <2>2. \/ UNCHANGED <<master, diskVars>> /\ Thrown
          \/ /\ revs[1].plus
             /\ ~\E f \in File : Tree(theirs)[f] \notin {base[f], files2[f]}
             /\ master' = master \cup theirs
             /\ Checkout(files2) /\ pc' = "open" /\ UNCHANGED unmerged
      BY <1>6, Zenon DEF MergeRev
    <2>3. (~\E f \in File : Tree(theirs)[f] \notin {base[f], files2[f]})
              => NoConflict(commits, master, C, r)
      BY <2>1, TreeIs DEF NoConflict
    <2> HIDE DEF merged, files2
    <2> QED BY <1>3, <2>1, <2>2, <2>3 DEF Thrown
  <1>8. CASE UNCHANGED <<master, diskVars>> /\ pc' = "rollback"
    BY <1>1, <1>3, <1>8, MirrorsThrown
  <1>9. CASE /\ revs[1].plus /\ NoConflict(commits, master, C, r)
             /\ master' = master \cup {i \in C : i <= r}
             /\ Checkout(merged) /\ pc' = "open" /\ UNCHANGED unmerged
    <2>1. Sound(commits) /\ Built(commits, master) /\ Built(commits, C)
      <3>1. pushing \in Push BY <1>3 DEF TypeInv, TypeOK
      <3> QED BY <1>2, <1>5, <3>1 DEF Linked
    <2>2. /\ master \cup {i \in C : i <= r} = master \cup {r}
          /\ TreeAt(commits, master \cup {r}) = merged
          /\ Built(commits, master \cup {r})
          /\ \A f \in File \ DOMAIN commits[r].to : merged[f] = TreeAt(commits, master)[f]
      <3>1. \A j \in master \ C : commits[j] # commits[r] BY <1>5, <1>9
      <3>2. NoConflict(commits, master, C, r) BY <1>9
      <3>3. r \in C \ master /\ \A i \in Below(C, r) : i \in master BY <1>5
      <3> HIDE DEF r, C
      <3> QED BY ONLY <2>1, <3>1, <3>2, <3>3, MergeBuilds DEF merged
    <2>3. master' = master \cup {r} /\ Ours' = merged BY <1>1, <1>9, <2>2 DEF Ours
    <2>4. Linked'
      BY <1>1, <1>2, <2>2, <2>3, LinkedStays DEF Linked, workVars, userVars
    <2>5. TagsExact' /\ TagsOrUsers' /\ TagsTaken'
      BY <1>1, TagsStay DEF p4Vars, workVars, Counted, Tagging
    <2>6. /\ HeadTree = Ours /\ files = Ours /\ index = Ours /\ Ours = Fresh /\ have = Fresh
          /\ files \in Trees /\ index \in Trees /\ head = "master" /\ ~unmerged
          /\ master = tags[synced] /\ pending = 0 /\ opened = {}
      BY <1>4, MirrorFacts DEF Exact, At, Ours, Fresh, Idle
    <2>7. files' = merged /\ index' = merged
      <3>1. merged \in Trees
        <4>1. master \cup {r} \in SUBSET (1..Len(commits)) BY <2>2 DEF Built
        <4>2. commits \in Seq(CommitSet) BY MirrorFacts
        <4> HIDE DEF r, merged
        <4> QED BY <2>2, <4>1, <4>2, BranchTyped
      <3> HIDE DEF merged
      <3> QED BY <1>9, <2>6, <3>1, CheckoutGives
    <2>8. CurrentFiles = DOMAIN commits[r].to /\ CurrentFiles' = CurrentFiles
      BY <1>1, <1>5 DEF CurrentFiles, workVars
    <2>9. MergedOne'
      <3>1. Fresh' = Fresh BY <1>1 DEF Fresh
      <3>2. Alone' BY <1>1, <1>4, <2>8 DEF Alone, Raced, DepotHead, LastNum, p4Vars
      <3>3. \A f \in File \ CurrentFiles : files'[f] = have[f]
        BY <2>2, <2>6, <2>7, <2>8 DEF Ours
      <3>4. At("master", Ours)' BY <1>1, <1>9, <2>3, <2>6, <2>7 DEF At
      <3>5. master' = tags'[synced'] \cup {Head(revs').id}
        BY <1>1, <1>6, <2>3, <2>6 DEF workVars
      <3> QED BY <1>1, <2>6, <2>8, <3>1, <3>2, <3>3, <3>4, <3>5 DEF MergedOne, p4Vars
    <2>10. Pushes'
      BY <1>1, <1>4, <1>9, <2>6, <2>9 DEF Pushes, PushSteps, Idle, p4Vars, workVars
    <2>11. Lines'
      <3>1. /\ Rising /\ C # {} /\ ToMerge = C \ master
            /\ \A k \in 1..Len(revs) : revs[k].id \in ToMerge /\ revs[k].plus =>
                  \A j \in master \ C : commits[j] # commits[revs[k].id]
        BY <1>1, <1>4 DEF Lines
      <3>2. \A k \in 1..Len(revs) : revs[k].id \in Nat BY <1>5
      <3>3. Rising' BY <1>1, <3>1 DEF Rising, workVars
      <3>4. ToMerge = {revs[k].id : k \in 1..Len(revs)}
            /\ ToMerge' = {revs[k].id : k \in 2..Len(revs)}
        BY <1>1, <1>9 DEF ToMerge, workVars
      <3>5. \A k \in 2..Len(revs) : k \in 1..Len(revs) /\ revs[k].id # r
        <4> TAKE k \in 2..Len(revs)
        <4>1. k \in 1..Len(revs) /\ 1 < k BY <1>5
        <4>2. revs[1].id < revs[k].id BY <1>5, <3>1, <4>1 DEF Rising
        <4> QED BY <1>5, <3>2, <4>1, <4>2
      <3>6. ToMerge' = ToMerge \ {r}
        <4>1. \A k \in 1..Len(revs) : k = 1 \/ k \in 2..Len(revs) BY <1>5
        <4> QED BY <3>4, <3>5, <4>1
      <3>7. ToMerge' = C \ master' BY <2>3, <3>1, <3>6
      <3>8. master' \ C = master \ C BY <1>5, <2>3
      <3>9. \A k \in 1..Len(revs) : revs[k].id \in ToMerge' /\ revs[k].plus =>
                \A j \in master' \ C : commits[j] # commits[revs[k].id]
        <4> HIDE DEF C, r
        <4> QED BY <3>1, <3>6, <3>8
      <3> QED BY <1>1, <1>9, <3>1, <3>3, <3>7, <3>9 DEF Lines, workVars, userVars
    <2>12. Phase' BY <1>1, <1>2, <1>3, <1>9, <2>10, <2>11 DEF Phase, workVars
    <2> QED BY <2>4, <2>5, <2>12 DEF Mirrors
  <1> QED BY <1>7, <1>8, <1>9

LEMMA MirrorsOpen ==
    ASSUME TypeInv, Mirrors, OpenFiles
    PROVE  Mirrors'
  <1>1. /\ pc = "open"
        /\ UNCHANGED <<depot, have, refVars, diskVars, synced, workVars, userVars>>
        /\ \/ counter' = pending' /\ opened' = CurrentFiles /\ pc' = "submit"
           \/ pc' = "reset"
    BY DEF OpenFiles
  <1>2. Phase /\ Linked BY DEF Mirrors
  <1>3. pushing # None BY <1>1, <1>2 DEF Phase, Importing
  <1>4. Pushes /\ Lines /\ MergedOne BY <1>1, <1>2, <1>3 DEF Phase, Pushes
  <1>5. Linked' BY <1>1, <1>2, LinkedStays DEF Linked, refVars, workVars, userVars
  <1>6. TagsExact' /\ TagsOrUsers' /\ TagsTaken'
    BY <1>1, TagsStay DEF refVars, workVars, Counted, Tagging
  <1>7. CurrentFiles' = CurrentFiles BY <1>1 DEF CurrentFiles, refVars, workVars
  <1>8. MergedOne'
    BY <1>1, <1>4, <1>7
    DEF MergedOne, Alone, Raced, At, Fresh, Ours, DepotHead, LastNum, refVars, diskVars, workVars
  <1>9. Pushes'
    <2> DEFINE opens == pc' = "submit" /\ counter' = pending' /\ opened' = CurrentFiles
               fails == pc' = "reset"
    <2>1. CASE opens
      BY <1>1, <1>4, <1>7, <1>8, <2>1 DEF Pushes, PushSteps, refVars, workVars
    <2>2. CASE fails
      <3>1. head' = "master" /\ ~unmerged' /\ files' = Ours' /\ index' = Ours' /\ have' = Fresh'
        BY <1>8 DEF MergedOne, At
      <3>2. currentRev' \subseteq tags'[synced']
        BY <1>1, <1>4 DEF Pushes, refVars, workVars
      <3> QED BY <2>2, <3>1, <3>2 DEF Pushes, PushSteps
    <2>3. opens \/ fails BY <1>1, Zenon
    <2> HIDE DEF opens, fails
    <2> QED BY ONLY <2>1, <2>2, <2>3
  <1>10. Lines' BY <1>1, <1>4, LinesStay DEF refVars, workVars, userVars
  <1>11. Phase' BY <1>1, <1>2, <1>3, <1>9, <1>10 DEF Phase, refVars, workVars
  <1> QED BY <1>5, <1>6, <1>11 DEF Mirrors

LEMMA MirrorsSubmit ==
    ASSUME TypeInv, TypeInv', Mirrors, Submit
    PROVE  Mirrors'
  <1>1. /\ pc = "submit"
        /\ UNCHANGED <<refVars, diskVars, synced, pushing, newStuff, changed, revs,
                       currentRev, userVars>>
    BY DEF Submit
  <1>2. Phase /\ Linked BY DEF Mirrors
  <1>3. pushing # None BY <1>1, <1>2 DEF Phase, Importing
  <1>4. Pushes /\ Lines /\ MergedOne /\ opened = CurrentFiles BY <1>1, <1>2, <1>3 DEF Phase, Pushes
  <1>5. Linked' BY <1>1, <1>2, LinkedStays DEF Linked, refVars, userVars
  <1>6. CASE pc' = "reset" /\ UNCHANGED <<p4Vars, final>>
    <2>1. TagsExact' /\ TagsOrUsers' /\ TagsTaken'
      BY <1>1, <1>6, TagsStay DEF p4Vars, refVars, Counted, Tagging
    <2>2. Pushes'
      BY <1>1, <1>4, <1>6
      DEF Pushes, PushSteps, MergedOne, At, Fresh, Ours, p4Vars, refVars, diskVars
    <2>3. Lines' BY <1>6 DEF Lines
    <2>4. Phase' BY <1>1, <1>2, <1>3, <1>6, <2>2, <2>3 DEF Phase, refVars
    <2> QED BY <1>5, <2>1, <2>4 DEF Mirrors
  <1> DEFINE accepted == pc' # "reset"
  <1>7. CASE accepted
    <2> DEFINE num  == IF counter = pending THEN pending ELSE counter + 1
               tree == [f \in File |-> IF f \in opened THEN files[f] ELSE DepotHead[f]]
               d    == [num |-> num, tree |-> tree]
    <2>1. /\ \A f \in opened : have[f] = DepotHead[f]
          /\ depot' = Append(depot, d) /\ pending' = 0 /\ opened' = {}
          /\ have' = [f \in File |-> IF f \in opened THEN files[f] ELSE have[f]]
          /\ final' = [num |-> num, renamed |-> num # pending] /\ pc' = "tag push"
      BY <1>1, <1>7 DEF Submit
    <2>2. counter = pending /\ LastNum = synced
      BY <1>1, <1>4, <2>1 DEF Pushes, MergedOne, Alone, Raced
    <2>3. num = pending /\ final' = [num |-> num, renamed |-> FALSE] BY <2>1, <2>2
    <2>4. /\ Numbered /\ Numbered' /\ files \in Trees /\ have \in Trees /\ Len(depot) \in Nat
          /\ DOMAIN depot = 1..Len(depot) /\ Len(depot) > 0
      <3>1. Numbered /\ Numbered' /\ files \in Trees /\ have \in Trees
        BY TypeFacts DEF TypeInv, OrderInv, TreesTyped
      <3>2. Len(depot) \in Nat /\ DOMAIN depot = 1..Len(depot) BY <3>1, DepotFacts
      <3> QED BY <3>1, <3>2 DEF Numbered
    <2>5. \A f \in File : tree[f] = files[f] /\ have'[f] = files[f]
      <3> TAKE f \in File
      <3>1. CASE f \in opened BY <2>1, <3>1
      <3>2. CASE f \notin opened
        <4>1. DepotHead[f] = have[f] /\ files[f] = have[f]
          BY <1>4, <3>2 DEF MergedOne, Alone
        <4> QED BY <2>1, <3>2, <4>1
      <3> QED BY <3>1, <3>2
    <2>6. tree = files /\ have' = files
      <3>1. files = [f \in File |-> files[f]] BY <2>4 DEF Trees
      <3>2. tree = [f \in File |-> tree[f]] /\ have' = [f \in File |-> have'[f]] BY <2>1
      <3> HIDE DEF tree
      <3> QED BY <2>5, <3>1, <3>2
    <2>7. /\ DOMAIN depot' = DOMAIN depot \cup {Len(depot) + 1}
          /\ \A k \in DOMAIN depot : depot'[k] = depot[k]
          /\ depot'[Len(depot) + 1] = d /\ Len(depot') = Len(depot) + 1
      <3>1. DOMAIN depot' = 1..Len(depot') /\ Len(depot') \in Nat BY <2>4 DEF Numbered
      <3>2. /\ DOMAIN depot' = DOMAIN depot \cup {Len(depot) + 1}
            /\ \A k \in DOMAIN depot : depot'[k] = depot[k]
            /\ depot'[Len(depot) + 1] = d
        <4> HIDE DEF d
        <4> QED BY <2>1, <2>4, DepotGrows
      <3>3. Len(depot') = Len(depot) + 1
        <4>1. PICK S : depot \in Seq(S) BY <2>4 DEF Numbered
        <4>2. ASSUME NEW x PROVE Len(Append(depot, x)) = Len(depot) + 1 BY <4>1
        <4> HIDE DEF d
        <4> QED BY <2>1, <4>2
      <3> QED BY <3>2, <3>3
    <2>8. /\ DepotHead' = files /\ LastNum' = num
          /\ depot'[Len(depot')] = d
      <3>1. d.tree = files /\ d.num = num BY <2>6
      <3> HIDE DEF d, num
      <3> QED BY <2>7, <3>1 DEF DepotHead, LastNum
    <2> HIDE DEF accepted, d, num, tree
    <2>9. TagsExact' BY <1>1, <2>7 DEF Mirrors, TagsExact, refVars
    <2>10. TagsOrUsers'
      <3> SUFFICES ASSUME NEW k \in DOMAIN depot' \ {1}
                   PROVE  \/ depot'[k].num \in DOMAIN tags'
                          \/ Tagging' /\ k = Len(depot')
                          \/ ByUser(k)'
        BY DEF TagsOrUsers
      <3>1. CASE k = Len(depot) + 1 BY <2>1, <2>7, <3>1 DEF Tagging
      <3>2. CASE k \in DOMAIN depot
        <4>1. k - 1 \in DOMAIN depot BY <2>4, <3>2
        <4>2. depot[k].num \in DOMAIN tags \/ ByUser(k)
          BY <1>1, <3>2 DEF Mirrors, TagsOrUsers, Tagging
        <4>3. ByUser(k) => ByUser(k)' BY <2>7, <3>2, <4>1 DEF ByUser
        <4> QED BY <1>1, <2>7, <3>2, <4>2, <4>3 DEF refVars
      <3> QED BY <2>7, <3>1, <3>2
    <2>11. TagsTaken' BY <1>1, <2>1 DEF Mirrors, TagsTaken, Counted, refVars
    <2>12. Sent'
      <3>1. At("master", Ours)' /\ Ours' = files /\ tags'[synced'] \subseteq master'
        BY <1>1, <1>4 DEF MergedOne, At, Ours, refVars, diskVars
      <3>2. Behind'
        <4>0. Len(depot) \in Nat /\ Len(depot) > 0 /\ Len(depot') = Len(depot) + 1
          BY <2>4, <2>7, Zenon
        <4>1. Len(depot') > 1 /\ Len(depot') - 1 = Len(depot) BY <4>0
        <4>2. Len(depot) \in DOMAIN depot BY <2>4, <4>0
        <4>3. depot'[Len(depot)] = depot[Len(depot)] BY <2>7, <4>2, Zenon
        <4>4. depot'[Len(depot)].num = synced BY <2>2, <4>3, Zenon DEF LastNum
        <4> QED BY <1>1, <4>1, <4>4 DEF Behind
      <3> QED BY <2>1, <2>6, <2>8, <3>1, <3>2 DEF Sent, Idle
    <2>13. final'.num = LastNum' /\ final'.renamed = FALSE
      <3>1. LastNum' = num BY <2>8
      <3>2. final'.num = num /\ final'.renamed = FALSE BY <2>3
      <3> QED BY <3>1, <3>2
    <2>14. Pushes'
      <3>1. pc' = "tag push" /\ currentRev' \subseteq tags'[synced']
        BY <1>1, <1>4, <2>1 DEF Pushes, refVars
      <3> QED BY ONLY <2>12, <2>13, <3>1 DEF Pushes, PushSteps
    <2>15. Lines' BY <1>1, <1>4, <2>1, LinesStay DEF refVars, userVars
    <2>16. Phase' BY <1>1, <1>2, <1>3, <2>1, <2>14, <2>15 DEF Phase, refVars
    <2> QED BY <1>5, <2>9, <2>10, <2>11, <2>16 DEF Mirrors
  <1>8. pc' = "reset" => UNCHANGED <<p4Vars, final>>
    BY DEF Submit
  <1> QED BY <1>6, <1>7, <1>8

LEMMA MirrorsTagPush ==
    ASSUME TypeInv, Mirrors, TagPush
    PROVE  Mirrors'
  <1> DEFINE n == LastNum
  <1>1. pc = "tag push" BY DEF TagPush
  <1>2. Phase /\ Linked BY DEF Mirrors
  <1>3. pushing # None BY <1>1, <1>2 DEF Phase, Importing
  <1>4. Pushes /\ Lines BY <1>2, <1>3 DEF Phase
  <1>5. Sent /\ final.num = n /\ final.renamed = FALSE BY <1>1, <1>4 DEF Pushes
  <1>6. /\ tags' = Tagged(n, master) /\ pc' = "pull"
        /\ UNCHANGED <<p4Vars, commits, master, incoming, head, unmerged, rebasing,
                       diskVars, synced, pushing, newStuff, changed, revs, currentRev,
                       userVars>>
    BY <1>5 DEF TagPush
  <1>7. n \notin DOMAIN tags /\ synced \in DOMAIN tags /\ n # synced
    <2>1. synced < n /\ n \in Nat BY <1>5, BehindOne, MirrorFacts DEF Sent
    <2>2. synced \in Nat BY MirrorFacts
    <2>3. ~Counted BY <1>1 DEF Counted
    <2>4. ~(n <= synced) BY <2>1, <2>2
    <2>5. pc # "record" BY <1>1
    <2>6. n \notin DOMAIN tags BY <2>3, <2>4, <2>5, Zenon DEF Mirrors, TagsTaken
    <2> QED BY <2>1, <2>2, <2>6, MirrorFacts
  <1>8. /\ DOMAIN tags' = DOMAIN tags \cup {n} /\ tags'[n] = master
        /\ \A m \in DOMAIN tags : tags'[m] = tags[m]
    BY <1>6, <1>7 DEF Tagged
  <1>9. Linked'
    <2>1. \A m \in DOMAIN tags' : Built(commits, tags'[m]) BY <1>2, <1>8 DEF Linked
    <2> QED BY <1>2, <1>6, <2>1, LinkedStays DEF Linked, userVars
  <1>10. Len(depot) \in DOMAIN depot /\ depot[Len(depot)].tree = TreeAt(commits, master)
    <2>1. Numbered /\ Len(depot) \in Nat /\ DOMAIN depot = 1..Len(depot)
      BY MirrorFacts, DepotFacts
    <2>2. Len(depot) > 1 BY <1>5 DEF Sent, Behind
    <2> QED BY <1>5, <2>1, <2>2 DEF Sent, DepotHead, Ours
  <1>11. TagsExact' BY <1>6, <1>8, <1>10 DEF Mirrors, TagsExact, p4Vars, LastNum
  <1>12. TagsOrUsers'
    BY <1>6, <1>8 DEF Mirrors, TagsOrUsers, ByUser, Tagging, LastNum, p4Vars
  <1>13. Counted' /\ LastNum' = n /\ ~Counted /\ pc # "record"
    BY <1>1, <1>3, <1>6 DEF Counted, LastNum, p4Vars
  <1>14. TagsTaken'
    <2>1. \A m \in DOMAIN tags : m <= synced BY <1>13, Zenon DEF Mirrors, TagsTaken
    <2> QED BY <1>6, <1>8, <1>13, <2>1, Zenon DEF TagsTaken
  <1>15. tags'[synced] = tags[synced] BY <1>7, <1>8
  <1>16. Sent'
    BY <1>5, <1>6, <1>15 DEF Sent, Idle, At, Ours, Behind, DepotHead, p4Vars, diskVars
  <1>17. LastTagged' BY <1>6, <1>8, <1>13 DEF LastTagged, HasTag
  <1>18. Pushes'
    <2>1. currentRev' \subseteq tags'[synced'] BY <1>4, <1>6, <1>15 DEF Pushes
    <2> QED BY ONLY <1>6, <1>16, <1>17, <2>1 DEF Pushes, PushSteps
  <1>19. Lines' BY <1>1, <1>4, <1>6, LinesStay DEF userVars
  <1>20. Phase' BY <1>1, <1>2, <1>3, <1>6, <1>18, <1>19 DEF Phase
  <1> QED BY <1>9, <1>11, <1>12, <1>14, <1>20 DEF Mirrors

LEMMA MirrorsNextRev ==
    ASSUME TypeInv, Mirrors, NextRev
    PROVE  Mirrors'
  <1>1. /\ pc = "pushed" /\ revs' = Tail(revs)
        /\ UNCHANGED <<p4Vars, refVars, diskVars, synced, newStuff, changed, final, clone>>
    BY DEF NextRev
  <1>2. Phase /\ Linked BY DEF Mirrors
  <1>3. pushing # None BY <1>1, <1>2 DEF Phase, Importing
  <1>4. Pushes /\ Lines BY <1>2, <1>3 DEF Phase
  <1>5. Exact /\ LastNum = synced BY <1>1, <1>4 DEF Pushes
  <1>6. DepotHead = have BY <1>5, UpToDate DEF Exact
  <1>7. TagsExact' /\ TagsOrUsers' /\ TagsTaken'
    BY <1>1, <1>5, TagsStay DEF p4Vars, refVars, Tagging
  <1>8. Exact' BY <1>1, <1>5 DEF Exact, Idle, At, Fresh, p4Vars, refVars, diskVars
  <1>9. CASE Len(revs) > 1
    <2>1. pc' = "merge" /\ UNCHANGED <<pushing, currentRev, verdict>>
      BY <1>9 DEF NextRev
    <2>2. Linked' BY <1>1, <1>2, <2>1, LinkedStays DEF Linked, refVars
    <2>3. Alone' BY <1>1, <1>5, <1>6 DEF Alone, DepotHead, LastNum, p4Vars
    <2>4. currentRev' \subseteq tags'[synced'] BY <1>1, <1>4, <2>1 DEF Pushes, refVars
    <2>5. Pushes' BY ONLY <1>8, <2>1, <2>3, <2>4 DEF Pushes, PushSteps
    <2>6. Lines'
      <3>1. /\ Rising /\ clone[pushing] # {} /\ ToMerge = clone[pushing] \ master
            /\ \A k \in 1..Len(revs) : revs[k].id \in ToMerge /\ revs[k].plus =>
                  \A j \in master \ clone[pushing] : commits[j] # commits[revs[k].id]
        BY <1>1, <1>4 DEF Lines
      <3>2. /\ Len(revs) \in Nat /\ Len(revs') = Len(revs) - 1
            /\ \A k \in 1..Len(revs') : k + 1 \in 1..Len(revs) /\ revs'[k] = revs[k + 1]
        <4>1. revs \in Seq([id : Nat, plus : BOOLEAN]) BY TypeFacts DEF Shaped
        <4> QED BY <1>1, <1>9, <4>1
      <3>3. Rising' BY <3>1, <3>2 DEF Rising
      <3>4. ToMerge' = ToMerge
        <4>1. /\ ToMerge' = {revs'[k].id : k \in 1..Len(revs')}
              /\ ToMerge = {revs[k].id : k \in 2..Len(revs)}
          BY <1>1, <2>1 DEF ToMerge
        <4>2. \A k \in 2..Len(revs) : k - 1 \in 1..Len(revs') /\ (k - 1) + 1 = k BY <3>2
        <4>3. \A k \in 1..Len(revs') : k + 1 \in 2..Len(revs) BY <3>2
        <4>4. \A k \in 2..Len(revs) : revs[k] = revs'[k - 1] BY <3>2, <4>2
        <4>5. {revs[k].id : k \in 2..Len(revs)} \subseteq {revs'[k].id : k \in 1..Len(revs')}
          BY ONLY <4>2, <4>4
        <4>6. {revs'[k].id : k \in 1..Len(revs')} \subseteq {revs[k].id : k \in 2..Len(revs)}
          BY ONLY <3>2, <4>3
        <4> QED BY ONLY <4>1, <4>5, <4>6
      <3>5. \A k \in 1..Len(revs') : revs'[k].id \in ToMerge' /\ revs'[k].plus =>
                \A j \in master \ clone[pushing] : commits[j] # commits[revs'[k].id]
        BY <3>1, <3>2, <3>4
      <3> QED BY <1>1, <2>1, <3>1, <3>3, <3>4, <3>5 DEF Lines, refVars
    <2>7. Phase' BY <1>1, <1>2, <1>3, <2>1, <2>5, <2>6 DEF Phase, refVars
    <2> QED BY <1>7, <2>2, <2>7 DEF Mirrors
  <1>10. CASE ~(Len(revs) > 1)
    <2>1. pushing' = None /\ pc' = "idle" BY <1>10 DEF NextRev
    <2>2. Linked' BY <1>1, <1>2, <2>1, LinkedStays DEF Linked, refVars
    <2>3. Resting'
      <3>1. Ours' = Fresh' BY <1>8 DEF Exact, Ours, Fresh
      <3> QED BY <1>8, <3>1 DEF Resting, Exact, At
    <2>4. Phase' BY <1>1, <1>2, <2>1, <2>3 DEF Phase, Importing, refVars
    <2> QED BY <1>7, <2>2, <2>4 DEF Mirrors
  <1> QED BY <1>9, <1>10

\* The push is given up: master goes back to where it began.
LEMMA MirrorsReset ==
    ASSUME TypeInv, Mirrors, ResetPush
    PROVE  Mirrors'
  <1>1. /\ pc = "reset" /\ ResetHard(Tree(currentRev)) /\ master' = currentRev
        /\ pc' = "rollback"
        /\ UNCHANGED <<p4Vars, commits, incoming, head, rebasing, tags, oddTag, synced,
                       workVars, userVars>>
    BY DEF ResetPush
  <1>2. Phase /\ Linked BY DEF Mirrors
  <1>3. pushing # None BY <1>1, <1>2 DEF Phase, Importing
  <1>4. Pushes BY <1>2, <1>3 DEF Phase
  <1>5. /\ head = "master" /\ files = Ours /\ index = Ours /\ have = Fresh
        /\ currentRev \subseteq tags[synced]
    BY <1>1, <1>4 DEF Pushes
  <1>6. Linked' BY <1>1, <1>2, <1>3, LinkedStays DEF Linked, workVars, userVars
  <1>7. TagsExact' /\ TagsOrUsers' /\ TagsTaken'
    BY <1>1, TagsStay DEF p4Vars, workVars, Counted, Tagging
  <1>8. Tree(currentRev) = Ours' /\ Fresh' = Fresh BY <1>1, TreeIs DEF Ours, Fresh
  <1>9. index' = Ours' /\ files' = Ours' /\ unmerged' = FALSE
    <2> DEFINE t == Tree(currentRev)
    <2>1. /\ files' = [f \in File |-> IF index[f] # {} \/ HeadTree[f] # {} \/ t[f] # {}
                                     THEN t[f] ELSE files[f]]
          /\ index' = t /\ unmerged' = FALSE
      BY <1>1 DEF ResetHard
    <2>2. t = [f \in File |-> t[f]] BY DEF Tree
    <2> HIDE DEF t
    <2>3. \A f \in File : files'[f] = t[f] BY <1>5, <2>1
    <2>4. files' = t BY <2>1, <2>2, <2>3
    <2> QED BY <1>8, <2>1, <2>4 DEF t
  <1>10. Pushes'
    <2>1. currentRev' \subseteq tags'[synced'] /\ master' \subseteq tags'[synced']
      BY <1>1, <1>5 DEF workVars
    <2>2. head' = "master" /\ files' = Ours' /\ index' = Ours' /\ have' = Fresh'
      BY <1>1, <1>5, <1>8, <1>9 DEF p4Vars
    <2> QED BY ONLY <1>1, <2>1, <2>2 DEF Pushes, PushSteps
  <1>11. Lines' BY <1>1 DEF Lines
  <1>12. Phase' BY <1>1, <1>2, <1>3, <1>10, <1>11 DEF Phase, workVars
  <1> QED BY <1>6, <1>7, <1>12 DEF Mirrors

LEMMA MirrorsRevert ==
    ASSUME TypeInv, Mirrors, RevertOpened
    PROVE  Mirrors'
  <1>1. /\ pc = "rollback" /\ opened' = {} /\ pending' = 0 /\ pc' = "clean up"
        /\ files' = [f \in File |-> IF f \in opened /\ have[f] # {} THEN have[f] ELSE files[f]]
        /\ UNCHANGED <<depot, counter, have, refVars, index, synced, workVars, userVars>>
    BY DEF RevertOpened
  <1>2. Phase /\ Linked BY DEF Mirrors
  <1>3. pushing # None BY <1>1, <1>2 DEF Phase, Importing
  <1>4. Pushes BY <1>2, <1>3 DEF Phase
  <1>5. /\ head = "master" /\ files = Ours /\ index = Ours /\ have = Fresh
        /\ master \subseteq tags[synced] /\ currentRev \subseteq tags[synced]
    BY <1>1, <1>4 DEF Pushes
  <1>6. Linked' BY <1>1, <1>2, LinkedStays DEF Linked, refVars, workVars, userVars
  <1>7. TagsExact' /\ TagsOrUsers' /\ TagsTaken'
    BY <1>1, TagsStay DEF refVars, workVars, Counted, Tagging
  <1>8. RolledBack'
    <2>1. Ours' = Ours /\ Fresh' = Fresh BY <1>1 DEF Ours, Fresh, refVars
    <2>2. \A f \in File : files'[f] \in {index'[f], have'[f]} BY <1>1, <1>5
    <2> QED BY <1>1, <1>5, <2>1, <2>2 DEF RolledBack, Idle, refVars
  <1>9. Pushes'
    <2>1. currentRev' \subseteq tags'[synced'] /\ master' \subseteq tags'[synced']
      BY <1>1, <1>5 DEF refVars, workVars
    <2> QED BY ONLY <1>1, <1>8, <2>1 DEF Pushes, PushSteps
  <1>10. Lines' BY <1>1 DEF Lines
  <1>11. Phase' BY <1>1, <1>2, <1>3, <1>9, <1>10 DEF Phase, refVars, workVars
  <1> QED BY <1>6, <1>7, <1>11 DEF Mirrors

LEMMA MirrorsResetFiles ==
    ASSUME TypeInv, Mirrors, ResetFiles
    PROVE  Mirrors'
  <1>1. /\ pc = "clean up" /\ ResetHard(HeadTree) /\ pushing' = None /\ pc' = "idle"
        /\ UNCHANGED <<p4Vars, commits, master, incoming, head, rebasing, tags, oddTag,
                       synced, newStuff, changed, final, clone>>
    BY DEF ResetFiles, GiveUpPush
  <1>2. Phase /\ Linked BY DEF Mirrors
  <1>3. pushing # None BY <1>1, <1>2 DEF Phase, Importing
  <1>4. RolledBack /\ master \subseteq tags[synced]
    BY <1>1, <1>2, <1>3 DEF Phase, Pushes
  <1>5. Linked' BY <1>1, <1>2, LinkedStays DEF Linked
  <1>6. TagsExact' /\ TagsOrUsers' /\ TagsTaken'
    BY <1>1, TagsStay DEF p4Vars, Counted, Tagging
  <1>7. HeadTree = Ours /\ Ours \in Trees BY <1>4, MirrorFacts DEF RolledBack
  <1>8. Resting'
    <2>1. Ours' = Ours /\ Fresh' = Fresh BY <1>1 DEF Ours, Fresh
    <2>2. /\ files' = [f \in File |-> IF index[f] # {} \/ Ours[f] # {} \/ Ours[f] # {}
                                     THEN Ours[f] ELSE files[f]]
          /\ index' = Ours /\ unmerged' = FALSE
      BY <1>1, <1>7 DEF ResetHard
    <2>3. index = Ours /\ \A f \in File : files[f] \in {index[f], have[f]}
      BY <1>4 DEF RolledBack
    <2>4. ASSUME NEW f \in File
          PROVE  files'[f] = index'[f] \/ (index'[f] = {} /\ files'[f] = have'[f])
      <3>1. CASE Ours[f] # {} BY <2>2, <3>1
      <3>2. CASE Ours[f] = {}
        <4>1. files'[f] = files[f] BY <2>2, <2>3, <3>2
        <4> QED BY <1>1, <2>2, <2>3, <3>2, <4>1 DEF p4Vars
      <3> QED BY <3>1, <3>2
    <2> QED BY <1>1, <1>4, <2>1, <2>2, <2>4 DEF Resting, RolledBack, Idle, p4Vars
  <1>9. Phase' BY <1>1, <1>2, <1>8 DEF Phase, Importing
  <1> QED BY <1>5, <1>6, <1>9 DEF Mirrors

-----------------------------------------------------------------------------
(* The people                                                               *)

\* A user submits between pushes, during a pull of the loop, or to a file of the
\* commit at hand.
LEMMA MirrorsUser ==
    ASSUME TypeInv, TypeInv', Mirrors, Calm, NEW e \in UserEdit, UserSubmits(e)
    PROVE  Mirrors'
  <1> DEFINE g == FileOf[e]
             d == [num  |-> counter + 1,
                   tree |-> [DepotHead EXCEPT ![g] = @ \cup {e}]]
  <1>1. /\ \A k \in 1..Len(depot) : e \notin depot[k].tree[g]
        /\ Undisturbed(e) /\ depot' = Append(depot, d)
        /\ UNCHANGED <<have, pending, opened, refVars, diskVars, synced, pc, workVars,
                       userVars>>
    BY DEF UserSubmits, Calm
  <1>2. Phase /\ Linked BY DEF Mirrors
  <1>3. g \in File /\ e \in Edit BY ConstantsAssumption
  <1>4. /\ Numbered /\ Numbered' /\ Len(depot) \in Nat /\ DOMAIN depot = 1..Len(depot)
        /\ Len(depot) > 0
    <2>1. Numbered /\ Numbered' BY DEF TypeInv, OrderInv
    <2>2. Len(depot) \in Nat /\ DOMAIN depot = 1..Len(depot) BY <2>1, DepotFacts
    <2> QED BY <2>1, <2>2 DEF Numbered
  <1>5. DepotHead \in Trees BY <1>4, DepotTyped, TypeFacts DEF TreesTyped
  <1>6. /\ d.tree[g] = DepotHead[g] \cup {e}
        /\ \A f \in File \ {g} : d.tree[f] = DepotHead[f]
        /\ d.tree = [DepotHead EXCEPT ![g] = @ \cup {e}]
    <2>1. DOMAIN DepotHead = File BY <1>5 DEF Trees
    <2> QED BY <1>3, <2>1
  <1> HIDE DEF d
  <1>7. /\ DOMAIN depot' = DOMAIN depot \cup {Len(depot) + 1}
        /\ \A k \in DOMAIN depot : depot'[k] = depot[k]
        /\ depot'[Len(depot) + 1] = d /\ Len(depot') = Len(depot) + 1
    <2>1. /\ DOMAIN depot' = DOMAIN depot \cup {Len(depot) + 1}
          /\ \A k \in DOMAIN depot : depot'[k] = depot[k]
          /\ depot'[Len(depot) + 1] = d
      BY <1>1, <1>4, DepotGrows
    <2>2. PICK S : depot \in Seq(S) BY <1>4 DEF Numbered
    <2>3. \A x : Len(Append(depot, x)) = Len(depot) + 1 BY <2>2
    <2> QED BY <1>1, <2>1, <2>3
  <1>8. DepotHead' = d.tree BY <1>7 DEF DepotHead
  <1>9. /\ Fresh' = Fresh /\ Ours' = Ours /\ Pulled' = Pulled
        /\ CurrentFiles' = CurrentFiles
    BY <1>1 DEF Fresh, Ours, Pulled, CurrentFiles, refVars, workVars
  <1>10. Linked' BY <1>1, <1>2, LinkedStays DEF Linked, refVars, workVars, userVars
  <1>11. \/ pushing = None
         \/ pushing # None /\ pc \in {"merge", "open", "submit"} /\ g \in CurrentFiles
    BY <1>1 DEF Undisturbed
  <1>12. ~Tagging /\ ~Tagging' /\ ~Counted
    <2>1. pushing = None => ~Tagging BY <1>2 DEF Phase, Importing, Tagging
    <2> QED BY <1>1, <1>11, <2>1 DEF Tagging, Counted
  <1>13. TagsExact' BY <1>1, <1>7 DEF Mirrors, TagsExact, refVars
  <1>14. TagsOrUsers'
    <2> SUFFICES ASSUME NEW k \in DOMAIN depot' \ {1}
                 PROVE  depot'[k].num \in DOMAIN tags' \/ ByUser(k)'
      BY DEF TagsOrUsers
    <2>1. CASE k = Len(depot) + 1
      <3>1. k - 1 = Len(depot) /\ k - 1 \in DOMAIN depot BY <1>4, <2>1
      <3>2. depot'[k - 1].tree = DepotHead BY <1>7, <3>1 DEF DepotHead
      <3>3. e \notin DepotHead[g] BY <1>1, <1>4, <3>1 DEF DepotHead
      <3>4. depot'[k].tree = [depot'[k - 1].tree EXCEPT ![g] = @ \cup {e}]
        BY <1>6, <1>7, <2>1, <3>2
      <3> QED BY <3>2, <3>3, <3>4 DEF ByUser
    <2>2. CASE k \in DOMAIN depot
      <3>1. k - 1 \in DOMAIN depot BY <1>4, <2>2
      <3>2. depot[k].num \in DOMAIN tags \/ ByUser(k)
        BY <1>12, <2>2 DEF Mirrors, TagsOrUsers
      <3>3. depot'[k] = depot[k] /\ depot'[k - 1] = depot[k - 1] BY <1>7, <2>2, <3>1
      <3>4. ByUser(k) => ByUser(k)' BY <3>3 DEF ByUser
      <3> QED BY <1>1, <3>2, <3>3, <3>4 DEF refVars
    <2> QED BY <1>7, <2>1, <2>2
  <1>15. TagsTaken'
    <2>1. \A n \in DOMAIN tags : n <= synced \/ (pc = "record" /\ n = Head(newStuff))
      BY <1>12, Zenon DEF Mirrors, TagsTaken
    <2> QED BY <1>1, <2>1 DEF TagsTaken, refVars, workVars
  <1>16. CASE pushing = None
    <2>1. Resting => Resting' BY <1>1, <1>9 DEF Resting, Idle, refVars, diskVars
    <2>2. Exact => Exact' BY <1>1, <1>9 DEF Exact, Idle, At, refVars, diskVars
    <2>3. pc \in Importing /\ newStuff # <<>> => Coming' = Coming
      <3> SUFFICES ASSUME pc \in Importing, newStuff # <<>> PROVE Coming' = Coming
        OBVIOUS
      <3>1. PICK j \in DOMAIN depot : j + 1 \in DOMAIN depot /\ Head(newStuff) = depot[j + 1].num
        BY ComingIs
      <3>2. DepotAt(depot[j + 1].num)' = DepotAt(depot[j + 1].num)
            /\ depot'[j + 1] = depot[j + 1]
        BY <1>1, <1>4, <3>1, DepotAtStays
      <3>3. Head(newStuff)' = depot'[j + 1].num BY <1>1, <3>1, <3>2 DEF workVars
      <3>4. Coming' = FilesAt(depot', Head(newStuff)') BY DEF Coming, DepotAt, FilesAt
      <3>5. DepotAt(depot[j + 1].num)' = FilesAt(depot', depot'[j + 1].num)
        BY DEF DepotAt, FilesAt
      <3>6. Coming = DepotAt(depot[j + 1].num) BY <3>1 DEF Coming
      <3> QED BY ONLY <3>2, <3>3, <3>4, <3>5, <3>6
    <2>4. Taking /\ pc \in Importing \cup {"rebase"} => Taking'
      <3> SUFFICES ASSUME Taking, pc \in Importing \cup {"rebase"} PROVE Taking' OBVIOUS
      <3>1. pc \in {"stage", "commit", "tag", "record"} => Coming' = Coming
        BY <2>3 DEF TypeInv, OrderInv, InOrder, Importing
      <3> QED BY <1>1, <1>9, <3>1
          DEF Taking, Drawn, Idle, At, Unknown, HasTag, refVars, diskVars, workVars
    <2>5. Phase'
      BY <1>1, <1>2, <1>16, <2>1, <2>2, <2>4 DEF Phase, Importing, refVars, workVars
    <2> QED BY <1>10, <1>13, <1>14, <1>15, <2>5 DEF Mirrors
  <1>17. CASE pushing # None /\ pc \in {"merge", "open", "submit"} /\ g \in CurrentFiles
    <2>1. Pushes /\ Lines BY <1>2, <1>17 DEF Phase
    <2>2. have = Fresh BY <1>17, <2>1 DEF Pushes, MergedOne, Exact
    <2>3. e \notin have[g]
      <3>1. PICK j \in DOMAIN depot : depot[j].tree = Fresh BY MirrorFacts
      <3> QED BY <1>1, <1>4, <2>2, <3>1
    <2>4. Raced' BY <1>1, <1>6, <1>8, <1>9, <1>17, <2>3 DEF Raced
    <2>5. Alone => Alone'
      <3>1. \A f \in File \ CurrentFiles : DepotHead'[f] = DepotHead[f]
        BY <1>6, <1>8, <1>17
      <3> QED BY <1>1, <1>9, <2>4, <3>1 DEF Alone
    <2>6. Exact => Exact' BY <1>1, <1>9 DEF Exact, Idle, At, refVars, diskVars
    <2>7. MergedOne => MergedOne'
      BY <1>1, <1>9, <2>5 DEF MergedOne, At, refVars, diskVars, workVars
    <2>8. Idle => Idle' BY <1>1 DEF Idle
    <2>9. Pushes'
      <3>1. pc' = pc /\ opened' = opened /\ CurrentFiles' = CurrentFiles BY <1>1, <1>9
      <3>2. currentRev' \subseteq tags'[synced'] BY <1>1, <2>1 DEF Pushes, refVars, workVars
      <3>3. /\ pc = "merge" => Exact /\ Alone
            /\ pc \in {"open", "submit"} => MergedOne
            /\ pc = "open" => Idle
            /\ pc = "submit" => opened = CurrentFiles
        BY <2>1 DEF Pushes
      <3>4. pc' \in {"merge", "open", "submit"} BY <1>17, <3>1
      <3> QED BY ONLY <2>4, <2>5, <2>6, <2>7, <2>8, <3>1, <3>2, <3>3, <3>4
          DEF Pushes, PushSteps
    <2>10. Lines'
      <3>1. UNCHANGED <<commits, master, pushing, clone, revs, pc>>
        BY <1>1 DEF refVars, workVars, userVars
      <3>2. ToMerge' = ToMerge /\ Rising' = Rising BY <3>1 DEF ToMerge, Rising
      <3>3. pc \notin {"reset", "rollback", "clean up"} BY <1>17
      <3>4. /\ Rising /\ clone[pushing] # {} /\ ToMerge = clone[pushing] \ master
            /\ \A k \in 1..Len(revs) : revs[k].id \in ToMerge /\ revs[k].plus =>
                  \A j \in master \ clone[pushing] : commits[j] # commits[revs[k].id]
        BY <2>1, <3>3, Zenon DEF Lines
      <3> QED BY ONLY <3>1, <3>2, <3>4, Zenon DEF Lines
    <2>11. Phase' BY <1>1, <1>2, <1>17, <2>9, <2>10 DEF Phase, refVars, workVars
    <2> QED BY <1>10, <1>13, <1>14, <1>15, <2>11 DEF Mirrors
  <1> QED BY <1>11, <1>16, <1>17

\* The commits of a session build on master and on one another.
LEMMA CloneBuilds ==
    ASSUME TypeInv, Mirrors, NEW p \in Push, SessionClones(p)
    PROVE  Sound(commits') /\ Built(commits', master \cup News(p))
  <1> DEFINE N == Len(Series[p])
             L == Len(commits)
             U(k) == master \cup (L + 1)..(L + k)
             Good(k) == /\ TreeAt(commits', U(k)) = Before(p, k)
                        /\ Built(commits', U(k))
                        /\ \A i \in U(k) : Grows(commits'[i])
  <1>1. /\ commits' = commits \o Made(p) /\ N \in Nat \ {0}
        /\ Made(p) \in Seq(CommitSet) /\ Len(Made(p)) = N
        /\ \A k \in 1..N : Made(p)[k] = Commit(Before(p, k - 1), Before(p, k))
        /\ \A k : Before(p, k) \in Trees
    BY CloneMakes
  <1>2. Linked /\ commits \in Seq(CommitSet) /\ master \in SUBSET (1..L)
    BY MirrorFacts DEF Mirrors
  <1>3. /\ commits' \in Seq(CommitSet) /\ Len(commits') = L + N /\ L \in Nat
        /\ \A i \in 1..L : commits'[i] = commits[i]
        /\ \A k \in 1..N : commits'[L + k] = Made(p)[k]
        /\ \A B : Built(commits, B) => Built(commits', B)
        /\ \A B \in SUBSET (1..L) : TreeAt(commits', B) = TreeAt(commits, B)
        /\ (\A k \in 1..N : Grows(Made(p)[k]) /\ Small(Made(p)[k])) => Sound(commits')
    BY <1>1, <1>2, MoreCommits
  <1> HIDE DEF N, L
  <1>4. ASSUME NEW k \in 1..N
        PROVE  /\ Series[p][k] \in Edit /\ FileOf[Series[p][k]] \in File
               /\ \A f \in File : Before(p, k)[f] =
                     IF f = FileOf[Series[p][k]] THEN Before(p, k - 1)[f] \cup {Series[p][k]}
                     ELSE Before(p, k - 1)[f]
    <2> DEFINE e == Series[p][k]
    <2>1. e \in Edit
      <3>1. Series[p] \in Seq(Edit \ UserEdit) BY ConstantsAssumption
      <3> QED BY <3>1 DEF N
    <2>2. FileOf[e] \in File BY <2>1, ConstantsAssumption
    <2>3. \A j : j \in 1..k <=> j \in 1..(k - 1) \/ j = k BY <1>1
    <2>4. ASSUME NEW f \in File
          PROVE  Before(p, k)[f] = IF f = FileOf[e] THEN Before(p, k - 1)[f] \cup {e}
                                   ELSE Before(p, k - 1)[f]
      <3> DEFINE S(n) == {x \in Edit : FileOf[x] = f /\ \E j \in 1..n : Series[p][j] = x}
      <3>1. /\ Before(p, k)[f] = Tree(master)[f] \cup S(k)
            /\ Before(p, k - 1)[f] = Tree(master)[f] \cup S(k - 1)
        BY DEF Before
      <3>2. S(k) = IF f = FileOf[e] THEN S(k - 1) \cup {e} ELSE S(k - 1)
        BY ONLY <2>1, <2>3
      <3> HIDE DEF S, e
      <3> QED BY ONLY <3>1, <3>2
    <2> QED BY <2>1, <2>2, <2>4
  <1>5. Good(0)
    <2>1. U(0) = master BY <1>3
    <2>2. TreeAt(commits', master) = Tree(master) BY <1>2, <1>3, TreeIs
    <2>3. Before(p, 0) = Tree(master)
      <3>1. \A f \in File : Before(p, 0)[f] = Tree(master)[f] BY DEF Before
      <3>2. /\ Before(p, 0) = [f \in File |-> Before(p, 0)[f]]
            /\ Tree(master) = [f \in File |-> Tree(master)[f]]
        BY DEF Before, Tree
      <3> QED BY ONLY <3>1, <3>2
    <2>4. \A i \in master : Grows(commits'[i]) BY <1>2, <1>3 DEF Linked, Sound, L
    <2> QED BY <1>2, <1>3, <2>1, <2>2, <2>3, <2>4 DEF Linked
  <1>6. ASSUME NEW k \in 1..N, Good(k - 1) PROVE Good(k) /\ Grows(Made(p)[k])
    <2> DEFINE j == L + k
               B == U(k - 1)
               new == Before(p, k)
    <2>1. commits'[j] = Commit(TreeAt(commits', B), new) BY <1>1, <1>3, <1>6
    <2>2. \A f \in File : TreeAt(commits', B)[f] \subseteq new[f]
      <3>1. TreeAt(commits', B) = Before(p, k - 1) BY <1>6
      <3>2. \A f \in File : Before(p, k - 1)[f] \subseteq Before(p, k)[f] BY ONLY <1>4, k \in 1..N
      <3> HIDE DEF B
      <3> QED BY ONLY <3>1, <3>2
    <2>3. j \in 1..Len(commits') /\ \A i \in B : i < j
      <3>1. L \in Nat /\ master \in SUBSET (1..L) BY <1>2, <1>3
      <3>2. \A i \in master : i <= L /\ i \in Nat BY ONLY <3>1
      <3> QED BY <1>1, <1>2, <1>3, <3>1, <3>2
    <2>4. U(k) = B \cup {j} BY <1>1, <1>3
    <2>5. commits' \in Seq(CommitSet) /\ Built(commits', B) /\ new \in Trees
          /\ \A i \in B : Grows(commits'[i])
      BY <1>1, <1>3, <1>6
    <2> HIDE DEF j, B, new
    <2>6. /\ TreeAt(commits', B \cup {j}) = new /\ Built(commits', B \cup {j})
          /\ Grows(commits'[j])
      BY ONLY <2>1, <2>2, <2>3, <2>5, BuiltOnTop
    <2>7. \A i \in B \cup {j} : Grows(commits'[i]) BY <2>5, <2>6
    <2>8. Grows(Made(p)[k]) BY <1>3, <2>6 DEF j
    <2> QED BY ONLY <2>4, <2>6, <2>7, <2>8 DEF new
  <1> HIDE DEF Good
  <1>7. \A k \in 0..N : Good(k)
    <2> DEFINE Bad == {k \in 0..N : ~Good(k)}
    <2> SUFFICES ASSUME Bad # {} PROVE FALSE OBVIOUS
    <2>1. Bad \in SUBSET Nat OBVIOUS
    <2>2. PICK k \in Bad : \A i \in Bad : k <= i BY <2>1, LeastNumber
    <2>3. k # 0 BY <1>5, <2>2
    <2>4. k \in 1..N /\ k - 1 \in 0..N /\ ~(k <= k - 1) BY <1>1, <2>2, <2>3
    <2>5. Good(k - 1) BY <2>2, <2>4
    <2> QED BY <1>6, <2>2, <2>4, <2>5
  <1>8. ASSUME NEW k \in 1..N PROVE Grows(Made(p)[k]) /\ Small(Made(p)[k])
    <2>1. Good(k - 1) BY <1>1, <1>7
    <2>2. Grows(Made(p)[k]) BY <1>6, <2>1
    <2> DEFINE e == Series[p][k]
               x == {f \in File : Before(p, k - 1)[f] # Before(p, k)[f]}
               c == Made(p)[k]
    <2>3. c.to = [f \in x |-> Before(p, k)[f]] /\ c.from = [f \in x |-> Before(p, k - 1)[f]]
      <3>1. c = Commit(Before(p, k - 1), Before(p, k)) BY <1>1
      <3> HIDE DEF c
      <3> QED BY ONLY <3>1 DEF Commit
    <2>4. e \in Edit /\ FileOf[e] \in File /\ x \subseteq {FileOf[e]} BY <1>4
    <2>5. Before(p, k)[FileOf[e]] = Before(p, k - 1)[FileOf[e]] \cup {e} BY <1>4
    <2>6. DOMAIN c.to = x /\ (FileOf[e] \in x => c.to[FileOf[e]] = c.from[FileOf[e]] \cup {e})
      <3> HIDE DEF x, c, e
      <3> QED BY <2>3, <2>5
    <2> QED BY <2>2, <2>4, <2>6 DEF Small
  <1>9. Sound(commits') BY <1>3, <1>8
  <1>10. Built(commits', master \cup News(p))
    <2>1. Good(N) BY <1>1, <1>7
    <2>2. U(N) = master \cup News(p) BY DEF News, N, L
    <2> QED BY <2>1, <2>2 DEF Good
  <1> QED BY <1>9, <1>10

LEMMA MirrorsClone ==
    ASSUME TypeInv, Mirrors, NEW p \in Push, SessionClones(p)
    PROVE  Mirrors'
  <1>1. /\ commits' = commits \o Made(p) /\ clone' = [clone EXCEPT ![p] = master \cup News(p)]
        /\ clone[p] = {} /\ clone \in [Push -> Branches] /\ Made(p) \in Seq(CommitSet)
    BY CloneMakes
  <1>2. UNCHANGED <<p4Vars, master, incoming, head, unmerged, rebasing, tags, oddTag,
                    diskVars, synced, pc, workVars, verdict>>
    BY DEF SessionClones
  <1>3. Phase /\ Linked BY DEF Mirrors
  <1>4. /\ Len(commits) \in Nat /\ Len(commits) <= Len(commits')
        /\ \A i \in 1..Len(commits) : commits'[i] = commits[i]
        /\ \A B : Built(commits, B) => Built(commits', B)
        /\ \A B \in SUBSET (1..Len(commits)) : TreeAt(commits', B) = TreeAt(commits, B)
    BY <1>1, <1>3, MirrorFacts, MoreCommits
  <1>5. Sound(commits') /\ Built(commits', clone'[p])
    <2>1. clone'[p] = master \cup News(p) BY <1>1
    <2> QED BY <2>1, CloneBuilds
  <1>6. \A q \in Push \ {p} : clone'[q] = clone[q] BY <1>1
  <1>7. Linked'
    <2>1. \A q \in Push : clone'[q] # {} => Built(commits', clone'[q])
      BY <1>3, <1>4, <1>5, <1>6 DEF Linked
    <2> QED BY <1>2, <1>3, <1>4, <1>5, <2>1 DEF Linked, workVars
  <1>8. \A n \in DOMAIN tags : TreeAt(commits', tags[n]) = TreeAt(commits, tags[n])
    BY <1>4, MirrorFacts
  <1>9. TagsExact' BY <1>2, <1>8 DEF Mirrors, TagsExact, p4Vars
  <1>10. TagsOrUsers' BY <1>2 DEF Mirrors, TagsOrUsers, ByUser, Tagging, p4Vars
  <1>11. TagsTaken'
    <2>1. Counted' = Counted /\ LastNum' = LastNum
      BY <1>2 DEF Counted, LastNum, p4Vars, workVars
    <2> QED BY <1>2, <2>1, Zenon DEF Mirrors, TagsTaken, workVars
  <1>12. Fresh' = Fresh /\ Ours' = Ours /\ Pulled' = Pulled
    BY <1>2, <1>4, <1>8, MirrorFacts DEF Fresh, Ours, Pulled
  <1>13. CurrentFiles' = CurrentFiles
    <2>1. revs' = revs BY <1>2 DEF workVars
    <2>2. revs # <<>> => Head(revs).id \in 1..Len(commits)
      <3> SUFFICES ASSUME revs # <<>> PROVE Head(revs).id \in 1..Len(commits) OBVIOUS
      <3>1. revs \in Seq([id : Nat, plus : BOOLEAN]) BY TypeFacts DEF Shaped
      <3>2. 1 \in 1..Len(revs) /\ Head(revs) = revs[1] BY <3>1
      <3>3. revs[1] \in [id : 1..Len(commits), plus : BOOLEAN]
        BY <3>2, TypeFacts DEF RefsTyped
      <3> QED BY <3>2, <3>3
    <2> QED BY <1>4, <2>1, <2>2 DEF CurrentFiles
  <1>14. CASE pushing = None
    <2>1. Resting => Resting' BY <1>2, <1>12 DEF Resting, Idle, p4Vars, diskVars
    <2>2. Exact => Exact' BY <1>2, <1>12 DEF Exact, Idle, At, p4Vars, diskVars
    <2>3. Coming' = Coming BY <1>2 DEF Coming, DepotAt, p4Vars, workVars
    <2>4. Taking => Taking'
      BY <1>2, <1>12, <2>3
      DEF Taking, Drawn, Idle, At, Unknown, HasTag, p4Vars, diskVars, workVars
    <2>5. Phase' BY <1>2, <1>3, <1>14, <2>1, <2>2, <2>4 DEF Phase, Importing, workVars
    <2> QED BY <1>7, <1>9, <1>10, <1>11, <2>5 DEF Mirrors
  <1>15. CASE pushing # None
    <2>1. Pushes /\ Lines BY <1>3, <1>15 DEF Phase
    <2>2. Idle' = Idle /\ DepotHead' = DepotHead /\ LastNum' = LastNum /\ Behind' = Behind
      BY <1>2 DEF Idle, DepotHead, LastNum, Behind, p4Vars
    <2>3. Raced' = Raced /\ Alone' = Alone
      BY <1>2, <1>13, <2>2 DEF Raced, Alone, p4Vars
    <2>4. LastTagged' = LastTagged BY <1>2, <2>2 DEF LastTagged, HasTag
    <2>5. Exact => Exact' BY <1>2, <1>12 DEF Exact, Idle, At, p4Vars, diskVars
    <2>6. MergedOne => MergedOne'
      BY <1>2, <1>12, <1>13, <2>3 DEF MergedOne, At, p4Vars, diskVars, workVars
    <2>7. Sent => Sent' BY <1>2, <1>12, <2>2 DEF Sent, At, p4Vars, diskVars
    <2>8. TakenBack => TakenBack'
      BY <1>2, <1>12, <2>2, <2>4 DEF TakenBack, At, p4Vars, diskVars, workVars
    <2>9. RolledBack => RolledBack'
      BY <1>2, <1>12, <2>2 DEF RolledBack, p4Vars, diskVars
    <2>10. Pushes'
      <3>1. /\ pc' = pc /\ currentRev' = currentRev /\ tags' = tags /\ synced' = synced
            /\ opened' = opened /\ counter' = counter /\ pending' = pending
            /\ final' = final /\ head' = head /\ files' = files /\ index' = index
            /\ have' = have /\ unmerged' = unmerged /\ master' = master
        BY <1>2 DEF p4Vars, diskVars, workVars
      <3>2. /\ pc \in PushSteps /\ currentRev \subseteq tags[synced]
            /\ pc \in {"merge", "pushed"} => Exact
            /\ pc = "merge" => Alone
            /\ pc \in {"open", "submit"} => MergedOne
            /\ pc = "open" => Idle
            /\ pc = "submit" => opened = CurrentFiles /\ (counter = pending \/ Raced)
        BY ONLY <2>1, Zenon DEF Pushes
      <3>3. /\ pc \in {"tag push", "pull", "checkout", "branch"} => Sent
            /\ pc = "tag push" => final.num = LastNum /\ final.renamed = FALSE
            /\ pc \in {"pull", "checkout", "branch"} => LastTagged
            /\ pc \in {"next", "record", "rebase"} => TakenBack
            /\ pc = "pushed" => LastNum = synced
        BY ONLY <2>1, Zenon DEF Pushes
      <3>4. /\ pc \in {"reset", "rollback"} =>
                  head = "master" /\ files = Ours /\ index = Ours /\ have = Fresh
            /\ pc = "reset" => ~unmerged
            /\ pc \in {"rollback", "clean up"} => master \subseteq tags[synced]
            /\ pc = "clean up" => RolledBack
        BY ONLY <2>1, Zenon DEF Pushes
      <3>5. /\ pc' \in PushSteps /\ currentRev' \subseteq tags'[synced']
            /\ pc' \in {"merge", "pushed"} => Exact'
            /\ pc' = "merge" => Alone'
            /\ pc' \in {"open", "submit"} => MergedOne'
            /\ pc' = "open" => Idle'
            /\ pc' = "submit" => opened' = CurrentFiles' /\ (counter' = pending' \/ Raced')
        BY ONLY <1>13, <2>2, <2>3, <2>5, <2>6, <3>1, <3>2
      <3>6. /\ pc' \in {"tag push", "pull", "checkout", "branch"} => Sent'
            /\ pc' = "tag push" => final'.num = LastNum' /\ final'.renamed = FALSE
            /\ pc' \in {"pull", "checkout", "branch"} => LastTagged'
            /\ pc' \in {"next", "record", "rebase"} => TakenBack'
            /\ pc' = "pushed" => LastNum' = synced'
        BY ONLY <2>2, <2>4, <2>7, <2>8, <3>1, <3>3
      <3>7. /\ pc' \in {"reset", "rollback"} =>
                  head' = "master" /\ files' = Ours' /\ index' = Ours' /\ have' = Fresh'
            /\ pc' = "reset" => ~unmerged'
            /\ pc' \in {"rollback", "clean up"} => master' \subseteq tags'[synced']
            /\ pc' = "clean up" => RolledBack'
        BY ONLY <1>12, <2>9, <3>1, <3>4
      <3> QED BY ONLY <3>5, <3>6, <3>7, Zenon DEF Pushes, PushSteps
    <2>11. Lines'
      <3> SUFFICES ASSUME pc' \notin {"reset", "rollback", "clean up"} PROVE Lines'
        BY DEF Lines
      <3>1. /\ pc' = pc /\ revs' = revs /\ pushing' = pushing /\ master' = master
        BY <1>2 DEF workVars
      <3>2. /\ Rising /\ clone[pushing] # {} /\ ToMerge = clone[pushing] \ master
            /\ \A k \in 1..Len(revs) : revs[k].id \in ToMerge /\ revs[k].plus =>
                  \A j \in master \ clone[pushing] : commits[j] # commits[revs[k].id]
        BY <2>1, <3>1, Zenon DEF Lines
      <3>3. Rising' = Rising /\ ToMerge' = ToMerge BY <3>1 DEF Rising, ToMerge
      <3>4. clone'[pushing] = clone[pushing]
        <4>1. pushing \in Push \ {p} BY <1>1, <1>15, <3>2, TypeFacts DEF RestTyped
        <4> QED BY <1>6, <4>1
      <3>5. \A k \in 1..Len(revs) : revs[k].id \in 1..Len(commits)
        BY TypeFacts DEF RefsTyped
      <3>6. \A j \in master : commits'[j] = commits[j] BY <1>4, MirrorFacts
      <3>7. \A k \in 1..Len(revs) : commits'[revs[k].id] = commits[revs[k].id]
        BY <1>4, <3>5
      <3>8. \A k \in 1..Len(revs) : revs[k].id \in ToMerge /\ revs[k].plus =>
                \A j \in master \ clone[pushing] : commits'[j] # commits'[revs[k].id]
        BY ONLY <3>2, <3>6, <3>7
      <3> QED BY ONLY <3>1, <3>2, <3>3, <3>4, <3>8, Zenon DEF Lines
    <2>12. Phase' BY <1>2, <1>3, <1>15, <2>10, <2>11 DEF Phase, workVars
    <2> QED BY <1>7, <1>9, <1>10, <1>11, <2>12 DEF Mirrors
  <1> QED BY <1>14, <1>15

-----------------------------------------------------------------------------
(* The theorem                                                              *)

LEMMA MirrorsStep ==
    ASSUME TypeInv, TypeInv', Mirrors, Calm, [Next]_vars
    PROVE  Mirrors'
  <1>1. CASE Pull
    BY <1>1, MirrorsStartPull, MirrorsCheckout, MirrorsBranch, MirrorsNext, MirrorsSync,
       MirrorsStage, MirrorsCommit, MirrorsTagChange, MirrorsRecord, MirrorsRebase
    DEF Pull
  <1>2. CASE PushThrough
    BY <1>2, MirrorsNoRequest, MirrorsStartPush, MirrorsMerge, MirrorsOpen, MirrorsSubmit,
       MirrorsTagPush, MirrorsNextRev, MirrorsReset, MirrorsRevert, MirrorsResetFiles
    DEF PushThrough
  <1>3. CASE People BY <1>3, MirrorsUser, MirrorsClone DEF People
  <1>4. CASE CommandFails \/ Crash
    <2>1. "pump fails" \notin Rare /\ "crash" \notin Rare BY DEF Calm
    <2> QED BY <1>4, <2>1 DEF CommandFails, Crash
  <1>5. CASE UNCHANGED vars
    <2>1. UNCHANGED <<p4Vars, refVars, diskVars, synced, pc, workVars, userVars>>
      BY <1>5 DEF vars
    <2> USE <2>1 DEF p4Vars, refVars, diskVars, workVars, userVars
    <2>2. /\ Fresh' = Fresh /\ Ours' = Ours /\ Pulled' = Pulled /\ Idle' = Idle
          /\ DepotHead' = DepotHead /\ LastNum' = LastNum /\ Behind' = Behind
          /\ CurrentFiles' = CurrentFiles /\ Tagging' = Tagging /\ Counted' = Counted
          /\ Coming' = Coming /\ Unknown' = Unknown
      BY DEF Fresh, Ours, Pulled, Idle, DepotHead, LastNum, Behind, CurrentFiles, Tagging,
             Counted, Coming, DepotAt, Unknown
    <2>3. Raced' = Raced /\ Alone' = Alone /\ LastTagged' = LastTagged
      BY <2>2 DEF Raced, Alone, LastTagged, HasTag
    <2>4. Linked' /\ TagsExact' /\ TagsOrUsers' /\ TagsTaken'
      <3>1. Linked' /\ TagsExact' BY DEF Mirrors, Linked, TagsExact
      <3>2. TagsOrUsers' BY <2>2 DEF Mirrors, TagsOrUsers, ByUser
      <3>3. TagsTaken' BY <2>2, Zenon DEF Mirrors, TagsTaken
      <3> QED BY <3>1, <3>2, <3>3
    <2>5. Resting' = Resting /\ Taking' = Taking /\ Exact' = Exact
      BY <2>2 DEF Resting, Taking, Drawn, Exact, At, HasTag
    <2>6. MergedOne' = MergedOne /\ Sent' = Sent /\ RolledBack' = RolledBack
      BY <2>2, <2>3 DEF MergedOne, Sent, RolledBack, At
    <2>7. TakenBack' = TakenBack BY <2>2, <2>3 DEF TakenBack, At
    <2>8. Pushes' = Pushes
      BY <2>2, <2>3, <2>5, <2>6, <2>7 DEF Pushes
    <2>9. Lines' = Lines
      <3>1. Rising' = Rising /\ ToMerge' = ToMerge BY DEF Rising, ToMerge
      <3> QED BY <3>1, Zenon DEF Lines
    <2>10. Phase' BY <2>5, <2>8, <2>9 DEF Mirrors, Phase
    <2> QED BY <2>4, <2>10 DEF Mirrors
  <1> QED BY <1>1, <1>2, <1>3, <1>4, <1>5 DEF Next

LEMMA MirrorsGive ==
    ASSUME TypeInv, Mirrors
    PROVE  MirrorExact
  <1> SUFFICES ASSUME pc = "pop"
               PROVE  /\ Tree(master) = DepotAt(synced)
                      /\ files = Tree(master) /\ index = files
                      /\ have = files
                      /\ pending = 0 /\ opened = {} /\ ~unmerged
    BY DEF MirrorExact
  <1>1. Phase BY DEF Mirrors
  <1>2. pushing = None BY <1>1 DEF Phase, Pushes, PushSteps
  <1>3. Exact BY <1>1, <1>2 DEF Phase
  <1>4. Ours = Fresh BY <1>3 DEF Exact, Ours, Fresh
  <1>5. PICK j \in DOMAIN depot : depot[j].num = synced /\ depot[j].tree = Fresh
    BY MirrorFacts
  <1>6. DepotAt(synced) = Fresh BY <1>5, DepotAtIs, MirrorFacts
  <1>7. Tree(master) = Ours BY MirrorFacts
  <1> QED BY <1>3, <1>4, <1>6, <1>7 DEF Exact, Idle, At

\* In a calm run the mirror is exact after every pull of the loop: what the pump's
\* rebase, the merges of pushes, the submits and the rollbacks do with master, the
\* index, the files and the workspace comes to nothing but the depot as of the
\* changelist on record.
THEOREM MirrorIsExact == Spec => []MirrorExact
  <1>1. CASE Calm
    <2>1. Init => Mirrors BY MirrorsInit
    <2>2. TypeInv /\ TypeInv' /\ Mirrors /\ [Next]_vars => Mirrors' BY <1>1, MirrorsStep
    <2>3. TypeInv /\ Mirrors => MirrorExact BY MirrorsGive
    <2>4. Spec => []TypeInv BY TypeAlways
    <2> QED BY <2>1, <2>2, <2>3, <2>4, PTL DEF Spec
  <1>2. CASE ~Calm
    <2>1. Init => MirrorExact BY <1>2 DEF MirrorExact
    <2>2. MirrorExact /\ [Next]_vars => MirrorExact' BY <1>2 DEF MirrorExact
    <2> QED BY <2>1, <2>2, PTL DEF Spec
  <1> QED BY <1>1, <1>2
=============================================================================
