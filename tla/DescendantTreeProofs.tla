------------------------ MODULE DescendantTreeProofs ------------------------
(***************************************************************************)
(* Proofs about DescendantTree for every finite set of entries, every      *)
(* bound on the decision level and every bound on the clock.               *)
(***************************************************************************)
EXTENDS DescendantTree, FiniteSetTheorems, WellFoundedInduction, TLAPS

USE BoundAssumption

(* The inductive invariant.  CleanIsExact is not part of it: it follows    *)
(* from the tree and the split times, by the argument of lemma Exact.      *)
IInv == TypeOK /\ TreeOK /\ StackEntriesKept /\ LevelsOK

(* Initially the root is alone and no branch has split.                    *)
LEMMA InitIInv == Init => IInv
<1> SUFFICES ASSUME Init PROVE IInv
  OBVIOUS
<1>1. TypeOK
  BY IdAssumption DEF Init, TypeOK, Levels
<1>2. Pinned = {Root}
  BY DEF Init, Pinned
<1>3. TreeOK /\ StackEntriesKept
  BY <1>2, IdAssumption DEF Init, TreeOK, StackEntriesKept
<1>4. LevelsOK
  BY IdAssumption DEF Init, LevelsOK, Levels
<1> QED
  BY <1>1, <1>3, <1>4 DEF IInv

(* The component a decision splits is on the component stack.              *)
LEMMA SuperPinned ==
  ASSUME IInv, NEW k \in 0 .. depth
  PROVE  super[k] \in Pinned
<1>1. CASE k = 0
  BY <1>1 DEF IInv, LevelsOK, Pinned
<1>2. CASE k # 0
  <2>1. k \in 1 .. depth /\ k - 1 \in Levels
    BY <1>2 DEF IInv, TypeOK, Levels
  <2>2. super[k] \in pending[k - 1]
    BY <2>1 DEF IInv, LevelsOK
  <2> QED
    BY <2>1, <2>2 DEF Pinned
<1> QED
  BY <1>1, <1>2

(* Every decision but the top one has split, in the past.                  *)
LEMMA SplitTimePast ==
  ASSUME IInv, NEW k \in Levels, k < depth
  PROVE  split[k] < clock
<1>0. LevelsOK
  BY DEF IInv
<1>1. k + 1 \in 1 .. depth /\ (k + 1) - 1 = k
  BY DEF IInv, TypeOK, Levels
<1>2. super[k + 1] \in pending[k]
  <2>1. super[k + 1] \in pending[(k + 1) - 1]
    BY <1>0, <1>1, Zenon DEF LevelsOK
  <2> QED
    BY <1>1, <2>1, Zenon
<1>3. split[k] <= created[super[k + 1]]
  <2>1. ~ (k < k)
    BY DEF Levels
  <2>2. created[super[k + 1]] >= split[k]
    BY <1>0, <1>2, <2>1 DEF LevelsOK
  <2> QED
    BY <2>2, <1>2 DEF IInv, TypeOK
<1>4. super[k + 1] \in live
  BY <1>2 DEF IInv, StackEntriesKept, Pinned
<1>5. created[super[k + 1]] < clock
  BY <1>4 DEF IInv, TreeOK
<1> QED
  BY <1>3, <1>4, <1>5 DEF IInv, TypeOK

(* A split keeps the invariant: the new entries are younger than anything, *)
(* and nothing on the stack can have been evicted.                         *)
LEMMA SplitIInv ==
  ASSUME IInv,
         NEW p \in Id, NEW E \in SUBSET confirmed, NEW C \in SUBSET Id,
         NEW now \in clock .. MaxTime, NEW stamp \in [C -> clock .. (now - 1)],
         Split(p, C, E, now, stamp)
  PROVE  IInv'
<1> DEFINE Kept == live \ E
<1>0. /\ p \in Pinned /\ p \in Kept /\ Root \in Kept /\ Pinned \subseteq Kept
      /\ C \cap Kept = {}
  <2>1. p \in Pinned /\ Root \in Pinned
    <3>1. super[depth] \in Pinned /\ depth \in Levels
      BY SuperPinned, SMTT(30) DEF IInv, TypeOK, Levels
    <3> QED
      BY <3>1 DEF Split, Splittable, Pinned
  <2>2. E \cap Pinned = {} /\ C \cap Kept = {}
    BY DEF Split
  <2> QED
    BY <2>1, <2>2 DEF IInv, StackEntriesKept
<1>1. TypeOK'
  <2>1. live' \in SUBSET Id /\ confirmed' \in SUBSET Id /\ clock' \in 1 .. MaxTime
    BY DEF IInv, TypeOK, Split
  <2>2. anc' \in [Id -> SUBSET Id]
    BY <1>0 DEF IInv, TypeOK, Split
  <2>3. created' \in [Id -> Nat]
    BY DEF IInv, TypeOK, Split
  <2>4. split' \in [Levels -> 0 .. MaxTime] /\ pending' \in [Levels -> SUBSET Id]
    BY DEF IInv, TypeOK, Split, SplitTime
  <2> QED
    BY <2>1, <2>2, <2>3, <2>4 DEF IInv, TypeOK, Split
<1>2. \A e \in Kept : e \notin C /\ anc'[e] = anc[e] \ E /\ created'[e] = created[e]
  BY <1>0 DEF IInv, TypeOK, Split
<1>3. \A c \in C : /\ anc'[c] = (anc[p] \cup {p}) \ E
                   /\ created'[c] \in clock .. (now - 1)
  BY DEF IInv, TypeOK, Split
<1>4. live' = Kept \cup C /\ clock' = now /\ now >= clock
  BY DEF IInv, TypeOK, Split
<1>5. TreeOK'
  <2>1. Root \in live' /\ anc'[Root] = {}
    BY <1>0, <1>2, <1>4 DEF IInv, TreeOK
  <2>2. ASSUME NEW e \in Kept
        PROVE  /\ created'[e] < clock'
               /\ e # Root => Root \in anc'[e]
               /\ \A a \in anc'[e] : /\ a \in live'
                                     /\ created'[a] < created'[e]
                                     /\ anc'[a] \subseteq anc'[e]
    <3>1. \A a \in anc'[e] : a \in Kept /\ a \in anc[e]
      BY <1>2 DEF IInv, TreeOK
    <3>2. created'[e] < clock'
      BY <1>2, <1>4 DEF IInv, TypeOK, TreeOK
    <3> QED
      BY <1>0, <1>2, <1>4, <3>1, <3>2 DEF IInv, TreeOK
  <2>3. ASSUME NEW e \in C
        PROVE  /\ created'[e] < clock'
               /\ e # Root => Root \in anc'[e]
               /\ \A a \in anc'[e] : /\ a \in live'
                                     /\ created'[a] < created'[e]
                                     /\ anc'[a] \subseteq anc'[e]
    <3>1. created'[e] < clock' /\ created'[e] >= clock
      BY <1>3, <1>4 DEF IInv, TypeOK
    <3>2. Root \in anc'[e]
      BY <1>0, <1>3 DEF IInv, TreeOK
    <3>3. ASSUME NEW a \in anc'[e]
          PROVE  a \in live' /\ created'[a] < created'[e] /\ anc'[a] \subseteq anc'[e]
      <4>1. a \in Kept /\ (a = p \/ a \in anc[p])
        BY <1>0, <1>3 DEF IInv, TreeOK
      <4>2. anc[a] \subseteq anc[p]
        BY <1>0, <4>1 DEF IInv, TreeOK
      <4>3. created[a] < clock /\ created[a] \in Nat
        BY <4>1 DEF IInv, TypeOK, TreeOK
      <4> QED
        BY <1>2, <1>3, <1>4, <3>1, <4>1, <4>2, <4>3 DEF IInv, TypeOK
    <3> QED
      BY <3>1, <3>2, <3>3
  <2> QED
    BY <1>4, <2>1, <2>2, <2>3 DEF TreeOK
<1>6. Pinned' = Pinned \cup C
  BY DEF IInv, TypeOK, Split, Pinned, Levels
<1>7. StackEntriesKept'
  BY <1>0, <1>4, <1>6 DEF IInv, StackEntriesKept, Split
<1>8. LevelsOK'
  <2>1. /\ \A k \in Levels : k # depth => split'[k] = split[k] /\ pending'[k] = pending[k]
        /\ depth \in Levels /\ depth' = depth /\ super' = super
        /\ pending'[depth] = pending[depth] \cup C
        /\ split'[depth] = IF split[depth] = MaxTime THEN clock ELSE split[depth]
    BY DEF IInv, TypeOK, Split, SplitTime
  <2>2. split'[depth] <= clock /\ split'[depth] \in Nat
    <3>1. split[depth] = MaxTime \/ split[depth] <= clock
      BY <2>1 DEF IInv, LevelsOK
    <3>2. clock \in Nat /\ split[depth] \in Nat
      BY <2>1 DEF IInv, TypeOK
    <3> QED
      BY <2>1, <3>1, <3>2
  <2>7. \A q \in pending[depth] : created[q] >= split[depth] /\ q \in Kept
    <3>1. ~ (depth < depth)
      BY <2>1 DEF Levels
    <3> QED
      BY <1>0, <2>1, <3>1 DEF IInv, LevelsOK, Pinned
  <2>8. ASSUME NEW q \in pending[depth] PROVE split'[depth] = split[depth]
    <3>1. created[q] < clock /\ clock <= MaxTime /\ created[q] \in Nat /\ split[depth] \in Nat
      BY <2>1, <2>7 DEF IInv, TypeOK, TreeOK
    <3> QED
      BY <2>1, <2>7, <3>1 DEF IInv, TypeOK
  <2>3. /\ super'[0] = Root
        /\ \A k \in 1 .. depth' : super'[k] \in pending'[k - 1]
    <3>1. super'[0] = Root
      BY <2>1 DEF IInv, LevelsOK
    <3>2. ASSUME NEW k \in 1 .. depth PROVE super[k] \in pending'[k - 1]
      <4>1. k - 1 \in Levels /\ k - 1 # depth
        BY <2>1, BoundAssumption DEF Levels
      <4>2. super[k] \in pending[k - 1]
        BY <3>2 DEF IInv, LevelsOK
      <4> QED
        BY <2>1, <4>1, <4>2
    <3> QED
      BY <2>1, <3>1, <3>2
  <2>4. ASSUME NEW k \in Levels
        PROVE  /\ Root \notin pending'[k]
               /\ k > depth' => pending'[k] = {} /\ split'[k] = MaxTime
               /\ split'[k] = MaxTime \/ split'[k] <= clock'
    <3>1. /\ Root \notin pending[k]
          /\ k > depth => pending[k] = {} /\ split[k] = MaxTime
          /\ split[k] = MaxTime \/ split[k] <= clock
      BY DEF IInv, LevelsOK
    <3>2. Root \notin C
      BY <1>0
    <3>3. clock' >= clock /\ clock \in Nat /\ clock' \in Nat /\ split[k] \in Nat
      BY <1>4 DEF IInv, TypeOK
    <3>4. CASE k = depth
      BY <2>1, <2>2, <3>1, <3>2, <3>3, <3>4 DEF Levels
    <3>5. CASE k # depth
      BY <2>1, <3>1, <3>3, <3>5
    <3> QED
      BY <3>4, <3>5
  <2>5. ASSUME NEW j \in Levels, NEW k \in Levels, NEW q \in pending'[j]
        PROVE  IF j < k THEN created'[q] < split'[k] ELSE created'[q] >= split'[k]
    <3>1. j <= depth
      <4>1. j > depth => pending[j] = {}
        BY DEF IInv, LevelsOK
      <4> QED
        BY <2>1, <4>1 DEF Levels
    <3>2. CASE q \in pending[j]
      <4>1. q \in Kept
        BY <1>0, <3>2 DEF Pinned
      <4>2. created'[q] = created[q] /\ created[q] < clock /\ created[q] \in Nat
        BY <1>2, <4>1 DEF IInv, TypeOK, TreeOK
      <4>3. CASE k # depth
        BY <2>1, <3>2, <4>2, <4>3 DEF IInv, LevelsOK
      <4>4. CASE k = depth /\ j < depth
        <5>1. created[q] < split[depth]
          BY <2>1, <3>2, <4>4 DEF IInv, LevelsOK
        <5> QED
          BY <2>1, <4>2, <4>4, <5>1 DEF IInv, TypeOK, Levels
      <4>5. CASE k = depth /\ j = depth
        BY <2>7, <2>8, <3>2, <4>2, <4>5 DEF Levels
      <4>6. j < depth \/ j = depth
        BY <2>1, <3>1 DEF Levels
      <4> QED
        BY <4>3, <4>4, <4>5, <4>6
    <3>3. CASE j = depth /\ q \in C
      <4>1. q \in C /\ created'[q] >= clock /\ created'[q] < MaxTime /\ created'[q] \in Nat
        BY <1>3, <2>1, <3>3 DEF IInv, TypeOK
      <4>2. CASE j < k
        BY <2>1, <3>3, <4>1, <4>2, SMTT(30) DEF IInv, LevelsOK, TypeOK, Levels
      <4>3. CASE k = depth
        BY <2>2, <3>3, <4>1, <4>3, SMTT(30) DEF IInv, TypeOK, Levels
      <4>4. CASE k < depth
        <5>1. split[k] < clock
          BY <4>4, SplitTimePast
        <5>2. ~ (j < k) /\ k # depth /\ split[k] \in Nat /\ clock \in Nat
          BY <2>1, <3>3, <4>4 DEF IInv, TypeOK, Levels
        <5>3. split'[k] = split[k]
          BY <2>1, <5>2
        <5>4. created'[q] >= split[k]
          BY <4>1, <5>1, <5>2
        <5> QED
          BY <5>2, <5>3, <5>4
      <4> QED
        BY <3>3, <4>2, <4>3, <4>4 DEF Levels
    <3> QED
      BY <2>1, <3>2, <3>3
  <2>6. ASSUME NEW k \in Levels, NEW e \in live', created'[e] >= split'[k]
        PROVE  /\ super'[k] \in anc'[e]
               /\ \A a \in anc'[e] : super'[k] \in anc'[a] => created'[a] >= split'[k]
    <3>0. super[k] \notin E \/ k > depth
      BY <1>0, <2>1, SuperPinned DEF Levels
    <3>1. CASE e \in Kept
      <4>1. created[e] < clock /\ created[e] \in Nat /\ created'[e] = created[e]
        BY <1>2, <3>1 DEF IInv, TypeOK, TreeOK
      <4>2. created[e] >= split[k]
        BY <2>1, <2>6, <4>1 DEF IInv, TypeOK
      <4>3. k <= depth
        <5>1. k > depth => split[k] = MaxTime
          BY DEF IInv, LevelsOK
        <5>2. clock <= MaxTime /\ clock \in Nat /\ MaxTime \in Nat
          BY BoundAssumption DEF IInv, TypeOK
        <5>3. split[k] # MaxTime
          BY <4>1, <4>2, <5>2
        <5> QED
          BY <5>1, <5>3, <2>1 DEF Levels
      <4>4. split'[k] = split[k]
        BY <2>1, <2>6, <4>1, <4>2 DEF IInv, TypeOK
      <4>5. /\ super[k] \in anc[e]
            /\ \A a \in anc[e] : super[k] \in anc[a] => created[a] >= split[k]
        BY <3>1, <4>2 DEF IInv, LevelsOK
      <4>6. \A a \in anc'[e] : /\ a \in anc[e] /\ anc'[a] \subseteq anc[a]
                               /\ created'[a] = created[a]
        BY <1>2, <3>1 DEF IInv, TreeOK
      <4> QED
        BY <1>2, <2>1, <3>0, <3>1, <4>3, <4>4, <4>5, <4>6 DEF Levels
    <3>2. CASE e \in C
      <4>1. k <= depth
        <5>1. k > depth => split[k] = MaxTime /\ split'[k] = split[k]
          BY <2>1 DEF IInv, LevelsOK, Levels
        <5>2. created'[e] < MaxTime /\ created'[e] \in Nat /\ MaxTime \in Nat
          BY <1>3, <3>2, BoundAssumption DEF IInv, TypeOK
        <5>3. ~ (k > depth)
          BY <2>6, <5>1, <5>2
        <5> QED
          BY <2>1, <5>3 DEF Levels
      <4>2. \A a \in anc'[e] : /\ a = p \/ a \in anc[p]
                               /\ a \in Kept
                               /\ anc'[a] \subseteq anc[a]
                               /\ created'[a] = created[a]
        BY <1>0, <1>2, <1>3, <3>2 DEF IInv, TreeOK
      <4>3. CASE k = depth /\ p = super[depth]
        <5>1. \A a \in anc'[e] : p \notin anc[a]
          <6> SUFFICES ASSUME NEW a \in anc'[e], p \in anc[a] PROVE FALSE
            OBVIOUS
          <6>1. p \in anc[p]
            BY <1>0, <4>2 DEF IInv, TreeOK
          <6> QED
            BY <1>0, <6>1 DEF IInv, TreeOK, TypeOK
        <5> QED
          BY <1>0, <1>3, <2>1, <3>2, <4>2, <4>3, <5>1
      <4>4. CASE k < depth \/ p \in pending[depth]
        <5>1. created[p] >= split[k]
          <6>1. CASE p \in pending[depth]
            BY <2>1, <4>1, <6>1 DEF IInv, LevelsOK, Levels
          <6>2. CASE k < depth /\ p = super[depth]
            <7>1. depth - 1 \in Levels /\ k <= depth - 1 /\ depth \in 1 .. depth
              BY <2>1, <6>2 DEF Levels
            <7>2. p \in pending[depth - 1]
              BY <6>2, <7>1, <2>1 DEF IInv, LevelsOK, Levels
            <7> QED
              BY <7>1, <7>2 DEF IInv, LevelsOK, Levels
          <6> QED
            BY <4>4, <6>1, <6>2 DEF Split, Splittable
        <5>2. split'[k] = split[k]
          BY <2>1, <2>8, <4>1, <4>4 DEF Levels
        <5>3. /\ super[k] \in anc[p]
              /\ \A a \in anc[p] : super[k] \in anc[a] => created[a] >= split[k]
          BY <1>0, <5>1 DEF IInv, LevelsOK
        <5> QED
          BY <1>3, <2>1, <3>0, <3>2, <4>1, <4>2, <5>1, <5>2, <5>3 DEF Levels
      <4>5. k < depth \/ k = depth
        BY <2>1, <4>1 DEF Levels
      <4>6. p = super[depth] \/ p \in pending[depth]
        BY DEF Split, Splittable
      <4> QED
        BY <4>3, <4>4, <4>5, <4>6
    <3> QED
      BY <1>4, <3>1, <3>2
  <2> QED
    BY <2>3, <2>4, <2>5, <2>6 DEF LevelsOK
<1> QED
  BY <1>1, <1>5, <1>7, <1>8 DEF IInv

(* A new decision takes over a component of the decision below: its split  *)
(* time is still unset, so nothing is claimed of the entries.              *)
LEMMA PushIInv ==
  ASSUME IInv, NEW p \in Id, PushDecision(p)
  PROVE  IInv'
<1>1. TypeOK'
  BY DEF IInv, TypeOK, PushDecision, treeVars, Levels
<1>2. TreeOK' /\ StackEntriesKept'
  BY DEF IInv, TreeOK, StackEntriesKept, Pinned, PushDecision, treeVars
<1>3. LevelsOK'
  <2>1. depth \in Levels /\ depth' = depth + 1 /\ depth + 1 \in Levels
    BY DEF IInv, TypeOK, PushDecision, Levels
  <2>2. \A k \in Levels : super'[k] = IF k = depth + 1 THEN p ELSE super[k]
    BY DEF IInv, TypeOK, PushDecision
  <2>3. super'[0] = Root /\ \A k \in 1 .. depth' : super'[k] \in pending'[k - 1]
    BY <2>1, <2>2 DEF IInv, LevelsOK, PushDecision, Levels
  <2>4. ASSUME NEW k \in Levels, NEW e \in live', created'[e] >= split'[k]
        PROVE  /\ super'[k] \in anc'[e]
               /\ \A a \in anc'[e] : super'[k] \in anc'[a] => created'[a] >= split'[k]
    <3>1. k # depth + 1
      <4>1. created[e] < clock /\ clock <= MaxTime /\ created[e] \in Nat
        BY DEF IInv, TypeOK, TreeOK, PushDecision, treeVars
      <4>2. split[depth + 1] = MaxTime
        BY <2>1 DEF IInv, LevelsOK, Levels
      <4> QED
        BY <2>4, <4>1, <4>2 DEF IInv, TypeOK, PushDecision, treeVars
    <3> QED
      BY <2>2, <2>4, <3>1 DEF IInv, LevelsOK, PushDecision, treeVars
  <2> QED
    BY <2>1, <2>3, <2>4 DEF IInv, LevelsOK, PushDecision, treeVars, Levels
<1> QED
  BY <1>1, <1>2, <1>3 DEF IInv

(* Changing the branch forgets its split time.                             *)
LEMMA ChangeIInv ==
  ASSUME IInv, ChangeBranch
  PROVE  IInv'
<1>1. TypeOK'
  BY DEF IInv, TypeOK, ChangeBranch, treeVars
<1>2. TreeOK' /\ StackEntriesKept'
  BY DEF IInv, TreeOK, StackEntriesKept, Pinned, ChangeBranch, treeVars
<1>3. LevelsOK'
  <2>1. \A k \in Levels : split'[k] = IF k = depth THEN MaxTime ELSE split[k]
    BY DEF IInv, TypeOK, ChangeBranch
  <2>2. \A e \in live : created[e] \in Nat /\ created[e] < MaxTime
    BY DEF IInv, TypeOK, TreeOK
  <2>3. \A j \in Levels : \A q \in pending[j] : q \in live
    BY DEF IInv, StackEntriesKept, Pinned
  <2>4. /\ super' = super /\ pending' = pending /\ live' = live /\ anc' = anc
        /\ created' = created /\ clock' = clock /\ depth' = depth
        /\ pending[depth] = {}
    BY DEF ChangeBranch, treeVars
  <2>5. \A j, k \in Levels : \A q \in pending'[j] :
          IF j < k THEN created'[q] < split'[k] ELSE created'[q] >= split'[k]
    <3> SUFFICES ASSUME NEW j \in Levels, NEW k \in Levels, NEW q \in pending[j]
                 PROVE  IF j < k THEN created[q] < split'[k] ELSE created[q] >= split'[k]
      BY <2>4
    <3>1. CASE k = depth
      <4>1. j < depth
        <5>1. ~ (j > depth) /\ j # depth
          BY <2>4 DEF IInv, LevelsOK
        <5> QED
          BY <5>1 DEF IInv, TypeOK, Levels
      <4> QED
        BY <2>1, <2>2, <2>3, <3>1, <4>1
    <3>2. CASE k # depth
      BY <2>1, <3>2 DEF IInv, LevelsOK
    <3> QED
      BY <3>1, <3>2
  <2>6. ASSUME NEW k \in Levels, NEW e \in live', created'[e] >= split'[k]
        PROVE  /\ super'[k] \in anc'[e]
               /\ \A a \in anc'[e] : super'[k] \in anc'[a] => created'[a] >= split'[k]
    <3>1. k # depth
      BY <2>1, <2>2, <2>4, <2>6
    <3> QED
      BY <2>1, <2>4, <2>6, <3>1 DEF IInv, LevelsOK
  <2> QED
    BY <2>1, <2>4, <2>5, <2>6 DEF IInv, LevelsOK
<1> QED
  BY <1>1, <1>2, <1>3 DEF IInv

(* A component is on the component stack once.                             *)
LEMMA PendingDisjoint ==
  ASSUME IInv, NEW j \in Levels, NEW k \in Levels, j # k
  PROVE  pending[j] \cap pending[k] = {}
<1>0. LevelsOK
  BY DEF IInv
<1> SUFFICES ASSUME NEW q \in pending[j], q \in pending[k] PROVE FALSE
  OBVIOUS
<1>1. q \in Id /\ created[q] \in Nat /\ split[j] \in Nat /\ split[k] \in Nat
  BY DEF IInv, TypeOK
<1>2. CASE j < k
  <2>1. ~ (k < k)
    BY DEF Levels
  <2>2. created[q] < split[k] /\ created[q] >= split[k]
    BY <1>0, <1>2, <2>1 DEF LevelsOK
  <2> QED
    BY <1>1, <2>2
<1>3. CASE k < j
  <2>1. ~ (j < j)
    BY DEF Levels
  <2>2. created[q] < split[j] /\ created[q] >= split[j]
    BY <1>0, <1>3, <2>1 DEF LevelsOK
  <2> QED
    BY <1>1, <2>2
<1> QED
  BY <1>2, <1>3 DEF Levels

(* The split times order the stack also after components have left it and  *)
(* the top branch has lost its split time.                                 *)
LEMMA OrderKept ==
  ASSUME IInv,
         NEW pend \in [Levels -> SUBSET Id], \A k \in Levels : pend[k] \subseteq pending[k],
         NEW spl \in [Levels -> 0 .. MaxTime],
         pend[depth] = {}, \A k \in Levels : spl[k] = IF k = depth THEN MaxTime ELSE split[k]
  PROVE  /\ \A j, k \in Levels : \A q \in pend[j] :
              IF j < k THEN created[q] < spl[k] ELSE created[q] >= spl[k]
         /\ \A k \in Levels : \A e \in live : created[e] >= spl[k] =>
              /\ k # depth
              /\ super[k] \in anc[e]
              /\ \A a \in anc[e] : super[k] \in anc[a] => created[a] >= spl[k]
<1>0. LevelsOK
  BY DEF IInv
<1>1. \A e \in live : created[e] \in Nat /\ created[e] < MaxTime
  BY DEF IInv, TypeOK, TreeOK
<1>2. ASSUME NEW j \in Levels, NEW k \in Levels, NEW q \in pend[j]
      PROVE  IF j < k THEN created[q] < spl[k] ELSE created[q] >= spl[k]
  <2>1. q \in pending[j] /\ q \in live
    BY DEF IInv, StackEntriesKept, Pinned
  <2>2. CASE k = depth
    <3>1. ~ (j > depth) /\ j # depth
      BY <1>0, <2>1 DEF LevelsOK
    <3>2. j < depth
      BY <3>1 DEF IInv, TypeOK, Levels
    <3> QED
      BY <1>1, <2>1, <2>2, <3>2
  <2>3. CASE k # depth
    BY <1>0, <2>1, <2>3 DEF LevelsOK
  <2> QED
    BY <2>2, <2>3
<1>3. ASSUME NEW k \in Levels, NEW e \in live, created[e] >= spl[k]
      PROVE  /\ k # depth
             /\ super[k] \in anc[e]
             /\ \A a \in anc[e] : super[k] \in anc[a] => created[a] >= spl[k]
  <2>1. k # depth
    BY <1>1, <1>3
  <2> QED
    BY <1>0, <1>3, <2>1 DEF LevelsOK
<1> QED
  BY <1>2, <1>3

(* When a decision ends its component leaves the stack, so nothing above   *)
(* the decision below is left.                                             *)
LEMMA PopIInv ==
  ASSUME IInv, NEW stored \in BOOLEAN, PopDecision(stored)
  PROVE  IInv'
<1> DEFINE p == super[depth]
<1>0. LevelsOK /\ depth \in Levels /\ depth - 1 \in Levels /\ depth # depth - 1
  BY DEF IInv, TypeOK, PopDecision, Levels
<1>1. p \in pending[depth - 1] /\ p \in live /\ p # Root
  <2>1. depth \in 1 .. depth
    BY <1>0 DEF PopDecision, Levels
  <2>2. p \in pending[depth - 1]
    BY <1>0, <2>1, Zenon DEF LevelsOK
  <2> QED
    BY <1>0, <2>2 DEF LevelsOK, IInv, StackEntriesKept, Pinned
<1>2. /\ \A k \in Levels : /\ pending'[k] = IF k = depth - 1 THEN pending[k] \ {p} ELSE pending[k]
                           /\ split'[k] = IF k = depth THEN MaxTime ELSE split[k]
                           /\ super'[k] = IF k = depth THEN Root ELSE super[k]
      /\ pending[depth] = {} /\ depth' = depth - 1
      /\ live' = live /\ anc' = anc /\ created' = created
  BY DEF IInv, TypeOK, PopDecision, treeVars
<1>3. clock' \in 1 .. MaxTime /\ clock' >= clock
  BY DEF IInv, TypeOK, PopDecision
<1>4. TypeOK'
  BY <1>0, <1>1, <1>3, IdAssumption DEF IInv, TypeOK, PopDecision, treeVars
<1>5. TreeOK'
  BY <1>2, <1>3 DEF IInv, TypeOK, TreeOK
<1>6. StackEntriesKept'
  <2>1. Pinned' \subseteq Pinned \ {p}
    <3> SUFFICES ASSUME NEW q \in Pinned', q # Root PROVE q \in Pinned \ {p}
      BY <1>1 DEF Pinned
    <3>1. PICK k \in Levels : q \in pending'[k]
      BY DEF Pinned
    <3>2. q \in pending[k]
      BY <1>2, <3>1
    <3>3. q # p
      BY <1>0, <1>1, <1>2, <3>1, PendingDisjoint
    <3> QED
      BY <3>2, <3>3 DEF Pinned
  <2>2. confirmed' \subseteq confirmed \cup {p}
    BY DEF PopDecision
  <2> QED
    BY <1>1, <1>2, <2>1, <2>2, <1>0 DEF IInv, StackEntriesKept, Pinned
<1>7. LevelsOK'
  <2>1. /\ super'[0] = Root
        /\ \A k \in 1 .. depth' : super'[k] \in pending'[k - 1]
    <3>0. 0 \in Levels /\ 0 # depth
      BY <1>0 DEF Levels
    <3>1. super'[0] = Root
      BY <1>0, <1>2, <3>0 DEF LevelsOK
    <3>2. ASSUME NEW k \in 1 .. depth' PROVE super'[k] \in pending'[k - 1]
      <4>1. k \in 1 .. depth /\ k \in Levels /\ k # depth /\ k - 1 # depth - 1 /\ k - 1 \in Levels
        BY <1>0, <1>2 DEF Levels
      <4>2. super[k] \in pending[k - 1]
        BY <1>0, <4>1, Zenon DEF LevelsOK
      <4> QED
        BY <1>2, <4>1, <4>2
    <3> QED
      BY <3>1, <3>2
  <2>2. \A k \in Levels : pending'[k] \subseteq pending[k]
    BY <1>2
  <2>3. pending'[depth] = {} /\ pending' \in [Levels -> SUBSET Id] /\ split' \in [Levels -> 0 .. MaxTime]
    BY <1>0, <1>2, <1>4 DEF TypeOK
  <2>4. /\ \A j, k \in Levels : \A q \in pending'[j] :
             IF j < k THEN created[q] < split'[k] ELSE created[q] >= split'[k]
        /\ \A k \in Levels : \A e \in live : created[e] >= split'[k] =>
             /\ k # depth
             /\ super[k] \in anc[e]
             /\ \A a \in anc[e] : super[k] \in anc[a] => created[a] >= split'[k]
    BY <1>2, <2>2, <2>3, OrderKept
  <2>5. ASSUME NEW k \in Levels
        PROVE  /\ Root \notin pending'[k]
               /\ k > depth' => pending'[k] = {} /\ split'[k] = MaxTime
               /\ split'[k] = MaxTime \/ split'[k] <= clock'
    <3>1. Root \notin pending'[k]
      BY <1>0, <2>2 DEF LevelsOK
    <3>2. k > depth' => k = depth \/ k > depth
      BY <1>0, <1>2 DEF Levels
    <3>3. k > depth' => pending'[k] = {} /\ split'[k] = MaxTime
      BY <1>0, <1>2, <2>2, <3>2 DEF LevelsOK
    <3>4. split[k] = MaxTime \/ split[k] <= clock
      BY <1>0 DEF LevelsOK
    <3>5. split'[k] = MaxTime \/ split'[k] <= clock'
      <4>1. split'[k] = MaxTime \/ split'[k] = split[k]
        BY <1>2
      <4>2. split[k] \in Nat /\ clock \in Nat /\ clock' \in Nat
        BY <1>3 DEF IInv, TypeOK
      <4> QED
        BY <1>3, <3>4, <4>1, <4>2
    <3> QED
      BY <3>1, <3>3, <3>5
  <2>6. \A k \in Levels : \A e \in live' : created'[e] >= split'[k] =>
          /\ super'[k] \in anc'[e]
          /\ \A a \in anc'[e] : super'[k] \in anc'[a] => created'[a] >= split'[k]
    BY <1>2, <2>4
  <2>7. \A j, k \in Levels : \A q \in pending'[j] :
          IF j < k THEN created'[q] < split'[k] ELSE created'[q] >= split'[k]
    BY <1>2, <2>4
  <2> QED
    BY <2>1, <2>5, <2>6, <2>7 DEF LevelsOK
<1> QED
  BY <1>4, <1>5, <1>6, <1>7 DEF IInv

(* A satisfiable component without projection variables leaves the stack   *)
(* with its result.                                                        *)
LEMMA ConfirmIInv ==
  ASSUME IInv, NEW p \in Id, ConfirmSatisfiable(p)
  PROVE  IInv'
<1>0. LevelsOK /\ depth \in Levels
  BY DEF IInv, TypeOK
<1>1. p \in pending[depth] /\ p \in live /\ p # Root
  BY <1>0 DEF ConfirmSatisfiable, LevelsOK, IInv, StackEntriesKept, Pinned
<1>2. /\ \A k \in Levels : pending'[k] = IF k = depth THEN pending[k] \ {p} ELSE pending[k]
      /\ split' = split /\ super' = super /\ depth' = depth
      /\ live' = live /\ anc' = anc /\ created' = created
      /\ clock' = clock + 1 /\ clock' \in 1 .. MaxTime /\ clock \in Nat
  <2>1. clock' = clock + 1 /\ clock' \in 1 .. MaxTime /\ clock \in Nat
    BY DEF IInv, TypeOK, ConfirmSatisfiable
  <2>2. \A k \in Levels : pending'[k] = IF k = depth THEN pending[k] \ {p} ELSE pending[k]
    BY DEF IInv, TypeOK, ConfirmSatisfiable
  <2> QED
    BY <2>1, <2>2 DEF ConfirmSatisfiable, treeVars
<1>3. TypeOK'
  BY <1>2 DEF IInv, TypeOK, ConfirmSatisfiable
<1>4. TreeOK'
  BY <1>2 DEF IInv, TypeOK, TreeOK
<1>5. \A k \in Levels : pending'[k] \subseteq pending[k]
  BY <1>2
<1>6. StackEntriesKept'
  <2>1. Pinned' \subseteq Pinned \ {p}
    <3> SUFFICES ASSUME NEW q \in Pinned', q # Root PROVE q \in Pinned \ {p}
      BY <1>1 DEF Pinned
    <3>1. PICK k \in Levels : q \in pending'[k]
      BY DEF Pinned
    <3>2. q \in pending[k]
      BY <1>2, <3>1
    <3>3. q # p
      BY <1>0, <1>1, <1>2, <3>1, PendingDisjoint
    <3> QED
      BY <3>2, <3>3 DEF Pinned
  <2>2. confirmed' = confirmed \cup {p}
    BY DEF ConfirmSatisfiable
  <2> QED
    BY <1>1, <1>2, <2>1, <2>2 DEF IInv, StackEntriesKept
<1>7. LevelsOK'
  <2>1. ASSUME NEW k \in 1 .. depth PROVE super[k] \in pending'[k - 1]
    <3>1. k - 1 \in Levels /\ k - 1 # depth
      BY <1>0 DEF Levels
    <3>2. super[k] \in pending[k - 1]
      BY <1>0, Zenon DEF LevelsOK
    <3> QED
      BY <1>2, <3>1, <3>2
  <2>2. ASSUME NEW k \in Levels
        PROVE  /\ Root \notin pending'[k]
               /\ k > depth => pending'[k] = {} /\ split[k] = MaxTime
    BY <1>0, <1>5 DEF LevelsOK
  <2>3. ASSUME NEW k \in Levels
        PROVE  split[k] = MaxTime \/ split[k] <= clock'
    <3>1. split[k] = MaxTime \/ split[k] <= clock
      BY <1>0 DEF LevelsOK
    <3>2. split[k] \in Nat
      BY DEF IInv, TypeOK
    <3> QED
      BY <1>2, <3>1, <3>2
  <2>4. \A j, k \in Levels : \A q \in pending'[j] :
          IF j < k THEN created[q] < split[k] ELSE created[q] >= split[k]
    BY <1>0, <1>5 DEF LevelsOK
  <2>5. \A k \in Levels : \A e \in live : created[e] >= split[k] =>
          /\ super[k] \in anc[e]
          /\ \A a \in anc[e] : super[k] \in anc[a] => created[a] >= split[k]
    BY <1>0 DEF LevelsOK
  <2>6. super[0] = Root
    BY <1>0 DEF LevelsOK
  <2> QED
    BY <1>2, <2>1, <2>2, <2>3, <2>4, <2>5, <2>6 DEF LevelsOK
<1> QED
  BY <1>3, <1>4, <1>6, <1>7 DEF IInv

(* The clean of any decision on the stack is exact.  What is created after *)
(* the decision split hangs below the entry of its component; the oldest   *)
(* of the entries between them is a child of that entry stamped since the  *)
(* split.  Conversely whatever hangs below such a child is younger.        *)
LEMMA Exact ==
  ASSUME IInv, NEW k \in 0 .. depth
  PROVE  Descendants(super[k], split[k]) = {e \in live : created[e] >= split[k]}
<1> DEFINE p == super[k]
<1>0. LevelsOK /\ TreeOK /\ k \in Levels /\ split[k] \in Nat
  BY DEF IInv, TypeOK, Levels
<1>1. ASSUME NEW e \in Descendants(p, split[k])
      PROVE  e \in live /\ created[e] >= split[k]
  <2>1. PICK c \in Path(e) : created[c] >= split[k]
    BY <1>1 DEF Descendants
  <2>2. e \in live /\ (c = e \/ c \in anc[e])
    BY <1>1, <2>1 DEF Descendants, Path
  <2>3. c \in live /\ (c = e \/ created[c] < created[e])
    BY <1>0, <2>2 DEF TreeOK
  <2>4. created[c] \in Nat /\ created[e] \in Nat
    BY <2>2, <2>3 DEF IInv, TypeOK
  <2> QED
    BY <1>0, <2>1, <2>2, <2>3, <2>4
<1>2. ASSUME NEW e \in live, created[e] >= split[k]
      PROVE  e \in Descendants(p, split[k])
  <2>1. /\ p \in anc[e]
        /\ \A a \in anc[e] : p \in anc[a] => created[a] >= split[k]
    BY <1>0, <1>2 DEF LevelsOK
  <2> DEFINE Below == {x \in Path(e) : p \in anc[x]}
             Above == {anc[x] : x \in Below}
  <2>2. Above \subseteq FiniteSubsetsOf(Id) /\ Above # {}
    <3>1. \A x \in Below : x \in Id /\ anc[x] \in SUBSET Id
      BY <1>0 DEF Path, TreeOK, IInv, TypeOK
    <3>2. \A S \in SUBSET Id : IsFiniteSet(S)
      BY IdAssumption, FS_Subset
    <3>3. e \in Below
      BY <2>1 DEF Path
    <3> QED
      BY <3>1, <3>2, <3>3 DEF FiniteSubsetsOf
  <2>3. PICK c \in Below : \A x \in Below : ~ (anc[x] \subseteq anc[c] /\ anc[x] # anc[c])
    <3>1. IsWellFoundedOn(StrictSubsetOrdering(Id), FiniteSubsetsOf(Id))
      BY FS_StrictSubsetOrderingWellFounded
    <3>2. PICK m \in Above : \A n \in Above : ~ (<<n, m>> \in StrictSubsetOrdering(Id))
      <4> HIDE DEF Above
      <4> QED
        BY <2>2, <3>1, WFMin, Zenon
    <3>3. PICK c \in Below : anc[c] = m
      BY <3>2
    <3>4. ASSUME NEW x \in Below, anc[x] \subseteq anc[c], anc[x] # anc[c]
          PROVE  FALSE
      <4>1. anc[x] \in Above /\ anc[x] \in SUBSET Id /\ m \in SUBSET Id
        BY <2>2, <3>3 DEF FiniteSubsetsOf
      <4> QED
        BY <3>2, <3>3, <3>4, <4>1 DEF StrictSubsetOrdering
    <3> QED
      BY <3>4
  <2>4. ChildOf(p, c)
    <3> SUFFICES ASSUME NEW b \in anc[c], p \in anc[b] PROVE FALSE
      BY DEF ChildOf
    <3>1. c \in live
      BY <1>0 DEF Path, TreeOK
    <3>2. b \in anc[e] /\ b \in live /\ anc[b] \subseteq anc[c] /\ created[b] \in Nat
      BY <1>0, <3>1 DEF Path, TreeOK, IInv, TypeOK
    <3>3. b \notin anc[b]
      BY <1>0, <3>2 DEF TreeOK
    <3> QED
      BY <2>3, <3>2, <3>3 DEF Path
  <2>5. created[c] >= split[k]
    BY <1>2, <2>1 DEF Path
  <2> QED
    BY <2>4, <2>5 DEF Descendants
<1> QED
  BY <1>1, <1>2 DEF Descendants

(* Cleaning the top branch frees no entry that the stack or the tree still *)
(* needs: those are older than the split of the branch.                    *)
LEMMA CleanIInv ==
  ASSUME IInv, CleanBranch
  PROVE  IInv'
<1> DEFINE gone == {e \in live : created[e] >= split[depth]}
<1>0. LevelsOK /\ TreeOK /\ depth \in Levels /\ split[depth] \in Nat
  BY DEF IInv, TypeOK
<1>1. Descendants(super[depth], split[depth]) = gone
  BY <1>0, Exact DEF Levels
<1>2. /\ live' = live \ gone /\ confirmed' = confirmed \ gone
      /\ anc' = [e \in Id |-> IF e \in gone THEN {} ELSE anc[e]]
      /\ pending' = [pending EXCEPT ![depth] = {}]
      /\ created' = created /\ clock' = clock /\ depth' = depth
      /\ super' = super /\ split' = split /\ second' = second
  BY <1>1 DEF CleanBranch
<1> HIDE DEF gone
<1>3. TypeOK'
  BY <1>2 DEF IInv, TypeOK
<1>4. \A e \in live' : /\ e \in live /\ e \in Id /\ anc'[e] = anc[e]
                       /\ created[e] \in Nat /\ created[e] < split[depth]
  <2>1. \A e \in live : created[e] \in Nat
    BY DEF IInv, TypeOK
  <2> QED
    BY <1>0, <1>2, <2>1 DEF gone, IInv, TypeOK
<1>5. \A e \in live : created[e] < split[depth] => e \in live'
  <2> SUFFICES ASSUME NEW e \in live, created[e] < split[depth], e \in gone PROVE FALSE
    BY <1>2
  <2>1. created[e] \in Nat /\ created[e] >= split[depth]
    BY DEF gone, IInv, TypeOK
  <2> QED
    BY <1>0, <2>1
<1>6. Root \in live'
  <2>1. Root \in live /\ anc[Root] = {} /\ created[Root] \in Nat
    BY <1>0, IdAssumption DEF TreeOK, IInv, TypeOK
  <2>2. ~ (created[Root] >= split[depth])
    BY <1>0, <2>1 DEF LevelsOK
  <2> QED
    BY <1>0, <1>5, <2>1, <2>2
<1>7. TreeOK'
  <2>1. ASSUME NEW e \in live'
        PROVE  /\ created'[e] < clock'
               /\ e # Root => Root \in anc'[e]
               /\ \A a \in anc'[e] : /\ a \in live'
                                     /\ created'[a] < created'[e]
                                     /\ anc'[a] \subseteq anc'[e]
    <3>1. e \in live /\ anc'[e] = anc[e] /\ created[e] \in Nat /\ created[e] < split[depth]
      BY <1>4
    <3>2. ASSUME NEW a \in anc[e]
          PROVE  a \in live' /\ created[a] < created[e] /\ anc'[a] \subseteq anc[e]
      <4>1. a \in live /\ created[a] < created[e] /\ anc[a] \subseteq anc[e]
        BY <1>0, <3>1 DEF TreeOK
      <4>2. created[a] \in Nat
        BY <4>1 DEF IInv, TypeOK
      <4>3. a \in live'
        BY <1>0, <1>5, <3>1, <4>1, <4>2
      <4> QED
        BY <1>4, <4>1, <4>3
    <3> QED
      BY <1>0, <1>2, <3>1, <3>2 DEF TreeOK
  <2>2. anc'[Root] = {}
    BY <1>0, <1>4, <1>6 DEF TreeOK
  <2> QED
    BY <1>6, <2>1, <2>2 DEF TreeOK
<1>8. \A k \in Levels : pending'[k] = IF k = depth THEN {} ELSE pending[k]
  BY <1>2 DEF IInv, TypeOK
<1>9. ASSUME NEW k \in Levels, NEW q \in pending'[k]
      PROVE  q \in live' /\ q \in pending[k]
  <2>1. q \in pending[k] /\ k # depth
    BY <1>8
  <2>2. k < depth
    BY <1>0, <2>1 DEF LevelsOK, Levels
  <2>3. q \in live /\ created[q] < split[depth]
    BY <1>0, <2>1, <2>2 DEF LevelsOK, IInv, StackEntriesKept, Pinned
  <2> QED
    BY <1>5, <2>1, <2>3
<1>10. StackEntriesKept'
  <2>1. Pinned' \subseteq Pinned /\ Pinned' \subseteq live'
    BY <1>6, <1>9 DEF Pinned, Levels
  <2> QED
    BY <1>2, <2>1 DEF IInv, StackEntriesKept
<1>11. LevelsOK'
  <2>1. ASSUME NEW k \in 1 .. depth PROVE super[k] \in pending'[k - 1]
    <3>1. k - 1 \in Levels /\ k - 1 # depth
      BY <1>0 DEF Levels
    <3>2. super[k] \in pending[k - 1]
      BY <1>0, Zenon DEF LevelsOK
    <3> QED
      BY <1>8, <3>1, <3>2
  <2>2. ASSUME NEW k \in Levels
        PROVE  /\ Root \notin pending'[k]
               /\ k > depth => pending'[k] = {} /\ split[k] = MaxTime
               /\ split[k] = MaxTime \/ split[k] <= clock
    BY <1>0, <1>8 DEF LevelsOK
  <2>3. ASSUME NEW j \in Levels, NEW k \in Levels, NEW q \in pending'[j]
        PROVE  IF j < k THEN created[q] < split[k] ELSE created[q] >= split[k]
    BY <1>0, <1>9 DEF LevelsOK
  <2>4. ASSUME NEW k \in Levels, NEW e \in live', created[e] >= split[k]
        PROVE  /\ super[k] \in anc'[e]
               /\ \A a \in anc'[e] : super[k] \in anc'[a] => created[a] >= split[k]
    <3>1. e \in live /\ anc'[e] = anc[e]
      BY <1>4
    <3>2. /\ super[k] \in anc[e]
          /\ \A a \in anc[e] : super[k] \in anc[a] => created[a] >= split[k]
      BY <1>0, <2>4, <3>1 DEF LevelsOK
    <3>3. \A a \in anc'[e] : anc'[a] = anc[a]
      BY <1>4, <1>7 DEF TreeOK
    <3> QED
      BY <3>1, <3>2, <3>3
  <2>5. super[0] = Root
    BY <1>0 DEF LevelsOK
  <2> QED
    BY <1>2, <2>1, <2>2, <2>3, <2>4, <2>5 DEF LevelsOK
<1> QED
  BY <1>3, <1>7, <1>10, <1>11 DEF IInv

(* Every step keeps the invariant.                                         *)
LEMMA NextIInv == IInv /\ [Next]_vars => IInv'
<1> SUFFICES ASSUME IInv, [Next]_vars PROVE IInv'
  OBVIOUS
<1>1. CASE \E p \in Id, E \in SUBSET confirmed, C \in SUBSET Id, now \in clock .. MaxTime :
             \E stamp \in [C -> clock .. (now - 1)] : Split(p, C, E, now, stamp)
  BY <1>1, SplitIInv
<1>2. CASE \E p \in Id : PushDecision(p)
  BY <1>2, PushIInv
<1>3. CASE ChangeBranch
  BY <1>3, ChangeIInv
<1>4. CASE \E stored \in BOOLEAN : PopDecision(stored)
  BY <1>4, PopIInv
<1>5. CASE \E p \in Id : ConfirmSatisfiable(p)
  BY <1>5, ConfirmIInv
<1>6. CASE CleanBranch
  BY <1>6, CleanIInv
<1>7. CASE UNCHANGED vars
  BY <1>7 DEF vars, IInv, TypeOK, TreeOK, StackEntriesKept, Pinned, LevelsOK
<1> QED
  BY <1>1, <1>2, <1>3, <1>4, <1>5, <1>6, <1>7 DEF Next

(* The invariant holds in every reachable state.                           *)
THEOREM Invariance == Spec => []IInv
BY InitIInv, NextIInv, PTL DEF Spec

(* The variables keep their types.                                         *)
THEOREM TypeCorrect == Spec => []TypeOK
<1>1. IInv => TypeOK
  BY DEF IInv
<1> QED
  BY <1>1, Invariance, PTL

(* The tree of descendants is a tree of entries in use, ordered by age.    *)
THEOREM TreeCorrect == Spec => []TreeOK
<1>1. IInv => TreeOK
  BY DEF IInv
<1> QED
  BY <1>1, Invariance, PTL

(* Neither evictIfNeeded() nor removeCachePollutions() ever frees the      *)
(* entry of a component on the component stack, and none of them holds a   *)
(* result.                                                                 *)
THEOREM StackKept == Spec => []StackEntriesKept
<1>1. IInv => StackEntriesKept
  BY DEF IInv
<1> QED
  BY <1>1, Invariance, PTL

(* The split times order what the decisions hold, and everything stamped   *)
(* since a decision split hangs below a child of its component that was.   *)
THEOREM LevelsCorrect == Spec => []LevelsOK
<1>1. IInv => LevelsOK
  BY DEF IInv
<1> QED
  BY <1>1, Invariance, PTL

(* removeCachePollutions() frees what its branch has created, all of it    *)
(* and nothing else, whatever the evictions in between.                    *)
THEOREM CleanCorrect == Spec => []CleanIsExact
<1>1. IInv => CleanIsExact
  BY Exact DEF CleanIsExact
<1> QED
  BY <1>1, Invariance, PTL

(* The next-state relation of the contract as the tree sees it.            *)
LEMMA StepImplements ==
  ASSUME IInv, [Next]_vars
  PROVE  [Contract!Next]_(Contract!vars)
<1>0. LevelsOK /\ depth \in Levels /\ clock \in 1 .. MaxTime
  BY DEF IInv, TypeOK
<1>1. ASSUME NEW p \in Id, NEW E \in SUBSET confirmed, NEW C \in SUBSET Id,
             NEW now \in clock .. MaxTime,
             NEW stamp \in [C -> clock .. (now - 1)], Split(p, C, E, now, stamp)
      PROVE  Contract!Next
  <2>1. Pinned' = Pinned \cup C
    BY <1>1 DEF IInv, TypeOK, Split, Pinned, Levels
  <2>2. E \in SUBSET Id
    BY DEF IInv, TypeOK
  <2>3. Contract!Create(C, E, now, stamp)
    BY <1>1, <2>1 DEF Split, Contract!Create
  <2> QED
    BY <2>2, <2>3 DEF Contract!Next
<1>2. ASSUME \/ \E p \in Id : PushDecision(p)
             \/ ChangeBranch
             \/ UNCHANGED vars
      PROVE  UNCHANGED Contract!vars
  BY <1>2 DEF PushDecision, ChangeBranch, treeVars, vars, Contract!vars, Pinned
<1>3. ASSUME NEW p \in Id, NEW j \in Levels, p \in pending[j], NEW result \in {{}, {p}},
             \A k \in Levels : pending'[k] = IF k = j THEN pending[k] \ {p} ELSE pending[k],
             confirmed' = confirmed \cup result, UNCHANGED <<live, created>>,
             clock' \in {clock, clock + 1}
      PROVE  Contract!Next
  <2>1. p # Root
    BY <1>0, <1>3 DEF LevelsOK
  <2>2. ASSUME NEW k \in Levels PROVE pending'[k] = pending[k] \ {p}
    <3>1. CASE k = j
      BY <1>3, <3>1
    <3>2. CASE k # j
      BY <1>3, <3>2, PendingDisjoint
    <3> QED
      BY <3>1, <3>2
  <2>3. Pinned' = Pinned \ {p}
    BY <2>1, <2>2 DEF Pinned, Levels
  <2>4. p \in Pinned \ {Root}
    BY <1>3, <2>1 DEF Pinned
  <2>5. Contract!Release(p, result)
    BY <1>3, <2>3, <2>4 DEF Contract!Release
  <2> QED
    BY <1>3, <2>5 DEF Contract!Next
<1>4. ASSUME NEW stored \in BOOLEAN, PopDecision(stored)
      PROVE  Contract!Next
  <2>1. depth \in 1 .. depth /\ depth - 1 \in Levels
    BY <1>0, <1>4 DEF PopDecision, Levels
  <2>2. super[depth] \in pending[depth - 1] /\ super[depth] \in Id
    BY <1>0, <2>1, Zenon DEF LevelsOK, IInv, TypeOK
  <2>3. \A k \in Levels : pending'[k] =
          IF k = depth - 1 THEN pending[k] \ {super[depth]} ELSE pending[k]
    BY <1>4, <2>1 DEF IInv, TypeOK, PopDecision
  <2>4. /\ UNCHANGED <<live, created>> /\ clock' \in {clock, clock + 1}
        /\ \E result \in {{}, {super[depth]}} : confirmed' = confirmed \cup result
    BY <1>4 DEF PopDecision, treeVars
  <2> QED
    BY <1>3, <2>1, <2>2, <2>3, <2>4
<1>5. ASSUME NEW p \in Id, ConfirmSatisfiable(p)
      PROVE  Contract!Next
  <2>1. \A k \in Levels : pending'[k] = IF k = depth THEN pending[k] \ {p} ELSE pending[k]
    BY <1>5 DEF IInv, TypeOK, ConfirmSatisfiable
  <2>2. /\ p \in pending[depth] /\ UNCHANGED <<live, created>> /\ clock' \in {clock, clock + 1}
        /\ confirmed' = confirmed \cup {p}
    BY <1>5 DEF ConfirmSatisfiable, treeVars
  <2> QED
    BY <1>0, <1>3, <2>1, <2>2
<1>6. ASSUME CleanBranch
      PROVE  Contract!Next
  <2> DEFINE since == split[depth]
             Old == {e \in live : created[e] < since}
             gone == {e \in live : created[e] >= since}
  <2>1. Descendants(super[depth], since) = gone
    BY <1>0, Exact DEF Levels
  <2>2. since \in 0 .. MaxTime /\ \A e \in live : created[e] \in Nat
    BY <1>0 DEF IInv, TypeOK
  <2>3. since \in 1 .. MaxTime
    <3>1. Root \in live /\ anc[Root] = {}
      BY DEF IInv, TreeOK
    <3>2. ~ (created[Root] >= since)
      BY <1>0, <3>1 DEF LevelsOK
    <3> QED
      BY <2>2, <3>1, <3>2
  <2>4. Old = live \ gone /\ Old \subseteq live
    BY <2>2
  <2>5. /\ live' = Old /\ confirmed' = confirmed \cap Old
        /\ UNCHANGED <<created, clock>>
    BY <1>6, <2>1, <2>4 DEF CleanBranch, IInv, StackEntriesKept
  <2>6. Root \in Old
    BY <1>0, <2>4 DEF IInv, TreeOK, LevelsOK
  <2>7. \A k \in Levels : pending'[k] = IF k = depth THEN {} ELSE pending[k]
    BY <1>6 DEF IInv, TypeOK, CleanBranch
  <2>8. ASSUME NEW k \in Levels
        PROVE  pending'[k] = pending[k] \cap Old
    <3>1. pending[k] \subseteq live
      BY DEF IInv, StackEntriesKept, Pinned
    <3>2. CASE k = depth
      <4>1. ~ (k < depth)
        BY <1>0, <3>2 DEF Levels
      <4>2. \A q \in pending[k] : created[q] >= since
        BY <1>0, <3>2, <4>1 DEF LevelsOK
      <4>3. pending[k] \cap Old = {}
        BY <2>2, <3>1, <4>2
      <4> QED
        BY <2>7, <3>2, <4>3
    <3>3. CASE k < depth
      <4>1. \A q \in pending[k] : created[q] < since
        BY <1>0, <3>3 DEF LevelsOK
      <4>2. k # depth
        BY <1>0, <3>3 DEF Levels
      <4> QED
        BY <2>7, <3>1, <4>1, <4>2
    <3>4. CASE k > depth
      <4>1. pending[k] = {} /\ k # depth
        BY <1>0, <3>4 DEF LevelsOK, Levels
      <4> QED
        BY <2>7, <4>1
    <3> QED
      BY <1>0, <3>2, <3>3, <3>4 DEF Levels
  <2>9. Pinned' = Pinned \cap Old
    BY <2>6, <2>8 DEF Pinned, Levels
  <2>10. Contract!Rollback(since)
    BY <2>5, <2>9 DEF Contract!Rollback
  <2> QED
    BY <2>3, <2>10 DEF Contract!Next
<1> QED
  BY <1>1, <1>2, <1>4, <1>5, <1>6 DEF Next

(* The tree of descendants, with its split times, keeps the promises of    *)
(* the contract: nothing pinned is freed and a rollback is exact.          *)
THEOREM Implements == Spec => ImplementsContract
<1>1. Init => Contract!Init
  BY DEF Init, Contract!Init, Pinned
<1>2. IInv /\ [Next]_vars => [Contract!Next]_(Contract!vars)
  BY StepImplements
<1> QED
  BY <1>1, <1>2, Invariance, PTL DEF Spec, ImplementsContract, Contract!Spec
=============================================================================
