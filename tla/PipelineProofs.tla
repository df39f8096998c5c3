---------------------------- MODULE PipelineProofs ----------------------------
(***************************************************************************)
(* Proofs about the preprocessor: its weights stay total, what             *)
(* detectDefinable() returns is defined by the rest of the projection, and *)
(* no variable is counted twice, for every formula, whatever the solvers   *)
(* find and eliminate.                                                     *)
(***************************************************************************)
EXTENDS Pipeline, Induction

(* Sets of literals: total assignments to the variables V, and those that  *)
(* satisfy the clauses C.                                                  *)
Total(M, V) == M \subseteq Lits(V) /\ \A v \in V : v \in M <=> -v \notin M
Satisfies(M, C) == \A c \in C : c \cap M # {}
Consistent(L) == \A l \in L : -l \notin L
Clausal(C, V) == C \subseteq SUBSET Lits(V)
Plain(C) == \A c \in C : ~ Tautology(c)
Naming(V) == V \subseteq Nat \ {0}
-----------------------------------------------------------------------------
LEMMA LiteralsAre ==
  ASSUME NEW V, Naming(V)
  PROVE  /\ \A l \in Lits(V) : l \in Int /\ l # 0 /\ -l \in Lits(V) /\ -(-l) = l
         /\ \A l \in Lits(V) : Var(l) \in V /\ Var(-l) = Var(l) /\ (l = Var(l) \/ l = -Var(l))
         /\ \A v \in V : v \in Lits(V) /\ -v \in Lits(V) /\ Var(v) = v /\ Var(-v) = v
<1>1. ASSUME NEW l \in Lits(V)
      PROVE  l \in Int /\ (l \in V \/ -l \in V)
  BY DEF Lits, Negate, Naming
<1>2. ASSUME NEW v \in V PROVE v \in Lits(V) /\ -v \in Lits(V) /\ v \in Nat \ {0}
  BY DEF Lits, Negate, Naming
<1>3. ASSUME NEW l \in Lits(V) PROVE l # 0 /\ -l \in Lits(V) /\ -(-l) = l
  <2>1. CASE l \in V
    BY <1>2, <2>1
  <2>2. CASE -l \in V
    BY <1>1, <1>2, <2>2
  <2> QED BY <1>1, <2>1, <2>2
<1>4. ASSUME NEW l \in Lits(V) PROVE Var(l) \in V /\ Var(-l) = Var(l) /\ (l = Var(l) \/ l = -Var(l))
  <2>1. CASE l \in V
    BY <1>2, <2>1 DEF Var
  <2>2. CASE -l \in V
    BY <1>1, <1>2, <2>2 DEF Var
  <2> QED BY <1>1, <2>1, <2>2
<1>5. ASSUME NEW v \in V PROVE Var(v) = v /\ Var(-v) = v
  BY <1>2 DEF Var
<1> QED BY <1>1, <1>2, <1>3, <1>4, <1>5

LEMMA NegateMeans ==
  ASSUME NEW L \in SUBSET Int
  PROVE  /\ \A l \in Int : l \in Negate(L) <=> -l \in L
         /\ Negate(L) \in SUBSET Int
BY DEF Negate

(* The variables of clauses.                                               *)
LEMMA VarsInMeans ==
  ASSUME NEW V, Naming(V), NEW C, Clausal(C, V)
  PROVE  /\ VarsIn(C) \subseteq V
         /\ UNION C \subseteq Lits(VarsIn(C))
         /\ \A v \in V : v \in VarsIn(C) <=> \E c \in C : v \in c \/ -v \in c
<1>1. UNION C \subseteq Lits(V)
  BY DEF Clausal
<1>2. VarsIn(C) \subseteq V
  BY <1>1, LiteralsAre DEF VarsIn
<1>3. ASSUME NEW l \in UNION C PROVE l \in Lits(VarsIn(C))
  <2>1. l \in Lits(V) /\ Var(l) \in VarsIn(C)
    BY <1>1 DEF VarsIn
  <2>2. l = Var(l) \/ l = -Var(l)
    BY <2>1, LiteralsAre
  <2> QED BY <2>1, <2>2 DEF Lits, Negate
<1>4. ASSUME NEW v \in V PROVE v \in VarsIn(C) <=> \E c \in C : v \in c \/ -v \in c
  <2>1. ASSUME v \in VarsIn(C) PROVE \E c \in C : v \in c \/ -v \in c
    <3>1. PICK l \in UNION C : v = Var(l)
      BY <2>1 DEF VarsIn
    <3>2. l = v \/ l = -v
      BY <1>1, <3>1, LiteralsAre
    <3> QED BY <3>1, <3>2
  <2>2. ASSUME NEW c \in C, v \in c \/ -v \in c PROVE v \in VarsIn(C)
    <3>1. PICK l \in c : l = v \/ l = -v
      BY <2>2
    <3>2. Var(l) = v
      BY <3>1, LiteralsAre
    <3> QED BY <3>1, <3>2 DEF VarsIn
  <2> QED BY <2>1, <2>2
<1> QED BY <1>2, <1>3, <1>4

LEMMA AmongNames ==
  ASSUME NEW n \in Nat
  PROVE  Naming(Among(n)) /\ IsFiniteSet(Among(n))
BY FS_Interval DEF Among, Naming

(* The models of clauses.                                                  *)
LEMMA ModelsMean ==
  ASSUME NEW V, Naming(V), NEW C
  PROVE  \A M : M \in Models(C, V) <=> Total(M, V) /\ Satisfies(M, C)
<1>1. ASSUME NEW P \in SUBSET V PROVE Total(P \cup Negate(V \ P), V)
  <2> DEFINE M == P \cup Negate(V \ P)
  <2>1. M \subseteq Lits(V)
    BY DEF Lits, Negate
  <2>2. ASSUME NEW v \in V PROVE v \in M <=> v \in P
    <3>1. v \notin Negate(V \ P)
      BY DEF Negate, Naming
    <3> QED BY <3>1
  <2>3. ASSUME NEW v \in V PROVE -v \in M <=> v \notin P
    <3>1. -v \notin P
      BY DEF Naming
    <3>2. -v \in Negate(V \ P) <=> v \in V \ P
      BY DEF Negate, Naming
    <3> QED BY <3>1, <3>2
  <2> QED BY <2>1, <2>2, <2>3 DEF Total
<1>2. ASSUME NEW M, Total(M, V) PROVE M \in {P \cup Negate(V \ P) : P \in SUBSET V}
  <2> DEFINE P == M \cap V
  <2>1. ASSUME NEW l \in M PROVE l \in P \cup Negate(V \ P)
    <3>1. l \in Lits(V)
      BY <1>2 DEF Total
    <3>2. CASE l \in V
      BY <3>2
    <3>3. CASE l \notin V
      <4>1. PICK v \in V : l = -v
        BY <3>1, <3>3 DEF Lits, Negate
      <4>2. v \notin M
        BY <1>2, <4>1 DEF Total
      <4> QED BY <4>1, <4>2 DEF Negate
    <3> QED BY <3>2, <3>3
  <2>2. ASSUME NEW l \in P \cup Negate(V \ P) PROVE l \in M
    <3>1. CASE l \in P
      BY <3>1
    <3>2. CASE l \in Negate(V \ P)
      <4>1. PICK v \in V \ P : l = -v
        BY <3>2 DEF Negate
      <4> QED BY <1>2, <4>1 DEF Total
    <3> QED BY <3>1, <3>2
  <2>3. M = P \cup Negate(V \ P)
    BY <2>1, <2>2
  <2> QED BY <2>3
<1> QED BY <1>1, <1>2 DEF Models, Satisfies

LEMMA TotalConsistent ==
  ASSUME NEW V, Naming(V), NEW M, Total(M, V)
  PROVE  Consistent(M)
<1> SUFFICES ASSUME NEW l \in M, -l \in M PROVE FALSE
  BY DEF Consistent
<1>1. l \in Lits(V)
  BY DEF Total
<1>2. CASE l \in V
  BY <1>2 DEF Total
<1>3. CASE l \notin V
  <2>1. PICK v \in V : l = -v
    BY <1>1, <1>3 DEF Lits, Negate
  <2>2. -l = v
    BY <2>1 DEF Naming
  <2> QED BY <2>1, <2>2 DEF Total
<1> QED BY <1>2, <1>3
-----------------------------------------------------------------------------
(* What a set contains that is closed under unit propagation.              *)
ForcedBy(C, A) == UNION {{l \in c : Negate(c \ {l}) \subseteq A} : c \in {d \in C : d \cap A = {}}}

LEMMA ForcedMeans ==
  ASSUME NEW C, NEW A, NEW c \in C, NEW l \in c, c \cap A = {}, Negate(c \ {l}) \subseteq A
  PROVE  l \in ForcedBy(C, A)
<1> DEFINE F(d) == {k \in d : Negate(d \ {k}) \subseteq A}
           D == {d \in C : d \cap A = {}}
<1>1. c \in D /\ l \in F(c)
  OBVIOUS
<1> HIDE DEF F, D
<1>2. l \in UNION {F(d) : d \in D}
  BY <1>1
<1> QED BY <1>2 DEF ForcedBy, F, D

Propagation(f, C, L) ==
  /\ f \in [Nat -> SUBSET (L \cup UNION C)]
  /\ f[0] = L /\ \A n \in Nat : f[n + 1] = f[n] \cup ForcedBy(C, f[n])
  /\ Closure(C, L) = f[2 * Cardinality(VarsIn(C))] /\ 2 * Cardinality(VarsIn(C)) \in Nat

LEMMA ClosureSteps ==
  ASSUME NEW C, NEW L, IsFiniteSet(VarsIn(C))
  PROVE  \E f : Propagation(f, C, L)
<1> DEFINE Forced(A) == UNION {{l \in c : Negate(c \ {l}) \subseteq A} : c \in {d \in C : d \cap A = {}}}
           step[n \in Nat] == IF n = 0 THEN L ELSE step[n-1] \cup Forced(step[n-1])
           P == SUBSET (L \cup UNION C)
           next == [n \in Nat |-> [A \in P |-> A \cup Forced(A)]]
<1>1. \A A \in P : A \cup Forced(A) \in P
  OBVIOUS
<1>2. L \in P /\ next \in [Nat -> [P -> P]]
  <2>1. \A A \in P : [B \in P |-> B \cup Forced(B)] \in [P -> P]
    BY <1>1
  <2> HIDE DEF Forced, P
  <2>2. next \in [Nat -> [P -> P]]
    BY <1>1
  <2> QED BY <2>2 DEF P
<1>3. \A A : Forced(A) = ForcedBy(C, A)
  BY DEF ForcedBy
<1> HIDE DEF Forced
<1>4. \A n \in Nat, A \in P : next[n][A] = A \cup Forced(A)
  OBVIOUS
<1> HIDE DEF P, next, step
<1>5. PICK f \in [Nat -> P] : \A n \in Nat : f[n] = IF n = 0 THEN L ELSE next[n][f[n - 1]]
  BY <1>2, Recursion
<1>6. ASSUME NEW n \in Nat PROVE f[n] = IF n = 0 THEN L ELSE f[n-1] \cup Forced(f[n-1])
  <2>1. n # 0 => f[n - 1] \in P
    OBVIOUS
  <2> QED BY <1>4, <1>5, <2>1
<1>7. f = [n \in Nat |-> IF n = 0 THEN L ELSE f[n-1] \cup Forced(f[n-1])]
  BY <1>5, <1>6
<1>8. step = [n \in Nat |-> IF n = 0 THEN L ELSE step[n-1] \cup Forced(step[n-1])]
  BY <1>7, Zenon DEF step
<1>9. Closure(C, L) = step[2 * Cardinality(VarsIn(C))] /\ 2 * Cardinality(VarsIn(C)) \in Nat
  <2>1. Cardinality(VarsIn(C)) \in Nat
    BY FS_CardinalityType
  <2>2. 2 * Cardinality(VarsIn(C)) \in Nat
    BY <2>1
  <2>3. Closure(C, L) = step[2 * Cardinality(VarsIn(C))]
    BY DEF Closure, Forced, step
  <2> QED BY <2>2, <2>3
<1>10. step[0] = L /\ \A n \in Nat : step[n + 1] = step[n] \cup Forced(step[n])
  <2>1. 0 \in Nat /\ \A n \in Nat : n + 1 \in Nat /\ n + 1 # 0 /\ (n + 1) - 1 = n
    OBVIOUS
  <2> QED BY <1>8, <2>1
<1> DEFINE N == {n \in Nat : step[n] \in P}
<1>11. N = Nat
  <2>1. N \in SUBSET Nat /\ 0 \in N
    BY <1>2, <1>10
  <2>2. \A A \in P : A \cup Forced(A) \in P
    BY <1>1 DEF Forced
  <2>3. ASSUME NEW n \in N PROVE n + 1 \in N
    <3>1. n + 1 \in Nat /\ step[n] \in P /\ step[n + 1] = step[n] \cup Forced(step[n])
      BY <1>10
    <3> QED BY <2>2, <3>1
  <2> HIDE DEF N
  <2> QED BY <2>1, <2>3, NumberInduction
<1>12. step \in [Nat -> P]
  BY <1>8, <1>11
<1>13. Propagation(step, C, L)
  BY <1>3, <1>9, <1>10, <1>12 DEF P, Propagation
<1> QED BY <1>13

LEMMA ClosureStays ==
  ASSUME NEW C, NEW L, NEW Q, L \subseteq Q, IsFiniteSet(VarsIn(C)),
         \A A \in SUBSET Q : ForcedBy(C, A) \subseteq Q
  PROVE  Closure(C, L) \subseteq Q
<1>0. PICK f : Propagation(f, C, L)
  BY ClosureSteps
<1>1. /\ f[0] = L /\ \A n \in Nat : f[n + 1] = f[n] \cup ForcedBy(C, f[n])
      /\ Closure(C, L) = f[2 * Cardinality(VarsIn(C))] /\ 2 * Cardinality(VarsIn(C)) \in Nat
  BY <1>0 DEF Propagation
<1> DEFINE N == {n \in Nat : f[n] \subseteq Q}
<1>2. N \in SUBSET Nat /\ 0 \in N
  BY <1>1
<1>3. \A n \in N : n + 1 \in N
  BY <1>1
<1>4. N = Nat
  <2> HIDE DEF N
  <2> QED BY <1>2, <1>3, NumberInduction
<1> QED BY <1>1, <1>4

(* Unit propagation ends, before every literal has been through it.        *)
LEMMA ClosureCloses ==
  ASSUME NEW V, Naming(V), IsFiniteSet(V), NEW C, Clausal(C, V), NEW L \in SUBSET Lits(VarsIn(C))
  PROVE  ForcedBy(C, Closure(C, L)) \subseteq Closure(C, L)
<1> DEFINE U == VarsIn(C)
           S == Lits(U)
           top == 2 * Cardinality(U)
<1>1. U \subseteq V /\ UNION C \subseteq S
  BY VarsInMeans
<1>2. Naming(U) /\ IsFiniteSet(U)
  BY <1>1, FS_Subset DEF Naming
<1>0. PICK f : Propagation(f, C, L)
  BY <1>2, ClosureSteps
<1>3. /\ f \in [Nat -> SUBSET (L \cup UNION C)]
      /\ \A n \in Nat : f[n + 1] = f[n] \cup ForcedBy(C, f[n])
      /\ Closure(C, L) = f[top] /\ top \in Nat
  BY <1>0 DEF Propagation
<1>4. Cardinality(U) \in Nat
  BY <1>2, FS_CardinalityType
<1> HIDE DEF U
<1>5. IsFiniteSet(S) /\ Cardinality(S) \in Nat /\ Cardinality(S) <= top
  <2> DEFINE g == [u \in U |-> -u]
             X == Negate(U)
  <2>1. g \in Surjection(U, X)
    BY <1>2 DEF Surjection, Negate, Naming
  <2> HIDE DEF g, X
  <2>2. IsFiniteSet(X) /\ Cardinality(X) <= Cardinality(U)
    BY <1>2, <2>1, FS_Surjection
  <2>3. /\ IsFiniteSet(U \cup X) /\ IsFiniteSet(U \cap X)
        /\ Cardinality(U \cup X) = Cardinality(U) + Cardinality(X) - Cardinality(U \cap X)
    BY <1>2, <2>2, FS_Union, FS_Subset
  <2>4. Cardinality(X) \in Nat /\ Cardinality(U \cap X) \in Nat /\ Cardinality(U \cup X) \in Nat
    BY <2>2, <2>3, FS_CardinalityType
  <2>5. S = U \cup X
    BY DEF Lits, X
  <2> HIDE DEF S
  <2>6. Cardinality(U \cup X) <= top
    BY <1>4, <2>2, <2>3, <2>4
  <2> QED BY <2>3, <2>4, <2>5, <2>6
<1>6. \A n \in Nat : f[n] \in SUBSET S
  BY <1>1, <1>3 DEF U
<1> DEFINE Closed(n) == ForcedBy(C, f[n]) \subseteq f[n]
           N == {n \in Nat : Closed(n) \/ n <= Cardinality(f[n])}
<1>7. \A n \in Nat : IsFiniteSet(f[n]) /\ Cardinality(f[n]) \in Nat
  BY <1>5, <1>6, FS_Subset, FS_CardinalityType
<1>8. N \in SUBSET Nat /\ 0 \in N
  <2>1. 0 <= Cardinality(f[0])
    BY <1>7
  <2> QED BY <2>1
<1>9. ASSUME NEW n \in N PROVE n + 1 \in N
  <2>1. n \in Nat /\ n + 1 \in Nat /\ f[n + 1] = f[n] \cup ForcedBy(C, f[n])
    BY <1>3
  <2>2. CASE Closed(n)
    <3>1. f[n + 1] = f[n]
      BY <2>1, <2>2
    <3>2. Closed(n + 1)
      BY <2>2, <3>1
    <3> QED BY <2>1, <3>2
  <2>3. CASE ~ Closed(n)
    <3>1. n <= Cardinality(f[n])
      BY <2>3
    <3>2. f[n] \subseteq f[n + 1] /\ f[n] # f[n + 1]
      BY <2>1, <2>3
    <3>4. IsFiniteSet(f[n + 1]) /\ Cardinality(f[n]) \in Nat /\ Cardinality(f[n + 1]) \in Nat
      BY <1>7, <2>1
    <3>3. Cardinality(f[n]) < Cardinality(f[n + 1])
      <4> DEFINE A == f[n]
                 B == f[n + 1]
      <4>1. IsFiniteSet(B) /\ A \in SUBSET B /\ A # B
        BY <3>2, <3>4
      <4> HIDE DEF A, B
      <4>2. Cardinality(A) <= Cardinality(B) /\ Cardinality(A) # Cardinality(B)
        BY <4>1, FS_Subset
      <4> QED BY <3>4, <4>2 DEF A, B
    <3>5. n + 1 <= Cardinality(f[n + 1])
      BY <2>1, <3>1, <3>3, <3>4
    <3> QED BY <2>1, <3>5
  <2> QED BY <2>2, <2>3
<1>10. N = Nat
  <2> HIDE DEF N
  <2> QED BY <1>8, <1>9, NumberInduction
<1>11. Closed(top)
  <2> SUFFICES ASSUME ~ Closed(top) PROVE FALSE
    OBVIOUS
  <2>1. top <= Cardinality(f[top])
    BY <1>3, <1>10
  <2>2. f[top] \subseteq S /\ Cardinality(f[top]) <= Cardinality(S) /\ Cardinality(f[top]) \in Nat
    BY <1>3, <1>5, <1>6, <1>7, FS_Subset
  <2> HIDE DEF top
  <2>3. Cardinality(f[top]) = Cardinality(S)
    BY <1>3, <1>5, <2>1, <2>2
  <2>4. f[top] = S
    BY <1>5, <2>2, <2>3, FS_Subset
  <2>5. ForcedBy(C, f[top]) \subseteq S
    BY <1>1 DEF ForcedBy, U
  <2> QED BY <2>4, <2>5
<1> QED BY <1>3, <1>11

LEMMA ClosureWithin ==
  ASSUME NEW C, NEW L, IsFiniteSet(VarsIn(C))
  PROVE  Closure(C, L) \subseteq L \cup UNION C
<1>1. \A A \in SUBSET (L \cup UNION C) : ForcedBy(C, A) \subseteq L \cup UNION C
  BY DEF ForcedBy
<1> DEFINE Q == L \cup UNION C
<1>2. L \subseteq Q /\ \A A \in SUBSET Q : ForcedBy(C, A) \subseteq Q
  BY <1>1
<1> HIDE DEF Q
<1>3. Closure(C, L) \subseteq Q
  BY <1>2, ClosureStays
<1> QED BY <1>3 DEF Q

(* Unit propagation keeps to the models.                                   *)
LEMMA ClosureOfModel ==
  ASSUME NEW C, NEW L, NEW M, IsFiniteSet(VarsIn(C)),
         Consistent(M), Satisfies(M, C), L \subseteq M
  PROVE  Closure(C, L) \subseteq M
<1>1. ASSUME NEW A \in SUBSET M PROVE ForcedBy(C, A) \subseteq M
  <2> SUFFICES ASSUME NEW c \in C, NEW l \in c, Negate(c \ {l}) \subseteq A PROVE l \in M
    BY DEF ForcedBy
  <2>1. PICK k \in c : k \in M
    BY DEF Satisfies
  <2>2. CASE k # l
    <3>1. -k \in M
      BY <2>2 DEF Negate
    <3> QED BY <2>1, <3>1 DEF Consistent
  <2> QED BY <2>1, <2>2
<1> QED BY <1>1, ClosureStays

(* Clauses reduced by literals of a model.                                 *)
LEMMA ReduceOfModel ==
  ASSUME NEW V, Naming(V), NEW C, Clausal(C, V), NEW L \in SUBSET Lits(V), NEW M,
         Consistent(M), Satisfies(M, C), L \subseteq M
  PROVE  Satisfies(M, Reduce(C, L))
<1> SUFFICES ASSUME NEW c \in C PROVE (c \ Negate(L)) \cap M # {}
  BY DEF Satisfies, Reduce
<1>1. PICK k \in c : k \in M
  BY DEF Satisfies
<1>2. k \notin Negate(L)
  <2> SUFFICES ASSUME NEW l \in L, k = -l PROVE FALSE
    BY DEF Negate
  <2> QED BY <1>1 DEF Consistent
<1> QED BY <1>1, <1>2

LEMMA ReduceShrinks ==
  ASSUME NEW V, Naming(V), NEW C, Clausal(C, V), NEW L \in SUBSET Lits(V)
  PROVE  /\ UNION Reduce(C, L) \subseteq UNION C
         /\ Clausal(Reduce(C, L), V)
         /\ \A l \in L : Var(l) \notin VarsIn(Reduce(C, L))
         /\ Plain(C) => Plain(Reduce(C, L))
<1>1. \A e \in Reduce(C, L) : \E c \in C : e = c \ Negate(L) /\ c \cap L = {}
  BY DEF Reduce
<1>2. UNION Reduce(C, L) \subseteq UNION C /\ Clausal(Reduce(C, L), V)
  BY <1>1 DEF Clausal
<1>3. ASSUME NEW l \in L PROVE Var(l) \notin VarsIn(Reduce(C, L))
  <2> SUFFICES ASSUME Var(l) \in VarsIn(Reduce(C, L)) PROVE FALSE
    OBVIOUS
  <2>1. Var(l) \in V /\ (l = Var(l) \/ l = -Var(l)) /\ l \in Int /\ -(-l) = l
    <3>1. l \in Lits(V)
      OBVIOUS
    <3> QED BY <3>1, LiteralsAre
  <2>2. PICK e \in Reduce(C, L) : Var(l) \in e \/ -Var(l) \in e
    BY <1>2, <2>1, VarsInMeans
  <2>3. l \in e \/ -l \in e
    <3>1. (l = Var(l) /\ -l = -Var(l)) \/ (l = -Var(l) /\ -l = Var(l))
      <4> DEFINE v == Var(l)
      <4>1. v \in Nat /\ (l = v \/ l = -v)
        BY <2>1 DEF Naming
      <4> HIDE DEF v
      <4>2. (l = v /\ -l = -v) \/ (l = -v /\ -l = v)
        BY <4>1
      <4> QED BY <4>2 DEF v
    <3> QED BY <2>2, <3>1
  <2>4. PICK c \in C : e = c \ Negate(L) /\ c \cap L = {}
    BY <1>1
  <2>5. -l \in Negate(L)
    BY DEF Negate
  <2> QED BY <2>3, <2>4, <2>5
<1>4. ASSUME Plain(C), NEW e \in Reduce(C, L) PROVE ~ Tautology(e)
  <2>1. PICK c \in C : e = c \ Negate(L)
    BY <1>1
  <2>2. c \cap Negate(c) = {}
    BY <1>4 DEF Plain, Tautology
  <2> QED BY <2>1, <2>2 DEF Tautology, Negate
<1> QED BY <1>2, <1>3, <1>4 DEF Plain
-----------------------------------------------------------------------------
(* What resolving on a variable leaves.                                    *)
LEMMA WithoutKeeps ==
  ASSUME NEW V, Naming(V), NEW C, Clausal(C, V), Plain(C), NEW v \in V
  PROVE  /\ UNION Without(C, v) \subseteq UNION C
         /\ Plain(Without(C, v))
         /\ v \notin UNION Without(C, v) /\ -v \notin UNION Without(C, v)
         /\ \A M : Consistent(M) /\ Satisfies(M, C) => Satisfies(M, Without(C, v))
<1>1. ASSUME NEW d \in Without(C, v)
      PROVE  /\ ~ Tautology(d)
             /\ \/ d \in C /\ v \notin d /\ -v \notin d
                \/ \E p \in C, q \in C : v \in p /\ -v \in q /\ d = (p \ {v}) \cup (q \ {-v})
  BY DEF Without, Resolvents, Plain
<1>2. \A c \in C : ~ (v \in c /\ -v \in c)
  <2> SUFFICES ASSUME NEW c \in C, v \in c, -v \in c PROVE FALSE
    OBVIOUS
  <2>1. -v \in Negate(c)
    BY DEF Negate
  <2> QED BY <2>1 DEF Plain, Tautology
<1>3. v # -v
  BY DEF Naming
<1>4. ASSUME NEW d \in Without(C, v) PROVE d \subseteq UNION C /\ v \notin d /\ -v \notin d
  <2>1. CASE d \in C /\ v \notin d /\ -v \notin d
    BY <2>1
  <2>2. ASSUME NEW p \in C, NEW q \in C, v \in p, -v \in q, d = (p \ {v}) \cup (q \ {-v})
        PROVE  d \subseteq UNION C /\ v \notin d /\ -v \notin d
    BY <1>2, <2>2
  <2> QED BY <1>1, <2>1, <2>2
<1>5. ASSUME NEW M, Consistent(M), Satisfies(M, C), NEW d \in Without(C, v) PROVE d \cap M # {}
  <2>1. CASE d \in C
    BY <1>5, <2>1 DEF Satisfies
  <2>2. ASSUME NEW p \in C, NEW q \in C, v \in p, -v \in q, d = (p \ {v}) \cup (q \ {-v})
        PROVE  d \cap M # {}
    <3>1. PICK k \in p : k \in M
      BY <1>5 DEF Satisfies
    <3>2. PICK l \in q : l \in M
      BY <1>5 DEF Satisfies
    <3>3. ~ (v \in M /\ -v \in M)
      BY <1>5 DEF Consistent
    <3> QED BY <2>2, <3>1, <3>2, <3>3
  <2> QED BY <1>1, <2>1, <2>2
<1> QED BY <1>1, <1>4, <1>5 DEF Plain, Satisfies

LEMMA EliminatedKeeps ==
  ASSUME NEW V, Naming(V), NEW C, Clausal(C, V), Plain(C), NEW W \in SUBSET V,
         NEW b \in Nat, \A w \in W : w <= b
  PROVE  /\ UNION Eliminated(C, W) \subseteq UNION C
         /\ Plain(Eliminated(C, W))
         /\ VarsIn(Eliminated(C, W)) \cap W = {}
         /\ \A M : Consistent(M) /\ Satisfies(M, C) => Satisfies(M, Eliminated(C, W))
<1> DEFINE P == SUBSET SUBSET UNION C
           up == [n \in Nat |-> [D \in P |-> IF n \in W THEN Without(D, n) ELSE D]]
           upTo[n \in Nat] ==
             IF n = 0 THEN C ELSE LET D == upTo[n-1] IN IF n \in W THEN Without(D, n) ELSE D
           bound == Max(W \cup {0})
<1>1. \A n \in Nat, D \in P : Without(D, n) \in P
  BY DEF Without, Resolvents
<1>2. C \in P /\ up \in [Nat -> [P -> P]] /\ \A n \in Nat, D \in P : up[n][D] = IF n \in W THEN Without(D, n) ELSE D
  BY <1>1
<1> HIDE DEF P, up, upTo, bound
<1>3. PICK f \in [Nat -> P] : \A n \in Nat : f[n] = IF n = 0 THEN C ELSE up[n][f[n - 1]]
  <2>1. ASSUME NEW first \in P, NEW g \in [Nat -> [P -> P]]
        PROVE  \E f \in [Nat -> P] : \A n \in Nat : f[n] = IF n = 0 THEN first ELSE g[n][f[n - 1]]
    BY Recursion, Z3
  <2> QED BY <1>2, <2>1
<1>4. ASSUME NEW n \in Nat
      PROVE  f[n] = IF n = 0 THEN C ELSE LET D == f[n-1] IN IF n \in W THEN Without(D, n) ELSE D
  <2>1. n # 0 => f[n - 1] \in P
    OBVIOUS
  <2> QED BY <1>2, <1>3, <2>1
<1>5. f = [n \in Nat |-> IF n = 0 THEN C ELSE LET D == f[n-1] IN IF n \in W THEN Without(D, n) ELSE D]
  BY <1>3, <1>4
<1>6. upTo = [n \in Nat |-> IF n = 0 THEN C ELSE LET D == upTo[n-1] IN IF n \in W THEN Without(D, n) ELSE D]
  BY <1>5, Zenon DEF upTo
<1>7. bound \in Nat /\ \A w \in W : w <= bound
  <2> DEFINE T == W \cup {0}
  <2>1. T \in SUBSET Nat /\ T # {} /\ \A x \in T : x <= b
    BY DEF Naming
  <2>2. PICK x \in T : \A y \in T : y <= x
    <3> HIDE DEF T
    <3> QED BY <2>1, GreatestNumber
  <2>3. \A y \in T : x >= y
    BY <2>1, <2>2
  <2>4. bound \in T /\ \A y \in T : bound >= y
    BY <2>3, Zenon DEF bound, Max
  <2> QED BY <2>1, <2>4
<1>8. Eliminated(C, W) = upTo[bound]
  BY DEF Eliminated, upTo, bound
<1> DEFINE Good(D, n) ==
             /\ UNION D \subseteq UNION C
             /\ Plain(D)
             /\ \A w \in W : w <= n => w \notin UNION D /\ -w \notin UNION D
             /\ \A M : Consistent(M) /\ Satisfies(M, C) => Satisfies(M, D)
           N == {n \in Nat : Good(upTo[n], n)}
<1>9. N = Nat
  <2>1. N \in SUBSET Nat /\ 0 \in N
    <3>1. upTo[0] = C /\ 0 \in Nat
      BY <1>6
    <3>2. \A w \in W : ~ (w <= 0)
      BY DEF Naming
    <3> QED BY <3>1, <3>2
  <2>2. ASSUME NEW n \in N PROVE n + 1 \in N
    <3> DEFINE D == upTo[n]
               E == upTo[n + 1]
    <3>1. n \in Nat /\ n + 1 \in Nat /\ n + 1 # 0 /\ (n + 1) - 1 = n /\ Good(D, n)
      OBVIOUS
    <3>2. E = IF n + 1 \in W THEN Without(D, n + 1) ELSE D
      BY <1>6, <3>1
    <3>3. Clausal(D, V)
      BY <3>1 DEF Clausal
    <3>4. ASSUME NEW w \in W, w <= n + 1, w # n + 1 PROVE w <= n
      BY <3>1, <3>4 DEF Naming
    <3>5. CASE n + 1 \in W
      <4>1. /\ UNION E \subseteq UNION D
            /\ Plain(E)
            /\ n + 1 \notin UNION E /\ -(n + 1) \notin UNION E
            /\ \A M : Consistent(M) /\ Satisfies(M, D) => Satisfies(M, E)
        <5> HIDE DEF D, E, N
        <5> QED BY <3>1, <3>2, <3>3, <3>5, WithoutKeeps
      <4> HIDE DEF D, E, N
      <4>2. Good(E, n + 1)
        BY <3>1, <3>4, <4>1
      <4> QED BY <3>1, <4>2 DEF N, E
    <3>6. CASE n + 1 \notin W
      <4> HIDE DEF D, E, N
      <4>1. E = D /\ \A w \in W : w # n + 1
        BY <3>2, <3>6
      <4>2. Good(E, n + 1)
        BY <3>1, <3>4, <4>1
      <4> QED BY <3>1, <4>2 DEF N, E
    <3> QED BY <3>5, <3>6
  <2> HIDE DEF N
  <2> QED BY <2>1, <2>2, NumberInduction
<1>10. Good(upTo[bound], bound)
  BY <1>7, <1>9
<1> DEFINE E == Eliminated(C, W)
<1>11. UNION E \subseteq UNION C /\ Plain(E) /\ \A M : Consistent(M) /\ Satisfies(M, C) => Satisfies(M, E)
  BY <1>8, <1>10
<1>12. \A w \in W : w \notin UNION E /\ -w \notin UNION E
  BY <1>7, <1>8, <1>10
<1>13. VarsIn(E) \cap W = {}
  <2>1. Clausal(E, V)
    BY <1>11 DEF Clausal
  <2> HIDE DEF E
  <2> QED BY <1>12, <2>1, VarsInMeans
<1> QED BY <1>11, <1>13
-----------------------------------------------------------------------------
(* An assignment seen on fewer variables.                                  *)
LEMMA Restricted ==
  ASSUME NEW V, Naming(V), NEW U \in SUBSET V, NEW M, Total(M, V)
  PROVE  Total(M \cap Lits(U), U)
<1>1. \A v \in U : v \in Lits(U) /\ -v \in Lits(U) /\ v \in V
  BY DEF Lits, Negate
<1> QED BY <1>1 DEF Total

(* What a solver finds fixed is over the variables of the clauses, and in  *)
(* every model.                                                            *)
LEMMA FindableKeeps ==
  ASSUME NEW n \in Nat, NEW C, Clausal(C, Among(n)), NEW found \in Findable(C)
  PROVE  /\ found \subseteq Lits(VarsIn(C))
         /\ \A M : Total(M, Among(n)) /\ Satisfies(M, C) => found \subseteq M
<1> DEFINE V == Among(n)
           U == VarsIn(C)
<1>1. Naming(V) /\ U \subseteq V /\ UNION C \subseteq Lits(U) /\ IsFiniteSet(U) /\ Naming(U)
  <2>1. Naming(V) /\ IsFiniteSet(V)
    BY AmongNames
  <2>2. U \subseteq V /\ UNION C \subseteq Lits(U)
    <3> HIDE DEF V
    <3> QED BY <2>1, VarsInMeans DEF V
  <2>3. IsFiniteSet(U)
    BY <2>1, <2>2, FS_Subset
  <2> QED BY <2>1, <2>2, <2>3 DEF Naming
<1>2. PICK L \in SUBSET Entailed(C) : found = Closure(C, L)
  BY DEF Findable
<1>3. \A l \in L : (\E M \in Models(C, U) : l \in M) /\ \A M \in Models(C, U) : l \in M
  BY DEF Entailed
<1> HIDE DEF V, U
<1>4. \A M \in Models(C, U) : Total(M, U)
  BY <1>1, ModelsMean
<1>5. L \subseteq Lits(U)
  BY <1>3, <1>4 DEF Total
<1>6. found \subseteq Lits(U)
  BY <1>1, <1>2, <1>5, ClosureWithin DEF U
<1>7. ASSUME NEW M, Total(M, V), Satisfies(M, C) PROVE found \subseteq M
  <2> DEFINE K == M \cap Lits(U)
  <2>1. Total(K, U)
    BY <1>1, <1>7, Restricted
  <2>2. Satisfies(K, C)
    BY <1>1, <1>7 DEF Satisfies
  <2> HIDE DEF K
  <2>3. K \in Models(C, U)
    BY <1>1, <2>1, <2>2, ModelsMean
  <2>4. L \subseteq K
    BY <1>3, <2>3
  <2>5. Consistent(K)
    BY <1>1, <2>1, TotalConsistent
  <2>6. found \subseteq K
    BY <1>1, <1>2, <2>2, <2>4, <2>5, ClosureOfModel DEF U
  <2> QED BY <2>6 DEF K
<1> QED BY <1>6, <1>7 DEF U, V
-----------------------------------------------------------------------------
(* Records with the fields of a formula and of the state of the            *)
(* preprocessor, and what they are made of.                                *)
CnfFields(c) ==
  c = [f \in {"nvars", "proj", "clauses", "table", "weight", "mult", "shift"} |-> c[f]]
StFields(s) ==
  s = [f \in {"fixed", "substituted", "eliminated", "mult", "clauses"} |-> s[f]]
Typed(c) ==
  /\ CnfFields(c)
  /\ c.nvars \in Nat /\ c.proj \subseteq Among(c.nvars) /\ Clausal(c.clauses, Among(c.nvars))
StTyped(s, n) ==
  /\ StFields(s)
  /\ s.fixed \subseteq Lits(Among(n))
  /\ s.substituted \subseteq Among(n) /\ s.eliminated \subseteq Among(n)
  /\ Clausal(s.clauses, Among(n)) /\ Plain(s.clauses)

(* The parts of Merged().                                                  *)
Known(s, map) == Values(Rewritten(s.clauses, map), {MapLit(map, l) : l \in s.fixed})
Class(map, u) == {v \in DOMAIN map : Var(map[v]) = u}
Survivors(s, map) ==
  {u \in DOMAIN map : Class(map, u) \notin {{}, {u}} /\ Lits({u}) \cap Known(s, map) = {}}
Giving(c, map, l) == {k \in DOMAIN c.weight : Target(map, k) = l}
Gaining(c, s, map) == {l \in Lits(Survivors(s, map)) : Giving(c, map, l) # {}}

MergedParts(m, c, s, map) ==
  /\ m.ok = (~ Contradictory(Known(s, map)) /\ {} \notin Reduce(Rewritten(s.clauses, map), Known(s, map)))
  /\ CnfFields(m.cnf) /\ m.cnf.nvars = c.nvars /\ m.cnf.clauses = c.clauses /\ m.cnf.table = c.table
  /\ m.cnf.proj = c.proj \cup {u \in Survivors(s, map) : Class(map, u) \cap c.proj # {}}
  /\ DOMAIN m.cnf.weight = DOMAIN c.weight \cup Gaining(c, s, map)
  /\ StFields(m.st) /\ m.st.eliminated = s.eliminated
  /\ m.st.fixed = s.fixed \cup {l \in Lits(DOMAIN map) : MapLit(map, l) \in Known(s, map)}
  /\ m.st.substituted = s.substituted \cup UNION {Class(map, u) \ {u} : u \in Survivors(s, map)}
  /\ m.st.clauses = Reduce(Rewritten(s.clauses, map), Known(s, map))

LEMMA MergedIs ==
  ASSUME NEW c, CnfFields(c), NEW s, StFields(s), NEW map
  PROVE  MergedParts(Merged(c, s, map), c, s, map)
<1> DEFINE m == Merged(c, s, map)
           pj == c.proj \cup {u \in Survivors(s, map) : Class(map, u) \cap c.proj # {}}
           wt == [l \in DOMAIN c.weight \cup Gaining(c, s, map) |->
                     IF l \in Gaining(c, s, map) THEN ProductOver(Giving(c, map, l), LAMBDA k : c.weight[k])
                     ELSE c.weight[l]]
           fx == s.fixed \cup {l \in Lits(DOMAIN map) : MapLit(map, l) \in Known(s, map)}
           sb == s.substituted \cup UNION {Class(map, u) \ {u} : u \in Survivors(s, map)}
           cl == Reduce(Rewritten(s.clauses, map), Known(s, map))
           ok == ~ Contradictory(Known(s, map)) /\ {} \notin cl
<1>1. m = [ok |-> ok, cnf |-> [c EXCEPT !.proj = pj, !.weight = wt],
           st |-> [s EXCEPT !.fixed = fx, !.substituted = sb, !.clauses = cl]]
  BY Zenon DEF Merged, Known, Class, Survivors, Giving, Gaining, GainWeights
<1>2. DOMAIN wt = DOMAIN c.weight \cup Gaining(c, s, map)
  OBVIOUS
<1> HIDE DEF pj, wt, fx, sb, cl, ok, m
<1>3. LET r == [c EXCEPT !.proj = pj, !.weight = wt] IN
      /\ CnfFields(r) /\ r.nvars = c.nvars /\ r.clauses = c.clauses /\ r.table = c.table
      /\ r.proj = pj /\ r.weight = wt
  BY DEF CnfFields
<1>4. LET r == [s EXCEPT !.fixed = fx, !.substituted = sb, !.clauses = cl] IN
      /\ StFields(r) /\ r.eliminated = s.eliminated
      /\ r.fixed = fx /\ r.substituted = sb /\ r.clauses = cl
  BY DEF StFields
<1>5. /\ m.ok = ok
      /\ m.cnf = [c EXCEPT !.proj = pj, !.weight = wt]
      /\ m.st = [s EXCEPT !.fixed = fx, !.substituted = sb, !.clauses = cl]
  BY <1>1
<1>6. /\ CnfFields(m.cnf) /\ m.cnf.nvars = c.nvars /\ m.cnf.clauses = c.clauses /\ m.cnf.table = c.table
      /\ m.cnf.proj = pj /\ m.cnf.weight = wt
  BY <1>3, <1>5, Zenon
<1>7. /\ StFields(m.st) /\ m.st.eliminated = s.eliminated
      /\ m.st.fixed = fx /\ m.st.substituted = sb /\ m.st.clauses = cl
  BY <1>4, <1>5, Zenon
<1> QED BY <1>2, <1>5, <1>6, <1>7 DEF MergedParts, pj, fx, sb, cl, ok, m

LEMMA MapLitIs ==
  ASSUME NEW V, Naming(V), NEW map \in [V -> Lits(V)]
  PROVE  /\ \A l \in Lits(V) : MapLit(map, l) \in Lits(V) /\ MapLit(map, -l) = -MapLit(map, l)
                               /\ Var(MapLit(map, l)) = Var(map[Var(l)])
         /\ \A v \in V : MapLit(map, v) = map[v] /\ MapLit(map, -v) = -map[v]
<1>1. ASSUME NEW v \in V PROVE MapLit(map, v) = map[v] /\ MapLit(map, -v) = -map[v]
  <2>1. v \in Nat /\ v > 0 /\ ~ (-v > 0) /\ -(-v) = v
    BY DEF Naming
  <2> QED BY <2>1 DEF MapLit
<1>2. ASSUME NEW l \in Lits(V)
      PROVE  MapLit(map, l) \in Lits(V) /\ MapLit(map, -l) = -MapLit(map, l)
             /\ Var(MapLit(map, l)) = Var(map[Var(l)])
  <2> DEFINE v == Var(l)
             k == map[v]
  <2>1. v \in V /\ (l = v \/ l = -v) /\ -(-v) = v
    BY LiteralsAre
  <2>2. k \in Lits(V) /\ -k \in Lits(V) /\ -(-k) = k /\ Var(-k) = Var(k)
    BY <2>1, LiteralsAre
  <2> HIDE DEF v
  <2>3. MapLit(map, v) = k /\ MapLit(map, -v) = -k
    BY <1>1, <2>1
  <2> HIDE DEF k
  <2>4. CASE l = v
    BY <2>2, <2>3, <2>4 DEF k, v
  <2>5. CASE l = -v
    <3>1. -l = v /\ MapLit(map, l) = -k /\ MapLit(map, -l) = k
      BY <2>1, <2>3, <2>5
    <3> QED BY <2>2, <3>1 DEF k, v
  <2> QED BY <2>1, <2>4, <2>5
<1> QED BY <1>1, <1>2

LEMMA RewrittenTyped ==
  ASSUME NEW V, Naming(V), NEW map \in [V -> Lits(V)], NEW C, Clausal(C, V)
  PROVE  Clausal(Rewritten(C, map), V) /\ Plain(Rewritten(C, map))
<1>1. ASSUME NEW d \in Rewritten(C, map) PROVE d \subseteq Lits(V) /\ ~ Tautology(d)
  <2>1. PICK c \in C : d = {MapLit(map, l) : l \in c} /\ ~ Tautology(d)
    BY DEF Rewritten
  <2>2. c \subseteq Lits(V)
    BY DEF Clausal
  <2> QED BY <2>1, <2>2, MapLitIs
<1> QED BY <1>1 DEF Clausal, Plain

LEMMA KnownTyped ==
  ASSUME NEW n \in Nat, NEW map \in [Among(n) -> Lits(Among(n))], NEW s, StTyped(s, n)
  PROVE  /\ Known(s, map) \subseteq Lits(Among(n))
         /\ \A l \in s.fixed : MapLit(map, l) \in Known(s, map)
<1> DEFINE V == Among(n)
           C == Rewritten(s.clauses, map)
           given == {MapLit(map, l) : l \in s.fixed}
<1>1. Naming(V) /\ IsFiniteSet(V) /\ s.fixed \subseteq Lits(V) /\ Clausal(s.clauses, V) /\ map \in [V -> Lits(V)]
  BY AmongNames DEF StTyped
<1> HIDE DEF V
<1>2. given \in SUBSET Lits(V)
  BY <1>1, MapLitIs
<1>3. Clausal(C, V)
  BY <1>1, RewrittenTyped
<1> HIDE DEF given, C
<1>4. Clausal(Reduce(C, given), V)
  BY <1>1, <1>2, <1>3, ReduceShrinks
<1>5. IsFiniteSet(VarsIn(Reduce(C, given)))
  BY <1>1, <1>4, VarsInMeans, FS_Subset
<1>6. Closure(Reduce(C, given), {}) \subseteq Lits(V)
  <2>1. Closure(Reduce(C, given), {}) \subseteq {} \cup UNION Reduce(C, given)
    BY <1>5, ClosureWithin
  <2> QED BY <1>4, <2>1 DEF Clausal
<1>7. Known(s, map) = given \cup Closure(Reduce(C, given), {})
  BY DEF Known, Values, given, C
<1> QED BY <1>2, <1>6, <1>7 DEF given, V

LEMMA MergedTyped ==
  ASSUME NEW c, Typed(c), NEW s, StTyped(s, c.nvars),
         NEW map \in [Among(c.nvars) -> Lits(Among(c.nvars))]
  PROVE  Typed(Merged(c, s, map).cnf) /\ StTyped(Merged(c, s, map).st, c.nvars)
<1> DEFINE V == Among(c.nvars)
           m == Merged(c, s, map)
<1>1. Naming(V) /\ c.nvars \in Nat /\ s.fixed \subseteq Lits(V) /\ Clausal(s.clauses, V) /\ map \in [V -> Lits(V)]
      /\ DOMAIN map = V /\ s.substituted \subseteq V /\ s.eliminated \subseteq V
      /\ c.proj \subseteq V /\ Clausal(c.clauses, V)
  BY AmongNames DEF StTyped, Typed
<1>2. Known(s, map) \subseteq Lits(V)
  BY <1>1, KnownTyped
<1>3. /\ CnfFields(m.cnf) /\ m.cnf.nvars = c.nvars /\ m.cnf.clauses = c.clauses
      /\ m.cnf.proj = c.proj \cup {u \in Survivors(s, map) : Class(map, u) \cap c.proj # {}}
      /\ StFields(m.st) /\ m.st.eliminated = s.eliminated
      /\ m.st.fixed = s.fixed \cup {l \in Lits(DOMAIN map) : MapLit(map, l) \in Known(s, map)}
      /\ m.st.substituted = s.substituted \cup UNION {Class(map, u) \ {u} : u \in Survivors(s, map)}
      /\ m.st.clauses = Reduce(Rewritten(s.clauses, map), Known(s, map))
  <2>1. CnfFields(c) /\ StFields(s)
    BY DEF Typed, StTyped
  <2>2. MergedParts(Merged(c, s, map), c, s, map)
    BY <2>1, MergedIs
  <2> QED BY <2>2 DEF MergedParts
<1>4. Survivors(s, map) \subseteq V /\ \A u : Class(map, u) \subseteq V
  BY <1>1 DEF Survivors, Class
<1> HIDE DEF V, m
<1>5. Clausal(m.st.clauses, V) /\ Plain(m.st.clauses)
  <2>1. Clausal(Rewritten(s.clauses, map), V) /\ Plain(Rewritten(s.clauses, map))
    BY <1>1, RewrittenTyped
  <2> QED BY <1>1, <1>2, <1>3, <2>1, ReduceShrinks
<1>6. m.cnf.proj \subseteq V /\ m.st.substituted \subseteq V /\ m.st.fixed \subseteq Lits(V)
  BY <1>1, <1>3, <1>4
<1> QED BY <1>1, <1>3, <1>5, <1>6 DEF Typed, StTyped, V, m

(* Clauses of two literals or more.                                        *)
Wide(C) == \A c \in C : \E k, l \in c : k # l

(* A formula numbered anew has its fields, a weight for every literal of   *)
(* the projection if it has weights, and clauses as long as before.        *)
LEMMA RenumberedTyped ==
  ASSUME NEW c, Typed(c), NEW C, Clausal(C, Among(c.nvars)), NEW table
  PROVE  LET r == Renumbered(c, C, table) IN
         /\ Typed(r)
         /\ r.table => Lits(r.proj) \subseteq DOMAIN r.weight
         /\ Wide(C) => Wide(r.clauses)
<1> DEFINE V == Among(c.nvars)
           live == VarsIn(C)
           pj == live \cap c.proj
           npvars == Cardinality(pj)
           UpTo(S, v) == Cardinality({u \in S : u <= v})
           index == [v \in live |-> IF v \in c.proj THEN UpTo(pj, v) ELSE npvars + UpTo(live \ c.proj, v)]
           NewLit(l) == IF l > 0 THEN index[l] ELSE -index[-l]
           OldLit(k) == CHOOSE l \in Lits(live) : NewLit(l) = k
           cl == {{NewLit(l) : l \in d} : d \in C}
           tb == table /\ npvars > 0
           wt == IF table THEN [k \in Lits(Among(npvars)) |-> c.weight[OldLit(k)]] ELSE <<>>
           r == Renumbered(c, C, table)
           nv == Cardinality(live)
<1>1. r = [c EXCEPT !.nvars = nv, !.proj = Among(npvars), !.clauses = cl, !.table = tb, !.weight = wt]
  BY Zenon DEF Renumbered
<1>2. Naming(V) /\ IsFiniteSet(V) /\ Clausal(C, V)
  BY AmongNames DEF Typed
<1>3. live \subseteq V /\ IsFiniteSet(live) /\ UNION C \subseteq Lits(live)
  <2> HIDE DEF V
  <2> QED BY <1>2, VarsInMeans, FS_Subset
<1>4. /\ nv \in Nat /\ npvars \in Nat /\ npvars <= nv
      /\ npvars + Cardinality(live \ c.proj) = nv
      /\ \A S \in SUBSET live : IsFiniteSet(S) /\ Cardinality(S) \in Nat
  <2> HIDE DEF V, live
  <2>1. \A S \in SUBSET live : IsFiniteSet(S) /\ Cardinality(S) \in Nat
    BY <1>3, FS_Subset, FS_CardinalityType
  <2> DEFINE A == live \cap c.proj
             B == live \ c.proj
  <2>2. IsFiniteSet(A) /\ IsFiniteSet(B) /\ A \cup B = live /\ A \cap B = {}
    BY <2>1
  <2>3. Cardinality(A) \in Nat /\ Cardinality(B) \in Nat /\ Cardinality(live) \in Nat
    BY <2>1
  <2>4. Cardinality(A \cup B) = Cardinality(A) + Cardinality(B) - Cardinality(A \cap B)
    <3> HIDE DEF A, B
    <3> QED BY <2>2, FS_Union
  <2>5. Cardinality(A \cap B) = 0
    BY <2>2, FS_EmptySet
  <2>6. Cardinality(live) = Cardinality(A) + Cardinality(B)
    <3> HIDE DEF A, B
    <3>1. Cardinality(A \cup B) = Cardinality(A) + Cardinality(B)
      BY <2>3, <2>4, <2>5
    <3>2. A \cup B = live
      BY <2>2
    <3> QED BY <3>1, <3>2, Zenon
  <2> QED BY <2>1, <2>3, <2>6
<1>5. ASSUME NEW S \in SUBSET live, NEW v \in S PROVE UpTo(S, v) \in 1 .. Cardinality(S)
  <2> DEFINE T == {u \in S : u <= v}
  <2>1. v \in Nat
    BY <1>2, <1>3 DEF Naming
  <2>2. v \in T /\ T \subseteq S
    BY <2>1
  <2>3. IsFiniteSet(S) /\ IsFiniteSet(T) /\ Cardinality(S) \in Nat /\ Cardinality(T) \in Nat
    BY <1>4
  <2> HIDE DEF T
  <2>4. Cardinality(T) <= Cardinality(S)
    BY <2>2, <2>3, FS_Subset
  <2>5. Cardinality(T) # 0
    BY <2>2, <2>3, FS_EmptySet
  <2>6. Cardinality(T) \in 1 .. Cardinality(S)
    BY <2>3, <2>4, <2>5
  <2> QED BY <2>6 DEF T
<1>6. ASSUME NEW v \in live PROVE index[v] \in Among(nv)
  <2>1. CASE v \in c.proj
    <3>1. UpTo(pj, v) \in 1 .. npvars
      BY <1>5, <2>1
    <3>2. index[v] = UpTo(pj, v)
      BY <2>1
    <3> QED BY <1>4, <3>1, <3>2 DEF Among
  <2>2. CASE v \notin c.proj
    <3>1. UpTo(live \ c.proj, v) \in 1 .. Cardinality(live \ c.proj)
      BY <1>5, <2>2
    <3>2. index[v] = npvars + UpTo(live \ c.proj, v)
      BY <2>2
    <3>3. Cardinality(live \ c.proj) \in Nat
      BY <1>4
    <3> DEFINE k == UpTo(live \ c.proj, v)
               m == Cardinality(live \ c.proj)
    <3> HIDE DEF k, m, npvars, nv, index
    <3>4. k \in 1 .. m /\ index[v] = npvars + k /\ m \in Nat /\ npvars \in Nat /\ nv = npvars + m
      BY <1>4, <3>1, <3>2, <3>3 DEF k, m
    <3> QED BY <3>4 DEF Among
  <2> QED BY <2>1, <2>2
<1>7. ASSUME NEW v \in live, NEW w \in live, v < w, v \in c.proj <=> w \in c.proj
       PROVE  index[v] # index[w]
  <2>0. v \in Nat /\ w \in Nat /\ \A u \in live : u \in Nat
    BY <1>2, <1>3 DEF Naming
  <2>1. ASSUME NEW S \in SUBSET live, v \in S, w \in S PROVE UpTo(S, v) \in Nat /\ UpTo(S, w) \in Nat /\ UpTo(S, v) < UpTo(S, w)
    <3> DEFINE A == {u \in S : u <= v}
               B == {u \in S : u <= w}
    <3>1. \A u \in S : u \in Nat /\ (u <= v => u <= w)
      BY <1>7, <2>0
    <3>2. A \in SUBSET B /\ B \in SUBSET live /\ A \in SUBSET live
      BY <3>1
    <3>3. w \in B /\ w \notin A
      BY <1>7, <2>0, <2>1
    <3>4. IsFiniteSet(B) /\ Cardinality(A) \in Nat /\ Cardinality(B) \in Nat
      BY <1>4, <3>2
    <3> HIDE DEF A, B
    <3>5. Cardinality(A) <= Cardinality(B) /\ Cardinality(A) # Cardinality(B)
      BY <3>2, <3>3, <3>4, FS_Subset
    <3>6. Cardinality(A) < Cardinality(B)
      BY <3>4, <3>5
    <3> QED BY <3>4, <3>6 DEF A, B
  <2>2. CASE v \in c.proj
    <3>1. v \in pj /\ w \in pj /\ index[v] = UpTo(pj, v) /\ index[w] = UpTo(pj, w)
      BY <1>7, <2>2
    <3> HIDE DEF index, UpTo
    <3>2. pj \in SUBSET live
      OBVIOUS
    <3> HIDE DEF pj
    <3> QED BY <2>1, <3>1, <3>2
  <2>3. CASE v \notin c.proj
    <3> DEFINE rest == live \ c.proj
    <3>1. v \in rest /\ w \in rest /\ index[v] = npvars + UpTo(rest, v) /\ index[w] = npvars + UpTo(rest, w)
      BY <1>7, <2>3
    <3>2. rest \in SUBSET live
      OBVIOUS
    <3> HIDE DEF index, UpTo, rest
    <3>3. UpTo(rest, v) \in Nat /\ UpTo(rest, w) \in Nat /\ UpTo(rest, v) < UpTo(rest, w)
      BY <2>1, <3>1, <3>2
    <3> DEFINE a == UpTo(rest, v)
               b == UpTo(rest, w)
    <3>4. a \in Nat /\ b \in Nat /\ a < b /\ index[v] = npvars + a /\ index[w] = npvars + b /\ npvars \in Nat
      BY <1>4, <3>1, <3>3
    <3> HIDE DEF a, b, npvars
    <3> QED BY <3>4
  <2> QED BY <2>2, <2>3
<1>8. ASSUME NEW v \in live, NEW w \in live, v \in c.proj, w \notin c.proj
       PROVE  index[v] # index[w]
  <2>1. index[v] = UpTo(pj, v) /\ index[w] = npvars + UpTo(live \ c.proj, w)
    BY <1>8
  <2>2. UpTo(pj, v) \in 1 .. npvars
    BY <1>5, <1>8
  <2>3. UpTo(live \ c.proj, w) \in 1 .. Cardinality(live \ c.proj) /\ Cardinality(live \ c.proj) \in Nat
    BY <1>4, <1>5, <1>8
  <2> DEFINE a == UpTo(pj, v)
             b == UpTo(live \ c.proj, w)
             m == Cardinality(live \ c.proj)
  <2>4. a \in 1 .. npvars /\ b \in 1 .. m /\ m \in Nat /\ npvars \in Nat /\ index[v] = a /\ index[w] = npvars + b
    BY <1>4, <2>1, <2>2, <2>3
  <2> HIDE DEF a, b, m, npvars, index
  <2> QED BY <2>4
<1>9. ASSUME NEW v \in live, NEW w \in live, v # w PROVE index[v] # index[w]
  <2>1. v \in Nat /\ w \in Nat
    BY <1>2, <1>3 DEF Naming
  <2>2. v < w \/ w < v
    BY <1>9, <2>1
  <2> HIDE DEF index
  <2> QED BY <1>7, <1>8, <2>2
<1> HIDE DEF index
<1>10. ASSUME NEW k \in Lits(live), NEW l \in Lits(live), k # l PROVE NewLit(k) # NewLit(l)
  <2>1. Naming(live)
    BY <1>2, <1>3 DEF Naming
  <2>2. \A j \in Lits(live) : j \in Int /\ -j \in Int /\ -(-j) = j /\ IF j > 0 THEN j \in live ELSE -j \in live
    <3>1. ASSUME NEW j \in Lits(live) PROVE IF j > 0 THEN j \in live ELSE -j \in live
      <4>1. Var(j) \in live
        <5> HIDE DEF live
        <5> QED BY <2>1, LiteralsAre
      <4> QED BY <4>1 DEF Var
    <3>2. \A j \in Lits(live) : j \in Int /\ -(-j) = j
      <4> HIDE DEF live
      <4> QED BY <2>1, LiteralsAre
    <3> QED BY <3>1, <3>2
  <2>3. \A v \in live : index[v] \in Nat \ {0}
    BY <1>4, <1>6 DEF Among
  <2>4. CASE k > 0 /\ l > 0
    BY <1>9, <1>10, <2>2, <2>4
  <2>5. CASE ~ (k > 0) /\ ~ (l > 0)
    <3>1. -k \in live /\ -l \in live /\ -k # -l
      BY <1>10, <2>2, <2>5
    <3>2. index[-k] # index[-l] /\ index[-k] \in Nat /\ index[-l] \in Nat
      BY <1>9, <2>3, <3>1
    <3>3. -index[-k] # -index[-l]
      BY <3>2
    <3> QED BY <2>5, <3>3
  <2>6. CASE k > 0 /\ ~ (l > 0)
    <3>1. index[k] \in Nat \ {0} /\ index[-l] \in Nat \ {0}
      BY <2>2, <2>3, <2>6
    <3>2. index[k] # -index[-l]
      BY <3>1
    <3> QED BY <2>6, <3>2
  <2>7. CASE l > 0 /\ ~ (k > 0)
    <3>1. index[l] \in Nat \ {0} /\ index[-k] \in Nat \ {0}
      BY <2>2, <2>3, <2>7
    <3>2. index[l] # -index[-k]
      BY <3>1
    <3> QED BY <2>7, <3>2
  <2> QED BY <2>4, <2>5, <2>6, <2>7
<1>11. ASSUME Wide(C), NEW d \in C PROVE \E k, l \in {NewLit(j) : j \in d} : k # l
  <2>1. PICK k \in d, l \in d : k # l
    BY <1>11 DEF Wide
  <2>2. k \in Lits(live) /\ l \in Lits(live)
    BY <1>3
  <2> HIDE DEF NewLit, live
  <2>3. NewLit(k) # NewLit(l)
    BY <1>10, <2>1, <2>2
  <2> QED BY <2>3
<1>12. Wide(C) => Wide(cl)
  <2> HIDE DEF NewLit
  <2> QED BY <1>11 DEF Wide
<1>13. ASSUME NEW l \in Lits(live) PROVE NewLit(l) \in Lits(Among(nv))
  <2>1. Naming(live)
    BY <1>2, <1>3 DEF Naming
  <2>2. Var(l) \in live /\ (l = Var(l) \/ l = -Var(l)) /\ l \in Int
    <3> HIDE DEF live
    <3> QED BY <2>1, LiteralsAre
  <2>3. IF l > 0 THEN l \in live ELSE -l \in live
    <3> HIDE DEF live
    <3> QED BY <2>1, <2>2 DEF Var
  <2> QED BY <1>6, <2>3 DEF Lits, Negate
<1>14. Clausal(cl, Among(nv))
  <2> HIDE DEF NewLit, live, nv
  <2> QED BY <1>3, <1>13 DEF Clausal
<1>15. Among(npvars) \subseteq Among(nv)
  BY <1>4 DEF Among
<1>16. tb => DOMAIN wt = Lits(Among(npvars))
  OBVIOUS
<1> HIDE DEF cl, tb, wt, nv, npvars, r
<1>17. /\ CnfFields(r) /\ r.nvars = nv /\ r.proj = Among(npvars) /\ r.clauses = cl
       /\ r.table = tb /\ r.weight = wt
  BY <1>1 DEF CnfFields, Typed
<1> QED BY <1>4, <1>14, <1>15, <1>16, <1>17, <1>12, Zenon DEF Typed, r
-----------------------------------------------------------------------------
(* What the variables are made of: the file and the formula are over their *)
(* variables, and the preprocessor has a state in its phases only.         *)
Phases == {"simplify", "eliminate", "define", "finalize"}
TypeInv ==
  /\ file.nvars \in Nat /\ file.show \subseteq Among(file.nvars) /\ Clausal(file.clauses, Among(file.nvars))
  /\ Typed(cnf)
  /\ pc \in {"preprocess", "normalize"} => Plain(cnf.clauses)
  /\ IF pc \in Phases THEN StTyped(st, cnf.nvars) ELSE st = None

(* A formula as it is opened.                                              *)
LEMMA OpenedTyped ==
  ASSUME NEW f, NEW m,
         f.nvars \in Nat, f.show \subseteq Among(f.nvars), Clausal(f.clauses, Among(f.nvars))
  PROVE  /\ Typed(Read(f, m)) /\ Typed(Opened(f, m)) /\ Plain(Opened(f, m).clauses)
         /\ Accepted(f, m) /\ Opened(f, m).table => Lits(Opened(f, m).proj) \subseteq DOMAIN Opened(f, m).weight
<1> DEFINE c == Read(f, m)
<1>1. /\ CnfFields(c) /\ c.nvars = f.nvars /\ (c.proj = f.show \/ c.proj = Among(f.nvars))
      /\ c.clauses = {d \in f.clauses : ~ Tautology(d)}
  BY DEF Read, CnfFields
<1> HIDE DEF c
<1>2. Typed(c) /\ Plain(c.clauses)
  BY <1>1 DEF Typed, Clausal, Plain
<1>3. LET d == Completed(c) IN
      /\ CnfFields(d) /\ d.nvars = c.nvars /\ d.proj = c.proj /\ d.clauses = c.clauses
      /\ d.table = c.table /\ DOMAIN d.weight = Lits(c.proj)
  BY <1>1 DEF Completed, CnfFields
<1>4. Typed(Completed(c)) /\ Plain(Completed(c).clauses)
  BY <1>2, <1>3, Zenon DEF Typed
<1>5. CASE m.complete
  <2>1. Opened(f, m) = Completed(c)
    BY <1>5 DEF Opened, c
  <2> QED BY <1>2, <1>3, <1>4, <2>1 DEF c
<1>6. CASE ~ m.complete
  <2>1. Opened(f, m) = c /\ (Accepted(f, m) => Complete(c))
    BY <1>6 DEF Opened, Accepted, c
  <2>2. Complete(c) /\ c.table => Lits(c.proj) \subseteq DOMAIN c.weight
    BY DEF Complete, Weighted
  <2> QED BY <1>2, <2>1, <2>2 DEF c
<1> QED BY <1>5, <1>6

(* What the solvers leave.                                                 *)
LEMMA AfterSolverTyped ==
  ASSUME NEW n \in Nat, NEW s, StTyped(s, n), NEW V \in SUBSET Among(n),
         NEW found \in Findable(Eliminated(s.clauses, V))
  PROVE  LET t == AfterSolver(s, V, found)
             E == Eliminated(s.clauses, V) IN
         /\ StTyped(t, n)
         /\ t.fixed = s.fixed \cup found /\ t.clauses = Reduce(E, found)
         /\ t.substituted = s.substituted /\ t.eliminated = s.eliminated /\ t.mult = s.mult
         /\ Clausal(E, Among(n)) /\ Plain(E) /\ VarsIn(E) \cap V = {} /\ VarsIn(E) \subseteq VarsIn(s.clauses)
         /\ \A M : Consistent(M) /\ Satisfies(M, s.clauses) => Satisfies(M, E)
<1> DEFINE E == Eliminated(s.clauses, V)
           W == Among(n)
           t == AfterSolver(s, V, found)
<1>1. Naming(W) /\ \A v \in W : v <= n
  <2>1. \A v \in W : v <= n
    BY DEF Among
  <2> QED BY <2>1, AmongNames
<1>2. /\ StFields(s) /\ s.fixed \subseteq Lits(W) /\ s.substituted \subseteq W /\ s.eliminated \subseteq W
      /\ Clausal(s.clauses, W) /\ Plain(s.clauses)
  BY DEF StTyped
<1>3. t = [s EXCEPT !.fixed = @ \cup found, !.clauses = Reduce(E, found)]
  BY DEF AfterSolver
<1> HIDE DEF W, E, t
<1>4. /\ UNION E \subseteq UNION s.clauses /\ Plain(E) /\ VarsIn(E) \cap V = {}
      /\ \A M : Consistent(M) /\ Satisfies(M, s.clauses) => Satisfies(M, E)
  BY <1>1, <1>2, EliminatedKeeps DEF E, W
<1>5. Clausal(E, W) /\ VarsIn(E) \subseteq VarsIn(s.clauses)
  BY <1>2, <1>4 DEF Clausal, VarsIn
<1>6. found \subseteq Lits(W)
  <2>1. found \subseteq Lits(VarsIn(E)) /\ VarsIn(E) \subseteq W
    BY <1>1, <1>5, FindableKeeps, VarsInMeans DEF E, W
  <2> QED BY <2>1 DEF Lits, Negate
<1>7. /\ StFields(t) /\ t.fixed = s.fixed \cup found /\ t.clauses = Reduce(E, found)
      /\ t.substituted = s.substituted /\ t.eliminated = s.eliminated /\ t.mult = s.mult
  BY <1>2, <1>3 DEF StFields
<1>8. Clausal(t.clauses, W) /\ Plain(t.clauses)
  BY <1>1, <1>4, <1>5, <1>6, <1>7, ReduceShrinks
<1>9. StTyped(t, n)
  BY <1>2, <1>6, <1>7, <1>8 DEF StTyped, W
<1> QED BY <1>4, <1>5, <1>7, <1>9 DEF E, W, t

(* A survivor has weights when one of its class has.                       *)
LEMMA MergedWeights ==
  ASSUME NEW c, Typed(c), NEW s, StTyped(s, c.nvars),
         NEW map \in [Among(c.nvars) -> Lits(Among(c.nvars))],
         Lits(c.proj) \subseteq DOMAIN c.weight
  PROVE  Lits(Merged(c, s, map).cnf.proj) \subseteq DOMAIN Merged(c, s, map).cnf.weight
<1> DEFINE V == Among(c.nvars)
           m == Merged(c, s, map)
<1>1. Naming(V) /\ map \in [V -> Lits(V)] /\ c.proj \subseteq V
  BY AmongNames DEF Typed
<1>2. /\ m.cnf.proj = c.proj \cup {u \in Survivors(s, map) : Class(map, u) \cap c.proj # {}}
      /\ DOMAIN m.cnf.weight = DOMAIN c.weight \cup Gaining(c, s, map)
  <2>1. CnfFields(c) /\ StFields(s)
    BY DEF Typed, StTyped
  <2>2. MergedParts(m, c, s, map)
    BY <2>1, MergedIs
  <2> HIDE DEF m
  <2> QED BY <2>2 DEF MergedParts
<1> HIDE DEF V, m
<1>3. ASSUME NEW u \in Survivors(s, map), NEW v \in Class(map, u) \cap c.proj
      PROVE  u \in Gaining(c, s, map) /\ -u \in Gaining(c, s, map)
  <2>1. v \in V /\ Var(map[v]) = u /\ u \in V
    BY <1>1, <1>3 DEF Class, Survivors
  <2>2. v \in DOMAIN c.weight /\ -v \in DOMAIN c.weight
    BY DEF Lits, Negate
  <2>3. Target(map, v) = map[v] /\ Target(map, -v) = -map[v]
    BY <1>1, <2>1, MapLitIs DEF Target
  <2>4. (map[v] = u /\ -map[v] = -u) \/ (map[v] = -u /\ -map[v] = u)
    <3> DEFINE k == map[v]
    <3>1. k \in Lits(V) /\ -(-k) = k
      BY <1>1, <2>1, LiteralsAre
    <3>2. k = Var(k) \/ k = -Var(k)
      BY <1>1, <3>1, LiteralsAre
    <3>3. Var(k) = u
      BY <2>1
    <3> HIDE DEF k
    <3>4. u \in Int
      BY <1>1, <2>1 DEF Naming
    <3>5. (k = u /\ -k = -u) \/ (k = -u /\ -k = u)
      BY <3>2, <3>3, <3>4
    <3> QED BY <3>5 DEF k
  <2>5. Giving(c, map, u) # {} /\ Giving(c, map, -u) # {}
    BY <2>2, <2>3, <2>4 DEF Giving
  <2>6. u \in Lits(Survivors(s, map)) /\ -u \in Lits(Survivors(s, map))
    BY DEF Lits, Negate
  <2> QED BY <2>5, <2>6 DEF Gaining
<1>4. \A v \in m.cnf.proj : v \in DOMAIN m.cnf.weight /\ -v \in DOMAIN m.cnf.weight
  <2>1. \A v \in c.proj : v \in DOMAIN c.weight /\ -v \in DOMAIN c.weight
    BY DEF Lits, Negate
  <2> QED BY <1>2, <1>3, <2>1
<1> QED BY <1>4 DEF Lits, Negate, m
-----------------------------------------------------------------------------
Inv == TypeInv /\ WeightsTotal

LEMMA InvInit == Init => Inv
<1> SUFFICES ASSUME Init PROVE Inv
  OBVIOUS
<1>1. PICK input \in Inputs : file = input.file
  BY DEF Init
<1>2. file.nvars \in Nat /\ file.show \subseteq Among(file.nvars) /\ Clausal(file.clauses, Among(file.nvars))
  BY <1>1, InputsAssumption DEF Clausal, Among
<1>3. cnf = Read(NoFile, [projected |-> FALSE, weighted |-> FALSE, complete |-> FALSE])
  BY DEF Init
<1>4. NoFile.nvars \in Nat /\ NoFile.show \subseteq Among(NoFile.nvars) /\ Clausal(NoFile.clauses, Among(NoFile.nvars))
  BY DEF NoFile, Clausal
<1>5. Typed(cnf)
  BY <1>3, <1>4, OpenedTyped
<1> QED BY <1>2, <1>5 DEF Init, Inv, TypeInv, WeightsTotal, Phases

LEMMA OpenTyped == ASSUME Inv, Open PROVE Inv'
<1>1. pc = "file" /\ file' = file /\ st' = st /\ st = None
  BY DEF Open, Inv, TypeInv, Phases
<1>2. /\ Typed(Opened(file, mode)) /\ Plain(Opened(file, mode).clauses)
      /\ Accepted(file, mode) /\ Opened(file, mode).table
           => Lits(Opened(file, mode).proj) \subseteq DOMAIN Opened(file, mode).weight
  BY OpenedTyped DEF Inv, TypeInv
<1>3. CASE Accepted(file, mode)
  <2>1. cnf' = Opened(file, mode) /\ pc' \in {"normalize", "preprocess"}
    BY <1>3 DEF Open
  <2>2. Typed(cnf') /\ Plain(cnf'.clauses) /\ (cnf'.table => Lits(cnf'.proj) \subseteq DOMAIN cnf'.weight)
    BY <1>2, <1>3, <2>1, Zenon
  <2>3. pc' \notin Phases
    BY <2>1 DEF Phases
  <2> QED BY <1>1, <2>2, <2>3 DEF Inv, TypeInv, WeightsTotal
<1>4. CASE ~ Accepted(file, mode)
  BY <1>1, <1>4 DEF Open, Inv, TypeInv, WeightsTotal, Phases
<1> QED BY <1>3, <1>4

LEMMA StartTyped == ASSUME Inv, StartPreprocess PROVE Inv'
<1>1. pc = "preprocess" /\ file' = file /\ cnf' = cnf /\ st = None
  BY DEF StartPreprocess, Inv, TypeInv, Phases
<1>2. Plain(cnf.clauses) /\ Typed(cnf) /\ WeightsTotal
  BY <1>1 DEF Inv, TypeInv
<1>3. CASE pc' = "preprocessed" /\ st' = st
  BY <1>1, <1>2, <1>3 DEF Inv, TypeInv, WeightsTotal, Phases
<1>4. ASSUME NEW mult, pc' = "simplify",
             st' = [fixed |-> {}, substituted |-> {}, eliminated |-> {}, mult |-> mult, clauses |-> cnf.clauses]
      PROVE  Inv'
  <2>1. StTyped(st', cnf.nvars)
    BY <1>2, <1>4 DEF StTyped, StFields, Typed
  <2> QED BY <1>1, <1>2, <1>4, <2>1 DEF Inv, TypeInv, WeightsTotal, Phases
<1> QED BY <1>3, <1>4 DEF StartPreprocess

LEMMA UnsatTyped == ASSUME Inv, pc # "file", pc # "error", Unsat, file' = file PROVE Inv'
BY DEF Unsat, Inv, TypeInv, WeightsTotal, Phases

LEMMA FoundTyped ==
  ASSUME NEW n \in Nat, NEW s, StTyped(s, n), NEW found \in SUBSET Lits(Among(n))
  PROVE  LET t == [s EXCEPT !.fixed = @ \cup found] IN
         /\ StTyped(t, n) /\ t.fixed = s.fixed \cup found
         /\ t.substituted = s.substituted /\ t.eliminated = s.eliminated /\ t.clauses = s.clauses
BY DEF StTyped, StFields

LEMMA SimplifyTyped == ASSUME Inv, Simplify PROVE Inv'
<1>1. pc = "simplify" /\ file' = file /\ Typed(cnf) /\ StTyped(st, cnf.nvars)
  BY DEF Simplify, Inv, TypeInv, Phases
<1>2. CASE Unsat
  BY <1>1, <1>2, UnsatTyped
<1>3. ASSUME NEW found \in Findable(st.clauses), NEW map \in Mappings(cnf.nvars, st.clauses),
             cnf' = Merged(cnf, [st EXCEPT !.fixed = @ \cup found], map).cnf,
             st' = Merged(cnf, [st EXCEPT !.fixed = @ \cup found], map).st,
             pc' = "eliminate"
      PROVE  Inv'
  <2> DEFINE s == [st EXCEPT !.fixed = @ \cup found]
  <2>1. map \in [Among(cnf.nvars) -> Lits(Among(cnf.nvars))]
    BY DEF Mappings
  <2>2. found \in SUBSET Lits(Among(cnf.nvars))
    <3> DEFINE V == Among(cnf.nvars)
               C == st.clauses
    <3>1. Naming(V) /\ Clausal(C, V) /\ cnf.nvars \in Nat
      BY <1>1, AmongNames DEF Typed, StTyped
    <3>2. found \subseteq Lits(VarsIn(C))
      BY <3>1, FindableKeeps
    <3>3. VarsIn(C) \subseteq V
      <4> HIDE DEF V, C
      <4> QED BY <3>1, VarsInMeans
    <3> QED BY <3>2, <3>3 DEF Lits, Negate
  <2>3. StTyped(s, cnf.nvars)
    BY <1>1, <2>2, FoundTyped DEF Typed
  <2> HIDE DEF s
  <2>4. Typed(Merged(cnf, s, map).cnf) /\ StTyped(Merged(cnf, s, map).st, cnf.nvars)
    BY <1>1, <2>1, <2>3, MergedTyped
  <2>5. Merged(cnf, s, map).cnf.nvars = cnf.nvars /\ Merged(cnf, s, map).cnf.table = cnf.table
    <3>1. CnfFields(cnf) /\ StFields(s)
      BY <1>1, <2>3 DEF Typed, StTyped
    <3>2. MergedParts(Merged(cnf, s, map), cnf, s, map)
      BY <3>1, MergedIs
    <3> QED BY <3>2 DEF MergedParts
  <2>6. cnf.table => Lits(Merged(cnf, s, map).cnf.proj) \subseteq DOMAIN Merged(cnf, s, map).cnf.weight
    BY <1>1, <2>1, <2>3, MergedWeights DEF Inv, WeightsTotal
  <2>7. cnf' = Merged(cnf, s, map).cnf /\ st' = Merged(cnf, s, map).st
    BY <1>3 DEF s
  <2>8. Typed(cnf') /\ StTyped(st', cnf'.nvars) /\ (cnf'.table => Lits(cnf'.proj) \subseteq DOMAIN cnf'.weight)
    BY <2>4, <2>5, <2>6, <2>7, Zenon
  <2> QED BY <1>1, <1>3, <2>8 DEF Inv, TypeInv, WeightsTotal, Phases
<1> QED BY <1>2, <1>3, Zenon DEF Simplify

LEMMA EliminateTyped == ASSUME Inv, EliminateVars PROVE Inv'
<1>1. pc = "eliminate" /\ pc' = "define" /\ file' = file /\ cnf' = cnf /\ Typed(cnf) /\ StTyped(st, cnf.nvars)
  BY DEF EliminateVars, Inv, TypeInv, Phases
<1>2. PICK V \in SUBSET (VarsIn(st.clauses) \ cnf.proj) :
        \E found \in Findable(Eliminated(st.clauses, V)) : st' = AfterSolver(st, V, found)
  BY DEF EliminateVars
<1>3. VarsIn(st.clauses) \subseteq Among(cnf.nvars) /\ cnf.nvars \in Nat
  BY <1>1, AmongNames, VarsInMeans DEF Typed, StTyped
<1>4. StTyped(st', cnf.nvars)
  <2>1. PICK found \in Findable(Eliminated(st.clauses, V)) : st' = AfterSolver(st, V, found)
    BY <1>2
  <2>2. V \in SUBSET Among(cnf.nvars)
    BY <1>3
  <2>3. StTyped(AfterSolver(st, V, found), cnf.nvars)
    BY <1>1, <1>3, <2>2, AfterSolverTyped
  <2> QED BY <2>1, <2>3
<1> QED BY <1>1, <1>4 DEF Inv, TypeInv, WeightsTotal, Phases

LEMMA DefineTyped == ASSUME Inv, DefineVars PROVE Inv'
<1>1. /\ pc = "define" /\ pc' \in {"finalize", "simplify"} /\ file' = file /\ cnf' = cnf
      /\ Typed(cnf) /\ StTyped(st, cnf.nvars)
  BY DEF DefineVars, Inv, TypeInv, Phases
<1>2. PICK defined \in Detectable : \E gone \in SUBSET defined :
        \E found \in Findable(Eliminated(st.clauses, gone)) : \E mult :
          st' = [AfterSolver(st, gone, found) EXCEPT !.eliminated = @ \cup gone, !.mult = mult]
  BY DEF DefineVars, FoldedOf
<1>3. PICK gone \in SUBSET defined : \E found \in Findable(Eliminated(st.clauses, gone)) : \E mult :
          st' = [AfterSolver(st, gone, found) EXCEPT !.eliminated = @ \cup gone, !.mult = mult]
  BY <1>2
<1>4. gone \in SUBSET Among(cnf.nvars) /\ cnf.nvars \in Nat
  BY <1>1 DEF Detectable, Candidates, Typed
<1>5. PICK found \in Findable(Eliminated(st.clauses, gone)) : \E mult :
          st' = [AfterSolver(st, gone, found) EXCEPT !.eliminated = @ \cup gone, !.mult = mult]
  BY <1>3
<1>6. PICK mult :
          st' = [AfterSolver(st, gone, found) EXCEPT !.eliminated = @ \cup gone, !.mult = mult]
  BY <1>5
<1>7. StTyped(AfterSolver(st, gone, found), cnf.nvars)
  BY <1>1, <1>4, AfterSolverTyped
<1>8. StTyped(st', cnf.nvars)
  <2> DEFINE t == AfterSolver(st, gone, found)
  <2>1. StTyped(t, cnf.nvars) /\ st' = [t EXCEPT !.eliminated = @ \cup gone, !.mult = mult]
    BY <1>6, <1>7
  <2> HIDE DEF t
  <2> QED BY <1>4, <2>1 DEF StTyped, StFields
<1>9. pc' \in Phases /\ pc' \notin {"file", "error", "preprocess", "normalize"} /\ pc \notin {"file", "error"}
  BY <1>1 DEF Phases
<1> QED BY <1>1, <1>8, <1>9 DEF Inv, TypeInv, WeightsTotal

LEMMA FinalizeTyped == ASSUME Inv, Finalize PROVE Inv'
<1> DEFINE map == [v \in Among(cnf.nvars) |-> v]
           m == Merged(cnf, st, map)
<1>1. pc = "finalize" /\ file' = file /\ Typed(cnf) /\ StTyped(st, cnf.nvars)
  BY DEF Finalize, Inv, TypeInv, Phases
<1>2. CASE Unsat
  BY <1>1, <1>2, UnsatTyped
<1>3. CASE cnf' = Renumbered(m.cnf, m.st.clauses, st.mult # None) /\ st' = None /\ pc' = "preprocessed"
  <2>1. map \in [Among(cnf.nvars) -> Lits(Among(cnf.nvars))]
    BY DEF Lits
  <2>2. Typed(m.cnf) /\ StTyped(m.st, cnf.nvars)
    <3> HIDE DEF map
    <3> QED BY <1>1, <2>1, MergedTyped
  <2>3. m.cnf.nvars = cnf.nvars
    <3> HIDE DEF map
    <3>1. CnfFields(cnf) /\ StFields(st)
      BY <1>1 DEF Typed, StTyped
    <3>2. MergedParts(m, cnf, st, map)
      BY <3>1, MergedIs
    <3> HIDE DEF m
    <3> QED BY <3>2 DEF MergedParts
  <2> HIDE DEF m, map
  <2>4. Clausal(m.st.clauses, Among(m.cnf.nvars))
    BY <2>2, <2>3 DEF StTyped
  <2>5. Typed(cnf') /\ (cnf'.table => Lits(cnf'.proj) \subseteq DOMAIN cnf'.weight)
    BY <1>3, <2>2, <2>4, RenumberedTyped
  <2> QED BY <1>1, <1>3, <2>5 DEF Inv, TypeInv, WeightsTotal, Phases
<1> QED BY <1>2, <1>3 DEF Finalize

LEMMA WriteTyped == ASSUME Inv, Write PROVE Inv'
<1>1. pc = "preprocessed" /\ pc' = "file" /\ cnf' = cnf /\ st' = st /\ Typed(cnf) /\ st = None
  BY DEF Write, Inv, TypeInv, Phases
<1>2. file'.nvars \in Nat /\ file'.show \subseteq Among(file'.nvars) /\ Clausal(file'.clauses, Among(file'.nvars))
  <2>1. CASE res.sat
    <3> DEFINE c == [cnf EXCEPT !.mult = res.mult, !.shift = res.shift]
    <3>1. c.nvars = cnf.nvars /\ c.clauses = cnf.clauses /\ c.proj = cnf.proj
      BY <1>1 DEF Typed, CnfFields
    <3>2. file' = Written(c)
      BY <2>1 DEF Write
    <3> HIDE DEF c
    <3>3. file'.nvars = c.nvars /\ file'.clauses = c.clauses /\ file'.show = c.proj
      BY <3>2 DEF Written
    <3> QED BY <1>1, <3>1, <3>3 DEF Typed
  <2>2. CASE ~ res.sat
    <3>1. file' = WrittenUnsat
      BY <2>2 DEF Write
    <3>2. file'.nvars = 0 /\ file'.show = {} /\ file'.clauses = {{}}
      BY <3>1 DEF WrittenUnsat, NoFile
    <3> QED BY <3>2 DEF Clausal
  <2> QED BY <2>1, <2>2
<1> QED BY <1>1, <1>2 DEF Inv, TypeInv, WeightsTotal, Phases

LEMMA NormalizeTyped == ASSUME Inv, Normalize PROVE Inv'
<1>1. pc = "normalize" /\ file' = file /\ st' = st /\ Typed(cnf) /\ st = None
  BY DEF Normalize, Inv, TypeInv, Phases
<1>2. CASE cnf' = cnf /\ pc' = "counted"
  BY <1>1, <1>2 DEF Inv, TypeInv, WeightsTotal, Phases
<1>3. ASSUME NEW found \in Findable(cnf.clauses), pc' = "normalized",
             cnf' = Renumbered(cnf, Reduce(cnf.clauses, found), cnf.table)
      PROVE  Inv'
  <2> DEFINE V == Among(cnf.nvars)
             C == cnf.clauses
             left == Reduce(C, found)
  <2>1. Naming(V) /\ Clausal(C, V) /\ cnf.nvars \in Nat
    BY <1>1, AmongNames DEF Typed
  <2>2. found \subseteq Lits(VarsIn(C))
    BY <1>3, <2>1, FindableKeeps
  <2> HIDE DEF V, C
  <2>3. found \in SUBSET Lits(V)
    BY <2>1, <2>2, VarsInMeans DEF Lits, Negate
  <2>4. Clausal(left, V)
    BY <2>1, <2>3, ReduceShrinks
  <2>5. cnf' = Renumbered(cnf, left, cnf.table)
    BY <1>3 DEF C
  <2> HIDE DEF left
  <2>6. Typed(cnf') /\ (cnf'.table => Lits(cnf'.proj) \subseteq DOMAIN cnf'.weight)
    BY <1>1, <2>4, <2>5, RenumberedTyped DEF V
  <2> QED BY <1>1, <1>3, <2>6 DEF Inv, TypeInv, WeightsTotal, Phases
<1> QED BY <1>2, <1>3 DEF Normalize

LEMMA CountedTyped == ASSUME Inv, CountPreprocessed \/ CountNormalized PROVE Inv'
BY DEF CountPreprocessed, CountNormalized, Inv, TypeInv, WeightsTotal, Phases

(* The invariant that is inductive by itself: what the variables are made  *)
(* of, and that the weights are total.                                     *)
THEOREM Invariant == Spec => []Inv
<1>1. Inv /\ [Next]_vars => Inv'
  <2> SUFFICES ASSUME Inv, [Next]_vars PROVE Inv'
    OBVIOUS
  <2>1. CASE UNCHANGED vars
    BY <2>1 DEF vars, Inv, TypeInv, WeightsTotal, Typed, StTyped, CnfFields, StFields
  <2>2. CASE Done
    BY <2>1, <2>2 DEF Done
  <2> QED
    BY <2>1, <2>2, OpenTyped, StartTyped, SimplifyTyped, EliminateTyped, DefineTyped, FinalizeTyped,
       WriteTyped, CountedTyped, NormalizeTyped DEF Next
<1> QED BY <1>1, InvInit, PTL DEF Spec

(* Whatever the solvers find and eliminate, whatever classes survivors     *)
(* stand for, and however many programs the formula goes through, every    *)
(* literal of the projection of a formula with weights has one.            *)
THEOREM WeightsStayTotal == Spec => []WeightsTotal
BY Invariant, PTL DEF Inv
-----------------------------------------------------------------------------
(* Of two models that differ on defined variables, the last variable they  *)
(* differ on would not have been found to be defined.                      *)
LEMMA LastDiffers ==
  ASSUME Inv, pc = "define", NEW D \in Detectable,
         NEW M \in Models(st.clauses, VarsIn(st.clauses)), NEW N \in Models(st.clauses, VarsIn(st.clauses)),
         M \cap Lits(cnf.proj \ D) = N \cap Lits(cnf.proj \ D),
         NEW v \in D, v \in M, v \notin N,
         \A w \in D : (w \in M <=> w \in N) \/ w <= v
  PROVE  FALSE
<1> DEFINE U == VarsIn(st.clauses)
           known == {u \in D : u < v}
           base == Lits(cnf.proj \ (known \cup {v}))
<1>1. Typed(cnf) /\ StTyped(st, cnf.nvars)
  BY DEF Inv, TypeInv, Phases
<1>2. Naming(U)
  <2>1. Naming(Among(cnf.nvars))
    BY <1>1, AmongNames DEF Typed
  <2>2. U \subseteq Among(cnf.nvars)
    BY <1>1, <2>1, VarsInMeans DEF StTyped
  <2> QED BY <2>1, <2>2 DEF Naming
<1>3. D \subseteq cnf.proj /\ D \subseteq U /\ ~ Differs(v, known)
  BY DEF Detectable, Candidates
<1>4. Total(M, U) /\ Total(N, U)
  BY <1>2, ModelsMean
<1>5. v \in Nat /\ v \in U
  BY <1>2, <1>3 DEF Naming
<1> HIDE DEF U, known
<1>6. ASSUME NEW w \in cnf.proj \ (known \cup {v}) PROVE (w \in M <=> w \in N) /\ (-w \in M <=> -w \in N)
  <2>1. CASE w \in D
    <3>1. w \in U /\ w \in Nat
      BY <1>2, <1>3, <2>1 DEF Naming
    <3>2. ~ (w <= v)
      BY <1>5, <1>6, <2>1, <3>1 DEF known
    <3>3. w \in M <=> w \in N
      BY <2>1, <3>2
    <3> QED BY <1>4, <3>1, <3>3 DEF Total
  <2>2. CASE w \notin D
    <3>1. w \in Lits(cnf.proj \ D) /\ -w \in Lits(cnf.proj \ D)
      BY <1>6, <2>2 DEF Lits, Negate
    <3> QED BY <3>1
  <2> QED BY <2>1, <2>2
<1>7. M \cap base = N \cap base
  <2>1. \A l \in base : l \in M <=> l \in N
    BY <1>6 DEF Lits, Negate
  <2> QED BY <2>1
<1>8. -v \in N
  BY <1>4, <1>5 DEF Total
<1>9. Differs(v, known)
  BY <1>7, <1>8 DEF Differs
<1> QED BY <1>3, <1>9

LEMMA DefinedAgree == Inv => DefinedTogether
<1> SUFFICES ASSUME Inv, pc = "define", NEW D \in Detectable,
                    NEW M \in Models(st.clauses, VarsIn(st.clauses)),
                    NEW N \in Models(st.clauses, VarsIn(st.clauses)),
                    M \cap Lits(cnf.proj \ D) = N \cap Lits(cnf.proj \ D)
             PROVE  M \cap D = N \cap D
  BY Zenon DEF DefinedTogether
<1> DEFINE T == {w \in D : ~ (w \in M <=> w \in N)}
<1>1. D \subseteq Among(cnf.nvars) /\ cnf.nvars \in Nat
  BY DEF Detectable, Candidates, Inv, TypeInv, Typed
<1>2. SUFFICES ASSUME T # {} PROVE FALSE
  OBVIOUS
<1>3. T \in SUBSET Nat /\ \A x \in T : x <= cnf.nvars
  <2>1. \A x \in D : x \in Nat /\ x <= cnf.nvars
    BY <1>1 DEF Among
  <2>2. \A x \in T : x \in D
    OBVIOUS
  <2> HIDE DEF T
  <2> QED BY <2>1, <2>2
<1>4. PICK v \in T : \A w \in T : w <= v
  <2> HIDE DEF T
  <2> QED BY <1>1, <1>2, <1>3, GreatestNumber
<1>5. v \in D /\ \A w \in D : (w \in M <=> w \in N) \/ w <= v
  BY <1>4
<1>6. CASE v \in M /\ v \notin N
  BY <1>5, <1>6, LastDiffers
<1>7. CASE v \in N /\ v \notin M
  BY <1>5, <1>7, LastDiffers
<1> QED BY <1>4, <1>6, <1>7

(* Whatever the queries decide and whichever run into their limits, the    *)
(* variables detectDefinable() returns are defined, all together, by the   *)
(* rest of the projection: the order it takes them in admits no circles.   *)
THEOREM DefinedVarsAgree == Spec => []DefinedTogether
BY Invariant, DefinedAgree, PTL
-----------------------------------------------------------------------------
(* The variables the preprocessor has done with, each for one reason, are  *)
(* not in the clauses any more, and once they have been simplified these   *)
(* have a model.                                                           *)
FixedVars(s) == {Var(l) : l \in s.fixed}
Settled(s) ==
  /\ ~ Contradictory(s.fixed)
  /\ FixedVars(s) \cap s.substituted = {}
  /\ FixedVars(s) \cap s.eliminated = {}
  /\ s.substituted \cap s.eliminated = {}
  /\ (FixedVars(s) \cup s.substituted \cup s.eliminated) \cap VarsIn(s.clauses) = {}
HasModel(s, n) == \E M : Total(M, Among(n)) /\ Satisfies(M, s.clauses)
Accounts == pc \in Phases => Settled(st) /\ (pc # "simplify" => HasModel(st, cnf.nvars))

LEMMA ContradictoryMeans ==
  ASSUME NEW V, Naming(V), NEW L \in SUBSET Lits(V)
  PROVE  ~ Contradictory(L) <=> Consistent(L)
<1>1. ASSUME NEW l \in L PROVE l \in Negate(L) <=> -l \in L
  <2>1. l \in Int /\ -(-l) = l
    BY LiteralsAre
  <2>2. \A k \in L : k \in Int /\ -(-k) = k
    BY LiteralsAre
  <2> QED BY <2>1, <2>2 DEF Negate
<1> QED BY <1>1 DEF Contradictory, Consistent

(* A model of the clauses can have the literals that are fixed already.    *)
LEMMA ModelWithFixed ==
  ASSUME NEW V, Naming(V), NEW C, Clausal(C, V), NEW F \in SUBSET Lits(V), Consistent(F),
         {Var(l) : l \in F} \cap VarsIn(C) = {},
         NEW M, Total(M, V), Satisfies(M, C)
  PROVE  \E K : /\ Total(K, V) /\ Satisfies(K, C) /\ F \subseteq K
                /\ K \cap Lits(VarsIn(C)) = M \cap Lits(VarsIn(C))
<1> DEFINE X == {Var(l) : l \in F}
           K == {l \in Lits(V) : IF Var(l) \in X THEN l \in F ELSE l \in M}
<1>1. ASSUME NEW v \in V PROVE v \in K <=> -v \notin K
  <2>1. v \in Lits(V) /\ -v \in Lits(V) /\ Var(v) = v /\ Var(-v) = v
    BY LiteralsAre
  <2>2. CASE v \in X
    <3>1. PICK l \in F : v = Var(l)
      BY <2>2
    <3>2. l = v \/ l = -v
      BY <3>1, LiteralsAre
    <3>3. -(-v) = v
      BY <2>1, LiteralsAre
    <3>4. ~ (v \in F /\ -v \in F)
      BY DEF Consistent
    <3> QED BY <2>1, <2>2, <3>1, <3>2, <3>4
  <2>3. CASE v \notin X
    BY <2>1, <2>3 DEF Total
  <2> QED BY <2>2, <2>3
<1>2. Total(K, V)
  BY <1>1 DEF Total
<1>3. F \subseteq K
  OBVIOUS
<1>4. VarsIn(C) \subseteq V /\ UNION C \subseteq Lits(VarsIn(C))
  BY VarsInMeans
<1>5. ASSUME NEW l \in Lits(VarsIn(C)) PROVE l \in K <=> l \in M
  <2>1. Naming(VarsIn(C))
    BY <1>4 DEF Naming
  <2>2. Var(l) \in VarsIn(C)
    BY <2>1, LiteralsAre
  <2>3. l \in Lits(V)
    BY <1>4 DEF Lits, Negate
  <2> QED BY <2>2, <2>3
<1> HIDE DEF K
<1>6. Satisfies(K, C)
  BY <1>4, <1>5 DEF Satisfies
<1>7. K \cap Lits(VarsIn(C)) = M \cap Lits(VarsIn(C))
  BY <1>5
<1> QED BY <1>2, <1>3, <1>6, <1>7

(* What the solvers leave keeps the accounts.                              *)
LEMMA AfterSolverSettled ==
  ASSUME NEW n \in Nat, NEW s, StTyped(s, n), Settled(s), HasModel(s, n),
         NEW V \in SUBSET VarsIn(s.clauses), NEW found \in Findable(Eliminated(s.clauses, V))
  PROVE  LET t == AfterSolver(s, V, found) IN
         /\ Settled(t) /\ HasModel(t, n)
         /\ V \cap (FixedVars(t) \cup t.substituted \cup VarsIn(t.clauses)) = {}
<1> DEFINE W == Among(n)
           C == s.clauses
           E == Eliminated(C, V)
           t == AfterSolver(s, V, found)
<1>1. Naming(W) /\ Clausal(C, W) /\ s.fixed \subseteq Lits(W)
  BY AmongNames DEF StTyped
<1>2. VarsIn(C) \subseteq W
  <2> HIDE DEF W, C
  <2> QED BY <1>1, VarsInMeans
<1>3. /\ t.fixed = s.fixed \cup found /\ t.clauses = Reduce(E, found)
      /\ t.substituted = s.substituted /\ t.eliminated = s.eliminated
      /\ Clausal(E, W) /\ VarsIn(E) \cap V = {} /\ VarsIn(E) \subseteq VarsIn(C)
      /\ \A M : Consistent(M) /\ Satisfies(M, C) => Satisfies(M, E)
  <2>1. V \in SUBSET W
    BY <1>2
  <2> QED BY <2>1, AfterSolverTyped
<1>4. PICK M : Total(M, W) /\ Satisfies(M, C)
  BY DEF HasModel
<1>5. found \subseteq Lits(VarsIn(E)) /\ \A K : Total(K, W) /\ Satisfies(K, E) => found \subseteq K
  BY <1>3, FindableKeeps
<1> HIDE DEF W, C, E, t
<1>6. Consistent(M) /\ Satisfies(M, E) /\ found \subseteq M
  BY <1>1, <1>3, <1>4, <1>5, TotalConsistent
<1>7. Naming(VarsIn(E)) /\ VarsIn(E) \subseteq W
  BY <1>1, <1>2, <1>3 DEF Naming
<1>8. found \in SUBSET Lits(W) /\ \A l \in found : Var(l) \in VarsIn(E)
  BY <1>5, <1>7, LiteralsAre DEF Lits, Negate
<1>9. /\ VarsIn(t.clauses) \subseteq VarsIn(E)
      /\ \A l \in found : Var(l) \notin VarsIn(t.clauses)
  <2>1. UNION t.clauses \subseteq UNION E /\ \A l \in found : Var(l) \notin VarsIn(t.clauses)
    BY <1>1, <1>3, <1>8, ReduceShrinks
  <2> QED BY <2>1 DEF VarsIn
<1>10. HasModel(t, n)
  <2>1. Satisfies(M, t.clauses)
    BY <1>1, <1>3, <1>6, <1>8, ReduceOfModel
  <2> QED BY <1>4, <2>1 DEF HasModel, W
<1>11. FixedVars(t) = FixedVars(s) \cup {Var(l) : l \in found}
  BY <1>3 DEF FixedVars
<1>12. FixedVars(s) \cap VarsIn(C) = {} /\ s.substituted \cap VarsIn(C) = {} /\ s.eliminated \cap VarsIn(C) = {}
  BY DEF Settled, C
<1>13. {Var(l) : l \in found} \subseteq VarsIn(E)
  BY <1>8
<1>14. ~ Contradictory(t.fixed)
  <2>1. Consistent(s.fixed)
    BY <1>1, ContradictoryMeans DEF Settled
  <2>2. ASSUME NEW l \in s.fixed \cup found, -l \in s.fixed \cup found PROVE FALSE
    <3>1. CASE l \in s.fixed /\ -l \in s.fixed
      BY <2>1, <3>1 DEF Consistent
    <3>2. CASE l \in found /\ -l \in found
      BY <1>6, <3>2 DEF Consistent
    <3>3. l \in Lits(W) /\ Var(-l) = Var(l)
      BY <1>1, <1>8, LiteralsAre
    <3>4. ~ (l \in s.fixed /\ -l \in found) /\ ~ (l \in found /\ -l \in s.fixed)
      BY <1>3, <1>12, <1>13, <3>3 DEF FixedVars
    <3> QED BY <2>2, <3>1, <3>2, <3>4
  <2>3. t.fixed \in SUBSET Lits(W) /\ Consistent(t.fixed)
    BY <1>1, <1>3, <1>8, <2>2 DEF Consistent
  <2> QED BY <1>1, <2>3, ContradictoryMeans
<1>15. /\ FixedVars(t) \cap t.substituted = {} /\ FixedVars(t) \cap t.eliminated = {}
       /\ t.substituted \cap t.eliminated = {}
  BY <1>3, <1>11, <1>12, <1>13 DEF Settled
<1>16. (FixedVars(t) \cup t.substituted \cup t.eliminated) \cap VarsIn(t.clauses) = {}
  BY <1>3, <1>9, <1>11, <1>12
<1>17. V \cap (FixedVars(t) \cup t.substituted \cup VarsIn(t.clauses)) = {}
  BY <1>3, <1>9, <1>11, <1>12, <1>13 DEF C
<1> QED BY <1>10, <1>14, <1>15, <1>16, <1>17 DEF Settled, t

(* The clauses rewritten: over survivors, and with the models that have    *)
(* every variable like the literal it goes to.                             *)
LEMMA RewrittenIs ==
  ASSUME NEW n \in Nat, NEW C, Clausal(C, Among(n)), NEW map \in Mappings(n, C)
  PROVE  /\ \A w \in VarsIn(Rewritten(C, map)) : w \in VarsIn(C) /\ map[w] = w
         /\ \A M : Total(M, Among(n)) /\ Satisfies(M, C)
                     => \A l \in Lits(VarsIn(C)) : l \in M <=> MapLit(map, l) \in M
         /\ \A M : Total(M, Among(n)) /\ Satisfies(M, C) => Satisfies(M, Rewritten(C, map))
<1> DEFINE V == Among(n)
           U == VarsIn(C)
           R == Rewritten(C, map)
<1>1. Naming(V) /\ map \in [V -> Lits(V)]
  BY AmongNames DEF Mappings
<1>2. \A v \in U : Var(map[v]) \in U /\ map[Var(map[v])] = Var(map[v])
                   /\ \A M \in Models(C, U) : v \in M <=> map[v] \in M
  BY DEF Mappings
<1>3. U \subseteq V /\ UNION C \subseteq Lits(U)
  <2> HIDE DEF V
  <2> QED BY <1>1, VarsInMeans DEF V
<1>4. Clausal(R, V)
  BY <1>1, RewrittenTyped
<1> HIDE DEF U, V, R
<1>5. Naming(U)
  BY <1>1, <1>3 DEF Naming
<1>6. ASSUME NEW w \in VarsIn(R) PROVE w \in U /\ map[w] = w
  <2>1. PICK k \in UNION R : w = Var(k)
    BY DEF VarsIn
  <2>2. PICK l \in UNION C : k = MapLit(map, l)
    BY <2>1 DEF R, Rewritten
  <2>3. l \in Lits(U) /\ l \in Lits(V) /\ Var(l) \in U
    BY <1>3, <1>5, LiteralsAre DEF Lits, Negate
  <2>4. w = Var(map[Var(l)])
    BY <1>1, <2>1, <2>2, <2>3, MapLitIs
  <2> QED BY <1>2, <2>3, <2>4
<1>7. ASSUME NEW M, Total(M, V), Satisfies(M, C), NEW l \in Lits(U)
      PROVE  l \in M <=> MapLit(map, l) \in M
  <2> DEFINE K == M \cap Lits(U)
  <2>1. Total(K, U) /\ Satisfies(K, C)
    BY <1>1, <1>3, <1>7, Restricted DEF Satisfies
  <2> HIDE DEF K
  <2>2. K \in Models(C, U)
    BY <1>5, <2>1, ModelsMean
  <2>3. Var(l) \in U /\ (l = Var(l) \/ l = -Var(l))
    BY <1>5, LiteralsAre
  <2>4. ASSUME NEW v \in U
        PROVE  (v \in M <=> MapLit(map, v) \in M) /\ (-v \in M <=> MapLit(map, -v) \in M)
    <3>1. v \in V /\ map[v] \in Lits(V) /\ Var(map[v]) \in U /\ (v \in K <=> map[v] \in K)
      BY <1>1, <1>2, <1>3, <2>2
    <3>2. map[v] = Var(map[v]) \/ map[v] = -Var(map[v])
      BY <1>1, <3>1, LiteralsAre
    <3>3. v \in Lits(U) /\ map[v] \in Lits(U)
      BY <3>1, <3>2, <1>5, LiteralsAre
    <3>4. v \in M <=> map[v] \in M
      BY <3>1, <3>3 DEF K
    <3>5. MapLit(map, v) = map[v] /\ MapLit(map, -v) = -map[v]
      BY <1>1, <3>1, MapLitIs
    <3>6. \A k \in Lits(V) : k \in M <=> -k \notin M
      <4>1. ASSUME NEW k \in Lits(V) PROVE k \in M <=> -k \notin M
        <5>1. CASE k \in V
          BY <1>7, <5>1 DEF Total
        <5>2. CASE -k \in V
          <6>1. -(-k) = k
            BY <1>1, LiteralsAre
          <6> QED BY <1>7, <5>2, <6>1 DEF Total
        <5>3. k \in V \/ -k \in V
          <6>1. Var(k) \in V /\ (k = Var(k) \/ k = -Var(k)) /\ -(-k) = k
            BY <1>1, LiteralsAre
          <6>2. Var(k) \in Nat
            BY <1>1, <6>1 DEF Naming
          <6> QED BY <6>1, <6>2, <1>1, LiteralsAre
        <5> QED BY <5>1, <5>2, <5>3
      <4> QED BY <4>1
    <3>7. v \in Lits(V) /\ map[v] \in Lits(V)
      BY <1>1, <3>1, LiteralsAre
    <3> QED BY <3>4, <3>5, <3>6, <3>7
  <2> QED BY <2>3, <2>4
<1>8. ASSUME NEW M, Total(M, V), Satisfies(M, C) PROVE Satisfies(M, R)
  <2> SUFFICES ASSUME NEW c \in C PROVE {MapLit(map, l) : l \in c} \cap M # {}
    BY DEF Satisfies, R, Rewritten
  <2>1. PICK l \in c : l \in M
    BY <1>8 DEF Satisfies
  <2>2. l \in Lits(U)
    BY <1>3
  <2> QED BY <1>7, <1>8, <2>1, <2>2
<1> QED BY <1>6, <1>7, <1>8 DEF U, V, R

(* Merging equivalent literals keeps the accounts.                         *)
LEMMA MergedSettled ==
  ASSUME NEW c, Typed(c), NEW s, StTyped(s, c.nvars), Settled(s), HasModel(s, c.nvars),
         NEW found \in Findable(s.clauses), NEW map \in Mappings(c.nvars, s.clauses),
         NEW t, StTyped(t, c.nvars), t.fixed = s.fixed \cup found, t.clauses = s.clauses,
         t.substituted = s.substituted, t.eliminated = s.eliminated,
         Merged(c, t, map).ok
  PROVE  Settled(Merged(c, t, map).st) /\ HasModel(Merged(c, t, map).st, c.nvars)
<1> DEFINE n == c.nvars
           V == Among(n)
           C == s.clauses
           U == VarsIn(C)
           F == s.fixed
           R == Rewritten(C, map)
           L == Known(t, map)
           m == Merged(c, t, map)
           u == m.st
<1>1. n \in Nat /\ Naming(V) /\ IsFiniteSet(V) /\ map \in [V -> Lits(V)] /\ DOMAIN map = V /\ Clausal(C, V) /\ F \in SUBSET Lits(V)
  BY AmongNames DEF Mappings, Typed, StTyped
<1>2. /\ ~ Contradictory(L) /\ u.eliminated = s.eliminated
      /\ u.fixed = t.fixed \cup {l \in Lits(V) : MapLit(map, l) \in L}
      /\ u.substituted = s.substituted \cup UNION {Class(map, x) \ {x} : x \in Survivors(t, map)}
      /\ u.clauses = Reduce(R, L)
  <2>1. CnfFields(c) /\ StFields(t)
    BY DEF Typed, StTyped
  <2>2. MergedParts(m, c, t, map) /\ m.ok
    BY <2>1, MergedIs
  <2>3. DOMAIN map = V /\ t.clauses = s.clauses /\ t.substituted = s.substituted /\ t.eliminated = s.eliminated
    BY <1>1
  <2> HIDE DEF m, V
  <2> QED BY <2>2, <2>3, Zenon DEF MergedParts
<1>3. L \subseteq Lits(V) /\ \A l \in t.fixed : MapLit(map, l) \in L
  BY <1>1, KnownTyped
<1>4. L = {MapLit(map, l) : l \in t.fixed} \cup Closure(Reduce(R, {MapLit(map, l) : l \in t.fixed}), {})
  BY DEF Known, Values
<1>5. /\ \A w \in VarsIn(R) : w \in U /\ map[w] = w
      /\ \A M : Total(M, V) /\ Satisfies(M, C) => Satisfies(M, R) /\ \A l \in Lits(U) : l \in M <=> MapLit(map, l) \in M
  BY <1>1, RewrittenIs
<1>6. /\ \A v \in V \ U : map[v] = v
      /\ \A v \in U : Var(map[v]) \in U
  BY DEF Mappings
<1>7. /\ found \subseteq Lits(U)
      /\ \A M : Total(M, V) /\ Satisfies(M, C) => found \subseteq M
  BY <1>1, FindableKeeps
<1>8. FixedVars(s) \cap U = {} /\ s.substituted \cap U = {} /\ s.eliminated \cap U = {}
      /\ FixedVars(s) \cap s.substituted = {} /\ FixedVars(s) \cap s.eliminated = {}
      /\ s.substituted \cap s.eliminated = {} /\ s.substituted \subseteq V /\ s.eliminated \subseteq V
  BY DEF Settled, StTyped
<1>9. U \subseteq V /\ UNION C \subseteq Lits(U)
  <2> HIDE DEF V, C
  <2> QED BY <1>1, VarsInMeans
<1>10. Clausal(R, V)
  BY <1>1, RewrittenTyped
<1>11. \E M : Total(M, V) /\ Satisfies(M, C)
  BY DEF HasModel
<1>12. Consistent(F)
  BY <1>1, ContradictoryMeans DEF Settled
<1>13. \A x : x \in FixedVars(s) <=> \E l \in F : x = Var(l)
  BY DEF FixedVars
<1> HIDE DEF n, V, C, U, F, R, L, m, u
<1> DEFINE given == {MapLit(map, l) : l \in t.fixed}
<1>14. Naming(U) /\ t.fixed = F \cup found /\ t.fixed \subseteq Lits(V) /\ given \in SUBSET Lits(V)
  <2>1. Naming(U) /\ t.fixed = F \cup found
    BY <1>1, <1>9 DEF Naming, F
  <2>2. t.fixed \subseteq Lits(V)
    BY DEF StTyped, V, n
  <2>3. given \subseteq L
    BY <1>3
  <2> QED BY <1>3, <2>1, <2>2, <2>3
<1> HIDE DEF given
<1>15. ASSUME NEW l \in Lits(V), Var(l) \notin U PROVE MapLit(map, l) = l
  <2>1. Var(l) \in V /\ (l = Var(l) \/ l = -Var(l))
    BY <1>1, LiteralsAre
  <2>2. map[Var(l)] = Var(l)
    BY <1>6, <1>15, <2>1
  <2>3. MapLit(map, Var(l)) = map[Var(l)] /\ MapLit(map, -Var(l)) = -map[Var(l)]
    BY <1>1, <2>1, MapLitIs
  <2> QED BY <2>1, <2>2, <2>3
(* A model that goes with all that is fixed.                               *)
<1>16. PICK M : Total(M, V) /\ Satisfies(M, C) /\ F \cup found \subseteq M
  <2>1. PICK N : Total(N, V) /\ Satisfies(N, C)
    BY <1>11
  <2>2. {Var(l) : l \in F} \cap VarsIn(C) = {}
    BY <1>8 DEF FixedVars, F, U
  <2>3. \E K : Total(K, V) /\ Satisfies(K, C) /\ F \subseteq K
    BY <1>1, <1>12, <2>1, <2>2, ModelWithFixed
  <2> QED BY <1>7, <2>3
<1>17. Consistent(M) /\ Satisfies(M, R)
  BY <1>1, <1>5, <1>16, TotalConsistent
<1>18. given \subseteq M
  <2> SUFFICES ASSUME NEW l \in t.fixed PROVE MapLit(map, l) \in M
    BY DEF given
  <2>1. l \in M /\ l \in Lits(V)
    BY <1>14, <1>16
  <2>2. CASE Var(l) \in U
    <3>1. l = Var(l) \/ l = -Var(l)
      BY <1>1, <2>1, LiteralsAre
    <3>2. l \in Lits(U)
      BY <1>14, <2>2, <3>1, LiteralsAre
    <3> QED BY <1>5, <1>16, <2>1, <3>2
  <2>3. CASE Var(l) \notin U
    BY <1>15, <2>1, <2>3
  <2> QED BY <2>2, <2>3
<1>19. L \subseteq M
  <2> DEFINE Q == Reduce(R, given)
  <2>1. Clausal(Q, V)
    BY <1>1, <1>10, <1>14, ReduceShrinks
  <2>2. Satisfies(M, Q)
    BY <1>1, <1>10, <1>14, <1>17, <1>18, ReduceOfModel
  <2> HIDE DEF Q
  <2>3. IsFiniteSet(VarsIn(Q))
    BY <1>1, <2>1, VarsInMeans, FS_Subset
  <2>4. Closure(Q, {}) \subseteq M
    BY <1>17, <2>2, <2>3, ClosureOfModel
  <2> QED BY <1>4, <1>18, <2>4 DEF Q, given
<1>20. HasModel(u, n)
  <2>1. Satisfies(M, u.clauses)
    BY <1>1, <1>2, <1>3, <1>10, <1>17, <1>19, ReduceOfModel
  <2> QED BY <1>16, <2>1 DEF HasModel, V
(* What is fixed now is what goes to a known literal.                      *)
<1>21. u.fixed = {l \in Lits(V) : MapLit(map, l) \in L}
  BY <1>2, <1>3, <1>14
<1>22. ~ Contradictory(u.fixed)
  <2>1. Consistent(L)
    BY <1>1, <1>2, <1>3, ContradictoryMeans
  <2>2. ASSUME NEW l \in u.fixed, -l \in u.fixed PROVE FALSE
    <3>1. MapLit(map, -l) = -MapLit(map, l)
      BY <1>1, <1>21, MapLitIs
    <3> QED BY <1>21, <2>1, <2>2, <3>1 DEF Consistent
  <2>3. Consistent(u.fixed) /\ u.fixed \in SUBSET Lits(V)
    BY <1>21, <2>2 DEF Consistent
  <2> QED BY <1>1, <2>3, ContradictoryMeans
<1>23. ASSUME NEW w \in VarsIn(u.clauses)
       PROVE  w \in U /\ map[w] = w /\ \A l \in L : Var(l) # w
  <2>1. UNION u.clauses \subseteq UNION R /\ \A l \in L : Var(l) \notin VarsIn(u.clauses)
    BY <1>1, <1>2, <1>3, <1>10, ReduceShrinks
  <2>2. w \in VarsIn(R)
    BY <2>1 DEF VarsIn
  <2> QED BY <1>5, <2>1, <2>2
<1>24. ASSUME NEW x \in FixedVars(u)
       PROVE  x \in V /\ \E k \in L : Var(k) = Var(map[x])
  <2>1. PICK l \in u.fixed : x = Var(l)
    BY DEF FixedVars
  <2>2. l \in Lits(V) /\ MapLit(map, l) \in L
    BY <1>21
  <2> QED BY <1>1, <2>1, <2>2, LiteralsAre, MapLitIs
<1>25. ASSUME NEW x \in u.substituted
       PROVE  \/ x \in s.substituted
              \/ \E y \in Survivors(t, map) : x \in Class(map, y) /\ x # y
  BY <1>2
<1>26. ASSUME NEW y \in Survivors(t, map), NEW x \in Class(map, y), x # y
       PROVE  x \in U /\ Var(map[x]) = y /\ x \in V /\ \A k \in L : Var(k) # y
  <2>1. Var(map[x]) = y /\ x \in V /\ y \in V /\ Lits({y}) \cap L = {}
    BY <1>1 DEF Class, Survivors, L
  <2>2. x \in U
    <3> SUFFICES ASSUME x \notin U PROVE FALSE
      OBVIOUS
    <3>1. map[x] = x
      BY <1>6, <2>1
    <3>2. Var(x) = x
      BY <1>1, <2>1, LiteralsAre
    <3> QED BY <1>26, <2>1, <3>1, <3>2
  <2>3. ASSUME NEW k \in L, Var(k) = y PROVE FALSE
    <3>1. k = y \/ k = -y
      BY <1>1, <1>3, <2>3, LiteralsAre
    <3>2. k \in Lits({y})
      BY <3>1 DEF Lits, Negate
    <3> QED BY <2>1, <3>2
  <2> QED BY <2>1, <2>2, <2>3
<1>27. ASSUME NEW x \in V \ U, x \in FixedVars(u) PROVE x \in FixedVars(s)
  <2>1. PICK l \in u.fixed : x = Var(l)
    BY <1>27 DEF FixedVars
  <2>2. l \in Lits(V) /\ MapLit(map, l) = l /\ l \in L
    BY <1>15, <1>21, <1>27, <2>1
  <2>3. CASE l \in given
    <3>1. PICK k \in t.fixed : l = MapLit(map, k)
      BY <2>3 DEF given
    <3>2. k \in Lits(V) /\ Var(k) \in V /\ x = Var(map[Var(k)])
      BY <1>1, <1>14, <2>1, <3>1, LiteralsAre, MapLitIs
    <3>3. Var(k) \notin U
      BY <1>6, <1>27, <3>2
    <3>4. k \in F
      BY <1>7, <1>14, <3>3, LiteralsAre
    <3>5. MapLit(map, k) = k
      BY <1>15, <3>2, <3>3
    <3> QED BY <1>13, <2>1, <3>1, <3>4, <3>5
  <2>4. CASE l \in Closure(Reduce(R, given), {})
    <3> DEFINE Q == Reduce(R, given)
    <3>1. Clausal(Q, V) /\ UNION Q \subseteq UNION R
      BY <1>1, <1>10, <1>14, ReduceShrinks
    <3>2. IsFiniteSet(VarsIn(Q))
      <4> HIDE DEF Q
      <4> QED BY <1>1, <3>1, VarsInMeans, FS_Subset
    <3>3. Closure(Q, {}) \subseteq {} \cup UNION Q
      <4> HIDE DEF Q
      <4> QED BY <3>2, ClosureWithin
    <3>4. l \in UNION R
      BY <2>4, <3>1, <3>3
    <3>5. x \in VarsIn(R)
      BY <2>1, <3>4 DEF VarsIn
    <3> QED BY <1>5, <1>27, <3>5
  <2> QED BY <1>4, <2>2, <2>3, <2>4 DEF given
<1>28. FixedVars(u) \cap u.substituted = {}
  <2> SUFFICES ASSUME NEW x \in FixedVars(u), x \in u.substituted PROVE FALSE
    OBVIOUS
  <2>1. CASE x \in s.substituted
    BY <1>8, <1>27, <2>1
  <2>2. ASSUME NEW y \in Survivors(t, map), x \in Class(map, y), x # y PROVE FALSE
    BY <1>24, <1>26, <2>2
  <2> QED BY <1>25, <2>1, <2>2
<1>29. FixedVars(u) \cap u.eliminated = {}
  BY <1>2, <1>8, <1>27
<1>30. u.substituted \cap u.eliminated = {}
  <2> SUFFICES ASSUME NEW x \in u.substituted, x \in s.eliminated PROVE FALSE
    BY <1>2
  <2> QED BY <1>8, <1>25, <1>26
<1>31. (FixedVars(u) \cup u.substituted \cup u.eliminated) \cap VarsIn(u.clauses) = {}
  <2> SUFFICES ASSUME NEW w \in VarsIn(u.clauses) PROVE w \notin FixedVars(u) /\ w \notin u.substituted /\ w \notin u.eliminated
    OBVIOUS
  <2>1. w \in U /\ map[w] = w /\ w \in V /\ Var(w) = w /\ \A l \in L : Var(l) # w
    BY <1>1, <1>9, <1>23, LiteralsAre
  <2>2. w \notin FixedVars(u)
    BY <1>24, <2>1
  <2>3. w \notin u.substituted
    BY <1>8, <1>25, <1>26, <2>1
  <2> QED BY <1>2, <1>8, <2>1, <2>2, <2>3
<1> QED BY <1>20, <1>22, <1>28, <1>29, <1>30, <1>31 DEF Settled, u, m, n

LEMMA StartAccounts == ASSUME Inv, StartPreprocess PROVE Accounts'
<1>1. CASE pc' = "preprocessed"
  BY <1>1 DEF Accounts, Phases
<1>2. ASSUME NEW mult, pc' = "simplify",
             st' = [fixed |-> {}, substituted |-> {}, eliminated |-> {}, mult |-> mult, clauses |-> cnf.clauses]
      PROVE  Accounts'
  <2>1. st'.fixed = {} /\ st'.substituted = {} /\ st'.eliminated = {}
    BY <1>2
  <2>2. Settled(st')
    BY <2>1 DEF Settled, FixedVars, Contradictory
  <2> QED BY <1>2, <2>2 DEF Accounts
<1> QED BY <1>1, <1>2 DEF StartPreprocess

LEMMA SimplifyAccounts == ASSUME Inv, Accounts, Simplify PROVE Accounts'
<1>1. pc = "simplify" /\ Typed(cnf) /\ StTyped(st, cnf.nvars) /\ Settled(st)
  BY DEF Simplify, Inv, TypeInv, Accounts, Phases
<1>2. CASE Unsat
  BY <1>2 DEF Unsat, Accounts, Phases
<1>3. ASSUME Models(st.clauses, Among(cnf.nvars)) # {},
             NEW found \in Findable(st.clauses), NEW map \in Mappings(cnf.nvars, st.clauses),
             Merged(cnf, [st EXCEPT !.fixed = @ \cup found], map).ok,
             cnf' = Merged(cnf, [st EXCEPT !.fixed = @ \cup found], map).cnf,
             st' = Merged(cnf, [st EXCEPT !.fixed = @ \cup found], map).st,
             pc' = "eliminate"
      PROVE  Accounts'
  <2> DEFINE t == [st EXCEPT !.fixed = @ \cup found]
  <2>1. cnf.nvars \in Nat /\ Naming(Among(cnf.nvars)) /\ Clausal(st.clauses, Among(cnf.nvars))
    BY <1>1, AmongNames DEF Typed, StTyped
  <2>2. HasModel(st, cnf.nvars)
    BY <1>3, <2>1, ModelsMean DEF HasModel
  <2>3. found \in SUBSET Lits(Among(cnf.nvars))
    <3>1. found \subseteq Lits(VarsIn(st.clauses))
      BY <2>1, FindableKeeps
    <3>2. VarsIn(st.clauses) \subseteq Among(cnf.nvars)
      BY <2>1, VarsInMeans
    <3> QED BY <3>1, <3>2 DEF Lits, Negate
  <2>4. /\ StTyped(t, cnf.nvars) /\ t.fixed = st.fixed \cup found
        /\ t.substituted = st.substituted /\ t.eliminated = st.eliminated /\ t.clauses = st.clauses
    BY <1>1, <2>1, <2>3, FoundTyped
  <2>5. Merged(cnf, t, map).ok /\ st' = Merged(cnf, t, map).st /\ cnf' = Merged(cnf, t, map).cnf
    BY <1>3
  <2> HIDE DEF t
  <2>6. Settled(st') /\ HasModel(st', cnf.nvars)
    BY <1>1, <2>2, <2>4, <2>5, MergedSettled
  <2>7. cnf'.nvars = cnf.nvars
    <3>1. CnfFields(cnf) /\ StFields(t)
      BY <1>1, <2>4 DEF Typed, StTyped
    <3>2. MergedParts(Merged(cnf, t, map), cnf, t, map)
      BY <3>1, MergedIs
    <3> QED BY <2>5, <3>2 DEF MergedParts
  <2> QED BY <2>6, <2>7 DEF Accounts
<1> QED BY <1>2, <1>3, Zenon DEF Simplify

LEMMA EliminateAccounts == ASSUME Inv, Accounts, EliminateVars PROVE Accounts'
<1>1. /\ pc = "eliminate" /\ pc' = "define" /\ cnf' = cnf
      /\ cnf.nvars \in Nat /\ StTyped(st, cnf.nvars) /\ Settled(st) /\ HasModel(st, cnf.nvars)
  BY DEF EliminateVars, Inv, TypeInv, Typed, Accounts, Phases
<1>2. PICK V \in SUBSET (VarsIn(st.clauses) \ cnf.proj) :
        \E found \in Findable(Eliminated(st.clauses, V)) : st' = AfterSolver(st, V, found)
  BY DEF EliminateVars
<1>3. PICK found \in Findable(Eliminated(st.clauses, V)) : st' = AfterSolver(st, V, found)
  BY <1>2
<1>4. V \in SUBSET VarsIn(st.clauses)
  OBVIOUS
<1>5. Settled(AfterSolver(st, V, found)) /\ HasModel(AfterSolver(st, V, found), cnf.nvars)
  BY <1>1, <1>4, AfterSolverSettled
<1> QED BY <1>1, <1>3, <1>5 DEF Accounts

LEMMA DefineAccounts == ASSUME Inv, Accounts, DefineVars PROVE Accounts'
<1>1. /\ pc = "define" /\ cnf' = cnf /\ pc' \in {"finalize", "simplify"}
      /\ cnf.nvars \in Nat /\ Typed(cnf) /\ StTyped(st, cnf.nvars) /\ Settled(st) /\ HasModel(st, cnf.nvars)
  BY DEF DefineVars, Inv, TypeInv, Typed, Accounts, Phases
<1>2. PICK defined \in Detectable : \E gone \in SUBSET defined :
        \E found \in Findable(Eliminated(st.clauses, gone)) : \E mult :
          st' = [AfterSolver(st, gone, found) EXCEPT !.eliminated = @ \cup gone, !.mult = mult]
  BY DEF DefineVars, FoldedOf
<1>3. PICK gone \in SUBSET defined : \E found \in Findable(Eliminated(st.clauses, gone)) : \E mult :
          st' = [AfterSolver(st, gone, found) EXCEPT !.eliminated = @ \cup gone, !.mult = mult]
  BY <1>2
<1>4. gone \in SUBSET VarsIn(st.clauses) /\ gone \in SUBSET Among(cnf.nvars)
  BY <1>1 DEF Detectable, Candidates, Typed
<1>5. PICK found \in Findable(Eliminated(st.clauses, gone)) : \E mult :
          st' = [AfterSolver(st, gone, found) EXCEPT !.eliminated = @ \cup gone, !.mult = mult]
  BY <1>3
<1> DEFINE t == AfterSolver(st, gone, found)
<1>6. /\ Settled(t) /\ HasModel(t, cnf.nvars)
      /\ gone \cap (FixedVars(t) \cup t.substituted \cup VarsIn(t.clauses)) = {}
  BY <1>1, <1>4, AfterSolverSettled
<1>7. StTyped(t, cnf.nvars)
  BY <1>1, <1>4, AfterSolverTyped
<1>8. PICK mult : st' = [t EXCEPT !.eliminated = @ \cup gone, !.mult = mult]
  BY <1>5
<1> HIDE DEF t
<1>9. /\ st'.fixed = t.fixed /\ st'.substituted = t.substituted
      /\ st'.eliminated = t.eliminated \cup gone /\ st'.clauses = t.clauses
  BY <1>7, <1>8 DEF StTyped, StFields
<1>10. Settled(st') /\ HasModel(st', cnf.nvars)
  <2>1. FixedVars(st') = FixedVars(t)
    BY <1>9 DEF FixedVars
  <2>2. Settled(st')
    BY <1>6, <1>9, <2>1 DEF Settled
  <2> QED BY <1>6, <1>9, <2>2 DEF HasModel
<1> QED BY <1>1, <1>10 DEF Accounts

(* The preprocessor keeps its accounts.                                    *)
LEMMA AccountsKept == Spec => []Accounts
<1>1. Init => Accounts
  BY DEF Init, Accounts, Phases
<1>2. Inv /\ Accounts /\ [Next]_vars => Accounts'
  <2> SUFFICES ASSUME Inv, Accounts, [Next]_vars PROVE Accounts'
    OBVIOUS
  <2>1. CASE UNCHANGED vars
    BY <2>1 DEF vars, Accounts
  <2>2. CASE pc' \notin Phases
    BY <2>2 DEF Accounts
  <2>3. CASE Open \/ Finalize \/ Write \/ CountPreprocessed \/ Normalize \/ CountNormalized
    <3>1. pc' \notin Phases
      BY <2>3 DEF Open, Finalize, Unsat, Write, CountPreprocessed, Normalize, CountNormalized, Phases
    <3> QED BY <2>2, <3>1
  <2>4. CASE Done
    BY <2>1, <2>4 DEF Done
  <2> QED
    BY <2>1, <2>3, <2>4, StartAccounts, SimplifyAccounts, EliminateAccounts, DefineAccounts DEF Next
<1> QED BY <1>1, <1>2, Invariant, PTL DEF Spec

(* Whatever is found fixed, equivalent, eliminable and defined, in however *)
(* many rounds: no variable is fixed both ways, none is accounted for      *)
(* twice, and none that is accounted for is still in the clauses.          *)
THEOREM FoldedOnceAlways == Spec => []FoldedOnce
<1>1. Inv /\ Accounts => FoldedOnce
  <2> SUFFICES ASSUME Inv, Accounts, st # None PROVE FoldedOnce
    BY DEF FoldedOnce
  <2>1. Settled(st)
    BY DEF Inv, TypeInv, Accounts
  <2> DEFINE p1 == {Var(l) : l \in st.fixed}
             p2 == st.substituted
             p3 == st.eliminated
             X == VarsIn(st.clauses)
             parts == <<p1, p2, p3>>
  <2>2. /\ p1 \cap p2 = {} /\ p1 \cap p3 = {} /\ p2 \cap p3 = {}
        /\ p1 \cap X = {} /\ p2 \cap X = {} /\ p3 \cap X = {} /\ ~ Contradictory(st.fixed)
    BY <2>1 DEF Settled, FixedVars
  <2> HIDE DEF p1, p2, p3, X
  <2>3. DOMAIN parts = {1, 2, 3} /\ parts[1] = p1 /\ parts[2] = p2 /\ parts[3] = p3
    OBVIOUS
  <2> HIDE DEF parts
  <2>4. \A i \in DOMAIN parts : parts[i] \cap X = {} /\ \A j \in DOMAIN parts : i # j => parts[i] \cap parts[j] = {}
    BY <2>2, <2>3
  <2> QED BY <2>2, <2>4 DEF FoldedOnce, parts, p1, p2, p3, X
<1> QED BY <1>1, Invariant, AccountsKept, PTL
-----------------------------------------------------------------------------
(* Where unit propagation has ended, no clause is left with one literal.   *)
LEMMA ReduceWide ==
  ASSUME NEW V, Naming(V), NEW C, Clausal(C, V), NEW A \in SUBSET Lits(V),
         {} \notin Reduce(C, A),
         \A c \in C : \A l \in c :
            ~ (c \cap A = {} /\ l \notin Negate(A) /\ Negate(c \ {l}) \subseteq A)
  PROVE  Wide(Reduce(C, A))
<1> SUFFICES ASSUME NEW c \in C, c \cap A = {}, NEW l \in c \ Negate(A), c \ Negate(A) \subseteq {l}
             PROVE  FALSE
  <2>1. ASSUME NEW e \in Reduce(C, A) PROVE \E k, l \in e : k # l
    <3>1. PICK c \in C : e = c \ Negate(A) /\ c \cap A = {}
      BY DEF Reduce
    <3>2. PICK l \in e : TRUE
      OBVIOUS
    <3>3. ~ (c \ Negate(A) \subseteq {l})
      BY <3>1, <3>2
    <3> QED BY <3>1, <3>2, <3>3
  <2> QED BY <2>1 DEF Wide
<1>1. ASSUME NEW k \in c \ {l} PROVE -k \in A
  <2>1. k \in Negate(A)
    BY <1>1
  <2>2. PICK a \in A : k = -a
    BY <2>1 DEF Negate
  <2>3. -(-a) = a
    BY LiteralsAre
  <2> QED BY <2>2, <2>3
<1>2. Negate(c \ {l}) \subseteq A
  BY <1>1 DEF Negate
<1> QED BY <1>2

LEMMA MergedWide ==
  ASSUME NEW c, Typed(c), NEW s, StTyped(s, c.nvars),
         NEW map \in [Among(c.nvars) -> Lits(Among(c.nvars))], Merged(c, s, map).ok
  PROVE  Wide(Merged(c, s, map).st.clauses)
<1> DEFINE V == Among(c.nvars)
           m == Merged(c, s, map)
           R == Rewritten(s.clauses, map)
           given == {MapLit(map, l) : l \in s.fixed}
           D == Reduce(R, given)
           X == Closure(D, {})
           A == Known(s, map)
<1>1. /\ Naming(V) /\ IsFiniteSet(V) /\ map \in [V -> Lits(V)] /\ Clausal(s.clauses, V)
      /\ A \in SUBSET Lits(V) /\ A = given \cup X
  BY AmongNames, KnownTyped DEF Typed, StTyped, Known, Values
<1>2. m.st.clauses = Reduce(R, A) /\ {} \notin Reduce(R, A)
  <2>1. CnfFields(c) /\ StFields(s) /\ m.ok
    BY DEF Typed, StTyped
  <2>2. MergedParts(m, c, s, map)
    BY <2>1, MergedIs
  <2> HIDE DEF m, A, R
  <2> QED BY <2>1, <2>2 DEF MergedParts, A, R
<1> HIDE DEF V, m
<1>3. Clausal(R, V)
  BY <1>1, RewrittenTyped
<1> HIDE DEF R, A, given
<1>4. Clausal(D, V)
  BY <1>1, <1>3, ReduceShrinks
<1>5. ForcedBy(D, X) \subseteq X
  <2> HIDE DEF D
  <2> QED BY <1>1, <1>4, ClosureCloses
<1> HIDE DEF X
<1>6. ASSUME NEW d \in R, NEW l \in d, d \cap A = {}, l \notin Negate(A), Negate(d \ {l}) \subseteq A
      PROVE  FALSE
  <2> DEFINE e == d \ Negate(given)
  <2>1. e \in D /\ e \cap X = {} /\ l \in e
    BY <1>1, <1>6 DEF Reduce, Negate
  <2>2. Negate(e \ {l}) \subseteq X
    <3> SUFFICES ASSUME NEW k \in e, k # l PROVE -k \in X
      BY DEF Negate
    <3>1. -k \in A
      BY <1>6 DEF Negate
    <3>2. k \in Lits(V) /\ -(-k) = k
      <4>1. k \in Lits(V)
        BY <1>3 DEF Clausal
      <4> QED BY <1>1, <4>1, LiteralsAre
    <3>3. -k \notin given
      <4> SUFFICES ASSUME -k \in given PROVE k \in Negate(given)
        OBVIOUS
      <4> QED BY <3>2 DEF Negate
    <3> QED BY <1>1, <3>1, <3>3
  <2> HIDE DEF e, D
  <2>3. l \in ForcedBy(D, X)
    BY <2>1, <2>2, ForcedMeans
  <2>4. l \in X
    BY <1>5, <2>3
  <2> QED BY <2>1, <2>4
<1>7. \A d \in R : \A l \in d : ~ (d \cap A = {} /\ l \notin Negate(A) /\ Negate(d \ {l}) \subseteq A)
  BY <1>6
<1>8. A \in SUBSET Lits(V) /\ {} \notin Reduce(R, A)
  BY <1>1, <1>2
<1>9. Wide(Reduce(R, A))
  BY <1>1, <1>3, <1>7, <1>8, ReduceWide
<1> QED BY <1>2, <1>9 DEF m

(* What the counter loads, but for the formula without a variable that has *)
(* the empty clause.                                                       *)
Loaded ==
  /\ pc = "normalized" => Wide(cnf.clauses)
  /\ pc = "preprocessed" /\ res.sat => Wide(cnf.clauses) \/ cnf.clauses = {{}}

LEMMA LitsFinite ==
  ASSUME NEW V, IsFiniteSet(V)
  PROVE  IsFiniteSet(Lits(V))
<1> DEFINE g == [u \in V |-> -u]
           X == Negate(V)
<1>1. g \in Surjection(V, X)
  BY DEF Surjection, Negate
<1> HIDE DEF g, X
<1>2. IsFiniteSet(X)
  BY <1>1, FS_Surjection
<1> QED BY <1>2, FS_Union DEF Lits, X

LEMMA WideLoads ==
  ASSUME Inv, Wide(cnf.clauses)
  PROVE  Loadable
<1> SUFFICES ASSUME NEW c \in cnf.clauses PROVE Cardinality(c) > 1
  BY DEF Loadable
<1>1. cnf.nvars \in Nat /\ c \subseteq Lits(Among(cnf.nvars))
  BY DEF Inv, TypeInv, Typed, Clausal
<1>2. IsFiniteSet(c)
  BY <1>1, AmongNames, LitsFinite, FS_Subset
<1>3. PICK k \in c, l \in c : k # l
  BY DEF Wide
<1>4. Cardinality(c) \in Nat
  BY <1>2, FS_CardinalityType
<1>5. Cardinality(c) # 0
  BY <1>2, <1>3, FS_EmptySet
<1>6. Cardinality(c) # 1
  <2> SUFFICES ASSUME Cardinality(c) = 1 PROVE FALSE
    OBVIOUS
  <2>1. \E x : c = {x}
    BY <1>2, FS_Singleton
  <2> QED BY <1>3, <2>1
<1> QED BY <1>4, <1>5, <1>6

LEMMA StartLoads == ASSUME Inv, StartPreprocess PROVE Loaded'
<1>1. CASE cnf.nvars = 0
  <2>1. cnf' = cnf /\ pc' = "preprocessed"
    BY <1>1 DEF StartPreprocess
  <2>2. Clausal(cnf.clauses, {})
    BY <1>1 DEF Inv, TypeInv, Typed, Among
  <2>3. \A c \in cnf.clauses : c = {}
    BY <2>2 DEF Clausal, Lits, Negate
  <2>4. cnf.clauses = {{}} \/ Wide(cnf.clauses)
    BY <2>3 DEF Wide
  <2> QED BY <2>1, <2>4 DEF Loaded
<1>2. CASE cnf.nvars # 0
  BY <1>2 DEF StartPreprocess, Loaded
<1> QED BY <1>1, <1>2

LEMMA UnsatLoads == ASSUME Unsat PROVE Loaded'
BY DEF Unsat, Loaded

LEMMA FinalizeLoads == ASSUME Inv, Finalize PROVE Loaded'
<1> DEFINE map == [v \in Among(cnf.nvars) |-> v]
           m == Merged(cnf, st, map)
<1>1. pc = "finalize" /\ Typed(cnf) /\ StTyped(st, cnf.nvars)
  BY DEF Finalize, Inv, TypeInv, Phases
<1>2. CASE Unsat
  BY <1>2, UnsatLoads
<1>3. CASE m.ok /\ cnf' = Renumbered(m.cnf, m.st.clauses, st.mult # None) /\ pc' = "preprocessed"
  <2>1. map \in [Among(cnf.nvars) -> Lits(Among(cnf.nvars))]
    BY DEF Lits
  <2> HIDE DEF map
  <2>2. Typed(m.cnf) /\ StTyped(m.st, cnf.nvars)
    BY <1>1, <2>1, MergedTyped
  <2>3. m.cnf.nvars = cnf.nvars
    <3>1. CnfFields(cnf) /\ StFields(st)
      BY <1>1 DEF Typed, StTyped
    <3>2. MergedParts(m, cnf, st, map)
      BY <3>1, MergedIs
    <3> HIDE DEF m
    <3> QED BY <3>2 DEF MergedParts
  <2>4. Wide(m.st.clauses)
    BY <1>1, <1>3, <2>1, MergedWide
  <2> HIDE DEF m
  <2>5. Clausal(m.st.clauses, Among(m.cnf.nvars))
    BY <2>2, <2>3 DEF StTyped
  <2>6. Wide(cnf'.clauses)
    BY <1>3, <2>2, <2>4, <2>5, RenumberedTyped
  <2> QED BY <1>3, <2>6 DEF Loaded
<1> QED BY <1>2, <1>3 DEF Finalize

LEMMA NormalizeLoads == ASSUME Inv, Normalize PROVE Loaded'
<1>1. pc = "normalize" /\ Typed(cnf)
  BY DEF Normalize, Inv, TypeInv
<1>2. CASE pc' = "counted"
  BY <1>2 DEF Loaded
<1>3. ASSUME Models(cnf.clauses, Among(cnf.nvars)) # {},
             NEW found \in Findable(cnf.clauses), pc' = "normalized",
             cnf' = Renumbered(cnf, Reduce(cnf.clauses, found), cnf.table)
      PROVE  Loaded'
  <2> DEFINE V == Among(cnf.nvars)
             C == cnf.clauses
             left == Reduce(C, found)
  <2>1. Naming(V) /\ IsFiniteSet(V) /\ Clausal(C, V) /\ cnf.nvars \in Nat
    BY <1>1, AmongNames DEF Typed
  <2>2. found \subseteq Lits(VarsIn(C)) /\ \A M : Total(M, V) /\ Satisfies(M, C) => found \subseteq M
    BY <1>3, <2>1, FindableKeeps
  <2>3. PICK L \in SUBSET Entailed(C) : found = Closure(C, L)
    BY <1>3 DEF Findable
  <2>4. \E M : Total(M, V) /\ Satisfies(M, C)
    BY <1>3, <2>1, ModelsMean
  <2>5. cnf' = Renumbered(cnf, left, cnf.table)
    BY <1>3
  <2> HIDE DEF V, C
  <2>6. found \in SUBSET Lits(V) /\ VarsIn(C) \subseteq V
    BY <2>1, <2>2, VarsInMeans DEF Lits, Negate
  <2>7. L \in SUBSET Lits(VarsIn(C))
    <3>1. Naming(VarsIn(C))
      BY <2>1, <2>6 DEF Naming
    <3>2. \A M \in Models(C, VarsIn(C)) : M \subseteq Lits(VarsIn(C))
      BY <3>1, ModelsMean DEF Total
    <3> QED BY <3>2 DEF Entailed
  <2>8. ForcedBy(C, found) \subseteq found
    BY <2>1, <2>3, <2>7, ClosureCloses
  <2>9. {} \notin left
    <3>1. PICK M : Total(M, V) /\ Satisfies(M, C) /\ found \subseteq M
      BY <2>2, <2>4
    <3>2. Satisfies(M, left)
      BY <2>1, <2>6, <3>1, TotalConsistent, ReduceOfModel
    <3> QED BY <3>2 DEF Satisfies
  <2>10. Wide(left)
    <3>1. \A c \in C : \A l \in c : ~ (c \cap found = {} /\ l \notin Negate(found) /\ Negate(c \ {l}) \subseteq found)
      BY <2>8, ForcedMeans
    <3> QED BY <2>1, <2>6, <2>9, <3>1, ReduceWide
  <2>11. Clausal(left, V)
    BY <2>1, <2>6, ReduceShrinks
  <2> HIDE DEF left
  <2>12. Wide(cnf'.clauses)
    BY <1>1, <2>5, <2>10, <2>11, RenumberedTyped DEF V
  <2> QED BY <1>3, <2>12 DEF Loaded
<1> QED BY <1>2, <1>3, Zenon DEF Normalize

(* Whatever is found and eliminated, in however many rounds and programs,  *)
(* the counter is given clauses of two literals or more, unless it is      *)
(* given the formula that has no variable, and the empty clause: that one  *)
(* preprocess() lets through, see the run "empty".                         *)
THEOREM LoadsTwoLiterals == Spec => [](cnf.clauses # {{}} => ClausesLoadable)
<1>1. Init => Loaded
  BY DEF Init, Loaded
<1>2. Inv /\ Loaded /\ [Next]_vars => Loaded'
  <2> SUFFICES ASSUME Inv, Loaded, [Next]_vars PROVE Loaded'
    OBVIOUS
  <2>1. CASE UNCHANGED vars
    BY <2>1 DEF vars, Loaded, Wide
  <2>2. CASE Open \/ EliminateVars \/ DefineVars \/ Write \/ CountPreprocessed \/ CountNormalized
    <3>1. pc' \notin {"normalized", "preprocessed"}
      BY <2>2 DEF Open, EliminateVars, DefineVars, Write, CountPreprocessed, CountNormalized
    <3> QED BY <3>1 DEF Loaded
  <2>3. CASE Simplify
    <3>1. Unsat \/ pc' = "eliminate"
      BY <2>3, Zenon DEF Simplify
    <3> QED BY <3>1, UnsatLoads DEF Loaded
  <2>4. CASE Done
    BY <2>1, <2>4 DEF Done
  <2> QED
    BY <2>1, <2>2, <2>3, <2>4, StartLoads, FinalizeLoads, NormalizeLoads DEF Next
<1>3. Inv /\ Loaded => (cnf.clauses # {{}} => ClausesLoadable)
  BY WideLoads DEF Loaded, ClausesLoadable
<1> QED BY <1>1, <1>2, <1>3, Invariant, PTL DEF Spec
=============================================================================
