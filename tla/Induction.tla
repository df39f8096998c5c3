------------------------------- MODULE Induction -------------------------------
(***************************************************************************)
(* Induction over the natural numbers and over finite sets, and that       *)
(* recursive functions are what their definitions say.                     *)
(*                                                                         *)
(* The induction theorems of the standard library take a predicate, which  *)
(* the provers cannot instantiate.  Here the predicate is the set of those *)
(* it holds of, and the step of a recursion is a function.                 *)
(***************************************************************************)
EXTENDS Integers, FiniteSets, FiniteSetTheorems, WellFoundedInduction, TLAPS

(* A set of natural numbers that is not empty has a least element.         *)
LEMMA LeastNumber ==
  ASSUME NEW T \in SUBSET Nat, T # {}
  PROVE  \E x \in T : \A y \in T : x <= y
<1> DEFINE R == {ss \in Nat \X Nat : ss[1] < ss[2]}
<1>1. OpToRel(<, Nat) = R
  BY Zenon DEF OpToRel
<1>2. IsWellFoundedOn(R, Nat)
  BY <1>1, NatLessThanWellFounded
<1>3. PICK x \in T : \A y \in T : ~ (<<y, x>> \in R)
  <2> HIDE DEF R
  <2> QED
    BY <1>2, WFMin
<1>4. ASSUME NEW y \in T PROVE x <= y
  <2>1. <<y, x>> \in Nat \X Nat /\ <<y, x>>[1] = y /\ <<y, x>>[2] = x
    OBVIOUS
  <2>2. ~ (y < x)
    BY <1>3, <2>1
  <2> QED
    BY <2>2
<1> QED
  BY <1>4

(* A set of numbers with a bound has a greatest element.                   *)
LEMMA GreatestNumber ==
  ASSUME NEW T \in SUBSET Nat, T # {}, NEW b \in Nat, \A x \in T : x <= b
  PROVE  \E x \in T : \A y \in T : y <= x
<1> DEFINE B == {n \in Nat : \A x \in T : x <= n}
<1>1. PICK n \in B : \A m \in B : n <= m
  <2>1. B \in SUBSET Nat /\ B # {}
    OBVIOUS
  <2> HIDE DEF B
  <2> QED
    BY <2>1, LeastNumber
<1>2. n \in T
  <2> SUFFICES ASSUME n \notin T PROVE FALSE
    OBVIOUS
  <2>1. PICK t \in T : TRUE
    OBVIOUS
  <2>2. t \in Nat /\ t <= n /\ t # n /\ n \in Nat
    BY <1>1, <2>1
  <2>3. n - 1 \in Nat
    BY <2>2
  <2>4. ASSUME NEW x \in T PROVE x <= n - 1
    <3>1. x \in Nat /\ x <= n /\ x # n
      BY <1>1
    <3> QED
      BY <2>2, <3>1
  <2> QED
    BY <1>1, <2>2, <2>3, <2>4
<1> QED
  BY <1>1, <1>2

(* What holds of zero and of every successor holds of every number.        *)
LEMMA NumberInduction ==
  ASSUME NEW T \in SUBSET Nat, 0 \in T, \A n \in T : n + 1 \in T
  PROVE  T = Nat
<1> SUFFICES ASSUME Nat \ T # {} PROVE FALSE
  OBVIOUS
<1>1. PICK x \in Nat \ T : \A y \in Nat \ T : x <= y
  BY LeastNumber
<1>2. x # 0 /\ x - 1 \in Nat
  OBVIOUS
<1>3. x - 1 \in T
  BY <1>1, <1>2
<1> QED
  BY <1>2, <1>3

(* What holds of the empty set and of a set with an element more holds of  *)
(* every subset of a finite set.                                           *)
LEMMA SetInduction ==
  ASSUME NEW S, IsFiniteSet(S), NEW T \in SUBSET (SUBSET S), {} \in T,
         \A U \in T : \A x \in S \ U : U \cup {x} \in T
  PROVE  T = SUBSET S
<1> DEFINE N == {n \in Nat : \A U \in SUBSET S : Cardinality(U) = n => U \in T}
<1>1. 0 \in N
  <2> SUFFICES ASSUME NEW U \in SUBSET S, Cardinality(U) = 0 PROVE U \in T
    OBVIOUS
  <2>1. IsFiniteSet(U)
    BY FS_Subset
  <2>2. U = {}
    BY <2>1, FS_EmptySet
  <2> QED
    BY <2>2
<1>2. ASSUME NEW n \in N PROVE n + 1 \in N
  <2> SUFFICES ASSUME NEW U \in SUBSET S, Cardinality(U) = n + 1 PROVE U \in T
    OBVIOUS
  <2>1. IsFiniteSet(U)
    BY FS_Subset
  <2>2. U # {}
    <3>1. Cardinality({}) = 0 /\ n \in Nat
      BY FS_EmptySet
    <3> QED
      BY <3>1
  <2>3. PICK x \in U : TRUE
    BY <2>2
  <2>4. Cardinality(U \ {x}) = n
    <3>1. Cardinality(U \ {x}) = Cardinality(U) - 1
      BY <2>1, FS_RemoveElement
    <3>2. n \in Nat
      OBVIOUS
    <3> QED
      BY <3>1, <3>2
  <2>5. U \ {x} \in T
    BY <2>4
  <2>6. (U \ {x}) \cup {x} = U /\ x \in S \ (U \ {x})
    OBVIOUS
  <2> QED
    BY <2>5, <2>6
<1>3. N = Nat
  BY <1>1, <1>2, NumberInduction
<1>4. ASSUME NEW U \in SUBSET S PROVE U \in T
  <2>1. IsFiniteSet(U)
    BY FS_Subset
  <2>2. Cardinality(U) \in Nat
    BY <2>1, FS_CardinalityType
  <2> QED
    BY <1>3, <2>2
<1> QED
  BY <1>4

(* A function defined by recursion over the numbers exists, and has the    *)
(* values of its definition, when a step stays within a set.               *)
LEMMA Recursion ==
  ASSUME NEW S, NEW start \in S, NEW up \in [Nat -> [S -> S]]
  PROVE  \E f \in [Nat -> S] : \A n \in Nat : f[n] = IF n = 0 THEN start ELSE up[n][f[n - 1]]
<1> DEFINE step == [n \in Nat |-> up[n + 1]]
<1>0. step \in [Nat -> [S -> S]] /\ \A n \in Nat : step[n] = up[n + 1]
  OBVIOUS
<1> HIDE DEF step
<1> DEFINE Good(n, g) == g[0] = start /\ \A m \in 0 .. n - 1 : g[m + 1] = step[m][g[m]]
           N == {n \in Nat : \E g \in [Nat -> S] : Good(n, g)}
<1>1. 0 \in N
  <2>1. [m \in Nat |-> start] \in [Nat -> S] /\ Good(0, [m \in Nat |-> start])
    OBVIOUS
  <2> QED
    BY <2>1
<1>2. ASSUME NEW n \in N PROVE n + 1 \in N
  <2>0. n \in Nat /\ n + 1 \in Nat
    OBVIOUS
  <2>1. PICK g \in [Nat -> S] : Good(n, g)
    OBVIOUS
  <2> DEFINE next == step[n][g[n]]
             h == [m \in Nat |-> IF m <= n THEN g[m] ELSE next]
  <2>2. next \in S
    BY <1>0, <2>0
  <2> HIDE DEF next
  <2>3. h \in [Nat -> S]
    BY <2>2
  <2>4. (\A m \in 0 .. n : h[m] = g[m]) /\ h[n + 1] = next
    BY <2>0
  <2> HIDE DEF h
  <2>5. h[0] = start
    BY <2>0, <2>1, <2>4
  <2>6. ASSUME NEW m \in 0 .. n PROVE h[m + 1] = step[m][h[m]]
    <3>1. CASE m = n
      BY <2>0, <2>4, <3>1 DEF next
    <3>2. CASE m \in 0 .. n - 1
      <4>1. m + 1 \in 0 .. n /\ m \in 0 .. n
        BY <2>0, <3>2
      <4>2. g[m + 1] = step[m][g[m]]
        BY <2>1, <3>2
      <4> QED
        BY <2>4, <4>1, <4>2
    <3> QED
      BY <2>0, <3>1, <3>2
  <2>7. (n + 1) - 1 = n
    BY <2>0
  <2>8. Good(n + 1, h)
    BY <2>5, <2>6, <2>7
  <2> QED
    BY <2>0, <2>3, <2>8
<1>3. N = Nat
  <2>1. N \in SUBSET Nat
    OBVIOUS
  <2> HIDE DEF N
  <2> QED
    BY <1>1, <1>2, <2>1, NumberInduction
<1> DEFINE G == [n \in Nat |-> CHOOSE g \in [Nat -> S] : Good(n, g)]
           f == [n \in Nat |-> G[n][n]]
<1>4. ASSUME NEW n \in Nat PROVE G[n] \in [Nat -> S] /\ Good(n, G[n])
  BY <1>3
<1> HIDE DEF G, N
<1>5. ASSUME NEW n \in Nat, NEW m \in Nat, n <= m PROVE G[n][n] = G[m][n]
  <2> DEFINE K == {k \in Nat : k <= n => G[n][k] = G[m][k]}
  <2>1. 0 \in K
    BY <1>4
  <2>2. ASSUME NEW k \in K PROVE k + 1 \in K
    <3>0. k \in Nat /\ k + 1 \in Nat /\ (k <= n => G[n][k] = G[m][k])
      OBVIOUS
    <3>1. ASSUME k + 1 <= n PROVE G[n][k + 1] = G[m][k + 1]
      <4>1. k \in 0 .. n - 1 /\ k \in 0 .. m - 1 /\ k <= n
        BY <1>5, <3>0, <3>1
      <4>2. G[n][k + 1] = step[k][G[n][k]] /\ G[m][k + 1] = step[k][G[m][k]]
        BY <1>4, <4>1
      <4> QED
        BY <3>0, <4>1, <4>2
    <3> QED
      BY <3>0, <3>1
  <2>3. K = Nat
    <3>1. K \in SUBSET Nat
      OBVIOUS
    <3> HIDE DEF K
    <3> QED
      BY <2>1, <2>2, <3>1, NumberInduction
  <2> QED
    BY <2>3
<1>6. f \in [Nat -> S]
  BY <1>4
<1>7. f[0] = start
  BY <1>4
<1>8. ASSUME NEW n \in Nat PROVE f[n + 1] = step[n][f[n]]
  <2>1. n + 1 \in Nat /\ n \in 0 .. (n + 1) - 1 /\ n <= n + 1
    OBVIOUS
  <2>2. G[n + 1][n + 1] = step[n][G[n + 1][n]]
    BY <1>4, <2>1
  <2>3. G[n][n] = G[n + 1][n]
    BY <1>5, <2>1
  <2> QED
    BY <2>1, <2>2, <2>3
<1> HIDE DEF f
<1>9. ASSUME NEW n \in Nat PROVE f[n] = IF n = 0 THEN start ELSE up[n][f[n - 1]]
  <2>1. CASE n = 0
    BY <1>7, <2>1
  <2>2. CASE n # 0
    <3>1. n - 1 \in Nat /\ (n - 1) + 1 = n
      BY <2>2
    <3>2. f[(n - 1) + 1] = step[n - 1][f[n - 1]] /\ step[n - 1] = up[(n - 1) + 1]
      BY <1>0, <1>8, <3>1
    <3> QED
      BY <2>2, <3>1, <3>2
  <2> QED
    BY <2>1, <2>2
<1> QED
  BY <1>6, <1>9

(* The same, with a name for what f is: IsRecursion can stay folded.       *)
IsRecursion(f, S, start, up) ==
    /\ f \in [Nat -> S]
    /\ \A n \in Nat : f[n] = IF n = 0 THEN start ELSE up[n][f[n - 1]]

LEMMA RecursionExists ==
  ASSUME NEW S, NEW start \in S, NEW up \in [Nat -> [S -> S]]
  PROVE  \E f : IsRecursion(f, S, start, up)
<1>1. PICK f \in [Nat -> S] : \A n \in Nat : f[n] = IF n = 0 THEN start ELSE up[n][f[n - 1]]
  BY Recursion, Z3
<1> QED
  BY <1>1, Zenon DEF IsRecursion

(* And over the numbers up to a bound.                                     *)
IsBoundedRecursion(f, m, S, start, up) ==
    /\ f \in [0 .. m -> S]
    /\ \A n \in 0 .. m : f[n] = IF n = 0 THEN start ELSE up[n][f[n - 1]]

LEMMA BoundedRecursionExists ==
  ASSUME NEW m \in Nat, NEW S, NEW start \in S, NEW up \in [1 .. m -> [S -> S]]
  PROVE  \E f : IsBoundedRecursion(f, m, S, start, up)
<1> DEFINE same == [x \in S |-> x]
           on == [n \in Nat |-> IF n \in 1 .. m THEN up[n] ELSE same]
<1>1. same \in [S -> S]
  OBVIOUS
<1> HIDE DEF same
<1>2. on \in [Nat -> [S -> S]] /\ \A n \in 1 .. m : on[n] = up[n]
  BY <1>1
<1> HIDE DEF on
<1>3. PICK g : IsRecursion(g, S, start, on)
  BY <1>2, RecursionExists, Zenon
<1>4. g \in [Nat -> S] /\ \A n \in Nat : g[n] = IF n = 0 THEN start ELSE on[n][g[n - 1]]
  BY <1>3, Zenon DEF IsRecursion
<1> DEFINE f == [n \in 0 .. m |-> g[n]]
<1>5. f \in [0 .. m -> S] /\ \A n \in 0 .. m : f[n] = g[n]
  BY <1>4
<1>6. ASSUME NEW n \in 0 .. m PROVE f[n] = IF n = 0 THEN start ELSE up[n][f[n - 1]]
  <2>1. CASE n = 0
    BY <1>4, <1>5, <2>1
  <2>2. CASE n # 0
    <3>1. n \in 1 .. m /\ n - 1 \in 0 .. m /\ n \in Nat
      BY <2>2
    <3>2. g[n] = on[n][g[n - 1]]
      BY <1>4, <2>2, <3>1
    <3> HIDE DEF f
    <3>3. g[n] = up[n][f[n - 1]]
      BY <1>2, <1>5, <3>1, <3>2, Zenon
    <3> QED
      BY <1>5, <2>2, <3>1, <3>3
  <2> QED
    BY <2>1, <2>2
<1> HIDE DEF f
<1> QED
  BY <1>5, <1>6, Zenon DEF IsBoundedRecursion

(* What holds of the first of finitely many values and of each if of the   *)
(* one before holds of all.                                                *)
LEMMA BoundedInduction ==
  ASSUME NEW m \in Nat, NEW S, NEW f, f[0] \in S, \A n \in 1 .. m : f[n - 1] \in S => f[n] \in S
  PROVE  \A n \in 0 .. m : f[n] \in S
<1> DEFINE N == {n \in Nat : n <= m => f[n] \in S}
<1>1. 0 \in N
  OBVIOUS
<1>2. ASSUME NEW n \in N PROVE n + 1 \in N
  <2>1. n \in Nat /\ n + 1 \in Nat /\ (n + 1) - 1 = n
    OBVIOUS
  <2>2. ASSUME n + 1 <= m PROVE f[n + 1] \in S
    <3>1. n + 1 \in 1 .. m /\ n <= m
      BY <2>1, <2>2
    <3>2. f[n] \in S
      BY <2>1, <3>1
    <3>3. f[(n + 1) - 1] \in S => f[n + 1] \in S
      BY <3>1
    <3> QED
      BY <2>1, <3>2, <3>3
  <2> QED
    BY <2>1, <2>2
<1>3. N = Nat
  <2>1. N \in SUBSET Nat
    OBVIOUS
  <2> HIDE DEF N
  <2> QED
    BY <1>1, <1>2, <2>1, NumberInduction
<1> QED
  BY <1>3
=============================================================================
