------------------------ MODULE ComponentManagerProofs ------------------------
(***************************************************************************)
(* Proofs about the component cache and the stacks of the search.  First   *)
(* the methods of the cache: that each leaves a cache, and what it does to *)
(* a list (Piece, ListOf, Splice), to the account of the memory, to the    *)
(* table and to the tree (Woven: Evict, NewEntry, AddDescendant).  Then    *)
(* the stacks (Control).                                                   *)
(***************************************************************************)
EXTENDS ComponentManager, Induction, FiniteSetTheorems, SequenceTheorems

(***************************************************************************)
(* Lists threaded through pointers.                                        *)
(***************************************************************************)

(* The list s starts at e and goes on through pointers.                    *)
Linked(pointer, e, s) ==
    /\ e = IF Len(s) = 0 THEN INVALID_ENTRY ELSE s[1]
    /\ \A i \in 1 .. Len(s) : pointer[s[i]] = IF i = Len(s) THEN INVALID_ENTRY ELSE s[i + 1]

(* The list that starts at an entry and goes on through pointers.          *)
ListAlong(pointer, start, s) ==
    s \in Seq(DOMAIN pointer) /\ IsInjective(s) /\ Linked(pointer, start, s)

(* No list without repetition is longer than there are entries.            *)
LEMMA ListShort ==
  ASSUME NEW I, IsFiniteSet(I), NEW s \in Seq(I), IsInjective(s)
  PROVE  Len(s) <= Cardinality(I)
<1>1. Len(s) \in Nat /\ s \in [1 .. Len(s) -> I]
  OBVIOUS
<1>2. s \in Injection(1 .. Len(s), I)
  BY <1>1 DEF Injection
<1>3. Cardinality(1 .. Len(s)) <= Cardinality(I)
  BY <1>2, FS_Injection
<1>4. Cardinality(1 .. Len(s)) = Len(s)
  <2>1. ASSUME NEW m \in Nat PROVE Cardinality(1 .. m) = m
    <3>1. Cardinality(1 .. m) = IF 1 > m THEN 0 ELSE m - 1 + 1
      BY FS_Interval, SMTT(30)
    <3> QED BY <3>1
  <2> QED BY <1>1, <2>1
<1> QED BY <1>3, <1>4

(* The rest of a list is the list that starts behind its head.             *)
LEMMA LinkedTail ==
  ASSUME NEW S, NEW t \in Seq(S), t # <<>>, NEW pointer, NEW e, Linked(pointer, e, t)
  PROVE  /\ e = t[1] /\ e \in S /\ Tail(t) \in Seq(S) /\ Len(Tail(t)) = Len(t) - 1
         /\ t = <<e>> \o Tail(t)
         /\ Linked(pointer, pointer[e], Tail(t))
<1>1. Len(t) \in Nat \ {0} /\ t[1] \in S
  OBVIOUS
<1>2. e = t[1]
  BY <1>1 DEF Linked
<1>3. /\ Tail(t) \in Seq(S) /\ Len(Tail(t)) = Len(t) - 1
      /\ \A i \in 1 .. Len(t) - 1 : Tail(t)[i] = t[i + 1]
  BY <1>1
<1>4. t = <<e>> \o Tail(t)
  BY <1>2
<1> DEFINE u == Tail(t)
           m == Len(u)
<1>5. m \in Nat /\ Len(t) = m + 1 /\ \A i \in 1 .. m : u[i] = t[i + 1]
  BY <1>1, <1>3
<1> HIDE DEF u
<1>6. pointer[e] = IF m = 0 THEN INVALID_ENTRY ELSE u[1]
  <2>1. pointer[t[1]] = IF 1 = Len(t) THEN INVALID_ENTRY ELSE t[1 + 1]
    <3>1. 1 \in 1 .. Len(t)
      BY <1>1
    <3> HIDE DEF m
    <3> QED BY <3>1 DEF Linked
  <2> QED BY <1>2, <1>5, <2>1
<1>7. ASSUME NEW i \in 1 .. m PROVE pointer[u[i]] = IF i = m THEN INVALID_ENTRY ELSE u[i + 1]
  <2>1. i + 1 \in 1 .. Len(t) /\ u[i] = t[i + 1]
    BY <1>5
  <2>2. pointer[t[i + 1]] = IF i + 1 = Len(t) THEN INVALID_ENTRY ELSE t[(i + 1) + 1]
    BY <2>1 DEF Linked
  <2> QED BY <1>5, <2>1, <2>2
<1> QED BY <1>1, <1>2, <1>3, <1>4, <1>6, <1>7 DEF Linked, u

(* Following pointers goes from one to the next.                           *)
LEMMA FollowSteps ==
  ASSUME NEW I, INVALID_ENTRY \notin I, NEW pointer \in [I -> I \cup {INVALID_ENTRY}]
  PROVE  \E from \in [Nat -> [I \cup {INVALID_ENTRY} -> Seq(I)]] :
           /\ \A id : Follow(pointer, id) = from[Cardinality(I)][id]
           /\ \A e \in I \cup {INVALID_ENTRY} : from[0][e] = <<>>
           /\ \A n \in Nat : \A e \in I \cup {INVALID_ENTRY} :
                from[n + 1][e] = IF e = INVALID_ENTRY THEN <<>> ELSE <<e>> \o from[n][pointer[e]]
<1> DEFINE D == I \cup {INVALID_ENTRY}
           from[n \in Nat] ==
            [e \in D |-> IF n = 0 \/ e = INVALID_ENTRY THEN <<>> ELSE <<e>> \o from[n-1][pointer[e]]]
           P == [D -> Seq(I)]
           none == [e \in D |-> <<>>]
           longer == [g \in P |-> [e \in D |-> IF e = INVALID_ENTRY THEN <<>> ELSE <<e>> \o g[pointer[e]]]]
           step == [n \in Nat |-> longer]
<1>1. DOMAIN pointer \cup {INVALID_ENTRY} = D
  OBVIOUS
<1>2. ASSUME NEW g \in P, NEW e \in D
      PROVE  (IF e = INVALID_ENTRY THEN <<>> ELSE <<e>> \o g[pointer[e]]) \in Seq(I)
  <2>1. CASE e = INVALID_ENTRY
    BY <2>1
  <2>2. CASE e # INVALID_ENTRY
    <3>1. e \in I /\ pointer[e] \in D
      BY <2>2
    <3>2. g[pointer[e]] \in Seq(I)
      BY <3>1
    <3>3. <<e>> \o g[pointer[e]] \in Seq(I)
      BY <3>1, <3>2
    <3> QED BY <2>2, <3>3
  <2> QED BY <2>1, <2>2
<1>3. longer \in [P -> P] /\ none \in P
  <2>1. ASSUME NEW g \in P
        PROVE  [e \in D |-> IF e = INVALID_ENTRY THEN <<>> ELSE <<e>> \o g[pointer[e]]] \in P
    BY <1>2, Zenon
  <2>2. none \in P
    <3>1. <<>> \in Seq(I)
      OBVIOUS
    <3> QED BY <3>1, Zenon
  <2> HIDE DEF P
  <2> QED BY <2>1, <2>2, Zenon
<1>4. step \in [Nat -> [P -> P]]
  BY <1>3, Zenon
<1> HIDE DEF from, P
<1>5. \A n \in Nat, g \in P : step[n][g] = [e \in D |-> IF e = INVALID_ENTRY THEN <<>> ELSE <<e>> \o g[pointer[e]]]
  <2>1. \A n \in Nat : step[n] = longer
    BY Zenon
  <2>2. \A g \in P : longer[g] = [e \in D |-> IF e = INVALID_ENTRY THEN <<>> ELSE <<e>> \o g[pointer[e]]]
    BY Zenon
  <2> QED BY <2>1, <2>2, Zenon
<1> HIDE DEF step, longer, none, D
<1>6. PICK f : IsRecursion(f, P, none, step)
  BY <1>3, <1>4, RecursionExists, Zenon
<1>7. f \in [Nat -> P] /\ \A n \in Nat : f[n] = IF n = 0 THEN none ELSE step[n][f[n - 1]]
  BY <1>6, Zenon DEF IsRecursion
<1>8. ASSUME NEW n \in Nat
      PROVE  f[n] = [e \in D |-> IF n = 0 \/ e = INVALID_ENTRY THEN <<>> ELSE <<e>> \o f[n-1][pointer[e]]]
  <2>1. CASE n = 0
    <3>1. f[n] = none
      BY <1>7, <2>1
    <3> QED BY <2>1, <3>1 DEF none
  <2>2. CASE n # 0
    <3>1. f[n - 1] \in P /\ f[n] = step[n][f[n - 1]]
      BY <1>7, <2>2
    <3>2. f[n] = [e \in D |-> IF e = INVALID_ENTRY THEN <<>> ELSE <<e>> \o f[n - 1][pointer[e]]]
      BY <1>5, <3>1
    <3> QED BY <2>2, <3>2
  <2> QED BY <2>1, <2>2
<1>9. f = [n \in Nat |-> [e \in D |-> IF n = 0 \/ e = INVALID_ENTRY THEN <<>> ELSE <<e>> \o f[n-1][pointer[e]]]]
  BY <1>7, <1>8
<1>10. from = [n \in Nat |-> [e \in D |-> IF n = 0 \/ e = INVALID_ENTRY THEN <<>> ELSE <<e>> \o from[n-1][pointer[e]]]]
  BY <1>9, Zenon DEF from
<1>11. \A id : Follow(pointer, id) = from[Cardinality(I)][id]
  <2>1. DOMAIN pointer = I
    OBVIOUS
  <2> QED BY <1>1, <2>1 DEF Follow, from, D
<1>12. \A e \in D : from[0][e] = <<>>
  BY <1>10
<1>13. ASSUME NEW n \in Nat
       PROVE  from[n + 1] = [e \in D |-> IF e = INVALID_ENTRY THEN <<>> ELSE <<e>> \o from[n][pointer[e]]]
  <2>1. n + 1 \in Nat /\ n + 1 # 0 /\ (n + 1) - 1 = n
    OBVIOUS
  <2>2. from[n + 1] = [e \in D |-> IF n + 1 = 0 \/ e = INVALID_ENTRY THEN <<>> ELSE <<e>> \o from[(n + 1)-1][pointer[e]]]
    BY <1>10, <2>1, Zenon
  <2> QED BY <2>1, <2>2, Zenon
<1> DEFINE N == {n \in Nat : from[n] \in P}
<1>14. N = Nat
  <2>1. N \in SUBSET Nat /\ 0 \in N
    <3>1. from[0] = none
      BY <1>10 DEF none
    <3> QED BY <1>3, <3>1
  <2>2. ASSUME NEW n \in N PROVE n + 1 \in N
    <3>1. n + 1 \in Nat /\ n \in Nat
      OBVIOUS
    <3>3. from[n + 1] = longer[from[n]]
      BY <1>13, <3>1 DEF longer
    <3> QED BY <1>3, <3>1, <3>3
  <2> HIDE DEF N
  <2> QED BY <2>1, <2>2, NumberInduction
<1>15. from \in [Nat -> P]
  BY <1>10, <1>14
<1>16. \A n \in Nat : \A e \in D :
         from[n + 1][e] = IF e = INVALID_ENTRY THEN <<>> ELSE <<e>> \o from[n][pointer[e]]
  BY <1>13, Zenon
<1> QED BY <1>11, <1>12, <1>15, <1>16, Zenon DEF P, D

(* What following pointers yields are entries.                             *)
LEMMA FollowType ==
  ASSUME NEW I, IsFiniteSet(I), INVALID_ENTRY \notin I, NEW pointer \in [I -> I \cup {INVALID_ENTRY}],
         NEW e \in I \cup {INVALID_ENTRY}
  PROVE  Follow(pointer, e) \in Seq(I)
<1>1. Cardinality(I) \in Nat
  BY FS_CardinalityType
<1>2. PICK from \in [Nat -> [I \cup {INVALID_ENTRY} -> Seq(I)]] :
        \A id : Follow(pointer, id) = from[Cardinality(I)][id]
  BY FollowSteps, Zenon
<1>3. from[Cardinality(I)] \in [I \cup {INVALID_ENTRY} -> Seq(I)]
  BY <1>1, Zenon
<1>4. ASSUME NEW g \in [I \cup {INVALID_ENTRY} -> Seq(I)] PROVE g[e] \in Seq(I)
  OBVIOUS
<1> QED BY <1>2, <1>3, <1>4, Zenon

(* Following pointers yields the list they make.                           *)
LEMMA FollowIs ==
  ASSUME NEW I, IsFiniteSet(I), INVALID_ENTRY \notin I, NEW pointer \in [I -> I \cup {INVALID_ENTRY}],
         NEW start, NEW s, ListAlong(pointer, start, s)
  PROVE  Follow(pointer, start) = s
<1> DEFINE D == I \cup {INVALID_ENTRY}
<1>1. PICK from \in [Nat -> [D -> Seq(I)]] :
           /\ \A id : Follow(pointer, id) = from[Cardinality(I)][id]
           /\ \A e \in D : from[0][e] = <<>>
           /\ \A n \in Nat : \A e \in D :
                from[n + 1][e] = IF e = INVALID_ENTRY THEN <<>> ELSE <<e>> \o from[n][pointer[e]]
  BY FollowSteps, Zenon
<1> DEFINE N == {n \in Nat : \A t \in Seq(I) : \A e \in D :
                   Linked(pointer, e, t) /\ Len(t) <= n => from[n][e] = t}
<1>2. 0 \in N
  <2> SUFFICES ASSUME NEW t \in Seq(I), NEW e \in D, Linked(pointer, e, t), Len(t) <= 0
               PROVE  from[0][e] = t
    OBVIOUS
  <2>1. t = <<>>
    OBVIOUS
  <2> QED BY <1>1, <2>1, Zenon
<1>3. ASSUME NEW n \in N PROVE n + 1 \in N
  <2> SUFFICES ASSUME NEW t \in Seq(I), NEW e \in D, Linked(pointer, e, t), Len(t) <= n + 1
               PROVE  from[n + 1][e] = t
    OBVIOUS
  <2>0. n \in Nat
    OBVIOUS
  <2>4. from[n + 1][e] = IF e = INVALID_ENTRY THEN <<>> ELSE <<e>> \o from[n][pointer[e]]
    BY <1>1, <2>0, Zenon
  <2>1. CASE t = <<>>
    <3>1. e = INVALID_ENTRY
      BY <2>1 DEF Linked
    <3> QED BY <2>1, <2>4, <3>1
  <2>2. CASE t # <<>>
    <3> DEFINE u == Tail(t)
    <3>1. /\ e = t[1] /\ e \in I /\ u \in Seq(I) /\ Len(u) = Len(t) - 1
          /\ t = <<e>> \o u /\ Linked(pointer, pointer[e], u)
      BY <2>2, LinkedTail
    <3> HIDE DEF u
    <3>2. pointer[e] \in D /\ e # INVALID_ENTRY
      BY <3>1, Zenon
    <3>3. Len(u) <= n
      <4>1. Len(t) \in Nat
        OBVIOUS
      <4> QED BY <2>0, <3>1, <4>1
    <3>4. from[n][pointer[e]] = u
      BY <3>1, <3>2, <3>3
    <3> QED BY <2>4, <3>1, <3>2, <3>4, Zenon
  <2> QED BY <2>1, <2>2
<1>4. N = Nat
  <2>1. N \in SUBSET Nat
    OBVIOUS
  <2> HIDE DEF N
  <2> QED BY <1>2, <1>3, <2>1, NumberInduction
<1>5. s \in Seq(I) /\ IsInjective(s) /\ Linked(pointer, start, s)
  BY DEF ListAlong
<1>6. Len(s) <= Cardinality(I) /\ Cardinality(I) \in Nat
  BY <1>5, ListShort, FS_CardinalityType
<1>7. start \in D
  BY <1>5 DEF Linked
<1>8. from[Cardinality(I)][start] = s
  BY <1>4, <1>5, <1>6, <1>7
<1> QED BY <1>1, <1>8, Zenon

(***************************************************************************)
(* What a cache is.                                                        *)
(***************************************************************************)

(* The entries 1 .. L of components of K, in their fields.                 *)
Pointers(L) == 1 .. L \cup {INVALID_ENTRY}
Entries(K, L) ==
    [comp : K, model : BOOLEAN, zero : BOOLEAN, delete : BOOLEAN, used : Nat,
     father : Pointers(L), first : Pointers(L), next : Pointers(L),
     chain : Pointers(L), created : Nat, free : BOOLEAN]
Tables(L) == UNION {[0 .. size - 1 -> Pointers(L)] : size \in Nat \ {0}}
Caches(K, L) ==
    [entry : [1 .. L -> Entries(K, L)], table : Tables(L), freeSlots : Seq(1 .. L),
     clock : Nat \ {0}, maxMemory : Nat, memory : Int, confirmed : Int]
AnyCaches(K) == UNION {Caches(K, L) : L \in Nat}

(* The components of the entries have hashes, and one is of no component.  *)
Hashed(K) == NoComp \in K /\ \A comp \in K : Hash[comp] \in Nat

LEMMA LenIs ==
  ASSUME NEW L \in Nat, NEW S, NEW f \in [1 .. L -> S]
  PROVE  f \in Seq(S) /\ Len(f) = L
OBVIOUS

LEMMA CacheIds ==
  ASSUME NEW K, NEW L \in Nat, NEW c \in Caches(K, L)
  PROVE  Ids(c) = 1 .. L /\ Len(c.entry) = L /\ c.entry \in Seq(Entries(K, L)) /\ L = Len(c.entry)
<1> DEFINE E == Entries(K, L)
<1>1. c.entry \in [1 .. L -> E]
  BY Zenon DEF Caches
<1> HIDE DEF E
<1>2. c.entry \in Seq(E) /\ Len(c.entry) = L
  BY <1>1, LenIs
<1> QED BY <1>2 DEF Ids, E

LEMMA IntervalFinite ==
  ASSUME NEW L \in Nat
  PROVE  IsFiniteSet(1 .. L) /\ Cardinality(1 .. L) = L /\ INVALID_ENTRY \notin 1 .. L
<1>1. IsFiniteSet(1 .. L) /\ Cardinality(1 .. L) = IF 1 > L THEN 0 ELSE L - 1 + 1
  BY FS_Interval
<1> QED BY <1>1 DEF INVALID_ENTRY

(* The pointers of a cache lead to entries.                                *)
LEMMA PointerTypes ==
  ASSUME NEW K, NEW L \in Nat, NEW c \in Caches(K, L)
  PROVE  /\ ChainOf(c) \in [1 .. L -> Pointers(L)]
         /\ NextOf(c) \in [1 .. L -> Pointers(L)]
         /\ \A e \in 1 .. L : ChainOf(c)[e] = c.entry[e].chain /\ NextOf(c)[e] = c.entry[e].next
<1>1. Ids(c) = 1 .. L
  BY CacheIds
<1>2. \A e \in 1 .. L : c.entry[e].chain \in Pointers(L) /\ c.entry[e].next \in Pointers(L)
  BY DEF Caches, Entries
<1> QED BY <1>1, <1>2 DEF ChainOf, NextOf

LEMMA ChildrenType ==
  ASSUME NEW K, NEW L \in Nat, NEW c \in Caches(K, L), NEW id \in 1 .. L
  PROVE  Children(c, id) \in Seq(1 .. L)
<1>1. NextOf(c) \in [1 .. L -> Pointers(L)]
  BY PointerTypes
<1>2. c.entry[id].first \in Pointers(L)
  BY DEF Caches, Entries
<1>3. IsFiniteSet(1 .. L) /\ INVALID_ENTRY \notin 1 .. L
  BY IntervalFinite
<1> QED BY <1>1, <1>2, <1>3, FollowType, Zenon DEF Children, Pointers

LEMMA TableType ==
  ASSUME NEW K, NEW L \in Nat, NEW c \in Caches(K, L)
  PROVE  LET size == Cardinality(DOMAIN c.table)
         IN  /\ size \in Nat \ {0} /\ DOMAIN c.table = 0 .. size - 1
             /\ c.table \in [0 .. size - 1 -> Pointers(L)]
<1>1. PICK size \in Nat \ {0} : c.table \in [0 .. size - 1 -> Pointers(L)]
  BY DEF Caches, Tables
<1>2. Cardinality(0 .. size - 1) = size
  <2>1. Cardinality(0 .. size - 1) = IF 0 > size - 1 THEN 0 ELSE size - 1 - 0 + 1
    BY FS_Interval
  <2> QED BY <2>1
<1> QED BY <1>1, <1>2

LEMMA BucketType ==
  ASSUME NEW K, NEW L \in Nat, NEW c \in Caches(K, L), NEW slot \in DOMAIN c.table
  PROVE  Bucket(c, slot) \in Seq(1 .. L)
<1>1. ChainOf(c) \in [1 .. L -> Pointers(L)]
  BY PointerTypes
<1>2. c.table[slot] \in Pointers(L)
  BY TableType
<1>3. IsFiniteSet(1 .. L) /\ INVALID_ENTRY \notin 1 .. L
  BY IntervalFinite
<1> QED BY <1>1, <1>2, <1>3, FollowType, Zenon DEF Bucket, Pointers

(* A hash leads to a slot of the table.                                    *)
LEMMA SlotType ==
  ASSUME NEW K, Hashed(K), NEW L \in Nat, NEW c \in Caches(K, L)
  PROVE  /\ \A comp \in K : Hash[comp] % Cardinality(DOMAIN c.table) \in DOMAIN c.table
         /\ \A id \in 1 .. L : Slot(c, id) \in DOMAIN c.table
<1> DEFINE size == Cardinality(DOMAIN c.table)
<1>1. size \in Nat \ {0} /\ DOMAIN c.table = 0 .. size - 1
  BY TableType
<1>2. \A id \in 1 .. L : c.entry[id].comp \in K
  BY DEF Caches, Entries
<1> HIDE DEF size
<1>3. \A h \in Nat : h % size \in 0 .. size - 1
  BY <1>1
<1> QED BY <1>1, <1>2, <1>3, Zenon DEF Slot, Hashed, size

(***************************************************************************)
(* Where something is in a sequence.                                       *)
(***************************************************************************)
LEMMA MinIs ==
  ASSUME NEW T \in SUBSET Nat, T # {}
  PROVE  Min(T) \in T /\ \A y \in T : Min(T) <= y
<1>1. \E x \in T : \A y \in T : x <= y
  BY LeastNumber
<1> QED BY <1>1, Zenon DEF Min

LEMMA MaxIs ==
  ASSUME NEW T \in SUBSET Nat, T # {}, NEW b \in Nat, \A x \in T : x <= b
  PROVE  Max(T) \in T /\ \A y \in T : y <= Max(T)
<1>1. \E x \in T : \A y \in T : y <= x
  BY GreatestNumber
<1>2. \E x \in T : \A y \in T : x >= y
  BY <1>1
<1>3. Max(T) \in T /\ \A y \in T : Max(T) >= y
  BY <1>2, Zenon DEF Max
<1> QED BY <1>3

(* The first of the places in I, or zero.                                  *)
FirstOf(I) == IF I # {} THEN Min(I) ELSE 0

LEMMA FirstOfIs ==
  ASSUME NEW n \in Nat, NEW I \in SUBSET (1 .. n)
  PROVE  /\ FirstOf(I) \in 0 .. n
         /\ FirstOf(I) = 0 <=> I = {}
         /\ I # {} => FirstOf(I) \in I
         /\ \A j \in I : FirstOf(I) <= j
<1>1. I \in SUBSET Nat
  OBVIOUS
<1>2. CASE I # {}
  <2>1. FirstOf(I) = Min(I)
    BY <1>2 DEF FirstOf
  <2>2. Min(I) \in I /\ \A j \in I : Min(I) <= j
    BY <1>1, <1>2, MinIs, Zenon
  <2>3. FirstOf(I) \in 1 .. n
    BY <2>1, <2>2, Zenon
  <2>4. FirstOf(I) \in 0 .. n /\ FirstOf(I) # 0
    BY <2>3
  <2> QED BY <1>2, <2>1, <2>2, <2>4, Zenon
<1>3. CASE I = {}
  BY <1>3 DEF FirstOf
<1> QED BY <1>2, <1>3

Place(s, x) == FirstOf({i \in 1 .. Len(s) : s[i] = x})

LEMMA PlaceIs ==
  ASSUME NEW s, NEW x
  PROVE  SelectInSeq(s, LAMBDA e : e = x) = Place(s, x)
BY Zenon DEF SelectInSeq, FirstOf, Place

LEMMA PlaceOf ==
  ASSUME NEW S, NEW s \in Seq(S), NEW x
  PROVE  /\ Place(s, x) \in 0 .. Len(s)
         /\ Place(s, x) = 0 <=> x \notin ToSet(s)
         /\ Place(s, x) # 0 => s[Place(s, x)] = x
<1> DEFINE I == {i \in 1 .. Len(s) : s[i] = x}
<1>1. Place(s, x) = FirstOf(I)
  BY DEF Place
<1>2. Len(s) \in Nat /\ DOMAIN s = 1 .. Len(s)
  OBVIOUS
<1>3. I \in SUBSET (1 .. Len(s))
  OBVIOUS
<1>4. I = {} <=> x \notin ToSet(s)
  BY <1>2 DEF ToSet
<1>5. \A i \in I : s[i] = x
  OBVIOUS
<1> HIDE DEF I
<1> QED BY <1>1, <1>2, <1>3, <1>4, <1>5, FirstOfIs

(* lookup() finds an entry of the component in its bucket, if there is one.*)
LEMMA FindIs ==
  ASSUME NEW K, Hashed(K), NEW L \in Nat, NEW c \in Caches(K, L), NEW comp \in K
  PROVE  LET bucket == Bucket(c, Hash[comp] % Cardinality(DOMAIN c.table))
             id == Find(c, comp)
         IN  /\ id \in Pointers(L)
             /\ id # INVALID_ENTRY => id \in ToSet(bucket) /\ c.entry[id].comp = comp
             /\ id = INVALID_ENTRY => \A e \in ToSet(bucket) : c.entry[e].comp # comp
<1> DEFINE bucket == Bucket(c, Hash[comp] % Cardinality(DOMAIN c.table))
           I == {i \in 1 .. Len(bucket) : c.entry[bucket[i]].comp = comp}
<1>1. bucket \in Seq(1 .. L)
  BY SlotType, BucketType, Zenon
<1> HIDE DEF bucket
<1>2. Find(c, comp) = IF FirstOf(I) = 0 THEN INVALID_ENTRY ELSE bucket[FirstOf(I)]
  BY Zenon DEF Find, SelectInSeq, FirstOf, bucket
<1>3. Len(bucket) \in Nat /\ DOMAIN bucket = 1 .. Len(bucket)
  BY <1>1
<1>4. I \in SUBSET (1 .. Len(bucket))
  OBVIOUS
<1>5. \A i \in I : bucket[i] \in ToSet(bucket) /\ bucket[i] \in 1 .. L /\ c.entry[bucket[i]].comp = comp
  BY <1>1, <1>3 DEF ToSet
<1>6. I = {} => \A e \in ToSet(bucket) : c.entry[e].comp # comp
  BY <1>3 DEF ToSet
<1> HIDE DEF I
<1>7. CASE I = {}
  <2>1. Find(c, comp) = INVALID_ENTRY
    BY <1>2, <1>3, <1>4, <1>7, FirstOfIs
  <2>2. \A e \in ToSet(bucket) : c.entry[e].comp # comp
    BY <1>6, <1>7
  <2> QED BY <2>1, <2>2 DEF Pointers, bucket
<1>8. CASE I # {}
  <2>1. FirstOf(I) \in I /\ FirstOf(I) # 0
    BY <1>3, <1>4, <1>8, FirstOfIs
  <2>2. Find(c, comp) = bucket[FirstOf(I)]
    BY <1>2, <2>1
  <2>3. Find(c, comp) \in ToSet(bucket) /\ Find(c, comp) \in 1 .. L /\ c.entry[Find(c, comp)].comp = comp
    BY <1>5, <2>1, <2>2
  <2>4. Find(c, comp) # INVALID_ENTRY
    BY <2>3 DEF INVALID_ENTRY
  <2> QED BY <2>3, <2>4 DEF Pointers, bucket
<1> QED BY <1>7, <1>8

(***************************************************************************)
(* Every method leaves a cache.                                            *)
(***************************************************************************)
LEMMA EntryChanged ==
  ASSUME NEW K, NEW L \in Nat, NEW c \in Caches(K, L), NEW id, NEW e, id \in 1 .. L => e \in Entries(K, L)
  PROVE  [c.entry EXCEPT ![id] = e] \in [1 .. L -> Entries(K, L)]
<1> DEFINE E == Entries(K, L)
<1>1. c.entry \in [1 .. L -> E]
  BY Zenon DEF Caches
<1> HIDE DEF E
<1> QED BY <1>1 DEF E

LEMMA LookupType ==
  ASSUME NEW K, Hashed(K), NEW L \in Nat, NEW c \in Caches(K, L), NEW comp \in K
  PROVE  Lookup(c, comp) \in Caches(K, L)
<1> DEFINE id == Find(c, comp)
<1>1. CASE id = INVALID_ENTRY
  BY <1>1 DEF Lookup
<1>2. CASE id # INVALID_ENTRY
  <2>1. id \in 1 .. L
    BY <1>2, FindIs DEF Pointers
  <2> HIDE DEF id
  <2> DEFINE e == [c.entry[id] EXCEPT !.used = c.clock]
             f == [c.entry EXCEPT ![id] = e]
  <2>2. e \in Entries(K, L)
    BY <2>1 DEF Caches, Entries
  <2>3. f \in [1 .. L -> Entries(K, L)]
    BY <2>2, EntryChanged
  <2>4. Lookup(c, comp) = [c EXCEPT !.entry = f, !.clock = c.clock + 1]
    BY <1>2, <2>1 DEF Lookup, id, Caches
  <2>5. c.clock + 1 \in Nat \ {0}
    BY DEF Caches
  <2> DEFINE k == c.clock + 1
  <2> HIDE DEF f, k
  <2> QED BY <2>3, <2>4, <2>5 DEF Caches, k
<1> QED BY <1>1, <1>2

LEMMA SetDeleteType ==
  ASSUME NEW K, NEW L \in Nat, NEW c \in Caches(K, L), NEW id \in 1 .. L, NEW b \in BOOLEAN
  PROVE  SetDeletePermitted(c, id, b) \in Caches(K, L)
BY ZenonT(60) DEF SetDeletePermitted, Caches, Entries

LEMMA FreeEntryType ==
  ASSUME NEW K, Hashed(K), NEW L \in Nat, NEW c \in Caches(K, L), NEW id \in 1 .. L
  PROVE  FreeEntry(c, id) \in Caches(K, L)
<1> DEFINE e == [c.entry[id] EXCEPT !.comp = NoComp, !.model = FALSE, !.free = TRUE,
                                    !.father = INVALID_ENTRY, !.first = INVALID_ENTRY,
                                    !.next = INVALID_ENTRY, !.chain = INVALID_ENTRY]
           f == [c.entry EXCEPT ![id] = e]
           m == c.memory - SizeInBytes(c.entry[id])
           s == Append(c.freeSlots, id)
<1>1. m \in Int
  BY DEF SizeInBytes, Caches
<1>2. s \in Seq(1 .. L)
  BY DEF Caches
<1>3. e \in Entries(K, L)
  <2>1. ASSUME NEW x \in Entries(K, L), NEW none \in K, NEW i \in Pointers(L)
        PROVE  [x EXCEPT !.comp = none, !.model = FALSE, !.free = TRUE,
                         !.father = i, !.first = i, !.next = i, !.chain = i] \in Entries(K, L)
    BY DEF Entries
  <2>2. c.entry[id] \in Entries(K, L)
    BY DEF Caches
  <2>3. NoComp \in K /\ INVALID_ENTRY \in Pointers(L)
    BY DEF Hashed, Pointers
  <2> QED BY <2>1, <2>2, <2>3, Zenon
<1>4. f \in [1 .. L -> Entries(K, L)]
  BY <1>3, EntryChanged
<1>5. FreeEntry(c, id) = [c EXCEPT !.memory = m, !.freeSlots = s, !.entry = f]
  BY DEF FreeEntry, Caches
<1> HIDE DEF f, m, s
<1> QED BY <1>1, <1>2, <1>4, <1>5 DEF Caches

LEMMA AddDescendantType ==
  ASSUME NEW K, NEW L \in Nat, NEW c \in Caches(K, L), NEW parent \in 1 .. L, NEW child \in 1 .. L
  PROVE  AddDescendant(c, parent, child) \in Caches(K, L)
<1> DEFINE e == [c.entry[child] EXCEPT !.father = parent, !.next = c.entry[parent].first]
           f == [c.entry EXCEPT ![child] = e]
           g == [f EXCEPT ![parent] = [f[parent] EXCEPT !.first = child]]
<1>1. e \in Entries(K, L)
  BY ZenonT(60) DEF Caches, Entries, Pointers
<1>2. f \in [1 .. L -> Entries(K, L)]
  BY <1>1, EntryChanged
<1>3. AddDescendant(c, parent, child) = [c EXCEPT !.entry = g]
  BY DEF AddDescendant, Caches
<1> HIDE DEF f
<1>4. [f[parent] EXCEPT !.first = child] \in Entries(K, L)
  BY <1>2 DEF Entries, Pointers
<1>5. g \in [1 .. L -> Entries(K, L)]
  BY <1>2, <1>4
<1> HIDE DEF g
<1> QED BY <1>3, <1>5 DEF Caches

(* The cache with a new entry, before evictions.                           *)
Created(c, comp) ==
    [AllocEntry(c) EXCEPT
        !.entry[AllocId(c)] = [@ EXCEPT !.comp = comp, !.zero = FALSE, !.delete = FALSE, !.used = 1,
                                        !.free = FALSE, !.created = AllocEntry(c).clock],
        !.clock = @ + 1,
        !.memory = @ + 1]

LEMMA NewEntryIs ==
  ASSUME NEW c, NEW comp, NEW clear
  PROVE  NewEntry(c, comp, clear) = EvictIfNeeded(Created(c, comp), clear)
BY Zenon DEF NewEntry, Created

LEMMA PrefixIs ==
  ASSUME NEW S, NEW s \in Seq(S), NEW n \in 0 .. Len(s)
  PROVE  /\ SubSeq(s, 1, n) \in Seq(S) /\ Len(SubSeq(s, 1, n)) = n
         /\ \A i \in 1 .. n : SubSeq(s, 1, n)[i] = s[i]
<1>1. Len(s) \in Nat
  OBVIOUS
<1>2. CASE n = 0
  <2>1. SubSeq(s, 1, 0) = <<>>
    OBVIOUS
  <2> QED BY <1>2, <2>1
<1>3. CASE n # 0
  <2>1. 1 \in 1 .. Len(s) + 1 /\ n \in 1 - 1 .. Len(s) /\ n \in Nat
    BY <1>1, <1>3
  <2>2. /\ SubSeq(s, 1, n) \in Seq(S)
        /\ Len(SubSeq(s, 1, n)) = IF 1 <= n THEN n - 1 + 1 ELSE 0
        /\ \A i \in 1 .. n - 1 + 1 : SubSeq(s, 1, n)[i] = s[1 + i - 1]
    BY <2>1, SubSeqProperties
  <2>3. \A i \in 1 .. n : i \in 1 .. n - 1 + 1 /\ 1 + i - 1 = i
    BY <2>1
  <2>4. \A i \in 1 .. n : SubSeq(s, 1, n)[i] = s[i]
    BY <2>2, <2>3
  <2> QED BY <1>3, <2>1, <2>2, <2>4
<1> QED BY <1>2, <1>3

LEMMA FrontIs ==
  ASSUME NEW S, NEW s \in Seq(S), s # <<>>
  PROVE  /\ Front(s) \in Seq(S) /\ Len(Front(s)) = Len(s) - 1
         /\ \A i \in 1 .. Len(s) - 1 : Front(s)[i] = s[i]
<1>1. Len(s) - 1 \in 0 .. Len(s)
  OBVIOUS
<1> QED BY <1>1, PrefixIs, Zenon DEF Front

LEMMA AppendIs ==
  ASSUME NEW S, NEW s \in Seq(S), NEW x \in S
  PROVE  /\ Append(s, x) \in Seq(S) /\ Len(Append(s, x)) = Len(s) + 1
         /\ Append(s, x) \in [1 .. Len(s) + 1 -> S]
         /\ Append(s, x)[Len(s) + 1] = x
         /\ \A i \in 1 .. Len(s) : Append(s, x)[i] = s[i]
<1>1. Append(s, x) \in Seq(S) /\ Len(Append(s, x)) = Len(s) + 1
  OBVIOUS
<1>2. Append(s, x)[Len(s) + 1] = x /\ \A i \in 1 .. Len(s) : Append(s, x)[i] = s[i]
  OBVIOUS
<1>3. ASSUME NEW u \in Seq(S) PROVE u \in [1 .. Len(u) -> S]
  OBVIOUS
<1>4. Append(s, x) \in [1 .. Len(Append(s, x)) -> S]
  BY <1>1, <1>3
<1> QED BY <1>1, <1>2, <1>4

(* How many entries there are once there is a new one.                     *)
Grown(c, L) == IF c.freeSlots = <<>> THEN L + 1 ELSE L

LEMMA PointersGrow ==
  ASSUME NEW K, NEW L \in Nat, NEW M \in Nat, L <= M
  PROVE  /\ Entries(K, L) \subseteq Entries(K, M) /\ Tables(L) \subseteq Tables(M)
         /\ Pointers(L) \subseteq Pointers(M)
<1>1. Pointers(L) \subseteq Pointers(M)
  BY DEF Pointers
<1>2. Entries(K, L) \subseteq Entries(K, M)
  BY <1>1 DEF Entries
<1>3. Tables(L) \subseteq Tables(M)
  BY <1>1 DEF Tables
<1> QED BY <1>1, <1>2, <1>3

(* The new entry is a fresh one or the one that has been free for the      *)
(* shortest time.                                                          *)
IsAlloc(c, d, id, L) ==
    /\ d = [c EXCEPT !.entry = d.entry, !.freeSlots = d.freeSlots]
    /\ \A e \in 1 .. L : d.entry[e] = c.entry[e]
    /\ c.freeSlots = <<>> => id = L + 1 /\ d.entry[L + 1] = FreshEntry /\ d.freeSlots = <<>>
    /\ c.freeSlots # <<>> => id = Last(c.freeSlots) /\ d.freeSlots = Front(c.freeSlots)

LEMMA AllocType ==
  ASSUME NEW K, Hashed(K), NEW L \in Nat, NEW c \in Caches(K, L)
  PROVE  LET M == Grown(c, L)
             d == AllocEntry(c)
         IN  /\ M \in Nat /\ L <= M
             /\ AllocId(c) \in 1 .. M
             /\ d \in Caches(K, M)
             /\ IsAlloc(c, d, AllocId(c), L)
<1> DEFINE M == Grown(c, L)
           d == AllocEntry(c)
<1>1. c.freeSlots \in Seq(1 .. L)
  BY DEF Caches
<1>2. CASE c.freeSlots = <<>>
  <2>1. M = L + 1 /\ M \in Nat /\ L <= M
    BY <1>2 DEF Grown
  <2> HIDE DEF M
  <2>2. AllocId(c) = L + 1
    BY <1>2, CacheIds DEF AllocId
  <2> DEFINE f == Append(c.entry, FreshEntry)
  <2>3. d = [c EXCEPT !.entry = f]
    BY <1>2 DEF AllocEntry, Caches
  <2>4. FreshEntry \in Entries(K, M)
    BY DEF FreshEntry, Entries, Pointers, Hashed
  <2>5. c.entry \in [1 .. L -> Entries(K, M)] /\ c.entry \in Seq(Entries(K, L)) /\ Len(c.entry) = L
    <3>1. Entries(K, L) \subseteq Entries(K, M)
      BY <2>1, PointersGrow
    <3> QED BY <3>1, CacheIds DEF Caches
  <2>6. /\ f \in [1 .. L + 1 -> Entries(K, M)] /\ f[L + 1] = FreshEntry
        /\ \A e \in 1 .. L : f[e] = c.entry[e]
    <3> DEFINE E == Entries(K, M)
               old == c.entry
    <3>1. old \in Seq(E) /\ Len(old) = L /\ FreshEntry \in E
      BY <2>4, <2>5, LenIs
    <3> HIDE DEF E, old
    <3> DEFINE new == Append(old, FreshEntry)
    <3>3. /\ new \in [1 .. Len(old) + 1 -> E]
          /\ new[Len(old) + 1] = FreshEntry
          /\ \A e \in 1 .. Len(old) : new[e] = old[e]
      <4>1. old \in Seq(E) /\ FreshEntry \in E
        BY <3>1
      <4> QED BY ONLY <4>1, AppendIs
    <3> HIDE DEF new
    <3>4. /\ new \in [1 .. L + 1 -> E]
          /\ new[L + 1] = FreshEntry
          /\ \A e \in 1 .. L : new[e] = old[e]
      BY <3>1, <3>3, Zenon
    <3>2. /\ Append(old, FreshEntry) \in [1 .. L + 1 -> E]
          /\ Append(old, FreshEntry)[L + 1] = FreshEntry
          /\ \A e \in 1 .. L : Append(old, FreshEntry)[e] = old[e]
      BY <3>4, Zenon DEF new
    <3> QED BY <3>2 DEF E, old
  <2> HIDE DEF f
  <2>7. c.table \in Tables(M) /\ <<>> \in Seq(1 .. M)
    BY <2>1, PointersGrow DEF Caches
  <2>8. d \in Caches(K, M)
    BY <1>2, <2>1, <2>3, <2>6, <2>7 DEF Caches
  <2>9. d.entry = f /\ d.freeSlots = c.freeSlots
    BY <2>3 DEF Caches
  <2>10. d = [c EXCEPT !.entry = d.entry, !.freeSlots = d.freeSlots]
    BY <2>3, <2>9 DEF Caches
  <2> HIDE DEF d
  <2>11. AllocId(c) \in 1 .. M
    BY <2>1, <2>2
  <2> QED BY <1>2, <2>1, <2>2, <2>6, <2>8, <2>9, <2>10, <2>11 DEF d, M, IsAlloc
<1>3. CASE c.freeSlots # <<>>
  <2>1. M = L
    BY <1>3 DEF Grown
  <2> HIDE DEF M
  <2>2. AllocId(c) = Last(c.freeSlots) /\ Last(c.freeSlots) \in 1 .. L
    BY <1>1, <1>3 DEF AllocId, Last
  <2> DEFINE s == Front(c.freeSlots)
  <2>3. s \in Seq(1 .. L)
    BY <1>1, <1>3, FrontIs, Zenon
  <2> HIDE DEF s
  <2>4. d = [c EXCEPT !.freeSlots = s]
    BY <1>3 DEF AllocEntry, Caches, s
  <2>5. d \in Caches(K, L)
    BY <2>3, <2>4 DEF Caches
  <2>6. d.entry = c.entry /\ d.freeSlots = s
    BY <2>4 DEF Caches
  <2>7. d = [c EXCEPT !.entry = d.entry, !.freeSlots = d.freeSlots]
    BY <2>4, <2>6 DEF Caches
  <2> HIDE DEF d
  <2> QED BY <1>3, <2>1, <2>2, <2>5, <2>6, <2>7 DEF s, d, M, IsAlloc
<1> QED BY <1>2, <1>3

LEMMA CreatedType ==
  ASSUME NEW K, Hashed(K), NEW L \in Nat, NEW c \in Caches(K, L), NEW comp \in K
  PROVE  Created(c, comp) \in Caches(K, Grown(c, L))
<1> DEFINE M == Grown(c, L)
           d == AllocEntry(c)
           id == AllocId(c)
<1>1. M \in Nat /\ id \in 1 .. M /\ d \in Caches(K, M)
  BY AllocType
<1> HIDE DEF M, d, id
<1> DEFINE e == [d.entry[id] EXCEPT !.comp = comp, !.zero = FALSE, !.delete = FALSE, !.used = 1,
                                    !.free = FALSE, !.created = d.clock]
           f == [d.entry EXCEPT ![id] = e]
           k == d.clock + 1
           m == d.memory + 1
<1>2. k \in Nat \ {0} /\ m \in Int /\ d.clock \in Nat /\ d.entry[id] \in Entries(K, M)
  BY <1>1 DEF Caches
<1>3. e \in Entries(K, M)
  <2>1. ASSUME NEW x \in Entries(K, M), NEW t \in Nat
        PROVE  [x EXCEPT !.comp = comp, !.zero = FALSE, !.delete = FALSE, !.used = 1,
                         !.free = FALSE, !.created = t] \in Entries(K, M)
    BY DEF Entries
  <2> QED BY <1>2, <2>1, Zenon
<1>4. f \in [1 .. M -> Entries(K, M)]
  BY <1>1, <1>3, EntryChanged
<1>5. Created(c, comp) = [d EXCEPT !.entry = f, !.clock = k, !.memory = m]
  BY <1>1 DEF Created, Caches, d, id
<1> HIDE DEF f, k, m
<1> QED BY <1>1, <1>2, <1>4, <1>5 DEF Caches, M

(* Max0 of a set of entries.                                               *)
LEMMA Max0Is ==
  ASSUME NEW L \in Nat, NEW T \in SUBSET (1 .. L)
  PROVE  /\ Max0(T) \in Pointers(L)
         /\ T = {} => Max0(T) = INVALID_ENTRY
         /\ T # {} => Max0(T) \in T
         /\ \A y \in T : y <= Max0(T)
<1>1. T \cup {INVALID_ENTRY} \in SUBSET Nat /\ \A x \in T \cup {INVALID_ENTRY} : x <= L
  BY DEF INVALID_ENTRY
<1>2. Max0(T) \in T \cup {INVALID_ENTRY} /\ \A y \in T \cup {INVALID_ENTRY} : y <= Max0(T)
  <2> DEFINE U == T \cup {INVALID_ENTRY}
  <2>1. U \in SUBSET Nat /\ U # {} /\ \A x \in U : x <= L
    BY <1>1
  <2> HIDE DEF U
  <2>2. Max(U) \in U /\ \A y \in U : y <= Max(U)
    BY <2>1, MaxIs
  <2> QED BY <2>2 DEF Max0, U
<1>3. T # {} => Max0(T) # INVALID_ENTRY
  <2> SUFFICES ASSUME NEW x \in T, Max0(T) = INVALID_ENTRY PROVE FALSE
    OBVIOUS
  <2>1. x <= Max0(T) /\ x \in 1 .. L
    BY <1>2
  <2> QED BY <2>1 DEF INVALID_ENTRY
<1> QED BY <1>2, <1>3 DEF Pointers

LEMMA GrowType ==
  ASSUME NEW K, Hashed(K), NEW L \in Nat, NEW c \in Caches(K, L)
  PROVE  GrowTableIfNeeded(c) \in Caches(K, L)
<1> DEFINE size == 2 * Cardinality(DOMAIN c.table)
           In(slot) == {id \in Confirmed(c) : Hash[c.entry[id].comp] % size = slot}
           Older(id) == {j \in In(Hash[c.entry[id].comp] % size) : j < id}
           t == [s \in 0 .. size - 1 |-> Max0(In(s))]
           f == [id \in Ids(c) |->
                             IF id \in Confirmed(c) THEN [c.entry[id] EXCEPT !.chain = Max0(Older(id))]
                             ELSE c.entry[id]]
<1>1. size \in Nat \ {0}
  BY TableType
<1>2. \A s : In(s) \in SUBSET (1 .. L)
  BY CacheIds DEF Confirmed, Live
<1>3. \A id : Older(id) \in SUBSET (1 .. L)
  BY <1>2
<1>4. (\A s : Max0(In(s)) \in Pointers(L)) /\ (\A id : Max0(Older(id)) \in Pointers(L))
  BY <1>2, <1>3, Max0Is, Zenon
<1>5. t \in Tables(L)
  <2> HIDE DEF size, In
  <2>1. t \in [0 .. size - 1 -> Pointers(L)]
    BY <1>4, Zenon
  <2> HIDE DEF t
  <2> QED BY <1>1, <2>1 DEF Tables
<1> DEFINE Oldest(id) == Max0(Older(id))
<1> HIDE DEF Oldest
<1>6. f \in [1 .. L -> Entries(K, L)]
  <2>1. ASSUME NEW x \in Entries(K, L), NEW p \in Pointers(L) PROVE [x EXCEPT !.chain = p] \in Entries(K, L)
    BY DEF Entries
  <2>2. \A id \in 1 .. L : c.entry[id] \in Entries(K, L)
    BY DEF Caches
  <2>3. Ids(c) = 1 .. L
    BY CacheIds
  <2> HIDE DEF Older, In
  <2>4. \A id \in 1 .. L : [c.entry[id] EXCEPT !.chain = Max0(Older(id))] \in Entries(K, L)
    BY <1>4, <2>1, <2>2, Zenon
  <2> QED BY <2>2, <2>3, <2>4
<1>7. GrowTableIfNeeded(c) = IF c.confirmed <= Cardinality(DOMAIN c.table) THEN c ELSE [c EXCEPT !.table = t, !.entry = f]
  BY Zenon DEF GrowTableIfNeeded
<1> HIDE DEF t, f
<1>8. [c EXCEPT !.table = t, !.entry = f] \in Caches(K, L)
  BY <1>5, <1>6 DEF Caches
<1> QED BY <1>7, <1>8, Zenon

LEMMA LinkType ==
  ASSUME NEW K, Hashed(K), NEW L \in Nat, NEW c \in Caches(K, L), NEW id \in 1 .. L
  PROVE  LinkIntoTable(c, id) \in Caches(K, L)
<1> DEFINE slot == Slot(c, id)
           e == [c.entry[id] EXCEPT !.chain = c.table[slot]]
           f == [c.entry EXCEPT ![id] = e]
           t == [c.table EXCEPT ![slot] = id]
           n == c.confirmed + 1
           d == [c EXCEPT !.entry = f, !.table = t, !.confirmed = n]
<1>1. slot \in DOMAIN c.table
  BY SlotType
<1> HIDE DEF slot
<1>2. c.table[slot] \in Pointers(L) /\ t \in Tables(L)
  <2> DEFINE size == Cardinality(DOMAIN c.table)
  <2>1. size \in Nat \ {0} /\ c.table \in [0 .. size - 1 -> Pointers(L)] /\ DOMAIN c.table = 0 .. size - 1
    BY TableType
  <2> HIDE DEF size
  <2>2. id \in Pointers(L)
    BY DEF Pointers
  <2>3. t \in [0 .. size - 1 -> Pointers(L)]
    BY <2>1, <2>2
  <2> QED BY <1>1, <2>1, <2>3 DEF Tables
<1>3. e \in Entries(K, L)
  BY <1>2, ZenonT(60) DEF Caches, Entries
<1>4. f \in [1 .. L -> Entries(K, L)]
  BY <1>3, EntryChanged
<1>5. n \in Int
  BY DEF Caches
<1>6. LinkIntoTable(c, id) = GrowTableIfNeeded(d)
  <2>1. d = [c EXCEPT !.entry[id].chain = c.table[slot], !.table[slot] = id, !.confirmed = @ + 1]
    BY DEF Caches
  <2> QED BY <2>1, Zenon DEF LinkIntoTable, slot
<1> HIDE DEF f, t, n
<1>7. d \in Caches(K, L)
  BY <1>2, <1>4, <1>5 DEF Caches
<1> QED BY <1>6, <1>7, GrowType

LEMMA StoreType ==
  ASSUME NEW K, Hashed(K), NEW L \in Nat, NEW c \in Caches(K, L), NEW id \in 1 .. L
  PROVE  Store(c, id) \in Caches(K, L) /\ StoreZero(c, id) \in Caches(K, L)
<1> DEFINE e == [c.entry[id] EXCEPT !.model = TRUE, !.used = c.clock]
           z == [c.entry[id] EXCEPT !.zero = TRUE, !.used = c.clock, !.delete = TRUE]
           f == [c.entry EXCEPT ![id] = e]
           g == [c.entry EXCEPT ![id] = z]
           k == c.clock + 1
           m == c.memory + 1
<1>1. e \in Entries(K, L) /\ z \in Entries(K, L)
  <2>1. ASSUME NEW x \in Entries(K, L), NEW t \in Nat
        PROVE  [x EXCEPT !.model = TRUE, !.used = t] \in Entries(K, L) /\ [x EXCEPT !.zero = TRUE, !.used = t, !.delete = TRUE] \in Entries(K, L)
    BY DEF Entries
  <2>2. c.entry[id] \in Entries(K, L) /\ c.clock \in Nat
    BY DEF Caches
  <2> QED BY <2>1, <2>2, Zenon
<1>2. f \in [1 .. L -> Entries(K, L)] /\ g \in [1 .. L -> Entries(K, L)]
  BY <1>1, EntryChanged
<1>3. k \in Nat \ {0} /\ m \in Int
  BY DEF Caches
<1>4. /\ Store(c, id) = LinkIntoTable([c EXCEPT !.entry = f, !.clock = k, !.memory = m], id)
      /\ StoreZero(c, id) = LinkIntoTable([c EXCEPT !.entry = g, !.clock = k], id)
  <2>1. /\ [c EXCEPT !.entry[id].model = TRUE, !.entry[id].used = c.clock, !.clock = @ + 1, !.memory = @ + 1]
            = [c EXCEPT !.entry = f, !.clock = k, !.memory = m]
        /\ [c EXCEPT !.entry[id].zero = TRUE, !.entry[id].used = c.clock, !.entry[id].delete = TRUE, !.clock = @ + 1]
            = [c EXCEPT !.entry = g, !.clock = k]
    BY DEF Caches
  <2> QED BY <2>1, Zenon DEF Store, StoreZero
<1> HIDE DEF f, g, k, m
<1>5. [c EXCEPT !.entry = f, !.clock = k, !.memory = m] \in Caches(K, L) /\ [c EXCEPT !.entry = g, !.clock = k] \in Caches(K, L)
  BY <1>2, <1>3 DEF Caches
<1> QED BY <1>4, <1>5, LinkType

LEMMA RemoveFromTableType ==
  ASSUME NEW K, Hashed(K), NEW L \in Nat, NEW c \in Caches(K, L), NEW id \in 1 .. L
  PROVE  RemoveFromTable(c, id) \in Caches(K, L)
<1> DEFINE slot == Slot(c, id)
           bucket == Bucket(c, slot)
           i == SelectInSeq(bucket, LAMBDA x : x = id)
           next == c.entry[id].chain
           f == [c.entry EXCEPT ![id] = [c.entry[id] EXCEPT !.chain = INVALID_ENTRY]]
           n == c.confirmed - 1
           t == [c.table EXCEPT ![slot] = next]
           g == [f EXCEPT ![bucket[i - 1]] = [f[bucket[i - 1]] EXCEPT !.chain = next]]
<1>1. slot \in DOMAIN c.table
  BY SlotType
<1>2. bucket \in Seq(1 .. L)
  BY <1>1, BucketType
<1>3. i \in 0 .. Len(bucket)
  <2> HIDE DEF bucket
  <2>1. i = Place(bucket, id)
    BY PlaceIs, Zenon
  <2> HIDE DEF i
  <2> QED BY <1>2, <2>1, PlaceOf
<1>4. next \in Pointers(L) /\ INVALID_ENTRY \in Pointers(L)
  BY DEF Caches, Entries, Pointers
<1>5. ASSUME NEW x \in Entries(K, L), NEW p \in Pointers(L) PROVE [x EXCEPT !.chain = p] \in Entries(K, L)
  BY DEF Entries
<1>6. c.entry \in [1 .. L -> Entries(K, L)]
  BY DEF Caches
<1>7. f \in [1 .. L -> Entries(K, L)]
  <2>1. [c.entry[id] EXCEPT !.chain = INVALID_ENTRY] \in Entries(K, L)
    BY <1>4, <1>5, <1>6
  <2> QED BY <2>1, EntryChanged
<1>8. g \in [1 .. L -> Entries(K, L)]
  <2> HIDE DEF f, i, next, bucket
  <2>1. \A b \in 1 .. L : [f[b] EXCEPT !.chain = next] \in Entries(K, L)
    BY <1>4, <1>5, <1>7
  <2> QED BY <1>7, <2>1
<1>9. t \in Tables(L)
  <2> DEFINE size == Cardinality(DOMAIN c.table)
  <2>1. size \in Nat \ {0} /\ c.table \in [0 .. size - 1 -> Pointers(L)]
    BY TableType
  <2> HIDE DEF size, next, slot
  <2>2. t \in [0 .. size - 1 -> Pointers(L)]
    BY <1>4, <2>1
  <2> QED BY <2>1, <2>2 DEF Tables
<1>10. n \in Int
  BY DEF Caches
<1>11. RemoveFromTable(c, id) = CASE i = 0 -> c
          [] i = 1 -> [c EXCEPT !.entry = f, !.table = t, !.confirmed = n]
          [] i > 1 -> [c EXCEPT !.entry = g, !.confirmed = n]
  <2> DEFINE unlinked == [c EXCEPT !.confirmed = @ - 1, !.entry[id].chain = INVALID_ENTRY]
  <2>1. unlinked = [c EXCEPT !.entry = f, !.confirmed = n]
    BY DEF Caches
  <2>2. RemoveFromTable(c, id) = CASE i = 0 -> c
          [] i = 1 -> [unlinked EXCEPT !.table[slot] = next]
          [] i > 1 -> [unlinked EXCEPT !.entry[bucket[i - 1]].chain = next]
    BY Zenon DEF RemoveFromTable
  <2> HIDE DEF i, bucket, unlinked, f, n, slot, next
  <2>3. [unlinked EXCEPT !.table[slot] = next] = [c EXCEPT !.entry = f, !.table = t, !.confirmed = n]
    BY <2>1 DEF Caches
  <2>4. [unlinked EXCEPT !.entry[bucket[i - 1]].chain = next] = [c EXCEPT !.entry = g, !.confirmed = n]
    BY <2>1 DEF Caches
  <2> QED BY <2>2, <2>3, <2>4
<1> HIDE DEF i, bucket, f, g, t, n
<1>12. [c EXCEPT !.entry = f, !.table = t, !.confirmed = n] \in Caches(K, L) /\ [c EXCEPT !.entry = g, !.confirmed = n] \in Caches(K, L)
  BY <1>7, <1>8, <1>9, <1>10 DEF Caches
<1>13. i = 0 \/ i = 1 \/ i > 1
  BY <1>2, <1>3
<1> QED BY <1>11, <1>12, <1>13

LEMMA RemoveFromTreeType ==
  ASSUME NEW K, Hashed(K), NEW L \in Nat, NEW c \in Caches(K, L), NEW id \in 1 .. L
  PROVE  RemoveFromDescendantsTree(c, id) \in Caches(K, L)
<1> DEFINE father == c.entry[id].father
           kids == Children(c, id)
           after == c.entry[id].next
           replacement == IF kids = <<>> THEN after ELSE Head(kids)
           siblings == Children(c, father)
           i == SelectInSeq(siblings, LAMBDA x : x = id)
           f == [e \in Ids(c) |->
                    IF e \notin ToSet(kids) THEN c.entry[e]
                    ELSE [c.entry[e] EXCEPT !.father = father,
                                            !.next = IF e = Last(kids) THEN after ELSE c.entry[e].next]]
           g == [f EXCEPT ![id] = [f[id] EXCEPT !.first = INVALID_ENTRY]]
           h == [g EXCEPT ![father] = [g[father] EXCEPT !.first = replacement]]
           k == [g EXCEPT ![siblings[i - 1]] = [g[siblings[i - 1]] EXCEPT !.next = replacement]]
<1>1. kids \in Seq(1 .. L)
  BY ChildrenType
<1>2. father \in Pointers(L) /\ after \in Pointers(L) /\ INVALID_ENTRY \in Pointers(L)
  BY DEF Caches, Entries, Pointers
<1>3. replacement \in Pointers(L)
  <2> HIDE DEF kids, after
  <2>1. kids # <<>> => Head(kids) \in 1 .. L
    BY <1>1
  <2> QED BY <1>2, <2>1 DEF Pointers
<1>4. RemoveFromDescendantsTree(c, id) = IF i = 1 THEN [c EXCEPT !.entry = h] ELSE [c EXCEPT !.entry = k]
  <2> DEFINE moved == [c EXCEPT !.entry = [e \in Ids(c) |->
                    IF e \notin ToSet(kids) THEN c.entry[e]
                    ELSE [c.entry[e] EXCEPT !.father = father,
                                            !.next = IF e = Last(kids) THEN after ELSE @]]]
             detached == [moved EXCEPT !.entry[id].first = INVALID_ENTRY]
  <2>1. RemoveFromDescendantsTree(c, id) =
          IF i = 1 THEN [detached EXCEPT !.entry[father].first = replacement]
          ELSE [detached EXCEPT !.entry[siblings[i - 1]].next = replacement]
    BY Zenon DEF RemoveFromDescendantsTree
  <2> HIDE DEF i, siblings, replacement
  <2>2. moved = [c EXCEPT !.entry = f]
    <3> HIDE DEF kids, father, after
    <3> QED BY DEF Caches
  <2> HIDE DEF moved, f
  <2>3. detached = [c EXCEPT !.entry = g]
    BY <2>2 DEF Caches
  <2> HIDE DEF detached, g, father
  <2>4. [detached EXCEPT !.entry[father].first = replacement] = [c EXCEPT !.entry = h]
    BY <2>3 DEF Caches
  <2>5. [detached EXCEPT !.entry[siblings[i - 1]].next = replacement] = [c EXCEPT !.entry = k]
    BY <2>3 DEF Caches
  <2> QED BY <2>1, <2>4, <2>5, Zenon
<1> HIDE DEF i, siblings, replacement, father, after
<1>5. f \in [1 .. L -> Entries(K, L)]
  <2>1. ASSUME NEW x \in Entries(K, L), NEW p \in Pointers(L), NEW q \in Pointers(L)
        PROVE  [x EXCEPT !.father = p, !.next = q] \in Entries(K, L) /\ x.next \in Pointers(L)
    BY DEF Entries
  <2>2. Ids(c) = 1 .. L /\ \A e \in 1 .. L : c.entry[e] \in Entries(K, L)
    BY CacheIds DEF Caches
  <2> HIDE DEF kids
  <2>3. ASSUME NEW e \in 1 .. L
        PROVE  [c.entry[e] EXCEPT !.father = father,
                                  !.next = IF e = Last(kids) THEN after ELSE c.entry[e].next] \in Entries(K, L)
    <3>1. (IF e = Last(kids) THEN after ELSE c.entry[e].next) \in Pointers(L)
      BY <1>2, <2>1, <2>2
    <3> QED BY <1>2, <2>1, <2>2, <3>1, Zenon
  <2> QED BY <2>2, <2>3
<1>6. ASSUME NEW x \in Entries(K, L), NEW p \in Pointers(L)
      PROVE  [x EXCEPT !.first = p] \in Entries(K, L) /\ [x EXCEPT !.next = p] \in Entries(K, L)
  BY DEF Entries
<1> HIDE DEF f
<1>7. g \in [1 .. L -> Entries(K, L)]
  <2>1. [f[id] EXCEPT !.first = INVALID_ENTRY] \in Entries(K, L)
    BY <1>2, <1>5, <1>6
  <2> QED BY <1>5, <2>1
<1> HIDE DEF g
<1>8. h \in [1 .. L -> Entries(K, L)] /\ k \in [1 .. L -> Entries(K, L)]
  <2>1. \A b \in 1 .. L : [g[b] EXCEPT !.first = replacement] \in Entries(K, L) /\ [g[b] EXCEPT !.next = replacement] \in Entries(K, L)
    BY <1>3, <1>6, <1>7
  <2> QED BY <1>7, <2>1
<1> HIDE DEF h, k
<1>9. [c EXCEPT !.entry = h] \in Caches(K, L) /\ [c EXCEPT !.entry = k] \in Caches(K, L)
  BY <1>8 DEF Caches
<1> QED BY <1>4, <1>9

LEMMA EvictType ==
  ASSUME NEW K, Hashed(K), NEW L \in Nat, NEW c \in Caches(K, L), NEW id \in 1 .. L
  PROVE  Evict(c, id) \in Caches(K, L)
<1>1. RemoveFromDescendantsTree(c, id) \in Caches(K, L)
  BY RemoveFromTreeType
<1>2. RemoveFromTable(RemoveFromDescendantsTree(c, id), id) \in Caches(K, L)
  BY <1>1, RemoveFromTableType
<1> QED BY <1>2, FreeEntryType DEF Evict

(* The eviction sweep, one entry after the other.                          *)
IsSweep(swept, c, old, K, L) ==
    /\ swept \in [0 .. L -> Caches(K, L)]
    /\ swept[0] = c
    /\ \A id \in 1 .. L : swept[id] = IF id \in old THEN Evict(swept[id - 1], id) ELSE swept[id - 1]

LEMMA SweepSteps ==
  ASSUME NEW K, Hashed(K), NEW L \in Nat, NEW c \in Caches(K, L), NEW clear
  PROVE  \/ EvictIfNeeded(c, clear) = c
         \/ \E old \in SUBSET Evictable(c) : \E swept :
               IsSweep(swept, c, old, K, L) /\ EvictIfNeeded(c, clear) = swept[L]
<1> SUFFICES ASSUME ~ (c.memory <= c.maxMemory \/ Evictable(c) = {})
             PROVE  \E old \in SUBSET Evictable(c) : \E swept :
               IsSweep(swept, c, old, K, L) /\ EvictIfNeeded(c, clear) = swept[L]
  BY Zenon DEF EvictIfNeeded
<1> DEFINE old == {id \in Evictable(c) : c.entry[id].used <= Cutoff(c) /\ id <= SweepEnd(c, clear)}
           swept[id \in 0 .. Len(c.entry)] ==
                 IF id = 0 THEN c
                 ELSE IF id \in old THEN Evict(swept[id-1], id) ELSE swept[id-1]
           P == Caches(K, L)
           up == [id \in 1 .. L |-> [d \in P |-> IF id \in old THEN Evict(d, id) ELSE d]]
<1>1. EvictIfNeeded(c, clear) = swept[Len(c.entry)]
  BY Zenon DEF EvictIfNeeded
<1>2. Len(c.entry) = L /\ old \subseteq Evictable(c)
  BY CacheIds
<1> HIDE DEF old, swept
<1>3. \A id \in 1 .. L, d \in P : (IF id \in old THEN Evict(d, id) ELSE d) \in P
  BY EvictType
<1> HIDE DEF P
<1>4. up \in [1 .. L -> [P -> P]]
  BY <1>3
<1>5. \A id \in 1 .. L, d \in P : up[id][d] = IF id \in old THEN Evict(d, id) ELSE d
  OBVIOUS
<1>6. c \in P
  BY DEF P
<1> HIDE DEF up
<1>7. PICK f : IsBoundedRecursion(f, L, P, c, up)
  BY <1>4, <1>6, BoundedRecursionExists, Zenon
<1>8. f \in [0 .. L -> P] /\ \A n \in 0 .. L : f[n] = IF n = 0 THEN c ELSE up[n][f[n - 1]]
  BY <1>7, Zenon DEF IsBoundedRecursion
<1>9. ASSUME NEW n \in 0 .. L
      PROVE  f[n] = IF n = 0 THEN c ELSE IF n \in old THEN Evict(f[n - 1], n) ELSE f[n - 1]
  <2>1. CASE n = 0
    BY <1>8, <2>1
  <2>2. CASE n # 0
    <3>1. n \in 1 .. L /\ n - 1 \in 0 .. L
      BY <2>2
    <3>2. f[n] = up[n][f[n - 1]] /\ f[n - 1] \in P
      BY <1>8, <2>2, <3>1
    <3> QED BY <1>5, <2>2, <3>1, <3>2, Zenon
  <2> QED BY <2>1, <2>2
<1>10. f = [n \in 0 .. Len(c.entry) |-> IF n = 0 THEN c ELSE IF n \in old THEN Evict(f[n - 1], n) ELSE f[n - 1]]
  BY <1>2, <1>8, <1>9
<1>11. swept = [n \in 0 .. Len(c.entry) |-> IF n = 0 THEN c ELSE IF n \in old THEN Evict(swept[n - 1], n) ELSE swept[n - 1]]
  BY <1>10, Zenon DEF swept
<1>12. \A n \in 0 .. L : swept[n] = IF n = 0 THEN c ELSE IF n \in old THEN Evict(swept[n - 1], n) ELSE swept[n - 1]
  BY <1>2, <1>11, Zenon
<1>13. IsSweep(swept, c, old, K, L)
  <2>1. swept[0] = c
    BY <1>12
  <2>2. ASSUME NEW id \in 1 .. L
        PROVE  swept[id] = IF id \in old THEN Evict(swept[id - 1], id) ELSE swept[id - 1]
    <3>1. id \in 0 .. L /\ id # 0
      OBVIOUS
    <3> QED BY <1>12, <3>1, Zenon
  <2>3. \A n \in 1 .. L : swept[n - 1] \in P => swept[n] \in P
    BY <1>3, <2>2, Zenon
  <2>4. \A n \in 0 .. L : swept[n] \in P
    BY <1>6, <2>1, <2>3, BoundedInduction, Zenon
  <2>5. swept \in [0 .. L -> P]
    BY <1>2, <1>11, <2>4
  <2> QED BY <2>1, <2>2, <2>5, Zenon DEF IsSweep, P
<1> QED BY <1>1, <1>2, <1>13, Zenon

LEMMA EvictIfNeededType ==
  ASSUME NEW K, Hashed(K), NEW L \in Nat, NEW c \in Caches(K, L), NEW clear
  PROVE  EvictIfNeeded(c, clear) \in Caches(K, L)
<1>1. CASE EvictIfNeeded(c, clear) = c
  BY <1>1
<1>2. ASSUME NEW old, NEW swept, IsSweep(swept, c, old, K, L), EvictIfNeeded(c, clear) = swept[L]
      PROVE  EvictIfNeeded(c, clear) \in Caches(K, L)
  <2>1. swept \in [0 .. L -> Caches(K, L)]
    BY <1>2, Zenon DEF IsSweep
  <2>2. L \in 0 .. L
    OBVIOUS
  <2> QED BY <1>2, <2>1, <2>2, Zenon
<1> QED BY <1>1, <1>2, SweepSteps, Zenon

(* The walk of cleanPollutions() with an explicit stack.                   *)
NextWalk(c, w) ==
    IF w.todo = <<>> THEN w
    ELSE [seen |-> <<Head(w.todo)>> \o w.seen, todo |-> Children(c, Head(w.todo)) \o Tail(w.todo)]

Walks(L) == [seen : Seq(1 .. L), todo : Seq(1 .. L)]

IsWalk(walk, c, id, L) ==
    /\ walk \in [Nat -> Walks(L)]
    /\ walk[0] = [seen |-> <<>>, todo |-> <<id>>]
    /\ \A n \in Nat : walk[n + 1] = NextWalk(c, walk[n])

LEMMA HeadTailType ==
  ASSUME NEW S, NEW s \in Seq(S), s # <<>>
  PROVE  Head(s) \in S /\ Head(s) = s[1] /\ Tail(s) \in Seq(S) /\ s = <<Head(s)>> \o Tail(s)
OBVIOUS

LEMMA NextWalkType ==
  ASSUME NEW K, NEW L \in Nat, NEW c \in Caches(K, L), NEW w \in Walks(L)
  PROVE  NextWalk(c, w) \in Walks(L)
<1>0. w.seen \in Seq(1 .. L) /\ w.todo \in Seq(1 .. L)
  BY DEF Walks
<1>1. CASE w.todo = <<>>
  BY <1>1 DEF NextWalk
<1>2. CASE w.todo # <<>>
  <2> DEFINE h == Head(w.todo)
             t == Tail(w.todo)
             k == Children(c, h)
  <2>1. h \in 1 .. L /\ t \in Seq(1 .. L)
    BY <1>0, <1>2, HeadTailType, Zenon
  <2> HIDE DEF h, t
  <2>2. k \in Seq(1 .. L)
    BY <2>1, ChildrenType
  <2> HIDE DEF k
  <2>3. <<h>> \o w.seen \in Seq(1 .. L) /\ k \o t \in Seq(1 .. L)
    BY <1>0, <2>1, <2>2
  <2>4. NextWalk(c, w) = [seen |-> <<h>> \o w.seen, todo |-> k \o t]
    BY <1>2 DEF NextWalk, h, t, k
  <2> QED BY <2>3, <2>4 DEF Walks
<1> QED BY <1>1, <1>2

LEMMA WalkSteps ==
  ASSUME NEW K, NEW L \in Nat, NEW c \in Caches(K, L), NEW id \in 1 .. L
  PROVE  \E walk : IsWalk(walk, c, id, L) /\ FreeOrder(c, id) = walk[L].seen
<1> DEFINE walk[n \in Nat] ==
            IF n = 0 THEN [seen |-> <<>>, todo |-> <<id>>]
            ELSE LET w == walk[n-1]
                 IN  IF w.todo = <<>> THEN w
                     ELSE [seen |-> <<Head(w.todo)>> \o w.seen,
                           todo |-> Children(c, Head(w.todo)) \o Tail(w.todo)]
           P == Walks(L)
           start == [seen |-> <<>>, todo |-> <<id>>]
           next == [w \in P |-> NextWalk(c, w)]
           up == [n \in Nat |-> next]
<1>1. FreeOrder(c, id) = walk[Len(c.entry)].seen /\ Len(c.entry) = L
  BY CacheIds, Zenon DEF FreeOrder
<1>2. start \in P
  <2>1. <<>> \in Seq(1 .. L) /\ <<id>> \in Seq(1 .. L)
    OBVIOUS
  <2> QED BY <2>1 DEF Walks
<1>3. \A w \in P : NextWalk(c, w) \in P
  BY NextWalkType
<1> HIDE DEF walk, P, start
<1>4. up \in [Nat -> [P -> P]] /\ \A n \in Nat, w \in P : up[n][w] = NextWalk(c, w)
  BY <1>3
<1> HIDE DEF up
<1>5. PICK f : IsRecursion(f, P, start, up)
  BY <1>2, <1>4, RecursionExists, Zenon
<1>6. f \in [Nat -> P] /\ \A n \in Nat : f[n] = IF n = 0 THEN start ELSE up[n][f[n - 1]]
  BY <1>5, Zenon DEF IsRecursion
<1>7. ASSUME NEW n \in Nat PROVE f[n] = IF n = 0 THEN start ELSE NextWalk(c, f[n - 1])
  <2>1. n # 0 => f[n - 1] \in P
    BY <1>6
  <2> QED BY <1>4, <1>6, <2>1, Zenon
<1>8. f = [n \in Nat |-> IF n = 0 THEN start ELSE NextWalk(c, f[n - 1])]
  BY <1>6, <1>7
<1>9. walk = [n \in Nat |-> IF n = 0 THEN start ELSE NextWalk(c, walk[n - 1])]
  BY <1>8, Zenon DEF walk, start, NextWalk
<1>10. \A n \in Nat : walk[n] = IF n = 0 THEN start ELSE NextWalk(c, walk[n - 1])
  BY <1>9, Zenon
<1>11. walk[0] = start
  BY <1>10
<1>12. ASSUME NEW n \in Nat PROVE walk[n + 1] = NextWalk(c, walk[n])
  <2>1. n + 1 \in Nat /\ n + 1 # 0 /\ (n + 1) - 1 = n
    OBVIOUS
  <2>2. walk[n + 1] = NextWalk(c, walk[(n + 1) - 1])
    BY <1>10, <2>1, Zenon
  <2> QED BY <2>1, <2>2
<1> DEFINE N == {n \in Nat : walk[n] \in P}
<1>13. N = Nat
  <2>1. N \in SUBSET Nat /\ 0 \in N
    BY <1>2, <1>11
  <2>2. \A n \in N : n + 1 \in N
    BY <1>3, <1>12
  <2> HIDE DEF N
  <2> QED BY <2>1, <2>2, NumberInduction
<1>14. walk \in [Nat -> P]
  BY <1>9, <1>13
<1>15. IsWalk(walk, c, id, L)
  BY <1>11, <1>12, <1>14, Zenon DEF IsWalk, P, start
<1> QED BY <1>1, <1>15, Zenon

LEMMA FreeOrderType ==
  ASSUME NEW K, NEW L \in Nat, NEW c \in Caches(K, L), NEW id \in 1 .. L
  PROVE  FreeOrder(c, id) \in Seq(1 .. L)
<1>1. PICK walk : IsWalk(walk, c, id, L) /\ FreeOrder(c, id) = walk[L].seen
  BY WalkSteps, Zenon
<1>2. walk[L] \in Walks(L)
  BY <1>1, Zenon DEF IsWalk
<1> QED BY <1>1, <1>2 DEF Walks

(* cleanPollutions(), one entry after the other.                           *)
IsFreeing(freed, c, order, K, L) ==
    /\ freed \in [0 .. Len(order) -> Caches(K, L)]
    /\ freed[0] = c
    /\ \A n \in 1 .. Len(order) : freed[n] = FreeEntry(RemoveFromTable(freed[n - 1], order[n]), order[n])

LEMMA FreeingSteps ==
  ASSUME NEW K, Hashed(K), NEW L \in Nat, NEW c \in Caches(K, L), NEW id \in 1 .. L
  PROVE  LET order == FreeOrder(c, id)
         IN  \E freed : IsFreeing(freed, c, order, K, L) /\ CleanPollutions(c, id) = freed[Len(order)]
<1> DEFINE order == FreeOrder(c, id)
           freed[n \in 0 .. Len(order)] ==
            IF n = 0 THEN c ELSE FreeEntry(RemoveFromTable(freed[n-1], order[n]), order[n])
           P == Caches(K, L)
           up == [n \in 1 .. Len(order) |-> [d \in P |-> FreeEntry(RemoveFromTable(d, order[n]), order[n])]]
<1>1. CleanPollutions(c, id) = freed[Len(order)]
  BY Zenon DEF CleanPollutions
<1>2. order \in Seq(1 .. L)
  BY FreeOrderType
<1> HIDE DEF order, freed
<1>3. Len(order) \in Nat /\ \A n \in 1 .. Len(order) : order[n] \in 1 .. L
  BY <1>2
<1>4. \A n \in 1 .. Len(order), d \in P : FreeEntry(RemoveFromTable(d, order[n]), order[n]) \in P
  BY <1>3, RemoveFromTableType, FreeEntryType
<1>5. c \in P
  OBVIOUS
<1> HIDE DEF P
<1>6. up \in [1 .. Len(order) -> [P -> P]]
      /\ \A n \in 1 .. Len(order), d \in P : up[n][d] = FreeEntry(RemoveFromTable(d, order[n]), order[n])
  BY <1>4
<1> HIDE DEF up
<1>7. PICK f : IsBoundedRecursion(f, Len(order), P, c, up)
  BY <1>3, <1>5, <1>6, BoundedRecursionExists, Zenon
<1>8. f \in [0 .. Len(order) -> P] /\ \A n \in 0 .. Len(order) : f[n] = IF n = 0 THEN c ELSE up[n][f[n - 1]]
  BY <1>7, Zenon DEF IsBoundedRecursion
<1>9. ASSUME NEW n \in 0 .. Len(order)
      PROVE  f[n] = IF n = 0 THEN c ELSE FreeEntry(RemoveFromTable(f[n - 1], order[n]), order[n])
  <2>1. CASE n = 0
    BY <1>8, <2>1
  <2>2. CASE n # 0
    <3>1. n \in 1 .. Len(order) /\ n - 1 \in 0 .. Len(order)
      BY <1>3, <2>2
    <3>2. f[n] = up[n][f[n - 1]] /\ f[n - 1] \in P
      BY <1>8, <2>2, <3>1
    <3> QED BY <1>6, <2>2, <3>1, <3>2, Zenon
  <2> QED BY <2>1, <2>2
<1>10. f = [n \in 0 .. Len(order) |-> IF n = 0 THEN c ELSE FreeEntry(RemoveFromTable(f[n - 1], order[n]), order[n])]
  BY <1>8, <1>9
<1>11. freed = [n \in 0 .. Len(order) |-> IF n = 0 THEN c ELSE FreeEntry(RemoveFromTable(freed[n - 1], order[n]), order[n])]
  BY <1>10, Zenon DEF freed
<1>12. \A n \in 0 .. Len(order) : freed[n] = IF n = 0 THEN c ELSE FreeEntry(RemoveFromTable(freed[n - 1], order[n]), order[n])
  BY <1>11, Zenon
<1>13. IsFreeing(freed, c, order, K, L)
  <2>1. freed[0] = c
    BY <1>3, <1>12
  <2>2. ASSUME NEW n \in 1 .. Len(order)
        PROVE  freed[n] = FreeEntry(RemoveFromTable(freed[n - 1], order[n]), order[n])
    <3>1. n \in 0 .. Len(order) /\ n # 0
      BY <1>3
    <3> QED BY <1>12, <3>1, Zenon
  <2>3. \A n \in 1 .. Len(order) : freed[n - 1] \in P => freed[n] \in P
    BY <1>4, <2>2, Zenon
  <2>4. \A n \in 0 .. Len(order) : freed[n] \in P
    BY <1>3, <1>5, <2>1, <2>3, BoundedInduction, Zenon
  <2>5. freed \in [0 .. Len(order) -> P]
    BY <1>11, <2>4
  <2> QED BY <2>1, <2>2, <2>5, Zenon DEF IsFreeing, P
<1> QED BY <1>1, <1>13, Zenon DEF order

LEMMA CleanPollutionsType ==
  ASSUME NEW K, Hashed(K), NEW L \in Nat, NEW c \in Caches(K, L), NEW id \in 1 .. L
  PROVE  CleanPollutions(c, id) \in Caches(K, L)
<1> DEFINE order == FreeOrder(c, id)
<1>1. PICK freed : IsFreeing(freed, c, order, K, L) /\ CleanPollutions(c, id) = freed[Len(order)]
  BY FreeingSteps, Zenon
<1>2. Len(order) \in 0 .. Len(order)
  BY FreeOrderType
<1>3. freed \in [0 .. Len(order) -> Caches(K, L)]
  BY <1>1, Zenon DEF IsFreeing
<1> QED BY <1>1, <1>2, <1>3, Zenon

(* cleanDescendants(): the children from the first to the last young one.  *)
Young(c, id, since) ==
    LET kids == Children(c, id)
        old == FirstOld(c, kids, since)
    IN  IF old = 0 THEN Len(kids) ELSE old - 1

SetFirst(c, id, p) == [c EXCEPT !.entry[id].first = p]

(* What is first in the list after that.                                   *)
FirstKept(c, id, n) ==
    LET kids == Children(c, id) IN IF n = Len(kids) THEN INVALID_ENTRY ELSE kids[n + 1]

IsCleaning(cleaned, c, id, n, K, L) ==
    /\ cleaned \in [0 .. n -> Caches(K, L)]
    /\ cleaned[0] = c
    /\ \A k \in 1 .. n : cleaned[k] = CleanPollutions(cleaned[k - 1], Children(c, id)[k])

LEMMA FirstOldIs ==
  ASSUME NEW c, NEW S, NEW kids \in Seq(S), NEW since
  PROVE  /\ FirstOld(c, kids, since) \in 0 .. Len(kids)
         /\ FirstOld(c, kids, since) = 0 => \A i \in 1 .. Len(kids) : ~ (c.entry[kids[i]].created < since)
         /\ FirstOld(c, kids, since) # 0 =>
              /\ c.entry[kids[FirstOld(c, kids, since)]].created < since
              /\ \A i \in 1 .. FirstOld(c, kids, since) - 1 : ~ (c.entry[kids[i]].created < since)
<1> DEFINE I == {i \in 1 .. Len(kids) : c.entry[kids[i]].created < since}
<1>1. FirstOld(c, kids, since) = FirstOf(I)
  BY Zenon DEF FirstOld, SelectInSeq, FirstOf
<1>2. Len(kids) \in Nat
  OBVIOUS
<1>3. I \in SUBSET (1 .. Len(kids))
  OBVIOUS
<1>4. \A i \in 1 .. Len(kids) : i \in I <=> c.entry[kids[i]].created < since
  OBVIOUS
<1> HIDE DEF I
<1>5. /\ FirstOf(I) \in 0 .. Len(kids)
      /\ FirstOf(I) = 0 <=> I = {}
      /\ I # {} => FirstOf(I) \in I
      /\ \A j \in I : FirstOf(I) <= j
  BY <1>2, <1>3, FirstOfIs, Zenon
<1> DEFINE o == FirstOf(I)
<1> HIDE DEF o
<1>6. ASSUME o # 0, NEW i \in 1 .. o - 1 PROVE i \in 1 .. Len(kids) /\ i \notin I
  BY <1>2, <1>5, <1>6 DEF o
<1>7. CASE o = 0
  BY <1>1, <1>4, <1>5, <1>7 DEF o
<1>8. CASE o # 0
  <2>1. o \in I /\ o \in 1 .. Len(kids) /\ FirstOld(c, kids, since) = o /\ o \in 0 .. Len(kids)
    BY <1>1, <1>2, <1>3, <1>5, <1>8 DEF o
  <2>2. c.entry[kids[o]].created < since /\ \A i \in 1 .. o - 1 : ~ (c.entry[kids[i]].created < since)
    BY <1>4, <1>6, <1>8, <2>1, Zenon
  <2> QED BY <1>8, <2>1, <2>2
<1> QED BY <1>7, <1>8

LEMMA CleaningSteps ==
  ASSUME NEW K, Hashed(K), NEW L \in Nat, NEW c \in Caches(K, L), NEW id \in 1 .. L, NEW since
  PROVE  LET kids == Children(c, id)
             n == Young(c, id, since)
         IN  /\ n \in 0 .. Len(kids)
             /\ \A k \in 1 .. n : ~ (c.entry[kids[k]].created < since)
             /\ n # Len(kids) => c.entry[kids[n + 1]].created < since
             /\ \E cleaned : /\ IsCleaning(cleaned, c, id, n, K, L)
                             /\ CleanDescendants(c, id, since) = SetFirst(cleaned[n], id, FirstKept(c, id, n))
<1> DEFINE kids == Children(c, id)
           old == FirstOld(c, kids, since)
           n == IF old = 0 THEN Len(kids) ELSE old - 1
           cleaned[k \in 0 .. n] == IF k = 0 THEN c ELSE CleanPollutions(cleaned[k-1], kids[k])
           P == Caches(K, L)
           up == [k \in 1 .. n |-> [d \in P |-> CleanPollutions(d, kids[k])]]
<1>1. CleanDescendants(c, id, since) =
        SetFirst(cleaned[n], id, IF old = 0 THEN INVALID_ENTRY ELSE kids[old])
  BY Zenon DEF CleanDescendants, SetFirst
<1>2. n = Young(c, id, since)
  BY Zenon DEF Young
<1>3. kids \in Seq(1 .. L)
  BY ChildrenType
<1> HIDE DEF cleaned, kids, old
<1>4. Len(kids) \in Nat /\ \A k \in 1 .. Len(kids) : kids[k] \in 1 .. L
  BY <1>3
<1>5. /\ old \in 0 .. Len(kids)
      /\ old = 0 => \A i \in 1 .. Len(kids) : ~ (c.entry[kids[i]].created < since)
      /\ old # 0 => c.entry[kids[old]].created < since /\ \A i \in 1 .. old - 1 : ~ (c.entry[kids[i]].created < since)
  BY <1>3, FirstOldIs, Zenon DEF old
<1>6. /\ n \in 0 .. Len(kids) /\ n \in Nat
      /\ \A k \in 1 .. n : ~ (c.entry[kids[k]].created < since)
      /\ n # Len(kids) => c.entry[kids[n + 1]].created < since
      /\ (IF old = 0 THEN INVALID_ENTRY ELSE kids[old]) = IF n = Len(kids) THEN INVALID_ENTRY ELSE kids[n + 1]
  <2>1. CASE old = 0
    BY <1>4, <1>5, <2>1
  <2>2. CASE old # 0
    <3>1. n = old - 1 /\ n + 1 = old /\ n \in 0 .. Len(kids) /\ n # Len(kids) /\ n \in Nat
      BY <1>4, <1>5, <2>2
    <3> HIDE DEF n
    <3>2. \A k \in 1 .. n : ~ (c.entry[kids[k]].created < since)
      BY <1>5, <2>2, <3>1
    <3> QED BY <1>5, <2>2, <3>1, <3>2
  <2> QED BY <2>1, <2>2
<1> HIDE DEF n
<1>7. \A k \in 1 .. n, d \in P : CleanPollutions(d, kids[k]) \in P
  <2>1. \A k \in 1 .. n : k \in 1 .. Len(kids)
    BY <1>4, <1>6
  <2> QED BY <1>4, <2>1, CleanPollutionsType
<1>8. c \in P
  OBVIOUS
<1> HIDE DEF P
<1>9. up \in [1 .. n -> [P -> P]] /\ \A k \in 1 .. n, d \in P : up[k][d] = CleanPollutions(d, kids[k])
  BY <1>7
<1> HIDE DEF up
<1>10. PICK f : IsBoundedRecursion(f, n, P, c, up)
  BY <1>6, <1>8, <1>9, BoundedRecursionExists, Zenon
<1>11. f \in [0 .. n -> P] /\ \A k \in 0 .. n : f[k] = IF k = 0 THEN c ELSE up[k][f[k - 1]]
  BY <1>10, Zenon DEF IsBoundedRecursion
<1>12. ASSUME NEW k \in 0 .. n PROVE f[k] = IF k = 0 THEN c ELSE CleanPollutions(f[k - 1], kids[k])
  <2>1. CASE k = 0
    BY <1>11, <2>1
  <2>2. CASE k # 0
    <3>1. k \in 1 .. n /\ k - 1 \in 0 .. n
      BY <1>6, <2>2
    <3>2. f[k] = up[k][f[k - 1]] /\ f[k - 1] \in P
      BY <1>11, <2>2, <3>1
    <3> QED BY <1>9, <2>2, <3>1, <3>2, Zenon
  <2> QED BY <2>1, <2>2
<1>13. f = [k \in 0 .. n |-> IF k = 0 THEN c ELSE CleanPollutions(f[k - 1], kids[k])]
  BY <1>11, <1>12
<1>14. cleaned = [k \in 0 .. n |-> IF k = 0 THEN c ELSE CleanPollutions(cleaned[k - 1], kids[k])]
  BY <1>13, Zenon DEF cleaned
<1>15. \A k \in 0 .. n : cleaned[k] = IF k = 0 THEN c ELSE CleanPollutions(cleaned[k - 1], kids[k])
  BY <1>14, Zenon
<1>16. IsCleaning(cleaned, c, id, n, K, L)
  <2>1. cleaned[0] = c
    BY <1>6, <1>15
  <2>2. ASSUME NEW k \in 1 .. n PROVE cleaned[k] = CleanPollutions(cleaned[k - 1], kids[k])
    <3>1. k \in 0 .. n /\ k # 0
      BY <1>6
    <3> QED BY <1>15, <3>1, Zenon
  <2>3. \A k \in 1 .. n : cleaned[k - 1] \in P => cleaned[k] \in P
    BY <1>7, <2>2, Zenon
  <2>4. \A k \in 0 .. n : cleaned[k] \in P
    BY <1>6, <1>8, <2>1, <2>3, BoundedInduction, Zenon
  <2>5. cleaned \in [0 .. n -> P]
    BY <1>14, <2>4
  <2> QED BY <2>1, <2>2, <2>5, Zenon DEF IsCleaning, P, kids
<1>17. CleanDescendants(c, id, since) = SetFirst(cleaned[n], id, FirstKept(c, id, n))
  BY <1>1, <1>6, Zenon DEF FirstKept, kids
<1> QED BY <1>2, <1>6, <1>16, <1>17, Zenon DEF kids

LEMMA FirstChanged ==
  ASSUME NEW K, NEW L \in Nat, NEW c \in Caches(K, L), NEW id \in 1 .. L, NEW p \in Pointers(L)
  PROVE  SetFirst(c, id, p) \in Caches(K, L)
BY ZenonT(60) DEF SetFirst, Caches, Entries

LEMMA CleanDescendantsType ==
  ASSUME NEW K, Hashed(K), NEW L \in Nat, NEW c \in Caches(K, L), NEW id \in 1 .. L, NEW since
  PROVE  CleanDescendants(c, id, since) \in Caches(K, L)
<1> DEFINE kids == Children(c, id)
           n == Young(c, id, since)
           p == FirstKept(c, id, n)
<1>1. n \in 0 .. Len(kids)
  BY CleaningSteps, Zenon
<1>2. PICK cleaned : /\ IsCleaning(cleaned, c, id, n, K, L)
                     /\ CleanDescendants(c, id, since) = SetFirst(cleaned[n], id, p)
  BY CleaningSteps, Zenon
<1>3. kids \in Seq(1 .. L)
  BY ChildrenType
<1> HIDE DEF kids, n
<1>4. p \in Pointers(L)
  <2>1. n # Len(kids) => n + 1 \in 1 .. Len(kids)
    BY <1>1, <1>3
  <2>2. p = IF n = Len(kids) THEN INVALID_ENTRY ELSE kids[n + 1]
    BY Zenon DEF FirstKept, kids
  <2> HIDE DEF p
  <2> QED BY <1>3, <2>1, <2>2 DEF Pointers
<1>5. n \in 0 .. n
  BY <1>1, <1>3
<1>6. cleaned \in [0 .. n -> Caches(K, L)]
  BY <1>2, Zenon DEF IsCleaning
<1>7. cleaned[n] \in Caches(K, L)
  BY <1>5, <1>6, Zenon
<1> HIDE DEF p
<1> QED BY <1>2, <1>4, <1>7, FirstChanged, Zenon

(***************************************************************************)
(* splitComponent().                                                       *)
(***************************************************************************)
Decisions == [base : Nat, top : Nat, split : Times, second : BOOLEAN, models : Counts \X Counts]

StatesWith(K, R, L) ==
    [cache : Caches(K, L), comps : Seq([id : 1 .. L, comp : R]), dead : BOOLEAN, polls : Int,
     decision : Decisions]
States(K, R, parent) == UNION {StatesWith(K, R, L) : L \in {l \in Nat : parent \in 1 .. l}}

(* Explore() with the entry that the new ones go below.                    *)
Entered(s, comp, parent) ==
    AddDescendant(NewEntry(s.cache, comp, s.polls), parent, AllocId(s.cache))

ExploreBelow(parent, s, comp) ==
    LET id == Find(s.cache, comp)
    IN  IF s.dead THEN s
        ELSE IF id = INVALID_ENTRY
        THEN [s EXCEPT !.cache = Entered(s, comp, parent),
                       !.comps = Append(@, [id |-> AllocId(s.cache), comp |-> comp]),
                       !.polls = PollsLeft(s.cache, s.polls)]
        ELSE IF s.cache.entry[id].zero
        THEN [s EXCEPT !.cache = Lookup(@, comp), !.dead = TRUE]
        ELSE [s EXCEPT !.cache = Lookup(@, comp), !.decision = IncreaseModels(@, "some")]

LEMMA ExploreIs ==
  ASSUME NEW s, NEW comp
  PROVE  Explore(s, comp) = ExploreBelow(Last(comps).id, s, comp)
BY Zenon DEF Explore, ExploreBelow, Entered

LEMMA IncreaseType ==
  ASSUME NEW d \in Decisions, NEW val \in {"zero", "some"}
  PROVE  IncreaseModels(d, val) \in Decisions
<1>1. \A m \in Counts : Increase(m, val) \in Counts
  BY DEF Increase, Counts
<1>2. Branch(d) \in {1, 2}
  BY DEF Branch
<1>3. [d.models EXCEPT ![Branch(d)] = Increase(d.models[Branch(d)], val)] \in Counts \X Counts
  BY <1>1, <1>2 DEF Decisions
<1>4. IncreaseModels(d, val) = [d EXCEPT !.models = [d.models EXCEPT ![Branch(d)] = Increase(d.models[Branch(d)], val)]]
  BY DEF IncreaseModels, Decisions
<1> HIDE DEF Increase, Branch
<1> QED BY <1>3, <1>4 DEF Decisions

LEMMA PollsType ==
  ASSUME NEW K, NEW L \in Nat, NEW c \in Caches(K, L), Hashed(K), NEW clear \in Int
  PROVE  PollsLeft(c, clear) \in Int
<1>1. PollEvery \in Nat \ {0}
  BY BoundsAssumption
<1>2. Len(AllocEntry(c).entry) \in Nat
  <2>1. Grown(c, L) \in Nat /\ AllocEntry(c) \in Caches(K, Grown(c, L))
    BY AllocType
  <2> QED BY <2>1, CacheIds
<1>3. SweepEnd(AllocEntry(c), clear) \in Int
  <2>1. (clear + 1) * PollEvery \in Int
    BY <1>1
  <2> QED BY <1>2, <2>1 DEF SweepEnd
<1> DEFINE e == SweepEnd(AllocEntry(c), clear)
<1>4. e \div PollEvery \in Int
  BY <1>1, <1>3
<1>5. clear - e \div PollEvery \in Int
  BY <1>4
<1> QED BY <1>5, Zenon DEF PollsLeft

LEMMA EnteredType ==
  ASSUME NEW K, Hashed(K), NEW L \in Nat, NEW c \in Caches(K, L), NEW comp \in K, NEW clear, NEW parent \in 1 .. L
  PROVE  LET M == Grown(c, L)
         IN  /\ M \in Nat /\ L <= M /\ parent \in 1 .. M /\ AllocId(c) \in 1 .. M
             /\ AddDescendant(NewEntry(c, comp, clear), parent, AllocId(c)) \in Caches(K, M)
<1> DEFINE M == Grown(c, L)
<1>1. M \in Nat /\ L <= M /\ AllocId(c) \in 1 .. M
  BY AllocType
<1>2. Created(c, comp) \in Caches(K, M)
  BY CreatedType
<1> HIDE DEF M
<1>3. NewEntry(c, comp, clear) \in Caches(K, M)
  BY <1>1, <1>2, NewEntryIs, EvictIfNeededType
<1>4. parent \in 1 .. M
  BY <1>1
<1>5. AddDescendant(NewEntry(c, comp, clear), parent, AllocId(c)) \in Caches(K, M)
  BY <1>1, <1>3, <1>4, AddDescendantType
<1> QED BY <1>1, <1>4, <1>5 DEF M

LEMMA ExploreType ==
  ASSUME NEW K, Hashed(K), NEW R \in SUBSET K, NEW parent, NEW s \in States(K, R, parent), NEW comp \in R
  PROVE  ExploreBelow(parent, s, comp) \in States(K, R, parent)
<1>1. PICK L \in Nat : parent \in 1 .. L /\ s \in StatesWith(K, R, L)
  BY DEF States
<1>2. /\ s.cache \in Caches(K, L) /\ s.comps \in Seq([id : 1 .. L, comp : R]) /\ s.dead \in BOOLEAN
      /\ s.polls \in Int /\ s.decision \in Decisions /\ comp \in K
  BY <1>1 DEF StatesWith
<1> DEFINE id == Find(s.cache, comp)
           new == AllocId(s.cache)
           x == [id |-> new, comp |-> comp]
           look == Lookup(s.cache, comp)
           enter == Entered(s, comp, parent)
           M == Grown(s.cache, L)
           left == PollsLeft(s.cache, s.polls)
           more == IncreaseModels(s.decision, "some")
           longer == Append(s.comps, x)
<1>3. look \in Caches(K, L)
  BY <1>2, LookupType
<1>4. /\ M \in Nat /\ L <= M /\ parent \in 1 .. M /\ new \in 1 .. M /\ enter \in Caches(K, M)
  BY <1>1, <1>2, EnteredType DEF Entered
<1>5. left \in Int
  BY <1>2, PollsType
<1>6. more \in Decisions
  BY <1>2, IncreaseType
<1>7. longer \in Seq([id : 1 .. M, comp : R])
  <2> DEFINE S == [id : 1 .. M, comp : R]
  <2>1. x \in S
    BY <1>4
  <2>2. s.comps \in Seq(S)
    <3>1. [id : 1 .. L, comp : R] \subseteq S
      BY <1>4
    <3> DEFINE O == [id : 1 .. L, comp : R]
    <3>2. s.comps \in Seq(O) /\ O \subseteq S
      BY <1>2, <3>1
    <3> HIDE DEF O, S
    <3> QED BY <3>2, SeqMonotonic
  <2> HIDE DEF S, x
  <2>3. Append(s.comps, x) \in Seq(S)
    BY ONLY <2>1, <2>2, AppendIs
  <2> QED BY <2>3 DEF longer, S
<1>8. \A l \in Nat : parent \in 1 .. l => StatesWith(K, R, l) \subseteq States(K, R, parent)
  BY DEF States
<1> HIDE DEF id, x, look, enter, M, left, more, longer, new
<1>9. ExploreBelow(parent, s, comp) =
        IF s.dead THEN s
        ELSE IF id = INVALID_ENTRY THEN [s EXCEPT !.cache = enter, !.comps = longer, !.polls = left]
        ELSE IF s.cache.entry[id].zero THEN [s EXCEPT !.cache = look, !.dead = TRUE]
        ELSE [s EXCEPT !.cache = look, !.decision = more]
  BY DEF ExploreBelow, id, x, look, enter, left, more, longer, new
<1>10. [s EXCEPT !.cache = enter, !.comps = longer, !.polls = left] \in StatesWith(K, R, M)
  BY <1>1, <1>4, <1>5, <1>7 DEF StatesWith
<1>11. [s EXCEPT !.cache = look, !.dead = TRUE] \in StatesWith(K, R, L)
  BY <1>1, <1>3 DEF StatesWith
<1>12. [s EXCEPT !.cache = look, !.decision = more] \in StatesWith(K, R, L)
  BY <1>1, <1>3, <1>6 DEF StatesWith
<1> QED BY <1>1, <1>4, <1>8, <1>9, <1>10, <1>11, <1>12, Zenon

(* The loop of splitComponent(), one component after the other.            *)
Begun(free, polls) ==
    LET top == [TopDecision EXCEPT !.split = IF @ = NoSplit THEN cache.clock ELSE @]
    IN  [cache |-> cache, comps |-> comps, dead |-> FALSE, polls |-> polls,
         decision |-> IF free = "none" THEN top ELSE IncreaseModels(top, free)]

IsSplit(upTo, begun, found, parent, K, R) ==
    /\ upTo \in [0 .. Len(found) -> States(K, R, parent)]
    /\ upTo[0] = begun
    /\ \A n \in 1 .. Len(found) : upTo[n] = ExploreBelow(parent, upTo[n - 1], found[n])

SetDecision(s, d) == [s EXCEPT !.decision = d]

LEMMA SplitSteps ==
  ASSUME NEW K, Hashed(K), NEW R \in SUBSET K, NEW found \in Seq(R), NEW free, NEW polls,
         Begun(free, polls) \in States(K, R, Last(comps).id)
  PROVE  \E upTo : /\ IsSplit(upTo, Begun(free, polls), found, Last(comps).id, K, R)
                   /\ SplitComponent(found, free, polls) =
                        SetDecision(upTo[Len(found)], SplitResult(upTo[Len(found)]))
<1> DEFINE begun == Begun(free, polls)
           parent == Last(comps).id
           upTo[n \in 0 .. Len(found)] == IF n = 0 THEN begun ELSE Explore(upTo[n-1], found[n])
           P == States(K, R, parent)
           up == [n \in 1 .. Len(found) |-> [s \in P |-> ExploreBelow(parent, s, found[n])]]
<1>1. SplitComponent(found, free, polls) =
        SetDecision(upTo[Len(found)], SplitResult(upTo[Len(found)]))
  BY Zenon DEF SplitComponent, Begun, SetDecision
<1>2. \A s, comp : Explore(s, comp) = ExploreBelow(parent, s, comp)
  BY ExploreIs
<1>3. begun \in P
  OBVIOUS
<1> HIDE DEF upTo, begun, parent
<1>4. Len(found) \in Nat /\ \A n \in 1 .. Len(found) : found[n] \in R
  OBVIOUS
<1>5. \A n \in 1 .. Len(found), s \in P : ExploreBelow(parent, s, found[n]) \in P
  BY <1>4, ExploreType, Zenon
<1> HIDE DEF P
<1>6. up \in [1 .. Len(found) -> [P -> P]]
      /\ \A n \in 1 .. Len(found), s \in P : up[n][s] = ExploreBelow(parent, s, found[n])
  BY <1>5
<1> HIDE DEF up
<1>7. PICK f : IsBoundedRecursion(f, Len(found), P, begun, up)
  BY <1>3, <1>4, <1>6, BoundedRecursionExists, Zenon
<1>8. f \in [0 .. Len(found) -> P] /\ \A n \in 0 .. Len(found) : f[n] = IF n = 0 THEN begun ELSE up[n][f[n - 1]]
  BY <1>7, Zenon DEF IsBoundedRecursion
<1>9. ASSUME NEW n \in 0 .. Len(found)
      PROVE  f[n] = IF n = 0 THEN begun ELSE Explore(f[n - 1], found[n])
  <2>1. CASE n = 0
    BY <1>8, <2>1
  <2>2. CASE n # 0
    <3>1. n \in 1 .. Len(found) /\ n - 1 \in 0 .. Len(found)
      BY <1>4, <2>2
    <3>2. f[n] = up[n][f[n - 1]] /\ f[n - 1] \in P
      BY <1>8, <2>2, <3>1
    <3> QED BY <1>2, <1>6, <2>2, <3>1, <3>2, Zenon
  <2> QED BY <2>1, <2>2
<1>10. f = [n \in 0 .. Len(found) |-> IF n = 0 THEN begun ELSE Explore(f[n - 1], found[n])]
  BY <1>8, <1>9
<1>11. upTo = [n \in 0 .. Len(found) |-> IF n = 0 THEN begun ELSE Explore(upTo[n - 1], found[n])]
  BY <1>10, Zenon DEF upTo
<1>12. \A n \in 0 .. Len(found) : upTo[n] = IF n = 0 THEN begun ELSE Explore(upTo[n - 1], found[n])
  BY <1>11, Zenon
<1>13. IsSplit(upTo, begun, found, parent, K, R)
  <2>1. upTo[0] = begun
    BY <1>4, <1>12
  <2>2. ASSUME NEW n \in 1 .. Len(found)
        PROVE  upTo[n] = ExploreBelow(parent, upTo[n - 1], found[n])
    <3>1. n \in 0 .. Len(found) /\ n # 0
      BY <1>4
    <3> QED BY <1>2, <1>12, <3>1, Zenon
  <2>3. \A n \in 1 .. Len(found) : upTo[n - 1] \in P => upTo[n] \in P
    BY <1>5, <2>2, Zenon
  <2>4. \A n \in 0 .. Len(found) : upTo[n] \in P
    BY <1>3, <1>4, <2>1, <2>3, BoundedInduction, Zenon
  <2>5. upTo \in [0 .. Len(found) -> P]
    BY <1>11, <2>4
  <2> QED BY <2>1, <2>2, <2>5, Zenon DEF IsSplit, P
<1> QED BY <1>1, <1>13, Zenon DEF begun, parent

(* What the loop leaves of the stack and the decision it started from:     *)
(* they have grown by components that were found, in their order.          *)
Precedes(a, b) == Min(a.vars) < Min(b.vars)

Grew(s, b, found, n) ==
    /\ Len(b.comps) <= Len(s.comps)
    /\ \A i \in 1 .. Len(b.comps) : s.comps[i] = b.comps[i]
    /\ \A i \in Len(b.comps) + 1 .. Len(s.comps) : \E m \in 1 .. n : s.comps[i].comp = found[m]
    /\ \A i, j \in Len(b.comps) + 1 .. Len(s.comps) :
         i < j => Precedes(s.comps[i].comp, s.comps[j].comp)
    /\ s.decision.base = b.decision.base
    /\ s.decision.split = b.decision.split
    /\ s.decision.second = b.decision.second

LEMMA IncreaseKeeps ==
  ASSUME NEW d \in Decisions, NEW val
  PROVE  /\ IncreaseModels(d, val).base = d.base /\ IncreaseModels(d, val).top = d.top
         /\ IncreaseModels(d, val).split = d.split /\ IncreaseModels(d, val).second = d.second
BY DEF IncreaseModels, Decisions

LEMMA GrewStep ==
  ASSUME NEW K, NEW R, NEW parent, NEW s \in States(K, R, parent), NEW b, Len(b.comps) \in Nat,
         NEW found, NEW n \in Nat, n # 0,
         \A m \in 1 .. n - 1 : Precedes(found[m], found[n]),
         Grew(s, b, found, n - 1)
  PROVE  Grew(ExploreBelow(parent, s, found[n]), b, found, n)
<1> DEFINE B == Len(b.comps)
           N == Len(s.comps)
           t == ExploreBelow(parent, s, found[n])
<1>1. PICK L \in Nat : s \in StatesWith(K, R, L)
  BY DEF States
<1>2. s.comps \in Seq([id : 1 .. L, comp : R]) /\ s.decision \in Decisions
  BY <1>1 DEF StatesWith
<1>3. N \in Nat
  BY <1>2
<1>4. \/ t.comps = s.comps /\ (t.decision = s.decision \/ t.decision = IncreaseModels(s.decision, "some"))
      \/ t.decision = s.decision /\ \E x : x.comp = found[n] /\ t.comps = Append(s.comps, x)
  <2> DEFINE x == [id |-> AllocId(s.cache), comp |-> found[n]]
  <2>1. x.comp = found[n]
    OBVIOUS
  <2> HIDE DEF x
  <2>2. \/ t = s
        \/ t = [s EXCEPT !.cache = Lookup(@, found[n]), !.decision = IncreaseModels(@, "some")]
        \/ t = [s EXCEPT !.cache = Lookup(@, found[n]), !.dead = TRUE]
        \/ t = [s EXCEPT !.cache = Entered(s, found[n], parent), !.comps = Append(@, x),
                         !.polls = PollsLeft(s.cache, s.polls)]
    BY DEF ExploreBelow, x
  <2> HIDE DEF t
  <2> QED BY <1>1, <2>1, <2>2 DEF StatesWith
<1>5. /\ B <= N /\ B \in Nat
      /\ \A i \in 1 .. B : s.comps[i] = b.comps[i]
      /\ \A i \in B + 1 .. N : \E m \in 1 .. n - 1 : s.comps[i].comp = found[m]
      /\ \A i, j \in B + 1 .. N : i < j => Precedes(s.comps[i].comp, s.comps[j].comp)
      /\ s.decision.base = b.decision.base /\ s.decision.split = b.decision.split
      /\ s.decision.second = b.decision.second
  BY Zenon DEF Grew
<1>6. t.decision.base = b.decision.base /\ t.decision.split = b.decision.split
      /\ t.decision.second = b.decision.second
  BY <1>2, <1>4, <1>5, IncreaseKeeps
<1> HIDE DEF t, N, B
<1>7. \A m \in 1 .. n - 1 : m \in 1 .. n
  OBVIOUS
<1>8. CASE t.comps = s.comps
  <2>1. Len(t.comps) = N
    BY <1>8 DEF N
  <2>2. Grew(t, b, found, n)
    BY <1>5, <1>6, <1>7, <1>8, <2>1, Zenon DEF Grew, B
  <2> QED BY <2>2 DEF t
<1>9. CASE \E x : x.comp = found[n] /\ t.comps = Append(s.comps, x)
  <2>1. PICK x : x.comp = found[n] /\ t.comps = Append(s.comps, x)
    BY <1>9
  <2>2. Len(t.comps) = N + 1 /\ t.comps[N + 1] = x /\ \A i \in 1 .. N : t.comps[i] = s.comps[i]
    <3> DEFINE S == [id : 1 .. L, comp : R] \cup {x}
    <3>1. s.comps \in Seq(S) /\ x \in S
      <4> DEFINE O == [id : 1 .. L, comp : R]
      <4>1. s.comps \in Seq(O) /\ O \subseteq S
        BY <1>2
      <4> HIDE DEF O
      <4>2. s.comps \in Seq(S)
        <5> HIDE DEF S
        <5> QED BY <4>1, SeqMonotonic
      <4> QED BY <4>2
    <3> HIDE DEF S
    <3>2. /\ Len(Append(s.comps, x)) = Len(s.comps) + 1
          /\ Append(s.comps, x)[Len(s.comps) + 1] = x
          /\ \A i \in 1 .. Len(s.comps) : Append(s.comps, x)[i] = s.comps[i]
      BY ONLY <3>1, AppendIs
    <3> QED BY <2>1, <3>2, Zenon DEF N
  <2>3. \A i \in B + 1 .. N + 1 : i \in B + 1 .. N \/ i = N + 1
    BY <1>3, <1>5 DEF N
  <2>3a. \A i \in B + 1 .. N : i \in 1 .. N
    BY <1>3, <1>5 DEF N
  <2>4. \A i \in B + 1 .. N + 1 : \E m \in 1 .. n : t.comps[i].comp = found[m]
    <3>1. n \in 1 .. n
      OBVIOUS
    <3> QED BY <1>5, <1>7, <2>1, <2>2, <2>3, <2>3a, <3>1, Zenon
  <2>5. ASSUME NEW i \in B + 1 .. N + 1, NEW j \in B + 1 .. N + 1, i < j
        PROVE  Precedes(t.comps[i].comp, t.comps[j].comp)
    <3>1. i \in B + 1 .. N
      BY <1>3, <1>5, <2>5 DEF N
    <3>2. CASE j \in B + 1 .. N
      BY <1>5, <2>2, <2>3a, <2>5, <3>1, <3>2
    <3>3. CASE j = N + 1
      <4>1. PICK m \in 1 .. n - 1 : s.comps[i].comp = found[m]
        BY <1>5, <3>1
      <4>2. Precedes(found[m], found[n])
        OBVIOUS
      <4> QED BY <2>1, <2>2, <2>3a, <3>1, <3>3, <4>1, <4>2, Zenon
    <3> QED BY <2>3, <3>2, <3>3
  <2>6. B <= N + 1 /\ \A i \in 1 .. B : t.comps[i] = b.comps[i]
    <3>1. \A i \in 1 .. B : i \in 1 .. N
      BY <1>3, <1>5 DEF N
    <3> QED BY <1>3, <1>5, <2>2, <3>1 DEF N
  <2>7. Grew(t, b, found, n)
    BY <1>6, <2>2, <2>4, <2>5, <2>6, Zenon DEF Grew, B
  <2> QED BY <2>7 DEF t
<1> QED BY <1>4, <1>8, <1>9, Zenon

(***************************************************************************)
(* Pieces of lists.                                                        *)
(***************************************************************************)
LEMMA ConcatIs ==
  ASSUME NEW S, NEW s \in Seq(S), NEW t \in Seq(S)
  PROVE  /\ s \o t \in Seq(S) /\ Len(s \o t) = Len(s) + Len(t)
         /\ \A i \in 1 .. Len(s) : (s \o t)[i] = s[i]
         /\ \A i \in 1 .. Len(t) : (s \o t)[Len(s) + i] = t[i]
         /\ ToSet(s \o t) = ToSet(s) \cup ToSet(t)
<1>1. /\ s \o t \in Seq(S) /\ Len(s \o t) = Len(s) + Len(t) /\ Len(s) \in Nat /\ Len(t) \in Nat
      /\ DOMAIN s = 1 .. Len(s) /\ DOMAIN t = 1 .. Len(t)
  OBVIOUS
<1>2. \A i \in 1 .. Len(s) : (s \o t)[i] = s[i]
  OBVIOUS
<1>3. ASSUME NEW i \in 1 .. Len(t) PROVE (s \o t)[Len(s) + i] = t[i]
  <2>1. Len(s) + i \in 1 .. Len(s) + Len(t) /\ Len(s) + i > Len(s) /\ Len(s) + i - Len(s) = i
    BY <1>1
  <2> QED BY <2>1
<1> DEFINE u == s \o t
           m == Len(s)
           n == Len(t)
<1>4. DOMAIN u = 1 .. m + n
  BY <1>1
<1>5. \A i \in 1 .. m : u[i] = s[i]
  BY <1>2
<1>6. \A i \in 1 .. n : u[m + i] = t[i]
  BY <1>3
<1> HIDE DEF u, m, n
<1>7. m \in Nat /\ n \in Nat /\ DOMAIN s = 1 .. m /\ DOMAIN t = 1 .. n
  BY <1>1 DEF m, n
<1>8. \A j \in 1 .. m + n : j \in 1 .. m \/ (j - m \in 1 .. n /\ m + (j - m) = j)
  BY <1>7
<1>9. \A j \in 1 .. m + n : u[j] \in ToSet(s) \cup ToSet(t)
  BY <1>5, <1>6, <1>7, <1>8 DEF ToSet
<1>10. (\A i \in 1 .. m : i \in 1 .. m + n) /\ (\A i \in 1 .. n : m + i \in 1 .. m + n)
  BY <1>7
<1>11. \A j \in 1 .. m : s[j] \in ToSet(u)
  BY <1>4, <1>5, <1>10 DEF ToSet
<1>12. \A j \in 1 .. n : t[j] \in ToSet(u)
  BY <1>4, <1>6, <1>10 DEF ToSet
<1>13. ToSet(u) = ToSet(s) \cup ToSet(t)
  <2>1. ToSet(u) = {u[j] : j \in 1 .. m + n} /\ ToSet(s) = {s[j] : j \in 1 .. m} /\ ToSet(t) = {t[j] : j \in 1 .. n}
    BY <1>4, <1>7 DEF ToSet
  <2> QED BY <1>9, <1>11, <1>12, <2>1
<1> QED BY <1>1, <1>2, <1>3, <1>13 DEF u

LEMMA ConcatSet ==
  ASSUME NEW S, NEW s \in Seq(S), NEW t \in Seq(S)
  PROVE  s \o t \in Seq(S) /\ ToSet(s \o t) = ToSet(s) \cup ToSet(t)
BY ONLY ConcatIs

(* The concatenation u of s and t, which have m and n elements.            *)
Joins(S, u, s, t, m, n) ==
    /\ u \in Seq(S) /\ Len(u) = m + n
    /\ \A i \in 1 .. m : u[i] = s[i]
    /\ \A i \in 1 .. n : u[m + i] = t[i]

LEMMA ConcatJoins ==
  ASSUME NEW S, NEW s \in Seq(S), NEW t \in Seq(S), NEW m, NEW n, m = Len(s), n = Len(t)
  PROVE  Joins(S, s \o t, s, t, m, n)
<1>1. Joins(S, s \o t, s, t, Len(s), Len(t))
  BY ConcatIs DEF Joins
<1> QED BY <1>1, Zenon

(* What a place of a concatenation is.                                     *)
LEMMA ConcatPlace ==
  ASSUME NEW S, NEW s \in Seq(S), NEW t \in Seq(S), NEW j \in 1 .. Len(s \o t)
  PROVE  \/ j \in 1 .. Len(s) /\ (s \o t)[j] = s[j]
         \/ \E i \in 1 .. Len(t) : j = Len(s) + i /\ (s \o t)[j] = t[i]
<1>1. /\ Len(s \o t) = Len(s) + Len(t) /\ Len(s) \in Nat /\ Len(t) \in Nat
      /\ \A i \in 1 .. Len(s) : (s \o t)[i] = s[i]
      /\ \A i \in 1 .. Len(t) : (s \o t)[Len(s) + i] = t[i]
  BY ConcatIs
<1>2. j \in 1 .. Len(s) \/ (j - Len(s) \in 1 .. Len(t) /\ j = Len(s) + (j - Len(s)))
  BY <1>1
<1> QED BY <1>1, <1>2

(* A sequence is what comes before a place, what is there, and what comes  *)
(* behind.                                                                 *)
LEMMA Parted ==
  ASSUME NEW S, NEW s \in Seq(S), NEW i \in 1 .. Len(s)
  PROVE  \E a, b \in Seq(S) : /\ s = a \o (<<s[i]>> \o b) /\ Len(a) = i - 1
                              /\ a # <<>> => a[Len(a)] = s[i - 1]
<1> DEFINE a == SubSeq(s, 1, i - 1)
           b == SubSeq(s, i + 1, Len(s))
<1>1. a \in Seq(S) /\ b \in Seq(S) /\ <<s[i]>> \in Seq(S)
  OBVIOUS
<1>2. Len(a) = i - 1 /\ Len(b) = Len(s) - i
  OBVIOUS
<1>3. (\A j \in 1 .. i - 1 : a[j] = s[j]) /\ (\A j \in 1 .. Len(s) - i : b[j] = s[i + j])
  OBVIOUS
<1>4. a # <<>> => a[Len(a)] = s[i - 1]
  BY <1>2
<1> HIDE DEF a, b
<1> DEFINE x == <<s[i]>>
           u == x \o b
           v == a \o u
<1>5. x \in Seq(S) /\ Len(x) = 1 /\ x[1] = s[i]
  OBVIOUS
<1> HIDE DEF x
<1>12. Joins(S, u, x, b, 1, Len(s) - i)
  <2>1. 1 = Len(x) /\ Len(s) - i = Len(b)
    BY <1>2, <1>5
  <2> QED BY <1>1, <1>5, <2>1, ConcatJoins, Zenon
<1>6. /\ u \in Seq(S) /\ Len(u) = 1 + (Len(s) - i) /\ \A j \in 1 .. 1 : u[j] = x[j]
      /\ \A j \in 1 .. Len(s) - i : u[1 + j] = b[j]
  BY <1>12 DEF Joins
<1> HIDE DEF u
<1>13. Joins(S, v, a, u, i - 1, Len(u))
  BY <1>1, <1>2, <1>6, ConcatJoins, Zenon
<1>7. /\ v \in Seq(S) /\ Len(v) = (i - 1) + Len(u)
      /\ \A j \in 1 .. i - 1 : v[j] = a[j]
      /\ \A j \in 1 .. Len(u) : v[(i - 1) + j] = u[j]
  BY <1>13 DEF Joins
<1> HIDE DEF v
<1>8. Len(s) \in Nat /\ i \in 1 .. Len(s)
  OBVIOUS
<1>9. Len(v) = Len(s)
  BY <1>6, <1>7, <1>8
<1>10. ASSUME NEW j \in 1 .. Len(s) PROVE v[j] = s[j]
  <2>1. CASE j < i
    <3>1. j \in 1 .. i - 1
      BY <1>8, <2>1
    <3> QED BY <1>3, <1>7, <3>1
  <2>2. CASE j = i
    <3>1. 1 \in 1 .. Len(u) /\ (i - 1) + 1 = i /\ 1 \in 1 .. 1
      BY <1>6, <1>8
    <3> QED BY <1>5, <1>6, <1>7, <2>2, <3>1
  <2>3. CASE j > i
    <3>1. j - i \in 1 .. Len(s) - i /\ 1 + (j - i) \in 1 .. Len(u) /\ (i - 1) + (1 + (j - i)) = j /\ i + (j - i) = j
      BY <1>6, <1>8, <2>3
    <3> QED BY <1>3, <1>6, <1>7, <3>1, ZenonT(60)
  <2> QED BY <1>8, <2>1, <2>2, <2>3
<1>11. s = v
  BY <1>7, <1>9, <1>10, SeqEqual
<1> QED BY <1>1, <1>2, <1>4, <1>11 DEF v, u, x

(* Lists without repetitions are in pieces that share nothing.             *)
LEMMA ConcatInjective ==
  ASSUME NEW S, NEW s \in Seq(S), NEW t \in Seq(S)
  PROVE  IsInjective(s \o t) <=> IsInjective(s) /\ IsInjective(t) /\ ToSet(s) \cap ToSet(t) = {}
<1> DEFINE u == s \o t
           m == Len(s)
           n == Len(t)
<1>1. /\ m \in Nat /\ n \in Nat /\ DOMAIN s = 1 .. m /\ DOMAIN t = 1 .. n /\ DOMAIN u = 1 .. m + n
      /\ \A i \in 1 .. m : u[i] = s[i]
      /\ \A i \in 1 .. n : u[m + i] = t[i]
  BY ConcatIs
<1> HIDE DEF u, m, n
<1>2. \A i \in 1 .. m : i \in 1 .. m + n
  BY <1>1
<1>3. \A i \in 1 .. n : m + i \in 1 .. m + n
  BY <1>1
<1>4. ASSUME IsInjective(u)
      PROVE  IsInjective(s) /\ IsInjective(t) /\ ToSet(s) \cap ToSet(t) = {}
  <2>1. IsInjective(s)
    BY <1>1, <1>2, <1>4 DEF IsInjective
  <2>2. IsInjective(t)
    <3>1. ASSUME NEW i \in 1 .. n, NEW j \in 1 .. n, t[i] = t[j] PROVE i = j
      <4>1. m + i = m + j
        BY <1>1, <1>3, <1>4, <3>1 DEF IsInjective
      <4> QED BY <1>1, <4>1
    <3> QED BY <1>1, <3>1 DEF IsInjective
  <2>3. ASSUME NEW i \in 1 .. m, NEW j \in 1 .. n, s[i] = t[j] PROVE FALSE
    <3>1. i = m + j
      BY <1>1, <1>2, <1>3, <1>4, <2>3 DEF IsInjective
    <3> QED BY <1>1, <3>1
  <2> QED BY <1>1, <2>1, <2>2, <2>3 DEF ToSet
<1>5. ASSUME IsInjective(s), IsInjective(t), ToSet(s) \cap ToSet(t) = {}
      PROVE  IsInjective(u)
  <2>1. \A i \in 1 .. m, j \in 1 .. n : s[i] # t[j]
    BY <1>1, <1>5 DEF ToSet
  <2>2. ASSUME NEW i \in 1 .. m + n, NEW j \in 1 .. m + n, u[i] = u[j] PROVE i = j
    <3>1. i \in 1 .. m \/ (i - m \in 1 .. n /\ m + (i - m) = i)
      BY <1>1
    <3>2. j \in 1 .. m \/ (j - m \in 1 .. n /\ m + (j - m) = j)
      BY <1>1
    <3>3. CASE i \in 1 .. m /\ j \in 1 .. m
      BY <1>1, <1>5, <2>2, <3>3 DEF IsInjective
    <3>4. CASE i \in 1 .. m /\ j \notin 1 .. m
      BY <1>1, <2>1, <2>2, <3>2, <3>4, SMTT(30)
    <3>5. CASE i \notin 1 .. m /\ j \in 1 .. m
      BY <1>1, <2>1, <2>2, <3>1, <3>5
    <3>6. CASE i \notin 1 .. m /\ j \notin 1 .. m
      <4>1. t[i - m] = t[j - m]
        BY <1>1, <2>2, <3>1, <3>2, <3>6
      <4>2. i - m = j - m
        BY <1>1, <1>5, <3>1, <3>2, <3>6, <4>1 DEF IsInjective
      <4> QED BY <1>1, <4>2
    <3> QED BY <3>3, <3>4, <3>5, <3>6
  <2> QED BY <1>1, <2>2 DEF IsInjective
<1> QED BY <1>4, <1>5 DEF u

LEMMA ConsIs ==
  ASSUME NEW S, NEW s \in Seq(S), NEW h \in S
  PROVE  /\ <<h>> \o s \in Seq(S) /\ Len(<<h>> \o s) = Len(s) + 1
         /\ ToSet(<<h>> \o s) = {h} \cup ToSet(s)
         /\ IsInjective(s) /\ h \notin ToSet(s) => IsInjective(<<h>> \o s)
<1> DEFINE u == <<h>>
<1>1. u \in Seq(S) /\ Len(u) = 1 /\ ToSet(u) = {h} /\ IsInjective(u)
  BY DEF ToSet, IsInjective
<1> HIDE DEF u
<1>2. u \o s \in Seq(S) /\ Len(u \o s) = Len(u) + Len(s) /\ ToSet(u \o s) = ToSet(u) \cup ToSet(s)
  BY ONLY <1>1, s \in Seq(S), ConcatIs
<1>3. IsInjective(u \o s) <=> IsInjective(u) /\ IsInjective(s) /\ ToSet(u) \cap ToSet(s) = {}
  BY <1>1, ConcatInjective, Zenon
<1>4. Len(u \o s) = Len(s) + 1
  <2>1. Len(s) \in Nat
    OBVIOUS
  <2> QED BY <1>1, <1>2, <2>1
<1>5. IsInjective(s) /\ h \notin ToSet(s) => IsInjective(u \o s)
  BY <1>1, <1>3
<1>6. ToSet(u \o s) = {h} \cup ToSet(s)
  BY <1>1, <1>2
<1> QED BY <1>2, <1>4, <1>5, <1>6 DEF u

(* The piece s of a list starts at a, and b comes behind it.               *)
Piece(pointer, a, s, b) ==
    /\ a = IF s = <<>> THEN b ELSE s[1]
    /\ \A i \in 1 .. Len(s) : pointer[s[i]] = IF i = Len(s) THEN b ELSE s[i + 1]

LEMMA PieceLinked ==
  ASSUME NEW S, NEW s \in Seq(S), NEW pointer, NEW a
  PROVE  Linked(pointer, a, s) <=> Piece(pointer, a, s, INVALID_ENTRY)
<1>1. Len(s) = 0 <=> s = <<>>
  OBVIOUS
<1> QED BY <1>1 DEF Linked, Piece

(* Pieces that fit make a piece, and a piece is in pieces that fit.        *)
LEMMA PieceConcat ==
  ASSUME NEW S, NEW s \in Seq(S), NEW t \in Seq(S), NEW pointer, NEW a, NEW m, NEW b,
         Piece(pointer, a, s, m), Piece(pointer, m, t, b)
  PROVE  Piece(pointer, a, s \o t, b)
<1> DEFINE u == s \o t
           k == Len(s)
           n == Len(t)
<1>1. /\ k \in Nat /\ n \in Nat /\ Len(u) = k + n
      /\ \A i \in 1 .. k : u[i] = s[i]
      /\ \A i \in 1 .. n : u[k + i] = t[i]
      /\ (s = <<>> <=> k = 0) /\ (t = <<>> <=> n = 0) /\ (u = <<>> <=> k + n = 0)
  <2>1. /\ k \in Nat /\ n \in Nat /\ Len(u) = k + n
        /\ \A i \in 1 .. k : u[i] = s[i]
        /\ \A i \in 1 .. n : u[k + i] = t[i]
    BY ConcatIs
  <2>2. (s = <<>> <=> k = 0) /\ (t = <<>> <=> n = 0)
    OBVIOUS
  <2>3. u \in Seq(S)
    BY ConcatIs
  <2> HIDE DEF u
  <2>4. u = <<>> <=> Len(u) = 0
    BY <2>3
  <2> HIDE DEF k, n
  <2> QED BY <2>1, <2>2, <2>4
<1>2. /\ a = IF s = <<>> THEN m ELSE s[1]
      /\ \A i \in 1 .. k : pointer[s[i]] = IF i = k THEN m ELSE s[i + 1]
      /\ m = IF t = <<>> THEN b ELSE t[1]
      /\ \A i \in 1 .. n : pointer[t[i]] = IF i = n THEN b ELSE t[i + 1]
  BY Zenon DEF Piece
<1> HIDE DEF u, k, n
<1>3. a = IF u = <<>> THEN b ELSE u[1]
  <2>1. CASE k # 0
    <3>1. 1 \in 1 .. k
      BY <1>1, <2>1
    <3> QED BY <1>1, <1>2, <2>1, <3>1
  <2>2. CASE k = 0 /\ n # 0
    <3>1. 1 \in 1 .. n /\ k + 1 = 1
      BY <1>1, <2>2
    <3>2. u[k + 1] = t[1]
      BY <1>1, <3>1
    <3> QED BY <1>1, <1>2, <2>2, <3>1, <3>2
  <2>3. CASE k = 0 /\ n = 0
    BY <1>1, <1>2, <2>3
  <2> QED BY <2>1, <2>2, <2>3
<1>4. ASSUME NEW j \in 1 .. k + n PROVE pointer[u[j]] = IF j = k + n THEN b ELSE u[j + 1]
  <2>1. CASE j \in 1 .. k /\ j # k
    <3>1. j + 1 \in 1 .. k /\ j # k + n
      BY <1>1, <2>1
    <3> QED BY <1>1, <1>2, <2>1, <3>1
  <2>2. CASE j = k /\ n = 0
    <3>1. j \in 1 .. k /\ j = k + n
      BY <1>1, <2>2
    <3> QED BY <1>1, <1>2, <2>2, <3>1
  <2>3. CASE j = k /\ n # 0
    <3>1. j \in 1 .. k /\ j # k + n /\ 1 \in 1 .. n
      BY <1>1, <2>3
    <3>2. u[k + 1] = t[1]
      BY <1>1, <3>1
    <3> QED BY <1>1, <1>2, <2>3, <3>1, <3>2
  <2>4. CASE j \notin 1 .. k
    <3> DEFINE i == j - k
    <3>1. i \in 1 .. n /\ k + i = j /\ (j = k + n <=> i = n) /\ (i # n => i + 1 \in 1 .. n /\ k + (i + 1) = j + 1)
      BY <1>1, <2>4
    <3> HIDE DEF i
    <3>2. u[j] = t[i] /\ (i # n => u[j + 1] = t[i + 1])
      BY <1>1, <3>1
    <3> QED BY <1>2, <3>1, <3>2
  <2> QED BY <1>1, <2>1, <2>2, <2>3, <2>4
<1>5. Len(u) = k + n
  BY <1>1
<1>6. Piece(pointer, a, u, b)
  BY <1>3, <1>4, <1>5 DEF Piece
<1> QED BY <1>6 DEF u

LEMMA PieceParts ==
  ASSUME NEW S, NEW s \in Seq(S), NEW t \in Seq(S), NEW pointer, NEW a, NEW b,
         Piece(pointer, a, s \o t, b)
  PROVE  \E m : Piece(pointer, a, s, m) /\ Piece(pointer, m, t, b)
<1> DEFINE u == s \o t
           k == Len(s)
           n == Len(t)
           m == IF t = <<>> THEN b ELSE t[1]
<1>1. Joins(S, u, s, t, k, n)
  BY ConcatJoins
<1>2. k \in Nat /\ n \in Nat /\ (s = <<>> <=> k = 0) /\ (t = <<>> <=> n = 0)
  OBVIOUS
<1>3. Piece(pointer, a, u, b)
  OBVIOUS
<1> HIDE DEF u
<1>4. /\ u \in Seq(S) /\ Len(u) = k + n
      /\ \A i \in 1 .. k : u[i] = s[i]
      /\ \A i \in 1 .. n : u[k + i] = t[i]
  BY <1>1, Zenon DEF Joins
<1>5. u = <<>> <=> Len(u) = 0
  BY <1>4
<1>6. /\ a = IF u = <<>> THEN b ELSE u[1]
      /\ \A i \in 1 .. k + n : pointer[u[i]] = IF i = k + n THEN b ELSE u[i + 1]
  BY <1>3, <1>4, Zenon DEF Piece
<1> HIDE DEF k, n
<1>7. a = IF s = <<>> THEN m ELSE s[1]
  <2>1. CASE k = 0 /\ n = 0
    BY <1>2, <1>4, <1>5, <1>6, <2>1
  <2>2. CASE k = 0 /\ n # 0
    <3>1. 1 \in 1 .. n /\ k + 1 = 1 /\ k + n # 0
      BY <1>2, <2>2
    <3>2. u[1] = t[1]
      BY <1>4, <3>1
    <3> QED BY <1>2, <1>4, <1>5, <1>6, <2>2, <3>1, <3>2
  <2>3. CASE k # 0
    <3>1. 1 \in 1 .. k /\ k + n # 0
      BY <1>2, <2>3
    <3> QED BY <1>2, <1>4, <1>5, <1>6, <2>3, <3>1
  <2> QED BY <2>1, <2>2, <2>3
<1>8. ASSUME NEW i \in 1 .. k PROVE pointer[s[i]] = IF i = k THEN m ELSE s[i + 1]
  <2>1. i \in 1 .. k + n
    BY <1>2
  <2>2. pointer[s[i]] = IF i = k + n THEN b ELSE u[i + 1]
    BY <1>4, <1>6, <2>1
  <2>3. CASE i # k
    <3>1. i + 1 \in 1 .. k /\ i # k + n
      BY <1>2, <2>3
    <3> QED BY <1>4, <2>2, <2>3, <3>1
  <2>4. CASE i = k /\ n = 0
    BY <1>2, <2>2, <2>4
  <2>5. CASE i = k /\ n # 0
    <3>1. 1 \in 1 .. n /\ i # k + n
      BY <1>2, <2>5
    <3>2. u[k + 1] = t[1]
      BY <1>4, <3>1
    <3> QED BY <1>2, <2>2, <2>5, <3>1, <3>2
  <2> QED BY <2>3, <2>4, <2>5
<1>9. ASSUME NEW i \in 1 .. n PROVE pointer[t[i]] = IF i = n THEN b ELSE t[i + 1]
  <2>1. k + i \in 1 .. k + n /\ (k + i = k + n <=> i = n) /\ (k + i) + 1 = k + (i + 1)
        /\ (i # n => i + 1 \in 1 .. n)
    BY <1>2
  <2>2. pointer[u[k + i]] = IF k + i = k + n THEN b ELSE u[(k + i) + 1]
    BY <1>6, <2>1
  <2> QED BY <1>4, <2>1, <2>2
<1>10. Piece(pointer, a, s, m)
  BY <1>7, <1>8 DEF Piece, k
<1>11. Piece(pointer, m, t, b)
  BY <1>9 DEF Piece, n
<1> QED BY <1>10, <1>11

(* A list only depends on the pointers of its entries.                     *)
LEMMA PieceFrame ==
  ASSUME NEW S, NEW s \in Seq(S), NEW p, NEW q, NEW a, NEW b,
         Piece(p, a, s, b), \A e \in ToSet(s) : q[e] = p[e]
  PROVE  Piece(q, a, s, b)
<1>1. \A i \in 1 .. Len(s) : s[i] \in ToSet(s)
  BY DEF ToSet
<1>2. \A i \in 1 .. Len(s) : q[s[i]] = p[s[i]]
  BY <1>1
<1> QED BY <1>2, Zenon DEF Piece

(* The pointer of the last entry is changed.                               *)
LEMMA PieceEnd ==
  ASSUME NEW S, NEW s \in Seq(S), s # <<>>, IsInjective(s), NEW p, NEW q, NEW a, NEW m, NEW b,
         Piece(p, a, s, m), q[s[Len(s)]] = b,
         \A e \in ToSet(s) : e # s[Len(s)] => q[e] = p[e]
  PROVE  Piece(q, a, s, b)
<1>1. Len(s) \in Nat \ {0} /\ DOMAIN s = 1 .. Len(s) /\ Len(s) \in 1 .. Len(s)
  BY SMTT(30)
<1>2. \A i \in 1 .. Len(s) : s[i] \in ToSet(s) /\ (s[i] = s[Len(s)] => i = Len(s))
  BY <1>1 DEF ToSet, IsInjective
<1>3. \A i \in 1 .. Len(s) : p[s[i]] = IF i = Len(s) THEN m ELSE s[i + 1]
  BY Zenon DEF Piece
<1>4. \A i \in 1 .. Len(s) : q[s[i]] = IF i = Len(s) THEN b ELSE s[i + 1]
  BY <1>2, <1>3
<1>5. a = s[1]
  BY Zenon DEF Piece
<1> QED BY <1>4, <1>5 DEF Piece

(* The list that starts with an entry.                                     *)
LEMMA PieceHead ==
  ASSUME NEW S, NEW x \in S, NEW t \in Seq(S), NEW p, NEW a, NEW b
  PROVE  Piece(p, a, <<x>> \o t, b) <=> a = x /\ Piece(p, p[x], t, b)
<1> DEFINE y == <<x>>
<1>1. y \in Seq(S) /\ Len(y) = 1 /\ y[1] = x /\ y # <<>>
  OBVIOUS
<1> HIDE DEF y
<1>2. \A m : Piece(p, a, y, m) <=> a = x /\ p[x] = m
  <2>1. \A i : i \in 1 .. Len(y) <=> i = 1
    BY <1>1
  <2> QED BY <1>1, <2>1 DEF Piece
<1>3. ASSUME Piece(p, a, y \o t, b) PROVE a = x /\ Piece(p, p[x], t, b)
  <2>1. PICK m : Piece(p, a, y, m) /\ Piece(p, m, t, b)
    BY <1>1, <1>3, PieceParts, Zenon
  <2> QED BY <1>2, <2>1, Zenon
<1>4. ASSUME a = x, Piece(p, p[x], t, b) PROVE Piece(p, a, y \o t, b)
  <2>1. Piece(p, a, y, p[x])
    BY <1>2, <1>4, Zenon
  <2> QED BY <1>1, <1>4, <2>1, PieceConcat, Zenon
<1> QED BY <1>3, <1>4 DEF y

(* The list s without repetitions of the entries T, from start on.         *)
ListOf(I, pointer, start, s, T) ==
    s \in Seq(I) /\ IsInjective(s) /\ Piece(pointer, start, s, INVALID_ENTRY) /\ ToSet(s) = T

LEMMA FollowList ==
  ASSUME NEW I, IsFiniteSet(I), INVALID_ENTRY \notin I, NEW pointer \in [I -> I \cup {INVALID_ENTRY}],
         NEW start, NEW s, NEW T, ListOf(I, pointer, start, s, T)
  PROVE  Follow(pointer, start) = s
<1>1. s \in Seq(I) /\ IsInjective(s) /\ Piece(pointer, start, s, INVALID_ENTRY)
  BY Zenon DEF ListOf
<1>2. Linked(pointer, start, s)
  BY <1>1, PieceLinked, Zenon
<1>3. DOMAIN pointer = I
  OBVIOUS
<1>4. ListAlong(pointer, start, s)
  BY <1>1, <1>2, <1>3, Zenon DEF ListAlong
<1> QED BY <1>4, FollowIs, Zenon

(* An entry of a list is replaced by a list of others: the pointers p with *)
(* the list s of T from start on are changed to q, and the new list starts *)
(* at from.                                                                *)
Replaces(I, p, q, start, from, rep, s, i, T, kids, U) ==
    /\ ListOf(I, p, start, s, T) /\ i \in 1 .. Len(s)
    /\ kids \in Seq(I) /\ IsInjective(kids) /\ ToSet(kids) = U /\ U \cap T = {}
    /\ Piece(q, rep, kids, p[s[i]])
    /\ from = IF i = 1 THEN rep ELSE start
    /\ i # 1 => q[s[i - 1]] = rep
    /\ \A e \in T : e # s[i] /\ (i # 1 => e # s[i - 1]) => q[e] = p[e]

LEMMA Splice ==
  ASSUME NEW I, NEW p, NEW q, NEW start, NEW from, NEW rep, NEW s, NEW i, NEW T, NEW kids, NEW U,
         Replaces(I, p, q, start, from, rep, s, i, T, kids, U)
  PROVE  \E a, b \in Seq(I) : /\ s = a \o (<<s[i]>> \o b)
                              /\ ListOf(I, q, from, a \o (kids \o b), (T \ {s[i]}) \cup U)
<1> DEFINE x == s[i]
<1>0. /\ ListOf(I, p, start, s, T) /\ i \in 1 .. Len(s)
      /\ kids \in Seq(I) /\ IsInjective(kids) /\ ToSet(kids) = U /\ U \cap T = {}
      /\ Piece(q, rep, kids, p[s[i]])
      /\ from = IF i = 1 THEN rep ELSE start
      /\ i # 1 => q[s[i - 1]] = rep
      /\ \A e \in T : e # s[i] /\ (i # 1 => e # s[i - 1]) => q[e] = p[e]
  BY DEF Replaces
<1> USE <1>0
<1>1. s \in Seq(I) /\ IsInjective(s) /\ Piece(p, start, s, INVALID_ENTRY) /\ ToSet(s) = T
  BY Zenon DEF ListOf
<1>2. PICK a \in Seq(I), b \in Seq(I) :
          s = a \o (<<x>> \o b) /\ Len(a) = i - 1 /\ (a # <<>> => a[Len(a)] = s[i - 1])
  BY <1>1, Parted, Zenon
<1>3. x \in I /\ Len(s) \in Nat /\ i \in 1 .. Len(s)
  BY <1>1
<1> DEFINE y == <<x>>
           z == y \o b
<1>4. y \in Seq(I) /\ ToSet(y) = {x}
  BY <1>3 DEF ToSet
<1>5. s = a \o z
  BY <1>2
<1> HIDE DEF x, y
<1>6. z \in Seq(I) /\ ToSet(z) = {x} \cup ToSet(b) /\ (IsInjective(z) => IsInjective(b) /\ {x} \cap ToSet(b) = {})
  <2>1. z \in Seq(I) /\ ToSet(z) = ToSet(y) \cup ToSet(b)
    BY <1>2, <1>4, ConcatSet, Zenon
  <2>2. IsInjective(z) => IsInjective(b) /\ ToSet(y) \cap ToSet(b) = {}
    BY <1>2, <1>4, ConcatInjective, Zenon
  <2> HIDE DEF z
  <2> QED BY <1>4, <2>1, <2>2, Zenon
<1> HIDE DEF z
<1>7. T = ToSet(a) \cup ({x} \cup ToSet(b)) /\ IsInjective(a) /\ IsInjective(z)
      /\ ToSet(a) \cap ({x} \cup ToSet(b)) = {}
  <2>1. ToSet(a \o z) = ToSet(a) \cup ToSet(z)
    <3>1. a \in Seq(I) /\ z \in Seq(I)
      BY <1>6
    <3> QED BY ONLY <3>1, ConcatSet, Zenon
  <2>2. IsInjective(a \o z) => IsInjective(a) /\ IsInjective(z) /\ ToSet(a) \cap ToSet(z) = {}
    BY <1>2, <1>6, ConcatInjective, Zenon
  <2> QED BY <1>1, <1>5, <1>6, <2>1, <2>2, Zenon
<1>8. PICK m : Piece(p, start, a, m) /\ Piece(p, m, z, INVALID_ENTRY)
  BY <1>1, <1>2, <1>5, <1>6, PieceParts, Zenon
<1>9. m = x /\ Piece(p, p[x], b, INVALID_ENTRY)
  BY <1>2, <1>3, <1>8, PieceHead, Zenon DEF z, y
<1>10. a = <<>> <=> i = 1
  BY <1>2, <1>3
<1>11. a # <<>> => s[i - 1] = a[Len(a)] /\ a[Len(a)] \in ToSet(a)
  <2>1. a # <<>> => a[Len(a)] \in ToSet(a)
    BY <1>2 DEF ToSet
  <2> QED BY <1>2, <2>1
<1>12. Piece(q, from, a, rep)
  <2>1. CASE a = <<>>
    <3>1. Len(a) = 0 /\ from = rep
      BY <1>10, <2>1
    <3> QED BY <2>1, <3>1 DEF Piece
  <2>2. CASE a # <<>>
    <3>1. i # 1 /\ from = start /\ q[a[Len(a)]] = rep
      BY <1>10, <1>11, <2>2
    <3>2. \A e \in ToSet(a) : e # a[Len(a)] => q[e] = p[e]
      BY <1>7, <1>11, <2>2 DEF x
    <3>3. Piece(q, start, a, rep)
      BY <1>2, <1>7, <1>8, <2>2, <3>1, <3>2, PieceEnd, Zenon
    <3> QED BY <3>1, <3>3, Zenon
  <2> QED BY <2>1, <2>2
<1>13. Piece(q, p[x], b, INVALID_ENTRY)
  <2>1. \A e \in ToSet(b) : q[e] = p[e]
    <3>1. \A e \in ToSet(b) : e \in T /\ e # x /\ e \notin ToSet(a)
      BY <1>6, <1>7
    <3> QED BY <1>10, <1>11, <3>1 DEF x
  <2> QED BY <1>2, <1>9, <2>1, PieceFrame, Zenon
<1> DEFINE r == kids \o b
           u == a \o r
<1>14. /\ r \in Seq(I) /\ ToSet(r) = U \cup ToSet(b)
       /\ Piece(q, rep, r, INVALID_ENTRY)
  <2>1. b \in Seq(I) /\ Piece(q, p[x], b, INVALID_ENTRY) /\ kids \in Seq(I) /\ Piece(q, rep, kids, p[x])
    BY <1>2, <1>13 DEF x
  <2>2. r \in Seq(I) /\ ToSet(r) = ToSet(kids) \cup ToSet(b)
    BY ONLY <2>1, ConcatSet
  <2>3. Piece(q, rep, r, INVALID_ENTRY)
    BY ONLY <2>1, PieceConcat, Zenon
  <2> HIDE DEF r
  <2> QED BY <2>2, <2>3
<1>15. IsInjective(r)
  <2>1. ToSet(kids) \cap ToSet(b) = {} /\ IsInjective(b)
    BY <1>6, <1>7
  <2> QED BY <1>2, <2>1, ConcatInjective, Zenon
<1> HIDE DEF r
<1>16. u \in Seq(I) /\ ToSet(u) = ToSet(a) \cup (U \cup ToSet(b)) /\ Piece(q, from, u, INVALID_ENTRY)
  <2>1. u \in Seq(I) /\ ToSet(u) = ToSet(a) \cup ToSet(r)
    <3>1. a \in Seq(I) /\ r \in Seq(I)
      BY <1>14
    <3> QED BY ONLY <3>1, ConcatSet, Zenon
  <2>2. Piece(q, from, u, INVALID_ENTRY)
    BY <1>2, <1>12, <1>14, PieceConcat, Zenon
  <2> HIDE DEF u
  <2> QED BY <1>14, <2>1, <2>2, Zenon
<1>17. IsInjective(u)
  <2>1. ToSet(a) \cap ToSet(r) = {}
    BY <1>7, <1>14
  <2> QED BY <1>2, <1>7, <1>14, <1>15, <2>1, ConcatInjective, Zenon
<1>18. ToSet(u) = (T \ {x}) \cup U
  <2>1. x \notin ToSet(b)
    BY <1>6, <1>7
  <2> QED BY <1>7, <1>16, <2>1
<1>19. ListOf(I, q, from, u, (T \ {x}) \cup U)
  BY <1>16, <1>17, <1>18, Zenon DEF ListOf
<1> QED BY <1>2, <1>19 DEF u, r, x

(* The members of Y come first in the sequence.                            *)
Leads(s, Y) == \A i, j \in 1 .. Len(s) : i < j /\ s[j] \in Y => s[i] \in Y

LEMMA LeadsConcat ==
  ASSUME NEW S, NEW s \in Seq(S), NEW t \in Seq(S), NEW Y
  PROVE  Leads(s \o t, Y) <=> /\ Leads(s, Y) /\ Leads(t, Y)
                              /\ ToSet(t) \cap Y # {} => ToSet(s) \subseteq Y
<1> DEFINE u == s \o t
           m == Len(s)
           n == Len(t)
<1>1. Joins(S, u, s, t, m, n) /\ m \in Nat /\ n \in Nat /\ DOMAIN s = 1 .. m /\ DOMAIN t = 1 .. n
  BY ConcatJoins
<1> HIDE DEF u, m, n
<1>2. /\ Len(u) = m + n
      /\ \A i \in 1 .. m : u[i] = s[i]
      /\ \A i \in 1 .. n : u[m + i] = t[i]
  BY <1>1 DEF Joins
<1>3. (\A i \in 1 .. m : i \in 1 .. m + n) /\ (\A i \in 1 .. n : m + i \in 1 .. m + n)
      /\ \A j \in 1 .. m + n : j \in 1 .. m \/ (j - m \in 1 .. n /\ m + (j - m) = j)
  BY <1>1
<1>4. ASSUME Leads(u, Y) PROVE Leads(s, Y) /\ Leads(t, Y) /\ (ToSet(t) \cap Y # {} => ToSet(s) \subseteq Y)
  <2>0. \A i, j \in 1 .. m + n : i < j /\ u[j] \in Y => u[i] \in Y
    BY <1>2, <1>4 DEF Leads
  <2>1. \A i, j \in 1 .. m : i < j /\ s[j] \in Y => s[i] \in Y
    BY <1>2, <1>3, <2>0
  <2>2. ASSUME NEW i \in 1 .. n, NEW j \in 1 .. n, i < j, t[j] \in Y PROVE t[i] \in Y
    <3>1. m + i < m + j
      BY <1>1, <2>2
    <3> QED BY <1>2, <1>3, <2>0, <2>2, <3>1
  <2>3. ASSUME NEW i \in 1 .. m, NEW j \in 1 .. n, t[j] \in Y PROVE s[i] \in Y
    <3>1. i < m + j
      BY <1>1
    <3> QED BY <1>2, <1>3, <2>0, <2>3, <3>1
  <2>4. ToSet(t) \cap Y # {} => ToSet(s) \subseteq Y
    BY <1>1, <2>3 DEF ToSet
  <2> QED BY <2>1, <2>2, <2>4 DEF Leads, m, n
<1>5. ASSUME Leads(s, Y), Leads(t, Y), ToSet(t) \cap Y # {} => ToSet(s) \subseteq Y PROVE Leads(u, Y)
  <2>1. \A i \in 1 .. m, j \in 1 .. n : t[j] \in Y => s[i] \in Y
    BY <1>1, <1>5 DEF ToSet
  <2>2. \A i, j \in 1 .. m : i < j /\ s[j] \in Y => s[i] \in Y
    BY <1>5 DEF Leads, m
  <2>3. \A i, j \in 1 .. n : i < j /\ t[j] \in Y => t[i] \in Y
    BY <1>5 DEF Leads, n
  <2>4. ASSUME NEW i \in 1 .. m + n, NEW j \in 1 .. m + n, i < j, u[j] \in Y PROVE u[i] \in Y
    <3>1. i \in 1 .. m \/ (i - m \in 1 .. n /\ m + (i - m) = i)
      BY <1>3
    <3>2. j \in 1 .. m \/ (j - m \in 1 .. n /\ m + (j - m) = j)
      BY <1>3
    <3>3. CASE i \in 1 .. m /\ j \in 1 .. m
      BY <1>2, <2>2, <2>4, <3>3
    <3>4. CASE i \in 1 .. m /\ j \notin 1 .. m
      BY <1>2, <2>1, <2>4, <3>2, <3>4
    <3>5. CASE i \notin 1 .. m
      <4>1. j \notin 1 .. m /\ i - m < j - m
        BY <1>1, <2>4, <3>5
      <4>2. u[j] = t[j - m] /\ u[i] = t[i - m]
        BY <1>2, <3>1, <3>2, <3>5, <4>1
      <4> QED BY <2>3, <2>4, <3>1, <3>2, <3>5, <4>1, <4>2
    <3> QED BY <3>3, <3>4, <3>5
  <2> QED BY <1>2, <2>4 DEF Leads
<1> QED BY <1>4, <1>5 DEF u

(* Those that take the place of a member are members as well, and those    *)
(* that take the place of another are not.                                 *)
LEMMA LeadsSplice ==
  ASSUME NEW S, NEW a \in Seq(S), NEW x \in S, NEW b \in Seq(S), NEW k \in Seq(S), NEW Y,
         Leads(a \o (<<x>> \o b), Y),
         x \in Y => ToSet(k) \subseteq Y,
         x \notin Y => ToSet(k) \cap Y = {}
  PROVE  Leads(a \o (k \o b), Y)
<1> DEFINE y == <<x>>
           z == y \o b
           r == k \o b
<1>1. y \in Seq(S) /\ ToSet(y) = {x}
  BY DEF ToSet
<1> HIDE DEF y
<1>2. z \in Seq(S) /\ r \in Seq(S)
  BY <1>1, ConcatIs
<1>3. ToSet(z) = {x} \cup ToSet(b)
  BY <1>1, ConcatSet
<1>4. ToSet(r) = ToSet(k) \cup ToSet(b)
  BY ConcatSet
<1>5. Leads(z, Y) => Leads(b, Y) /\ (ToSet(b) \cap Y # {} => {x} \subseteq Y)
  BY <1>1, LeadsConcat
<1>6. Leads(r, Y) <=> Leads(k, Y) /\ Leads(b, Y) /\ (ToSet(b) \cap Y # {} => ToSet(k) \subseteq Y)
  BY LeadsConcat
<1> HIDE DEF z, r
<1>7. Leads(a \o z, Y) => Leads(a, Y) /\ Leads(z, Y) /\ (ToSet(z) \cap Y # {} => ToSet(a) \subseteq Y)
  BY <1>2, LeadsConcat, Zenon
<1>8. Leads(a \o r, Y) <=> Leads(a, Y) /\ Leads(r, Y) /\ (ToSet(r) \cap Y # {} => ToSet(a) \subseteq Y)
  BY <1>2, LeadsConcat, Zenon
<1>9. Leads(a \o z, Y)
  BY DEF z, y
<1>10. Leads(k, Y)
  <2>1. \A i \in 1 .. Len(k) : k[i] \in ToSet(k)
    BY DEF ToSet
  <2> QED BY <2>1 DEF Leads
<1>11. Leads(a \o r, Y)
  BY <1>3, <1>4, <1>5, <1>6, <1>7, <1>8, <1>9, <1>10
<1> QED BY <1>11 DEF r

(* A list depends on the pointers of its entries only.                     *)
LEMMA ListFrame ==
  ASSUME NEW I, NEW J, I \subseteq J, NEW p, NEW q, NEW start, NEW s, NEW T, ListOf(I, p, start, s, T),
         \A e \in T : q[e] = p[e]
  PROVE  ListOf(J, q, start, s, T)
<1>1. s \in Seq(I) /\ IsInjective(s) /\ Piece(p, start, s, INVALID_ENTRY) /\ ToSet(s) = T
  BY Zenon DEF ListOf
<1>2. Piece(q, start, s, INVALID_ENTRY)
  BY <1>1, PieceFrame, Zenon
<1>3. s \in Seq(J)
  BY <1>1
<1> QED BY <1>1, <1>2, <1>3, Zenon DEF ListOf

(* An entry is put in front.                                               *)
LEMMA ListCons ==
  ASSUME NEW I, NEW p, NEW q, NEW start, NEW s, NEW T, ListOf(I, p, start, s, T),
         NEW x \in I, x \notin T, q[x] = start, \A e \in T : q[e] = p[e]
  PROVE  ListOf(I, q, x, <<x>> \o s, T \cup {x})
<1> DEFINE y == <<x>>
           u == y \o s
<1>1. s \in Seq(I) /\ IsInjective(s) /\ Piece(p, start, s, INVALID_ENTRY) /\ ToSet(s) = T
  BY Zenon DEF ListOf
<1>2. y \in Seq(I) /\ ToSet(y) = {x} /\ IsInjective(y)
  BY DEF ToSet, IsInjective
<1>3. Piece(q, start, s, INVALID_ENTRY)
  BY <1>1, PieceFrame, Zenon
<1>4. Piece(q, x, u, INVALID_ENTRY)
  <2>1. Piece(q, q[x], s, INVALID_ENTRY)
    BY <1>3
  <2> QED BY <1>1, <2>1, PieceHead, Zenon
<1> HIDE DEF y
<1>5. u \in Seq(I) /\ ToSet(u) = {x} \cup T /\ IsInjective(u)
  <2>1. u \in Seq(I) /\ ToSet(u) = ToSet(y) \cup ToSet(s)
    BY <1>1, <1>2, ConcatSet
  <2>2. ToSet(y) \cap ToSet(s) = {}
    BY <1>1, <1>2
  <2>3. IsInjective(u)
    BY <1>1, <1>2, <2>2, ConcatInjective, Zenon
  <2> HIDE DEF u
  <2> QED BY <1>1, <1>2, <2>1, <2>3
<1> HIDE DEF u
<1>6. ListOf(I, q, x, u, T \cup {x})
  <2>1. ToSet(u) = T \cup {x}
    BY <1>5
  <2> QED BY <1>4, <1>5, <2>1, Zenon DEF ListOf
<1> QED BY <1>6 DEF u, y

(* The list without its first entries.                                     *)
LEMMA ListRest ==
  ASSUME NEW I, NEW p, NEW start, NEW s, NEW T, ListOf(I, p, start, s, T), NEW n \in 0 .. Len(s)
  PROVE  \E a, t \in Seq(I) : /\ s = a \o t
                              /\ ToSet(a) = {s[i] : i \in 1 .. n}
                              /\ ListOf(I, p, IF n = Len(s) THEN INVALID_ENTRY ELSE s[n + 1], t, T \ ToSet(a))
<1>1. s \in Seq(I) /\ IsInjective(s) /\ Piece(p, start, s, INVALID_ENTRY) /\ ToSet(s) = T
  BY Zenon DEF ListOf
<1>2. CASE n = Len(s)
  <2>1. s = s \o <<>> /\ <<>> \in Seq(I)
    BY <1>1
  <2>2. ToSet(s) = {s[i] : i \in 1 .. n}
    BY <1>1, <1>2 DEF ToSet
  <2>3. T \ ToSet(s) = {}
    BY <1>1
  <2>4. ListOf(I, p, INVALID_ENTRY, <<>>, {})
    BY DEF ListOf, IsInjective, Piece, ToSet
  <2>5. ListOf(I, p, IF n = Len(s) THEN INVALID_ENTRY ELSE s[n + 1], <<>>, T \ ToSet(s))
    BY <1>2, <2>3, <2>4
  <2> QED BY <1>1, <2>1, <2>2, <2>5
<1>3. CASE n # Len(s)
  <2> DEFINE x == s[n + 1]
             y == <<x>>
  <2>1. n + 1 \in 1 .. Len(s) /\ (n + 1) - 1 = n
    BY <1>1, <1>3
  <2>2. PICK a \in Seq(I), b \in Seq(I) : s = a \o (y \o b) /\ Len(a) = (n + 1) - 1
    BY <1>1, <2>1, Parted, Zenon
  <2>3. x \in I /\ y \in Seq(I)
    BY <1>1, <2>1
  <2> HIDE DEF x
  <2> DEFINE t == y \o b
  <2>4. t \in Seq(I) /\ t # <<>> /\ t[1] = x
    <3>1. t \in Seq(I) /\ Len(t) = Len(y) + Len(b) /\ \A i \in 1 .. Len(y) : t[i] = y[i]
      BY <2>3, ConcatIs
    <3>2. Len(y) = 1 /\ y[1] = x /\ Len(b) \in Nat
      OBVIOUS
    <3> HIDE DEF t, y
    <3>3. Len(t) # 0 /\ 1 \in 1 .. Len(y)
      BY <3>1, <3>2
    <3> QED BY <3>1, <3>2, <3>3
  <2> HIDE DEF t, y
  <2>5. PICK m : Piece(p, start, a, m) /\ Piece(p, m, t, INVALID_ENTRY)
    <3>1. Piece(p, start, a \o t, INVALID_ENTRY)
      BY <1>1, <2>2 DEF t
    <3> QED BY <2>4, <3>1, PieceParts, Zenon
  <2>6. m = x
    BY <2>4, <2>5 DEF Piece
  <2>7. IsInjective(a \o t) /\ ToSet(a \o t) = T /\ s = a \o t
    BY <1>1, <2>2 DEF t
  <2>8. IsInjective(t) /\ ToSet(a) \cap ToSet(t) = {} /\ T = ToSet(a) \cup ToSet(t)
    BY <2>4, <2>7, ConcatSet, ConcatInjective
  <2>9. T \ ToSet(a) = ToSet(t)
    BY <2>8
  <2>10. ToSet(a) = {s[i] : i \in 1 .. n}
    <3>1. \A i \in 1 .. Len(a) : (a \o t)[i] = a[i]
      BY <2>4, ConcatIs
    <3>2. Len(a) = n /\ DOMAIN a = 1 .. n
      BY <2>1, <2>2
    <3>3. \A i \in 1 .. n : s[i] = a[i]
      BY <2>7, <3>1, <3>2, Zenon
    <3> QED BY <3>2, <3>3 DEF ToSet
  <2>11. ListOf(I, p, x, t, T \ ToSet(a))
    BY <2>4, <2>5, <2>6, <2>8, <2>9 DEF ListOf
  <2> QED BY <1>3, <2>4, <2>7, <2>10, <2>11 DEF x
<1> QED BY <1>2, <1>3

(***************************************************************************)
(* What the methods change.                                                *)
(***************************************************************************)

(* An entry that is not in use has no count and no links.                  *)
IsBlank(e) ==
    /\ ~ e.model
    /\ e.father = INVALID_ENTRY /\ e.first = INVALID_ENTRY /\ e.next = INVALID_ENTRY

(* FreeEntry(c, id) is d.                                                  *)
IsFreed(c, d, id, L) ==
    /\ \A e \in 1 .. L : e # id => d.entry[e] = c.entry[e]
    /\ d.entry[id].free /\ IsBlank(d.entry[id]) /\ d.entry[id].chain = INVALID_ENTRY
    /\ d.entry[id].created = c.entry[id].created
    /\ d.clock = c.clock /\ d.table = c.table /\ d.confirmed = c.confirmed
    /\ d.memory = c.memory - SizeInBytes(c.entry[id])
    /\ d.freeSlots = Append(c.freeSlots, id)

LEMMA FreeEntryDoes ==
  ASSUME NEW K, NEW L \in Nat, NEW c \in Caches(K, L), NEW id \in 1 .. L
  PROVE  IsFreed(c, FreeEntry(c, id), id, L)
<1> DEFINE e == [c.entry[id] EXCEPT !.comp = NoComp, !.model = FALSE, !.free = TRUE,
                                    !.father = INVALID_ENTRY, !.first = INVALID_ENTRY,
                                    !.next = INVALID_ENTRY, !.chain = INVALID_ENTRY]
           f == [c.entry EXCEPT ![id] = e]
           m == c.memory - SizeInBytes(c.entry[id])
           s == Append(c.freeSlots, id)
<1>1. FreeEntry(c, id) = [c EXCEPT !.memory = m, !.freeSlots = s, !.entry = f]
  BY DEF FreeEntry, Caches
<1>2. e.free /\ IsBlank(e) /\ e.chain = INVALID_ENTRY /\ e.created = c.entry[id].created
  <2>1. ASSUME NEW x \in Entries(K, L), NEW none
        PROVE  LET y == [x EXCEPT !.comp = none, !.model = FALSE, !.free = TRUE,
                                  !.father = INVALID_ENTRY, !.first = INVALID_ENTRY,
                                  !.next = INVALID_ENTRY, !.chain = INVALID_ENTRY]
               IN  y.free /\ IsBlank(y) /\ y.chain = INVALID_ENTRY /\ y.created = x.created
    BY DEF Entries, IsBlank
  <2>2. c.entry[id] \in Entries(K, L)
    BY DEF Caches
  <2> QED BY <2>1, <2>2, Zenon
<1> HIDE DEF e, m, s
<1>3. (\A x \in 1 .. L : x # id => f[x] = c.entry[x]) /\ f[id] = e
  BY DEF Caches
<1> HIDE DEF f
<1> DEFINE d == FreeEntry(c, id)
<1>4. d.entry = f /\ d.clock = c.clock /\ d.table = c.table /\ d.confirmed = c.confirmed
      /\ d.memory = m /\ d.freeSlots = s
  BY <1>1 DEF Caches
<1> HIDE DEF d
<1>5. IsFreed(c, d, id, L)
  BY <1>2, <1>3, <1>4 DEF IsFreed, m, s
<1> QED BY <1>5 DEF d

(* Links to the father, the children and the siblings.                     *)
SameLinks(c, d, E) ==
    \A e \in E : /\ d.entry[e].father = c.entry[e].father
                 /\ d.entry[e].first = c.entry[e].first
                 /\ d.entry[e].next = c.entry[e].next

(* What an entry is and holds.                                             *)
SameUse(c, d, E) ==
    \A e \in E : /\ d.entry[e].comp = c.entry[e].comp /\ d.entry[e].created = c.entry[e].created
                 /\ d.entry[e].model = c.entry[e].model /\ d.entry[e].zero = c.entry[e].zero
                 /\ d.entry[e].delete = c.entry[e].delete /\ d.entry[e].free = c.entry[e].free

SameBooks(c, d) == d.clock = c.clock /\ d.memory = c.memory /\ d.freeSlots = c.freeSlots

SameTable(c, d, E) ==
    /\ d.table = c.table /\ d.confirmed = c.confirmed
    /\ \A e \in E : d.entry[e].chain = c.entry[e].chain

(* d is c without id in the bucket of its slot, where it was at i.         *)
IsUnlinked(c, d, id, L) ==
    LET slot == Slot(c, id)
        bucket == Bucket(c, slot)
        i == Place(bucket, id)
        next == c.entry[id].chain
    IN  /\ SameLinks(c, d, 1 .. L) /\ SameUse(c, d, 1 .. L) /\ SameBooks(c, d)
        /\ i = 0 => SameTable(c, d, 1 .. L)
        /\ i # 0 => /\ d.confirmed = c.confirmed - 1
                    /\ d.table = IF i = 1 THEN [c.table EXCEPT ![slot] = next] ELSE c.table
                    /\ \A e \in 1 .. L : d.entry[e].chain =
                         IF i > 1 /\ e = bucket[i - 1] THEN next
                         ELSE IF e = id THEN INVALID_ENTRY ELSE c.entry[e].chain

OnlyChain(x, y) ==
    /\ y.father = x.father /\ y.first = x.first /\ y.next = x.next
    /\ y.comp = x.comp /\ y.created = x.created /\ y.model = x.model
    /\ y.zero = x.zero /\ y.delete = x.delete /\ y.free = x.free

(* removeFromHashTable() takes an entry out of its bucket.                 *)
LEMMA RemoveFromTableDoes ==
  ASSUME NEW K, Hashed(K), NEW L \in Nat, NEW c \in Caches(K, L), NEW id \in 1 .. L
  PROVE  IsUnlinked(c, RemoveFromTable(c, id), id, L)
<1> DEFINE slot == Slot(c, id)
           bucket == Bucket(c, slot)
           j == SelectInSeq(bucket, LAMBDA x : x = id)
           i == Place(bucket, id)
           next == c.entry[id].chain
           f == [c.entry EXCEPT ![id] = [c.entry[id] EXCEPT !.chain = INVALID_ENTRY]]
           n == c.confirmed - 1
           t == [c.table EXCEPT ![slot] = next]
           b == bucket[i - 1]
           g == [f EXCEPT ![b] = [f[b] EXCEPT !.chain = next]]
           d == RemoveFromTable(c, id)
<1>1. slot \in DOMAIN c.table
  BY SlotType
<1>2. bucket \in Seq(1 .. L)
  BY <1>1, BucketType
<1>3. j = i /\ i \in 0 .. Len(bucket) /\ (i > 1 => b \in 1 .. L)
  <2> HIDE DEF bucket
  <2>1. j = i
    BY PlaceIs, Zenon
  <2> HIDE DEF j
  <2>2. i \in 0 .. Len(bucket)
    BY <1>2, PlaceOf
  <2> HIDE DEF i
  <2> QED BY <1>2, <2>1, <2>2
<1>4. d = CASE i = 0 -> c
          [] i = 1 -> [c EXCEPT !.entry = f, !.table = t, !.confirmed = n]
          [] i > 1 -> [c EXCEPT !.entry = g, !.confirmed = n]
  <2> DEFINE unlinked == [c EXCEPT !.confirmed = @ - 1, !.entry[id].chain = INVALID_ENTRY]
  <2>1. unlinked = [c EXCEPT !.entry = f, !.confirmed = n]
    BY DEF Caches
  <2>2. d = CASE j = 0 -> c
          [] j = 1 -> [unlinked EXCEPT !.table[slot] = next]
          [] j > 1 -> [unlinked EXCEPT !.entry[bucket[j - 1]].chain = next]
    BY Zenon DEF RemoveFromTable
  <2> HIDE DEF i, j, bucket, unlinked, f, n, slot, next, d
  <2>3. [unlinked EXCEPT !.table[slot] = next] = [c EXCEPT !.entry = f, !.table = t, !.confirmed = n]
    BY <2>1 DEF Caches
  <2>4. [unlinked EXCEPT !.entry[b].chain = next] = [c EXCEPT !.entry = g, !.confirmed = n]
    BY <2>1 DEF Caches
  <2> QED BY <1>3, <2>2, <2>3, <2>4
<1> HIDE DEF j, i, bucket, slot, t, n, b, d
<1>5. next \in Pointers(L) /\ INVALID_ENTRY \in Pointers(L)
  BY DEF Caches, Entries, Pointers
<1> HIDE DEF next
<1>6. c.entry \in [1 .. L -> Entries(K, L)]
  BY DEF Caches
<1>7. f \in [1 .. L -> Entries(K, L)]
  <2>1. [c.entry[id] EXCEPT !.chain = INVALID_ENTRY] \in Entries(K, L)
    BY <1>5, <1>6 DEF Entries
  <2> QED BY <2>1, EntryChanged
<1>8. \A e \in 1 .. L : f[e] = IF e = id THEN [c.entry[e] EXCEPT !.chain = INVALID_ENTRY] ELSE c.entry[e]
  BY <1>6
<1> HIDE DEF f
<1>9. i > 1 => \A e \in 1 .. L : g[e] = IF e = b THEN [f[e] EXCEPT !.chain = next] ELSE f[e]
  BY <1>3, <1>7
<1> HIDE DEF g
<1> DEFINE R(x, p) == [x EXCEPT !.chain = p]
<1>10. \A x \in Entries(K, L), p \in Pointers(L) : OnlyChain(x, R(x, p)) /\ R(x, p).chain = p
  BY DEF Entries, OnlyChain
<1>19. \A x : OnlyChain(x, x)
  BY DEF OnlyChain
<1>20. /\ \A e \in 1 .. L : f[e] = IF e = id THEN R(c.entry[e], INVALID_ENTRY) ELSE c.entry[e]
       /\ i > 1 => \A e \in 1 .. L : g[e] = IF e = b THEN R(f[e], next) ELSE f[e]
  BY <1>8, <1>9
<1> HIDE DEF R
<1>11. \A e \in 1 .. L : /\ OnlyChain(c.entry[e], f[e])
                         /\ f[e].chain = IF e = id THEN INVALID_ENTRY ELSE c.entry[e].chain
  BY <1>5, <1>6, <1>10, <1>19, <1>20
<1>12. i > 1 => \A e \in 1 .. L : OnlyChain(f[e], g[e]) /\ g[e].chain = IF e = b THEN next ELSE f[e].chain
  BY <1>5, <1>7, <1>10, <1>19, <1>20
<1>13. i = 0 \/ i = 1 \/ i > 1
  BY <1>2, <1>3
<1>14. /\ i = 0 => d = c
       /\ i = 1 => d.entry = f /\ d.table = t /\ d.confirmed = n /\ SameBooks(c, d)
       /\ i > 1 => d.entry = g /\ d.table = c.table /\ d.confirmed = n /\ SameBooks(c, d)
  <2> HIDE DEF f, g, t, n
  <2>1. ASSUME i = 0 PROVE d = c
    BY <1>4, <2>1
  <2>2. ASSUME i = 1 PROVE d.entry = f /\ d.table = t /\ d.confirmed = n /\ SameBooks(c, d)
    <3>1. d = [c EXCEPT !.entry = f, !.table = t, !.confirmed = n]
      BY <1>4, <2>2
    <3> QED BY <3>1 DEF SameBooks, Caches
  <2>3. ASSUME i > 1 PROVE d.entry = g /\ d.table = c.table /\ d.confirmed = n /\ SameBooks(c, d)
    <3>1. d = [c EXCEPT !.entry = g, !.confirmed = n]
      BY <1>4, <2>3
    <3> QED BY <3>1 DEF SameBooks, Caches
  <2> QED BY <2>1, <2>2, <2>3
<1>15. SameBooks(c, d) /\ \A e \in 1 .. L : OnlyChain(c.entry[e], d.entry[e])
  <2>1. CASE i = 0
    BY <1>14, <1>19, <2>1 DEF SameBooks
  <2>2. CASE i = 1
    BY <1>11, <1>14, <2>2
  <2>3. CASE i > 1
    BY <1>11, <1>12, <1>14, <2>3 DEF OnlyChain
  <2> QED BY <1>13, <2>1, <2>2, <2>3
<1>16. SameLinks(c, d, 1 .. L) /\ SameUse(c, d, 1 .. L)
  BY <1>15 DEF SameLinks, SameUse, OnlyChain
<1>17. i = 0 => SameTable(c, d, 1 .. L)
  BY <1>14 DEF SameTable
<1>18. ASSUME i # 0
       PROVE  /\ d.confirmed = n
              /\ d.table = IF i = 1 THEN t ELSE c.table
              /\ \A e \in 1 .. L : d.entry[e].chain =
                         IF i > 1 /\ e = b THEN next
                         ELSE IF e = id THEN INVALID_ENTRY ELSE c.entry[e].chain
  <2>1. CASE i = 1
    BY <1>11, <1>14, <2>1
  <2>2. CASE i > 1
    BY <1>11, <1>12, <1>14, <2>2
  <2> QED BY <1>13, <1>18, <2>1, <2>2
<1> QED BY <1>15, <1>16, <1>17, <1>18, Zenon DEF IsUnlinked, d, i, bucket, slot, next, t, n, b

(***************************************************************************)
(* The account.                                                            *)
(***************************************************************************)
WithModel(c) == {id \in Live(c) : c.entry[id].model}

LEMMA LiveIs ==
  ASSUME NEW K, NEW L \in Nat, NEW c \in Caches(K, L)
  PROVE  /\ Live(c) = {e \in 1 .. L : ~ c.entry[e].free} /\ Live(c) \subseteq 1 .. L
         /\ Confirmed(c) = {e \in Live(c) : c.entry[e].model \/ c.entry[e].zero}
         /\ IsFiniteSet(Live(c)) /\ Cardinality(Live(c)) \in Nat
<1>1. Ids(c) = 1 .. L
  BY CacheIds
<1>2. Live(c) = {e \in 1 .. L : ~ c.entry[e].free} /\ Live(c) \subseteq 1 .. L
  BY <1>1 DEF Live
<1>3. IsFiniteSet(1 .. L)
  BY IntervalFinite
<1>4. IsFiniteSet(Live(c)) /\ Cardinality(Live(c)) \in Nat
  BY <1>2, <1>3, FS_Subset, FS_CardinalityType
<1> QED BY <1>2, <1>4 DEF Confirmed

Account(c) ==
    /\ c.memory = Cardinality(Live(c)) + Cardinality(WithModel(c))
    /\ ToSet(c.freeSlots) = Ids(c) \ Live(c)
    /\ IsInjective(c.freeSlots)

LEMMA AppendSet ==
  ASSUME NEW S, NEW s \in Seq(S), NEW x \in S
  PROVE  /\ ToSet(Append(s, x)) = ToSet(s) \cup {x}
         /\ IsInjective(s) /\ x \notin ToSet(s) => IsInjective(Append(s, x))
<1> DEFINE u == Append(s, x)
           n == Len(s)
<1>1. n \in Nat /\ DOMAIN s = 1 .. n /\ DOMAIN u = 1 .. n + 1 /\ u[n + 1] = x /\ \A i \in 1 .. n : u[i] = s[i]
  BY AppendIs
<1> HIDE DEF u, n
<1>2. \A i \in 1 .. n + 1 : i \in 1 .. n \/ i = n + 1
  BY <1>1
<1>3. (\A i \in 1 .. n : i \in 1 .. n + 1 /\ i # n + 1) /\ n + 1 \in 1 .. n + 1
  BY <1>1
<1>4. ToSet(u) = ToSet(s) \cup {x}
  <2>1. ToSet(u) = {u[i] : i \in 1 .. n + 1} /\ ToSet(s) = {s[i] : i \in 1 .. n}
    BY <1>1 DEF ToSet
  <2>2. \A i \in 1 .. n + 1 : u[i] \in ToSet(s) \cup {x}
    BY <1>1, <1>2, <2>1
  <2>3. \A i \in 1 .. n : s[i] \in ToSet(u)
    BY <1>1, <1>3, <2>1
  <2>4. x \in ToSet(u)
    BY <1>1, <1>3, <2>1
  <2> QED BY <2>1, <2>2, <2>3, <2>4
<1>5. ASSUME IsInjective(s), x \notin ToSet(s) PROVE IsInjective(u)
  <2>1. \A i \in 1 .. n : s[i] # x
    BY <1>1, <1>5 DEF ToSet
  <2>2. \A i, j \in 1 .. n : s[i] = s[j] => i = j
    BY <1>1, <1>5 DEF IsInjective
  <2>3. \A i, j \in 1 .. n + 1 : u[i] = u[j] => i = j
    BY <1>1, <1>2, <2>1, <2>2
  <2> QED BY <1>1, <2>3 DEF IsInjective
<1> QED BY <1>4, <1>5 DEF u

LEMMA FrontSet ==
  ASSUME NEW S, NEW s \in Seq(S), s # <<>>, IsInjective(s)
  PROVE  /\ IsInjective(Front(s)) /\ Last(s) \in ToSet(s)
         /\ ToSet(Front(s)) = ToSet(s) \ {Last(s)}
<1> DEFINE u == Front(s)
           n == Len(s)
<1>1. n \in Nat \ {0} /\ DOMAIN s = 1 .. n /\ DOMAIN u = 1 .. n - 1 /\ \A i \in 1 .. n - 1 : u[i] = s[i]
  BY FrontIs
<1>2. Last(s) = s[n]
  BY DEF Last
<1> HIDE DEF u, n
<1>3. \A i \in 1 .. n : i \in 1 .. n - 1 \/ i = n
  BY <1>1
<1>4. (\A i \in 1 .. n - 1 : i \in 1 .. n /\ i # n) /\ n \in 1 .. n
  BY <1>1
<1>5. \A i, j \in 1 .. n : s[i] = s[j] => i = j
  BY <1>1 DEF IsInjective
<1>6. IsInjective(u)
  BY <1>1, <1>4, <1>5 DEF IsInjective
<1>7. ToSet(u) = {u[i] : i \in 1 .. n - 1} /\ ToSet(s) = {s[i] : i \in 1 .. n}
  BY <1>1 DEF ToSet
<1>8. \A i \in 1 .. n - 1 : u[i] \in ToSet(s) /\ u[i] # s[n]
  BY <1>1, <1>4, <1>5, <1>7
<1>9. \A i \in 1 .. n : s[i] # s[n] => s[i] \in ToSet(u)
  BY <1>1, <1>3, <1>7
<1> QED BY <1>2, <1>4, <1>6, <1>7, <1>8, <1>9 DEF u

(* What is in use, holds a count and is free when nothing of it changes.   *)
LEMMA SameUseSets ==
  ASSUME NEW K, NEW L \in Nat, NEW c \in Caches(K, L), NEW d \in Caches(K, L), SameUse(c, d, 1 .. L)
  PROVE  /\ Live(d) = Live(c) /\ Confirmed(d) = Confirmed(c) /\ WithModel(d) = WithModel(c)
         /\ Evictable(d) = Evictable(c)
<1>2. Live(c) \subseteq 1 .. L /\ Live(c) = {e \in 1 .. L : ~ c.entry[e].free} /\ Live(d) = {e \in 1 .. L : ~ d.entry[e].free}
  BY LiveIs, Zenon
<1>1. Live(d) = Live(c)
  BY <1>2 DEF SameUse
<1>3. Confirmed(d) = Confirmed(c) /\ WithModel(d) = WithModel(c)
  BY <1>1, <1>2 DEF SameUse, Confirmed, WithModel
<1>4. Confirmed(c) \subseteq 1 .. L
  BY <1>2 DEF Confirmed
<1> QED BY <1>1, <1>3, <1>4 DEF SameUse, Evictable

LEMMA SameAccount ==
  ASSUME NEW K, NEW L \in Nat, NEW c \in Caches(K, L), NEW d \in Caches(K, L),
         SameUse(c, d, 1 .. L), d.memory = c.memory, d.freeSlots = c.freeSlots, Account(c)
  PROVE  Account(d)
<1>1. Ids(d) = Ids(c)
  BY CacheIds
<1> QED BY <1>1, SameUseSets DEF Account

LEMMA FreedSets ==
  ASSUME NEW K, NEW L \in Nat, NEW c \in Caches(K, L), NEW d \in Caches(K, L),
         NEW id \in 1 .. L, IsFreed(c, d, id, L)
  PROVE  /\ Live(d) = Live(c) \ {id} /\ Confirmed(d) = Confirmed(c) \ {id}
         /\ WithModel(d) = WithModel(c) \ {id} /\ Evictable(d) = Evictable(c) \ {id}
<1>1. (\A e \in 1 .. L : e # id => d.entry[e] = c.entry[e]) /\ d.entry[id].free
  BY DEF IsFreed
<1>2. Live(d) = Live(c) \ {id} /\ Live(c) \subseteq 1 .. L
  BY <1>1, LiveIs
<1>3. Confirmed(d) = Confirmed(c) \ {id} /\ WithModel(d) = WithModel(c) \ {id}
  BY <1>1, <1>2 DEF Confirmed, WithModel
<1> QED BY <1>1, <1>2, <1>3 DEF Evictable, Confirmed

LEMMA FreedAccount ==
  ASSUME NEW K, NEW L \in Nat, NEW c \in Caches(K, L), NEW d \in Caches(K, L),
         NEW id \in Live(c), IsFreed(c, d, id, L), Account(c)
  PROVE  Account(d)
<1>1. id \in 1 .. L /\ Ids(c) = 1 .. L /\ Ids(d) = 1 .. L /\ IsFiniteSet(Live(c))
  BY LiveIs, CacheIds
<1>2. Live(d) = Live(c) \ {id} /\ WithModel(d) = WithModel(c) \ {id}
  BY <1>1, FreedSets
<1>3. Cardinality(Live(d)) = Cardinality(Live(c)) - 1 /\ Cardinality(Live(c)) \in Nat
  BY <1>1, <1>2, FS_RemoveElement, LiveIs
<1>4. IsFiniteSet(WithModel(c)) /\ Cardinality(WithModel(c)) \in Nat
  <2>1. WithModel(c) \subseteq Live(c)
    BY DEF WithModel
  <2> QED BY <1>1, <2>1, FS_Subset, FS_CardinalityType
<1>5. Cardinality(WithModel(d)) = Cardinality(WithModel(c)) - (IF c.entry[id].model THEN 1 ELSE 0)
  <2>1. CASE c.entry[id].model
    <3>1. id \in WithModel(c)
      BY <2>1 DEF WithModel
    <3> QED BY <1>2, <1>4, <2>1, <3>1, FS_RemoveElement
  <2>2. CASE ~ c.entry[id].model
    <3>1. WithModel(d) = WithModel(c)
      BY <1>2, <2>2 DEF WithModel
    <3> QED BY <1>4, <2>2, <3>1
  <2> QED BY <2>1, <2>2
<1>6. d.memory = c.memory - (IF c.entry[id].model THEN 2 ELSE 1)
  BY DEF IsFreed, SizeInBytes
<1>7. d.memory = Cardinality(Live(d)) + Cardinality(WithModel(d))
  <2>1. c.memory = Cardinality(Live(c)) + Cardinality(WithModel(c))
    BY DEF Account
  <2> QED BY <1>3, <1>4, <1>5, <1>6, <2>1
<1>8. c.freeSlots \in Seq(1 .. L) /\ d.freeSlots = Append(c.freeSlots, id)
  BY DEF Caches, IsFreed
<1>9. id \notin ToSet(c.freeSlots) /\ IsInjective(c.freeSlots) /\ ToSet(c.freeSlots) = (1 .. L) \ Live(c)
  BY <1>1 DEF Account
<1>10. IsInjective(d.freeSlots) /\ ToSet(d.freeSlots) = (1 .. L) \ Live(d)
  <2>1. ToSet(d.freeSlots) = ToSet(c.freeSlots) \cup {id} /\ IsInjective(d.freeSlots)
    BY <1>1, <1>8, <1>9, AppendSet
  <2> QED BY <1>1, <1>2, <1>9, <2>1
<1> QED BY <1>1, <1>7, <1>10 DEF Account

Blank(c) == \A e \in Ids(c) : c.entry[e].free => IsBlank(c.entry[e])

(* Created(c, comp) is d, with the new entry id.                           *)
IsCreated(c, d, id, comp, L, M) ==
    /\ id \in 1 .. M /\ id \notin Live(c) /\ 1 .. M = 1 .. L \cup {id}
    /\ \A e \in 1 .. L : e # id => d.entry[e] = c.entry[e]
    /\ d.entry[id].comp = comp /\ d.entry[id].created = c.clock
    /\ ~ d.entry[id].free /\ ~ d.entry[id].zero /\ ~ d.entry[id].delete /\ IsBlank(d.entry[id])
    /\ d.entry[id].chain = IF id \in 1 .. L THEN c.entry[id].chain ELSE INVALID_ENTRY
    /\ d.clock = c.clock + 1 /\ d.memory = c.memory + 1
    /\ d.table = c.table /\ d.confirmed = c.confirmed
    /\ ToSet(d.freeSlots) = ToSet(c.freeSlots) \ {id} /\ IsInjective(d.freeSlots)

LEMMA CreatedDoes ==
  ASSUME NEW K, Hashed(K), NEW L \in Nat, NEW c \in Caches(K, L), NEW comp \in K, Account(c), Blank(c)
  PROVE  IsCreated(c, Created(c, comp), AllocId(c), comp, L, Grown(c, L))
<1> DEFINE M == Grown(c, L)
           a == AllocEntry(c)
           id == AllocId(c)
           d == Created(c, comp)
<1>1. /\ M \in Nat /\ L <= M /\ id \in 1 .. M /\ a \in Caches(K, M)
      /\ a = [c EXCEPT !.entry = a.entry, !.freeSlots = a.freeSlots]
      /\ \A e \in 1 .. L : a.entry[e] = c.entry[e]
      /\ c.freeSlots = <<>> => id = L + 1 /\ a.entry[L + 1] = FreshEntry /\ a.freeSlots = <<>>
      /\ c.freeSlots # <<>> => id = Last(c.freeSlots) /\ a.freeSlots = Front(c.freeSlots)
  <2>1. M \in Nat /\ L <= M /\ id \in 1 .. M /\ a \in Caches(K, M) /\ IsAlloc(c, a, id, L)
    BY AllocType, Zenon
  <2> HIDE DEF M, a, id
  <2> QED BY <2>1 DEF IsAlloc
<1>2. c.freeSlots \in Seq(1 .. L) /\ IsInjective(c.freeSlots) /\ ToSet(c.freeSlots) = (1 .. L) \ Live(c)
  <2>1. Ids(c) = 1 .. L
    BY CacheIds
  <2> QED BY <2>1 DEF Account, Caches
<1>3. M = IF c.freeSlots = <<>> THEN L + 1 ELSE L
  BY DEF Grown
<1>4. a.clock = c.clock /\ a.memory = c.memory /\ a.table = c.table /\ a.confirmed = c.confirmed
  BY <1>1 DEF Caches
<1> HIDE DEF M, a, id
<1>5. Live(c) \subseteq 1 .. L /\ Ids(c) = 1 .. L /\ Live(c) = {e \in 1 .. L : ~ c.entry[e].free}
  BY LiveIs, CacheIds, ZenonT(60)
<1>6. /\ id \notin Live(c) /\ 1 .. M = 1 .. L \cup {id} /\ IsBlank(a.entry[id])
      /\ ToSet(a.freeSlots) = ToSet(c.freeSlots) \ {id} /\ IsInjective(a.freeSlots)
      /\ a.entry[id].chain = IF id \in 1 .. L THEN c.entry[id].chain ELSE INVALID_ENTRY
  <2>1. CASE c.freeSlots = <<>>
    <3>1. id = L + 1 /\ M = L + 1 /\ a.entry[id] = FreshEntry /\ a.freeSlots = <<>>
      BY <1>1, <1>3, <2>1
    <3>2. id \notin 1 .. L /\ 1 .. M = 1 .. L \cup {id}
      BY <3>1
    <3>3. IsBlank(FreshEntry) /\ FreshEntry.chain = INVALID_ENTRY
      BY DEF IsBlank, FreshEntry
    <3>4. ToSet(<<>>) = {} /\ IsInjective(<<>>)
      BY DEF ToSet, IsInjective
    <3> QED BY <1>5, <2>1, <3>1, <3>2, <3>3, <3>4
  <2>2. CASE c.freeSlots # <<>>
    <3>1. id = Last(c.freeSlots) /\ a.freeSlots = Front(c.freeSlots) /\ M = L
      BY <1>1, <1>3, <2>2
    <3>2. /\ IsInjective(Front(c.freeSlots)) /\ Last(c.freeSlots) \in ToSet(c.freeSlots)
          /\ ToSet(Front(c.freeSlots)) = ToSet(c.freeSlots) \ {Last(c.freeSlots)}
      BY <1>2, <2>2, FrontSet, Zenon
    <3>3. id \in 1 .. L /\ id \notin Live(c)
      BY <1>2, <3>1, <3>2
    <3>4. IsBlank(a.entry[id])
      BY <1>1, <1>5, <3>3 DEF Blank
    <3>5. 1 .. M = 1 .. L \cup {id}
      BY <3>1, <3>3
    <3>6. a.entry[id].chain = c.entry[id].chain
      BY <1>1, <3>3
    <3> QED BY <3>1, <3>2, <3>3, <3>4, <3>5, <3>6
  <2> QED BY <2>1, <2>2
<1> DEFINE e == [a.entry[id] EXCEPT !.comp = comp, !.zero = FALSE, !.delete = FALSE, !.used = 1,
                                    !.free = FALSE, !.created = a.clock]
           f == [a.entry EXCEPT ![id] = e]
           k == a.clock + 1
           m == a.memory + 1
<1>7. d = [a EXCEPT !.entry = f, !.clock = k, !.memory = m]
  BY <1>1 DEF Created, Caches, a, id
<1>8. /\ e.comp = comp /\ e.created = a.clock /\ ~ e.free /\ ~ e.zero /\ ~ e.delete /\ IsBlank(e)
      /\ e.chain = a.entry[id].chain
  <2>1. ASSUME NEW x \in Entries(K, M), NEW t, IsBlank(x)
        PROVE  LET y == [x EXCEPT !.comp = comp, !.zero = FALSE, !.delete = FALSE, !.used = 1,
                                  !.free = FALSE, !.created = t]
               IN  /\ y.comp = comp /\ y.created = t /\ ~ y.free /\ ~ y.zero /\ ~ y.delete /\ IsBlank(y)
                   /\ y.chain = x.chain
    BY <2>1 DEF Entries, IsBlank
  <2>2. a.entry[id] \in Entries(K, M)
    BY <1>1 DEF Caches
  <2> QED BY <1>6, <2>1, <2>2
<1> HIDE DEF e, k, m
<1>9. f[id] = e /\ \A x \in 1 .. L : x # id => f[x] = a.entry[x]
  <2>1. a.entry \in [1 .. M -> Entries(K, M)]
    BY <1>1 DEF Caches
  <2>2. \A x \in 1 .. L : x \in 1 .. M
    BY <1>6
  <2> QED BY <1>1, <2>1, <2>2
<1> HIDE DEF f
<1>10. d.entry = f /\ d.clock = k /\ d.memory = m /\ d.freeSlots = a.freeSlots /\ d.table = a.table /\ d.confirmed = a.confirmed
  BY <1>1, <1>7 DEF Caches
<1> HIDE DEF d
<1>11. IsCreated(c, d, id, comp, L, M)
  BY <1>1, <1>4, <1>6, <1>8, <1>9, <1>10 DEF IsCreated, k, m
<1> QED BY <1>11 DEF d, id, M

LEMMA CreatedSets ==
  ASSUME NEW K, NEW L \in Nat, NEW c \in Caches(K, L), NEW M \in Nat, NEW d \in Caches(K, M), NEW id, NEW comp,
         IsCreated(c, d, id, comp, L, M)
  PROVE  /\ Live(d) = Live(c) \cup {id} /\ Confirmed(d) = Confirmed(c)
         /\ WithModel(d) = WithModel(c) /\ Evictable(d) = Evictable(c)
<1>1. /\ id \in 1 .. M /\ id \notin Live(c) /\ 1 .. M = 1 .. L \cup {id}
      /\ \A e \in 1 .. L : e # id => d.entry[e] = c.entry[e]
      /\ ~ d.entry[id].free /\ ~ d.entry[id].zero /\ ~ d.entry[id].model
  BY DEF IsCreated, IsBlank
<1>2. /\ Live(c) \subseteq 1 .. L /\ Live(c) = {e \in 1 .. L : ~ c.entry[e].free}
      /\ Live(d) = {e \in 1 .. M : ~ d.entry[e].free}
  BY LiveIs, Zenon
<1>3. Live(d) = Live(c) \cup {id}
  BY <1>1, <1>2
<1>4. \A e \in Live(c) : e # id /\ d.entry[e] = c.entry[e]
  BY <1>1, <1>2
<1>5. Confirmed(d) = Confirmed(c) /\ WithModel(d) = WithModel(c)
  BY <1>1, <1>3, <1>4 DEF Confirmed, WithModel
<1>6. Confirmed(c) \subseteq Live(c)
  BY DEF Confirmed
<1> QED BY <1>3, <1>4, <1>5, <1>6 DEF Evictable

LEMMA CreatedAccount ==
  ASSUME NEW K, NEW L \in Nat, NEW c \in Caches(K, L), NEW M \in Nat, NEW d \in Caches(K, M), NEW id, NEW comp,
         IsCreated(c, d, id, comp, L, M), Account(c)
  PROVE  Account(d)
<1>1. Live(d) = Live(c) \cup {id} /\ WithModel(d) = WithModel(c)
  BY CreatedSets
<1>2. id \notin Live(c) /\ 1 .. M = 1 .. L \cup {id} /\ d.memory = c.memory + 1
      /\ ToSet(d.freeSlots) = ToSet(c.freeSlots) \ {id} /\ IsInjective(d.freeSlots)
  BY DEF IsCreated
<1>3. Ids(c) = 1 .. L /\ Ids(d) = 1 .. M /\ IsFiniteSet(Live(c)) /\ Cardinality(Live(c)) \in Nat
  BY CacheIds, LiveIs
<1>4. Cardinality(Live(d)) = Cardinality(Live(c)) + 1
  BY <1>1, <1>2, <1>3, FS_AddElement
<1>5. Cardinality(WithModel(c)) \in Nat
  <2>1. WithModel(c) \subseteq Live(c)
    BY DEF WithModel
  <2> QED BY <1>3, <2>1, FS_Subset, FS_CardinalityType
<1>6. /\ c.memory = Cardinality(Live(c)) + Cardinality(WithModel(c))
      /\ ToSet(c.freeSlots) = (1 .. L) \ Live(c)
  BY <1>3 DEF Account
<1>7. d.memory = Cardinality(Live(d)) + Cardinality(WithModel(d))
  BY <1>1, <1>2, <1>3, <1>4, <1>5, <1>6
<1>8. ToSet(d.freeSlots) = (1 .. M) \ Live(d)
  BY <1>1, <1>2, <1>6
<1> QED BY <1>2, <1>3, <1>7, <1>8 DEF Account

(***************************************************************************)
(* removeFromDescendantsTree().                                            *)
(***************************************************************************)

(* d is c with the children of id in its place in the list of its father,  *)
(* where id was at i.                                                      *)
IsAdopted(c, d, id, L) ==
    LET father == c.entry[id].father
        kids == Children(c, id)
        after == c.entry[id].next
        replacement == IF kids = <<>> THEN after ELSE Head(kids)
        siblings == Children(c, father)
        i == Place(siblings, id)
    IN  /\ SameUse(c, d, 1 .. L) /\ SameBooks(c, d) /\ SameTable(c, d, 1 .. L)
        /\ \A e \in 1 .. L :
             /\ d.entry[e].father = IF e \in ToSet(kids) THEN father ELSE c.entry[e].father
             /\ e # id => d.entry[e].first = IF i = 1 /\ e = father THEN replacement ELSE c.entry[e].first
             /\ d.entry[e].next = IF i # 1 /\ e = siblings[i - 1] THEN replacement
                                  ELSE IF e \in ToSet(kids) /\ e = Last(kids) THEN after
                                  ELSE c.entry[e].next

(* All but the links.                                                      *)
OnlyLinks(x, y) ==
    /\ y.comp = x.comp /\ y.created = x.created /\ y.model = x.model /\ y.zero = x.zero
    /\ y.delete = x.delete /\ y.free = x.free /\ y.chain = x.chain

(* The links.                                                              *)
LinksAre(y, father, first, next) == y.father = father /\ y.first = first /\ y.next = next

LEMMA RemoveFromTreeDoes ==
  ASSUME NEW K, Hashed(K), NEW L \in Nat, NEW c \in Caches(K, L), NEW id \in 1 .. L,
         c.entry[id].father \in 1 .. L, c.entry[id].father # id, id \in ToSet(Children(c, c.entry[id].father))
  PROVE  IsAdopted(c, RemoveFromDescendantsTree(c, id), id, L)
<1> DEFINE father == c.entry[id].father
           kids == Children(c, id)
           after == c.entry[id].next
           replacement == IF kids = <<>> THEN after ELSE Head(kids)
           siblings == Children(c, father)
           j == SelectInSeq(siblings, LAMBDA x : x = id)
           i == Place(siblings, id)
           f == [e \in Ids(c) |->
                    IF e \notin ToSet(kids) THEN c.entry[e]
                    ELSE [c.entry[e] EXCEPT !.father = father,
                                            !.next = IF e = Last(kids) THEN after ELSE c.entry[e].next]]
           g == [f EXCEPT ![id] = [f[id] EXCEPT !.first = INVALID_ENTRY]]
           b == siblings[i - 1]
           h == [g EXCEPT ![father] = [g[father] EXCEPT !.first = replacement]]
           k == [g EXCEPT ![b] = [g[b] EXCEPT !.next = replacement]]
           d == RemoveFromDescendantsTree(c, id)
<1>1. kids \in Seq(1 .. L) /\ siblings \in Seq(1 .. L)
  BY ChildrenType
<1>2. father \in 1 .. L /\ after \in Pointers(L) /\ INVALID_ENTRY \in Pointers(L) /\ father \in Pointers(L)
  BY DEF Caches, Entries, Pointers
<1>3. replacement \in Pointers(L)
  <2> HIDE DEF kids, after
  <2>1. kids # <<>> => Head(kids) \in 1 .. L
    BY <1>1
  <2> QED BY <1>2, <2>1 DEF Pointers
<1>4. j = i /\ i \in 1 .. Len(siblings) /\ (i # 1 => b \in 1 .. L)
  <2>0. id \in ToSet(siblings)
    OBVIOUS
  <2> HIDE DEF siblings
  <2>1. j = i
    BY PlaceIs, Zenon
  <2> HIDE DEF j
  <2>2. i \in 0 .. Len(siblings) /\ i # 0
    BY <1>1, <2>0, PlaceOf
  <2> HIDE DEF i
  <2> QED BY <1>1, <2>1, <2>2
<1>5. d = IF i = 1 THEN [c EXCEPT !.entry = h] ELSE [c EXCEPT !.entry = k]
  <2> DEFINE moved == [c EXCEPT !.entry = [e \in Ids(c) |->
                    IF e \notin ToSet(kids) THEN c.entry[e]
                    ELSE [c.entry[e] EXCEPT !.father = father,
                                            !.next = IF e = Last(kids) THEN after ELSE @]]]
             detached == [moved EXCEPT !.entry[id].first = INVALID_ENTRY]
  <2>1. d =
          IF j = 1 THEN [detached EXCEPT !.entry[father].first = replacement]
          ELSE [detached EXCEPT !.entry[siblings[j - 1]].next = replacement]
    BY Zenon DEF RemoveFromDescendantsTree
  <2> HIDE DEF i, j, siblings, replacement, d
  <2>2. moved = [c EXCEPT !.entry = f]
    <3> HIDE DEF kids, father, after
    <3> QED BY DEF Caches
  <2> HIDE DEF moved, f
  <2>3. detached = [c EXCEPT !.entry = g]
    BY <2>2 DEF Caches
  <2> HIDE DEF detached, g, father
  <2>4. [detached EXCEPT !.entry[father].first = replacement] = [c EXCEPT !.entry = h]
    BY <2>3 DEF Caches
  <2>5. [detached EXCEPT !.entry[b].next = replacement] = [c EXCEPT !.entry = k]
    BY <2>3 DEF Caches
  <2> QED BY <1>4, <2>1, <2>4, <2>5, Zenon
<1>6. c.entry \in [1 .. L -> Entries(K, L)] /\ Ids(c) = 1 .. L
  BY CacheIds DEF Caches
<1>7. father # id
  OBVIOUS
<1> HIDE DEF i, j, siblings, replacement, father, after, kids, d, b
<1> DEFINE M(x, e) == [x EXCEPT !.father = father, !.next = IF e = Last(kids) THEN after ELSE x.next]
           P(x, p) == [x EXCEPT !.first = p]
           Q(x, p) == [x EXCEPT !.next = p]
<1>8. \A e \in 1 .. L : f[e] = IF e \notin ToSet(kids) THEN c.entry[e] ELSE M(c.entry[e], e)
  BY <1>6
<1>9. ASSUME NEW x \in Entries(K, L)
      PROVE  /\ \A e \in 1 .. L : /\ M(x, e) \in Entries(K, L) /\ OnlyLinks(x, M(x, e))
                                  /\ LinksAre(M(x, e), father, x.first, IF e = Last(kids) THEN after ELSE x.next)
             /\ \A p \in Pointers(L) : /\ P(x, p) \in Entries(K, L) /\ OnlyLinks(x, P(x, p))
                                       /\ LinksAre(P(x, p), x.father, p, x.next)
                                       /\ Q(x, p) \in Entries(K, L) /\ OnlyLinks(x, Q(x, p))
                                       /\ LinksAre(Q(x, p), x.father, x.first, p)
  BY <1>2 DEF Entries, OnlyLinks, LinksAre
<1>10. \A x, y, z : OnlyLinks(x, x) /\ LinksAre(x, x.father, x.first, x.next)
                    /\ (OnlyLinks(x, y) /\ OnlyLinks(y, z) => OnlyLinks(x, z))
  BY DEF OnlyLinks, LinksAre
<1>11. f \in [1 .. L -> Entries(K, L)]
  <2>1. ASSUME NEW e \in 1 .. L PROVE f[e] \in Entries(K, L)
    <3> HIDE DEF M, P, Q, f
    <3>1. c.entry[e] \in Entries(K, L)
      BY <1>6
    <3> QED BY <1>8, <1>9, <3>1, Zenon
  <2> QED BY <1>6, <2>1
<1> HIDE DEF f
<1>12. g \in [1 .. L -> Entries(K, L)] /\ \A e \in 1 .. L : g[e] = IF e = id THEN P(f[e], INVALID_ENTRY) ELSE f[e]
  BY <1>2, <1>9, <1>11
<1> HIDE DEF g
<1>13. /\ \A e \in 1 .. L : h[e] = IF e = father THEN P(g[e], replacement) ELSE g[e]
       /\ i # 1 => \A e \in 1 .. L : k[e] = IF e = b THEN Q(g[e], replacement) ELSE g[e]
  BY <1>2, <1>4, <1>12
<1>14. /\ i = 1 => d.entry = h
       /\ i # 1 => d.entry = k
       /\ SameBooks(c, d) /\ d.table = c.table /\ d.confirmed = c.confirmed
  <2> HIDE DEF h, k
  <2>1. CASE i = 1
    <3>1. d = [c EXCEPT !.entry = h]
      BY <1>5, <2>1
    <3> QED BY <2>1, <3>1 DEF SameBooks, Caches
  <2>2. CASE i # 1
    <3>1. d = [c EXCEPT !.entry = k]
      BY <1>5, <2>2
    <3> QED BY <2>2, <3>1 DEF SameBooks, Caches
  <2> QED BY <2>1, <2>2
<1> HIDE DEF h, k, M, P, Q
<1>15. ASSUME NEW e \in 1 .. L
       PROVE  /\ OnlyLinks(c.entry[e], f[e])
              /\ LinksAre(f[e], IF e \in ToSet(kids) THEN father ELSE c.entry[e].father, c.entry[e].first,
                          IF e \in ToSet(kids) /\ e = Last(kids) THEN after ELSE c.entry[e].next)
  <2>1. c.entry[e] \in Entries(K, L)
    BY <1>6
  <2>2. CASE e \in ToSet(kids)
    BY <1>8, <1>9, <2>1, <2>2
  <2>3. CASE e \notin ToSet(kids)
    BY <1>8, <1>10, <2>3
  <2> QED BY <2>2, <2>3
<1>16. ASSUME NEW e \in 1 .. L
       PROVE  /\ OnlyLinks(f[e], g[e])
              /\ LinksAre(g[e], f[e].father, IF e = id THEN INVALID_ENTRY ELSE f[e].first, f[e].next)
  <2>1. f[e] \in Entries(K, L)
    BY <1>11
  <2>2. CASE e = id
    BY <1>2, <1>9, <1>12, <2>1, <2>2
  <2>3. CASE e # id
    BY <1>10, <1>12, <2>3
  <2> QED BY <2>2, <2>3
<1>17. ASSUME NEW e \in 1 .. L
       PROVE  /\ OnlyLinks(g[e], d.entry[e])
              /\ LinksAre(d.entry[e], g[e].father, IF i = 1 /\ e = father THEN replacement ELSE g[e].first,
                          IF i # 1 /\ e = b THEN replacement ELSE g[e].next)
  <2>1. g[e] \in Entries(K, L)
    BY <1>12
  <2>2. CASE i = 1 /\ e = father
    BY <1>3, <1>9, <1>13, <1>14, <2>1, <2>2
  <2>3. CASE i = 1 /\ e # father
    BY <1>10, <1>13, <1>14, <2>3
  <2>4. CASE i # 1 /\ e = b
    BY <1>3, <1>9, <1>13, <1>14, <2>1, <2>4
  <2>5. CASE i # 1 /\ e # b
    BY <1>10, <1>13, <1>14, <2>5
  <2> QED BY <2>2, <2>3, <2>4, <2>5
<1>18. ASSUME NEW e \in 1 .. L
       PROVE  /\ OnlyLinks(c.entry[e], d.entry[e])
              /\ d.entry[e].father = IF e \in ToSet(kids) THEN father ELSE c.entry[e].father
              /\ e # id => d.entry[e].first = IF i = 1 /\ e = father THEN replacement ELSE c.entry[e].first
              /\ d.entry[e].next = IF i # 1 /\ e = b THEN replacement
                                   ELSE IF e \in ToSet(kids) /\ e = Last(kids) THEN after
                                   ELSE c.entry[e].next
  BY <1>10, <1>15, <1>16, <1>17 DEF LinksAre
<1>19. SameUse(c, d, 1 .. L) /\ SameTable(c, d, 1 .. L)
  BY <1>14, <1>18 DEF SameUse, SameTable, OnlyLinks
<1> QED BY <1>14, <1>18, <1>19, Zenon DEF IsAdopted, d, i, siblings, replacement, father, after, kids, b

(***************************************************************************)
(* The tree of descendants.                                                *)
(***************************************************************************)
Kids(c, g) == {e \in Live(c) : c.entry[e].father = g}

(* The list of every entry is that of its children.                        *)
Listed(c) ==
    \A g \in Live(c) : ListOf(Ids(c), NextOf(c), c.entry[g].first, Children(c, g), Kids(c, g))

(* Every entry but those of O has an older father.                         *)
Rooted(c, O) ==
    /\ O \subseteq Live(c)
    /\ \A e \in O : c.entry[e].father = INVALID_ENTRY
    /\ \A e \in Live(c) \ O : /\ c.entry[e].father \in Live(c)
                              /\ c.entry[c.entry[e].father].created < c.entry[e].created
    /\ \A e \in Live(c) : c.entry[e].created < c.clock

LEMMA ChildrenAre ==
  ASSUME NEW K, NEW L \in Nat, NEW c \in Caches(K, L), NEW g \in 1 .. L, NEW s, NEW T,
         ListOf(1 .. L, NextOf(c), c.entry[g].first, s, T)
  PROVE  /\ Children(c, g) = s
         /\ ListOf(Ids(c), NextOf(c), c.entry[g].first, Children(c, g), T)
<1>1. NextOf(c) \in [1 .. L -> 1 .. L \cup {INVALID_ENTRY}]
  BY PointerTypes DEF Pointers
<1>2. IsFiniteSet(1 .. L) /\ INVALID_ENTRY \notin 1 .. L
  BY IntervalFinite
<1>3. Follow(NextOf(c), c.entry[g].first) = s
  BY <1>1, <1>2, FollowList, Zenon
<1>4. Ids(c) = 1 .. L
  BY CacheIds
<1> QED BY <1>3, <1>4, Zenon DEF Children

(* Evict(c, id) is d, as far as the tree goes.                             *)
IsEvicted(c, d, id, L) ==
    LET father == c.entry[id].father
    IN  /\ Live(d) = Live(c) \ {id} /\ d.clock = c.clock /\ d.entry[id].created = c.entry[id].created
        /\ \A e \in 1 .. L : e # id =>
             /\ d.entry[e].father = IF e \in Kids(c, id) THEN father ELSE c.entry[e].father
             /\ d.entry[e].comp = c.entry[e].comp /\ d.entry[e].created = c.entry[e].created
             /\ d.entry[e].model = c.entry[e].model /\ d.entry[e].zero = c.entry[e].zero
             /\ d.entry[e].delete = c.entry[e].delete /\ d.entry[e].free = c.entry[e].free
        /\ \A g \in Live(d) : g # father => Children(d, g) = Children(c, g)
        /\ \E a, b \in Seq(1 .. L) :
             /\ Children(c, father) = a \o (<<id>> \o b)
             /\ Children(d, father) = a \o (Children(c, id) \o b)

(* The entry is replaced by its children and reset.                        *)
LEMMA EvictTree ==
  ASSUME NEW K, NEW L \in Nat, NEW c \in Caches(K, L), NEW O, Rooted(c, O), Listed(c),
         NEW id \in Live(c) \ O,
         NEW d \in Caches(K, L), IsAdopted(c, d, id, L),
         NEW r \in Caches(K, L), SameLinks(d, r, 1 .. L), SameUse(d, r, 1 .. L), r.clock = d.clock,
         NEW x \in Caches(K, L), IsFreed(r, x, id, L)
  PROVE  Rooted(x, O) /\ Listed(x) /\ IsEvicted(c, x, id, L)
<1> DEFINE father == c.entry[id].father
           kids == Children(c, id)
           after == c.entry[id].next
           rep == IF kids = <<>> THEN after ELSE Head(kids)
           sib == Children(c, father)
           i == Place(sib, id)
           p == NextOf(c)
           q == NextOf(x)
           I == 1 .. L
<1>1. /\ Live(c) \subseteq I /\ Ids(c) = I /\ Ids(x) = I
      /\ father \in Live(c) /\ c.entry[father].created < c.entry[id].created /\ id \in Live(c)
  BY LiveIs, CacheIds, Zenon DEF Rooted
<1>2. father # id
  <2>1. \A e \in 1 .. L : c.entry[e].created \in Nat
    BY DEF Caches, Entries
  <2> QED BY <1>1, <2>1
<1>3. ListOf(I, p, c.entry[id].first, kids, Kids(c, id)) /\ ListOf(I, p, c.entry[father].first, sib, Kids(c, father))
  BY <1>1, Zenon DEF Listed
<1>4. /\ kids \in Seq(I) /\ IsInjective(kids) /\ Piece(p, c.entry[id].first, kids, INVALID_ENTRY) /\ ToSet(kids) = Kids(c, id)
      /\ sib \in Seq(I) /\ IsInjective(sib) /\ ToSet(sib) = Kids(c, father)
  BY <1>3, Zenon DEF ListOf
<1>5. id \in Kids(c, father)
  BY <1>1 DEF Kids
<1>6. i \in 1 .. Len(sib) /\ sib[i] = id
  <2> HIDE DEF sib
  <2>1. id \in ToSet(sib)
    BY <1>4, <1>5
  <2>2. i \in 0 .. Len(sib) /\ i # 0 /\ sib[i] = id
    BY <1>4, <2>1, PlaceOf
  <2> HIDE DEF i
  <2> QED BY <2>2
<1>7. i # 1 => sib[i - 1] \in Kids(c, father) /\ sib[i - 1] \in I /\ sib[i - 1] # id
  <2> HIDE DEF sib, i
  <2> SUFFICES ASSUME i # 1 PROVE sib[i - 1] \in Kids(c, father) /\ sib[i - 1] \in I /\ sib[i - 1] # id
    OBVIOUS
  <2>1. i - 1 \in 1 .. Len(sib) /\ i - 1 # i /\ DOMAIN sib = 1 .. Len(sib)
    BY <1>4, <1>6
  <2>2. sib[i - 1] \in ToSet(sib)
    BY <2>1 DEF ToSet
  <2>3. sib[i - 1] # id
    BY <1>4, <1>6, <2>1 DEF IsInjective
  <2>4. sib[i - 1] \in Kids(c, father)
    BY ONLY <1>4, <2>2
  <2>5. sib[i - 1] \in Live(c)
    BY ONLY <2>4 DEF Kids
  <2> QED BY ONLY <1>1, <2>3, <2>4, <2>5
<1>8. ASSUME NEW e \in I, e # id
      PROVE  /\ x.entry[e].father = IF e \in Kids(c, id) THEN father ELSE c.entry[e].father
             /\ x.entry[e].first = IF i = 1 /\ e = father THEN rep ELSE c.entry[e].first
             /\ x.entry[e].next = IF i # 1 /\ e = sib[i - 1] THEN rep
                                  ELSE IF e \in Kids(c, id) /\ e = Last(kids) THEN after
                                  ELSE c.entry[e].next
             /\ x.entry[e].comp = c.entry[e].comp /\ x.entry[e].created = c.entry[e].created
             /\ x.entry[e].model = c.entry[e].model /\ x.entry[e].zero = c.entry[e].zero
             /\ x.entry[e].delete = c.entry[e].delete /\ x.entry[e].free = c.entry[e].free
  <2>1. x.entry[e] = r.entry[e]
    BY <1>8, Zenon DEF IsFreed
  <2>2. /\ d.entry[e].father = IF e \in ToSet(kids) THEN father ELSE c.entry[e].father
        /\ d.entry[e].first = IF i = 1 /\ e = father THEN rep ELSE c.entry[e].first
        /\ d.entry[e].next = IF i # 1 /\ e = sib[i - 1] THEN rep
                                  ELSE IF e \in ToSet(kids) /\ e = Last(kids) THEN after
                                  ELSE c.entry[e].next
        /\ SameUse(c, d, I)
    BY <1>8, Zenon DEF IsAdopted
  <2>3. /\ r.entry[e].father = d.entry[e].father /\ r.entry[e].first = d.entry[e].first
        /\ r.entry[e].next = d.entry[e].next
    BY DEF SameLinks
  <2>4. /\ r.entry[e].comp = c.entry[e].comp /\ r.entry[e].created = c.entry[e].created
        /\ r.entry[e].model = c.entry[e].model /\ r.entry[e].zero = c.entry[e].zero
        /\ r.entry[e].delete = c.entry[e].delete /\ r.entry[e].free = c.entry[e].free
    BY <2>2 DEF SameUse
  <2> HIDE DEF sib, i, kids, rep, after, father
  <2> QED BY <1>4, <2>1, <2>2, <2>3, <2>4
<1>9. Live(x) = Live(c) \ {id} /\ x.clock = c.clock
  <2>1. x.entry[id].free /\ x.clock = r.clock
    BY DEF IsFreed
  <2>2. d.clock = c.clock
    BY DEF IsAdopted, SameBooks
  <2>3. Live(c) = {e \in 1 .. L : ~ c.entry[e].free} /\ Live(x) = {e \in 1 .. L : ~ x.entry[e].free}
    BY ONLY LiveIs, L \in Nat, c \in Caches(K, L), x \in Caches(K, L), Zenon
  <2>4. \A e \in I : e # id => x.entry[e].free = c.entry[e].free
    BY <1>8
  <2> QED BY <2>1, <2>2, <2>3, <2>4
<1>10. p \in [I -> Pointers(L)] /\ q \in [I -> Pointers(L)]
       /\ \A e \in I : p[e] = c.entry[e].next /\ q[e] = x.entry[e].next
  BY PointerTypes
<1> HIDE DEF sib, i, kids, rep, after, p, q
<1>11. Kids(c, id) \cap Kids(c, father) = {} /\ id \notin Kids(c, id)
  BY <1>2 DEF Kids
<1>12. \A e \in I : e # id => q[e] = IF i # 1 /\ e = sib[i - 1] THEN rep
                                  ELSE IF e \in Kids(c, id) /\ e = Last(kids) THEN after
                                  ELSE p[e]
  BY <1>8, <1>10
<1>13. Piece(q, rep, kids, p[id])
  <2>1. p[id] = after
    BY <1>1, <1>10 DEF after
  <2>2. CASE kids = <<>>
    <3>1. rep = after /\ Len(kids) = 0
      BY <2>2 DEF rep
    <3> QED BY <2>1, <2>2, <3>1 DEF Piece
  <2>3. CASE kids # <<>>
    <3>1. Len(kids) \in 1 .. Len(kids) /\ DOMAIN kids = 1 .. Len(kids) /\ Head(kids) = kids[1]
      BY <1>4, <2>3
    <3>2. Last(kids) = kids[Len(kids)] /\ kids[Len(kids)] \in ToSet(kids)
      BY <3>1 DEF Last, ToSet
    <3>3. rep = kids[1]
      BY <2>3, <3>1 DEF rep
    <3>4. Piece(p, rep, kids, INVALID_ENTRY)
      BY <1>4, <2>3, <3>3 DEF Piece
    <3>5. \A e \in ToSet(kids) : e \in I /\ e # id /\ (i # 1 => e # sib[i - 1])
      BY <1>1, <1>4, <1>7, <1>11 DEF Kids
    <3>6. q[kids[Len(kids)]] = after
      BY <1>4, <1>12, <3>2, <3>5
    <3>7. \A e \in ToSet(kids) : e # kids[Len(kids)] => q[e] = p[e]
      BY <1>12, <3>2, <3>5
    <3> QED BY <1>4, <2>1, <2>3, <3>4, <3>6, <3>7, PieceEnd, Zenon
  <2> QED BY <2>2, <2>3
<1>14. ASSUME NEW g \in Live(x), g # father
       PROVE  ListOf(I, q, x.entry[g].first, Children(c, g), Kids(x, g))
  <2>1. g \in Live(c) /\ g # id /\ g \in I
    BY <1>1, <1>9
  <2>2. ListOf(I, p, c.entry[g].first, Children(c, g), Kids(c, g))
    BY <1>1, <2>1, Zenon DEF Listed, p
  <2>3. Kids(x, g) = Kids(c, g)
    <3>1. \A e \in Live(c) : e \in I
      BY <1>1
    <3> QED BY <1>8, <1>9, <1>14, <2>1, <3>1, ZenonT(60) DEF Kids
  <2>4. \A e \in Kids(c, g) : e \in I /\ e # id /\ e \notin Kids(c, id) /\ e \notin Kids(c, father)
    BY <1>1, <1>14, <2>1 DEF Kids
  <2>5. \A e \in Kids(c, g) : q[e] = p[e]
    BY <1>7, <1>12, <2>4
  <2>6. x.entry[g].first = c.entry[g].first
    BY <1>8, <1>14, <2>1
  <2>7. ListOf(I, q, c.entry[g].first, Children(c, g), Kids(c, g))
    <3>1. I \subseteq I
      OBVIOUS
    <3> HIDE DEF I
    <3> QED BY ONLY <2>2, <2>5, <3>1, ListFrame, Zenon
  <2> QED BY ONLY <2>3, <2>6, <2>7
<1>15. father \in Live(x) /\ father \in I
  BY <1>1, <1>2, <1>9
<1>16. \E a, b \in Seq(I) : /\ sib = a \o (<<id>> \o b)
                            /\ ListOf(I, q, x.entry[father].first, a \o (kids \o b), Kids(x, father))
  <2>1. x.entry[father].first = IF i = 1 THEN rep ELSE c.entry[father].first
    BY <1>2, <1>8, <1>15
  <2>2. Kids(x, father) = (Kids(c, father) \ {id}) \cup Kids(c, id)
    <3>1. \A e \in Live(c) : e \in I
      BY <1>1
    <3> QED BY <1>8, <1>9, <1>11, <3>1 DEF Kids
  <2>3. i # 1 => q[sib[i - 1]] = rep
    BY <1>7, <1>12
  <2>4. \A e \in Kids(c, father) : e # id /\ (i # 1 => e # sib[i - 1]) => q[e] = p[e]
    <3>1. \A e \in Kids(c, father) : e \in I /\ e \notin Kids(c, id)
      BY <1>1, <1>11 DEF Kids
    <3> QED BY <1>12, <3>1
  <2>5. Piece(q, rep, kids, p[sib[i]]) /\ sib[i] = id
    BY <1>6, <1>13
  <2> DEFINE start == c.entry[father].first
             from == x.entry[father].first
             T == Kids(c, father)
             U == Kids(c, id)
  <2>6. /\ ListOf(I, p, start, sib, T) /\ kids \in Seq(I) /\ IsInjective(kids) /\ ToSet(kids) = U
        /\ U \cap T = {} /\ from = IF i = 1 THEN rep ELSE start
    BY <1>3, <1>4, <1>11, <2>1 DEF sib, kids, p
  <2> HIDE DEF start, from, T, U
  <2>7. \A e \in T : e # sib[i] /\ (i # 1 => e # sib[i - 1]) => q[e] = p[e]
    BY <2>4, <2>5 DEF T
  <2>8. \E a, b \in Seq(I) : /\ sib = a \o (<<sib[i]>> \o b)
                             /\ ListOf(I, q, from, a \o (kids \o b), (T \ {sib[i]}) \cup U)
    <3> HIDE DEF I, father
    <3>1. Replaces(I, p, q, start, from, rep, sib, i, T, kids, U)
      BY ONLY <1>6, <2>3, <2>5, <2>6, <2>7 DEF Replaces
    <3> QED BY ONLY <3>1, Splice, ZenonT(60)
  <2> QED BY <2>2, <2>5, <2>8 DEF T, U, from
<1>17. /\ \A g \in Live(x) : g # father => Children(x, g) = Children(c, g)
       /\ \A g \in Live(x) : g # father => ListOf(Ids(x), q, x.entry[g].first, Children(x, g), Kids(x, g))
  <2>1. \A g \in Live(x) : g \in I
    BY <1>1, <1>9
  <2> QED BY <1>14, <2>1, ChildrenAre, ZenonT(60) DEF q
<1>18. PICK a \in Seq(I), b \in Seq(I) :
         sib = a \o (<<id>> \o b) /\ ListOf(I, q, x.entry[father].first, a \o (kids \o b), Kids(x, father))
  BY <1>16, Zenon
<1>19. Children(x, father) = a \o (kids \o b) /\ ListOf(Ids(x), q, x.entry[father].first, Children(x, father), Kids(x, father))
  <2> DEFINE s == a \o (kids \o b)
  <2>1. ListOf(1 .. L, NextOf(x), x.entry[father].first, s, Kids(x, father))
    BY <1>18, Zenon DEF q
  <2>2. father \in 1 .. L
    BY <1>15
  <2> HIDE DEF s, father
  <2>3. Children(x, father) = s /\ ListOf(Ids(x), NextOf(x), x.entry[father].first, Children(x, father), Kids(x, father))
    BY ONLY <2>1, <2>2, ChildrenAre, L \in Nat, x \in Caches(K, L), Zenon
  <2> QED BY <2>3 DEF s, q
<1>20. Listed(x)
  BY <1>17, <1>19, Zenon DEF Listed, q
<1>21. Rooted(x, O)
  <2>1. O \subseteq Live(x) /\ \A e \in O : e \in I /\ e # id
    BY <1>1, <1>9 DEF Rooted
  <2>2. \A e \in O : x.entry[e].father = INVALID_ENTRY
    <3>1. \A e \in O : e \notin Kids(c, id)
      <4>1. \A e \in O : c.entry[e].father = INVALID_ENTRY
        BY DEF Rooted
      <4>2. id # INVALID_ENTRY
        BY <1>1 DEF INVALID_ENTRY
      <4> QED BY <4>1, <4>2 DEF Kids
    <3> QED BY <1>8, <2>1, <3>1 DEF Rooted
  <2>3. ASSUME NEW e \in Live(x) \ O
        PROVE  x.entry[e].father \in Live(x) /\ x.entry[x.entry[e].father].created < x.entry[e].created
    <3>1. e \in Live(c) \ O /\ e # id /\ e \in I
      BY <1>1, <1>9
    <3>2. c.entry[e].father \in Live(c) /\ c.entry[c.entry[e].father].created < c.entry[e].created
      BY <3>1 DEF Rooted
    <3>3. \A k \in I : c.entry[k].created \in Nat
      BY DEF Caches, Entries
    <3>4. CASE e \in Kids(c, id)
      <4>1. c.entry[e].father = id
        BY <3>4 DEF Kids
      <4>2. x.entry[e].father = father
        BY <1>8, <3>1, <3>4
      <4>3. c.entry[father].created < c.entry[e].created
        BY <1>1, <1>15, <3>1, <3>2, <3>3, <4>1
      <4>4. x.entry[father].created = c.entry[father].created /\ x.entry[e].created = c.entry[e].created
        BY <1>2, <1>8, <1>15, <3>1
      <4> QED BY ONLY <1>15, <4>2, <4>3, <4>4
    <3>5. CASE e \notin Kids(c, id)
      <4>1. c.entry[e].father # id
        BY <3>1, <3>5 DEF Kids
      <4>2. x.entry[e].father = c.entry[e].father
        BY <1>8, <3>1, <3>5
      <4>3. c.entry[e].father \in I /\ c.entry[e].father \in Live(x)
        BY <1>1, <1>9, <3>2, <4>1
      <4>4. /\ x.entry[c.entry[e].father].created = c.entry[c.entry[e].father].created
            /\ x.entry[e].created = c.entry[e].created
        BY <1>8, <3>1, <4>1, <4>3
      <4> QED BY ONLY <3>2, <4>2, <4>3, <4>4
    <3> QED BY <3>4, <3>5
  <2>4. ASSUME NEW e \in Live(x) PROVE x.entry[e].created < x.clock
    <3>1. e \in Live(c) /\ e # id /\ e \in I
      BY <1>1, <1>9
    <3> QED BY <1>8, <1>9, <3>1 DEF Rooted
  <2> QED BY <2>1, <2>2, <2>3, <2>4 DEF Rooted
<1>22. IsEvicted(c, x, id, L)
  <2>1. \E u, v \in Seq(I) : sib = u \o (<<id>> \o v) /\ Children(x, father) = u \o (kids \o v)
    BY <1>18, <1>19, Zenon
  <2>2. \A e \in I : e # id =>
             /\ x.entry[e].father = IF e \in Kids(c, id) THEN father ELSE c.entry[e].father
             /\ x.entry[e].comp = c.entry[e].comp /\ x.entry[e].created = c.entry[e].created
             /\ x.entry[e].model = c.entry[e].model /\ x.entry[e].zero = c.entry[e].zero
             /\ x.entry[e].delete = c.entry[e].delete /\ x.entry[e].free = c.entry[e].free
    BY <1>8, Zenon
  <2>3. x.entry[id].created = c.entry[id].created
    <3>1. id \in I
      BY <1>1
    <3> QED BY <3>1, ZenonT(60) DEF IsFreed, IsAdopted, SameUse
  <2> QED BY <1>9, <1>17, <2>1, <2>2, <2>3, Zenon DEF IsEvicted, sib, kids
<1> QED BY <1>20, <1>21, <1>22

(***************************************************************************)
(* The hash table.                                                         *)
(***************************************************************************)
InSlot(c, slot) == {id \in Confirmed(c) : Slot(c, id) = slot}

(* The bucket of every slot holds the entries with a result that belong    *)
(* there, and no other entry is chained.                                   *)
Tabled(c) ==
    /\ \A slot \in DOMAIN c.table :
         ListOf(Ids(c), ChainOf(c), c.table[slot], Bucket(c, slot), InSlot(c, slot))
    /\ \A id \in Ids(c) \ Confirmed(c) : c.entry[id].chain = INVALID_ENTRY
    /\ c.confirmed = Cardinality(Confirmed(c))

LEMMA ChainIs ==
  ASSUME NEW K, NEW L \in Nat, NEW c \in Caches(K, L)
  PROVE  \A e \in 1 .. L : ChainOf(c)[e] = c.entry[e].chain
BY PointerTypes

LEMMA ConfirmedIs ==
  ASSUME NEW K, NEW L \in Nat, NEW c \in Caches(K, L)
  PROVE  /\ Confirmed(c) \subseteq 1 .. L /\ Confirmed(c) \subseteq Live(c)
         /\ IsFiniteSet(Confirmed(c)) /\ Cardinality(Confirmed(c)) \in Nat
<1>1. Confirmed(c) \subseteq Live(c) /\ Confirmed(c) \subseteq 1 .. L /\ IsFiniteSet(Live(c))
  BY LiveIs DEF Confirmed
<1>2. IsFiniteSet(Confirmed(c))
  BY <1>1, FS_Subset
<1> QED BY <1>1, <1>2, FS_CardinalityType

LEMMA BucketIs ==
  ASSUME NEW K, NEW L \in Nat, NEW c \in Caches(K, L), NEW slot, NEW s, NEW T,
         ListOf(1 .. L, ChainOf(c), c.table[slot], s, T)
  PROVE  ListOf(Ids(c), ChainOf(c), c.table[slot], Bucket(c, slot), T)
<1>1. ChainOf(c) \in [1 .. L -> 1 .. L \cup {INVALID_ENTRY}]
  BY PointerTypes DEF Pointers
<1>2. IsFiniteSet(1 .. L) /\ INVALID_ENTRY \notin 1 .. L
  BY IntervalFinite
<1>3. Follow(ChainOf(c), c.table[slot]) = s
  BY <1>1, <1>2, FollowList, Zenon
<1>4. Ids(c) = 1 .. L
  BY CacheIds
<1> QED BY <1>3, <1>4, Zenon DEF Bucket

(* The results, what they are of and the chains are the same.              *)
LEMMA TabledSame ==
  ASSUME NEW K, NEW L \in Nat, NEW c \in Caches(K, L), NEW M \in Nat, NEW d \in Caches(K, M), 1 .. L \subseteq 1 .. M,
         Tabled(c), Confirmed(d) = Confirmed(c), d.table = c.table, d.confirmed = c.confirmed,
         \A e \in Confirmed(c) : d.entry[e].chain = c.entry[e].chain /\ d.entry[e].comp = c.entry[e].comp,
         \A e \in (1 .. M) \ Confirmed(c) : d.entry[e].chain = INVALID_ENTRY
  PROVE  Tabled(d)
<1>1. Ids(c) = 1 .. L /\ Ids(d) = 1 .. M
  BY CacheIds, Zenon
<1>2. Confirmed(c) \subseteq 1 .. L
  BY ConfirmedIs, Zenon
<1>3. ASSUME NEW slot \in DOMAIN d.table
      PROVE  ListOf(Ids(d), ChainOf(d), d.table[slot], Bucket(d, slot), InSlot(d, slot))
  <2>1. ListOf(1 .. L, ChainOf(c), c.table[slot], Bucket(c, slot), InSlot(c, slot))
    BY <1>1 DEF Tabled
  <2>2. InSlot(d, slot) = InSlot(c, slot) /\ InSlot(c, slot) \subseteq Confirmed(c)
    BY DEF InSlot, Slot
  <2>3. \A e \in InSlot(c, slot) : ChainOf(d)[e] = ChainOf(c)[e]
    <3>1. (\A e \in 1 .. L : ChainOf(c)[e] = c.entry[e].chain) /\ (\A e \in 1 .. M : ChainOf(d)[e] = d.entry[e].chain)
      BY PointerTypes
    <3> QED BY <1>2, <2>2, <3>1
  <2>4. ListOf(1 .. M, ChainOf(d), c.table[slot], Bucket(c, slot), InSlot(c, slot))
    <3>1. 1 .. L \subseteq 1 .. M
      OBVIOUS
    <3> QED BY ONLY <2>1, <2>3, <3>1, ListFrame
  <2>5. ListOf(1 .. M, ChainOf(d), d.table[slot], Bucket(c, slot), InSlot(d, slot))
    BY <2>2, <2>4
  <2> QED BY <2>5, BucketIs, Zenon
<1>4. \A id \in Ids(d) \ Confirmed(d) : d.entry[id].chain = INVALID_ENTRY
  BY <1>1
<1>5. d.confirmed = Cardinality(Confirmed(d))
  BY DEF Tabled
<1> QED BY <1>3, <1>4, <1>5 DEF Tabled

LEMMA TabledUse ==
  ASSUME NEW K, NEW L \in Nat, NEW c \in Caches(K, L), NEW d \in Caches(K, L),
         SameUse(c, d, 1 .. L), SameTable(c, d, 1 .. L), Tabled(c)
  PROVE  Tabled(d)
<1>1. Confirmed(d) = Confirmed(c)
  BY SameUseSets
<1>2. Confirmed(c) \subseteq 1 .. L /\ Ids(c) = 1 .. L
  BY ConfirmedIs, CacheIds, Zenon
<1>3. d.table = c.table /\ d.confirmed = c.confirmed
      /\ \A e \in 1 .. L : d.entry[e].chain = c.entry[e].chain /\ d.entry[e].comp = c.entry[e].comp
  BY DEF SameUse, SameTable
<1>4. \A e \in (1 .. L) \ Confirmed(c) : d.entry[e].chain = INVALID_ENTRY
  BY <1>2, <1>3 DEF Tabled
<1>5. \A e \in Confirmed(c) : d.entry[e].chain = c.entry[e].chain /\ d.entry[e].comp = c.entry[e].comp
  BY <1>2, <1>3
<1> QED BY <1>1, <1>3, <1>4, <1>5, TabledSame, Zenon

LEMMA TabledCreated ==
  ASSUME NEW K, NEW L \in Nat, NEW c \in Caches(K, L), NEW M \in Nat, NEW d \in Caches(K, M), NEW id, NEW comp,
         IsCreated(c, d, id, comp, L, M), Tabled(c)
  PROVE  Tabled(d)
<1>1. Confirmed(d) = Confirmed(c)
  BY CreatedSets
<1>2. Confirmed(c) \subseteq 1 .. L /\ Confirmed(c) \subseteq Live(c) /\ Ids(c) = 1 .. L
  BY ConfirmedIs, CacheIds, Zenon
<1>3. /\ id \in 1 .. M /\ id \notin Live(c) /\ 1 .. M = 1 .. L \cup {id}
      /\ \A e \in 1 .. L : e # id => d.entry[e] = c.entry[e]
      /\ d.entry[id].chain = IF id \in 1 .. L THEN c.entry[id].chain ELSE INVALID_ENTRY
      /\ d.table = c.table /\ d.confirmed = c.confirmed
  BY Zenon DEF IsCreated
<1>4. \A e \in (1 .. M) \ Confirmed(c) : d.entry[e].chain = INVALID_ENTRY
  BY <1>2, <1>3 DEF Tabled
<1>5. \A e \in Confirmed(c) : d.entry[e].chain = c.entry[e].chain /\ d.entry[e].comp = c.entry[e].comp
  BY <1>2, <1>3
<1>6. 1 .. L \subseteq 1 .. M
  BY <1>3
<1> QED BY <1>1, <1>3, <1>4, <1>5, <1>6, TabledSame, Zenon

(* removeFromHashTable() and the reset of the entry.                       *)
LEMMA TabledFreed ==
  ASSUME NEW K, Hashed(K), NEW L \in Nat, NEW c \in Caches(K, L), Tabled(c), NEW id \in 1 .. L,
         NEW r \in Caches(K, L), IsUnlinked(c, r, id, L), NEW x \in Caches(K, L), IsFreed(r, x, id, L)
  PROVE  Tabled(x)
<1> DEFINE slot == Slot(c, id)
           bucket == Bucket(c, slot)
           i == Place(bucket, id)
           next == c.entry[id].chain
<1>1. SameUse(c, r, 1 .. L)
  BY Zenon DEF IsUnlinked
<1>2. /\ \A e \in 1 .. L : e # id => x.entry[e] = r.entry[e]
      /\ x.entry[id].chain = INVALID_ENTRY /\ x.table = r.table /\ x.confirmed = r.confirmed
  BY DEF IsFreed
<1>3. Confirmed(x) = Confirmed(c) \ {id}
  <2>1. Confirmed(r) = Confirmed(c)
    BY <1>1, SameUseSets
  <2>2. Confirmed(x) = Confirmed(r) \ {id}
    BY FreedSets
  <2> QED BY <2>1, <2>2
<1>4. /\ Confirmed(c) \subseteq 1 .. L /\ IsFiniteSet(Confirmed(c)) /\ Cardinality(Confirmed(c)) \in Nat
      /\ Ids(c) = 1 .. L /\ Ids(x) = 1 .. L
  BY ConfirmedIs, CacheIds, Zenon
<1>5. \A e \in 1 .. L : e # id => x.entry[e].comp = c.entry[e].comp
  BY <1>1, <1>2 DEF SameUse
<1>6. /\ \A s \in DOMAIN c.table : ListOf(1 .. L, ChainOf(c), c.table[s], Bucket(c, s), InSlot(c, s))
      /\ \A e \in (1 .. L) \ Confirmed(c) : c.entry[e].chain = INVALID_ENTRY
      /\ c.confirmed = Cardinality(Confirmed(c))
  BY <1>4 DEF Tabled
<1>7. slot \in DOMAIN c.table
  BY SlotType
<1>8. bucket \in Seq(1 .. L) /\ IsInjective(bucket) /\ ToSet(bucket) = InSlot(c, slot)
  BY <1>6, <1>7, Zenon DEF ListOf
<1>9. id \in ToSet(bucket) <=> id \in Confirmed(c)
  BY <1>8 DEF InSlot
<1>10. /\ i \in 0 .. Len(bucket) /\ (i = 0 <=> id \notin ToSet(bucket)) /\ (i # 0 => bucket[i] = id)
  BY <1>8, PlaceOf, Zenon
<1>11. /\ i = 0 => SameTable(c, r, 1 .. L)
       /\ i # 0 => /\ r.confirmed = c.confirmed - 1
                   /\ r.table = IF i = 1 THEN [c.table EXCEPT ![slot] = next] ELSE c.table
                   /\ \A e \in 1 .. L : r.entry[e].chain =
                        IF i > 1 /\ e = bucket[i - 1] THEN next
                        ELSE IF e = id THEN INVALID_ENTRY ELSE c.entry[e].chain
  BY Zenon DEF IsUnlinked
<1> HIDE DEF slot, bucket, i, next
<1>12. CASE i = 0
  <2>1. Confirmed(x) = Confirmed(c)
    BY <1>3, <1>9, <1>10, <1>12
  <2>2. SameTable(c, r, 1 .. L)
    BY <1>11, <1>12
  <2>3. id \notin Confirmed(c)
    BY <1>9, <1>10, <1>12
  <2>4. x.table = c.table /\ x.confirmed = c.confirmed
    BY <1>2, <2>2 DEF SameTable
  <2>5. \A e \in Confirmed(c) : x.entry[e].chain = c.entry[e].chain /\ x.entry[e].comp = c.entry[e].comp
    BY <1>2, <1>4, <1>5, <2>2, <2>3 DEF SameTable
  <2>6. \A e \in (1 .. L) \ Confirmed(c) : x.entry[e].chain = INVALID_ENTRY
    BY <1>2, <1>6, <2>2 DEF SameTable
  <2> QED BY <2>1, <2>4, <2>5, <2>6, TabledSame, Zenon
<1>13. CASE i # 0
  <2>1. /\ id \in Confirmed(c) /\ i \in 1 .. Len(bucket) /\ bucket[i] = id /\ Len(bucket) \in Nat
        /\ x.confirmed = c.confirmed - 1
        /\ x.table = IF i = 1 THEN [c.table EXCEPT ![slot] = next] ELSE c.table
    BY <1>2, <1>8, <1>9, <1>10, <1>11, <1>13
  <2>2. \A e \in 1 .. L : x.entry[e].chain =
                        IF e = id THEN INVALID_ENTRY
                        ELSE IF i > 1 /\ e = bucket[i - 1] THEN next ELSE c.entry[e].chain
    BY <1>2, <1>11, <1>13
  <2>3. i > 1 => i - 1 \in 1 .. Len(bucket) /\ bucket[i - 1] \in ToSet(bucket) /\ bucket[i - 1] # id
    <3>1. i > 1 => i - 1 \in 1 .. Len(bucket) /\ i - 1 # i
      BY <2>1
    <3>2. DOMAIN bucket = 1 .. Len(bucket)
      BY <1>8
    <3>3. i > 1 => bucket[i - 1] # bucket[i]
      BY <1>8, <2>1, <3>1, <3>2 DEF IsInjective
    <3> QED BY <2>1, <3>1, <3>2, <3>3 DEF ToSet
  <2>4. DOMAIN x.table = DOMAIN c.table
    BY <2>1
  <2>5. \A e \in Confirmed(x) : Slot(x, e) = Slot(c, e)
    BY <1>3, <1>4, <1>5, <2>4 DEF Slot
  <2>6. InSlot(x, slot) = InSlot(c, slot) \ {id} /\ \A s : s # slot => InSlot(x, s) = InSlot(c, s)
    <3>1. Slot(c, id) = slot
      BY DEF slot
    <3> QED BY <1>3, <2>5, <3>1 DEF InSlot
  <2>7. (\A e \in 1 .. L : ChainOf(c)[e] = c.entry[e].chain) /\ (\A e \in 1 .. L : ChainOf(x)[e] = x.entry[e].chain)
    BY ChainIs, Zenon
  <2>8. \A e \in ToSet(bucket) : e \in 1 .. L
    BY <1>4, <1>8 DEF InSlot
  <2>9. ASSUME NEW s \in DOMAIN x.table
        PROVE  ListOf(Ids(x), ChainOf(x), x.table[s], Bucket(x, s), InSlot(x, s))
    <3>1. CASE s = slot
      <4> DEFINE T == InSlot(c, slot)
                 p == ChainOf(c)
                 q == ChainOf(x)
                 start == c.table[slot]
                 from == x.table[slot]
      <4>1. ListOf(1 .. L, p, start, bucket, T)
        BY <1>6, <1>7, Zenon DEF bucket
      <4>2. p[bucket[i]] = next
        BY <2>1, <2>7 DEF next
      <4>3. from = IF i = 1 THEN next ELSE start
        BY <1>7, <2>1
      <4>4. i # 1 => q[bucket[i - 1]] = next
        <5>1. i # 1 => i > 1
          BY <2>1
        <5> QED BY <2>2, <2>3, <2>7, <2>8, <5>1
      <4>5. \A e \in T : e # bucket[i] /\ (i # 1 => e # bucket[i - 1]) => q[e] = p[e]
        <5>1. ASSUME NEW e \in T, e # id, i > 1 => e # bucket[i - 1] PROVE q[e] = p[e]
          <6>1. e \in 1 .. L
            BY <1>8, <2>8
          <6> QED BY <2>2, <2>7, <5>1, <6>1
        <5> QED BY <2>1, <5>1
      <4>6. <<>> \in Seq(1 .. L) /\ IsInjective(<<>>) /\ ToSet(<<>>) = {}
        BY DEF IsInjective, ToSet
      <4>7. Piece(q, next, <<>>, p[bucket[i]])
        BY <4>2 DEF Piece
      <4> HIDE DEF T, p, q, start, from
      <4>8. Replaces(1 .. L, p, q, start, from, next, bucket, i, T, <<>>, {})
        BY <2>1, <4>1, <4>3, <4>4, <4>5, <4>6, <4>7 DEF Replaces
      <4>9. PICK a \in Seq(1 .. L), b \in Seq(1 .. L) : ListOf(1 .. L, q, from, a \o (<<>> \o b), (T \ {bucket[i]}) \cup {})
        BY <4>8, Splice, Zenon
      <4>10. (T \ {bucket[i]}) \cup {} = InSlot(x, slot)
        BY <2>1, <2>6 DEF T
      <4>11. ListOf(1 .. L, ChainOf(x), x.table[slot], a \o (<<>> \o b), InSlot(x, slot))
        BY <4>9, <4>10 DEF q, from
      <4>12. ListOf(Ids(x), ChainOf(x), x.table[slot], Bucket(x, slot), InSlot(x, slot))
        BY <4>11, BucketIs, Zenon
      <4> QED BY <3>1, <4>12
    <3>2. CASE s # slot
      <4>1. ListOf(1 .. L, ChainOf(c), c.table[s], Bucket(c, s), InSlot(c, s))
        BY <1>6, <2>4
      <4>2. x.table[s] = c.table[s] /\ InSlot(x, s) = InSlot(c, s)
        BY <2>1, <2>4, <2>6, <3>2
      <4>3. \A e \in InSlot(c, s) : e # id /\ e \in 1 .. L /\ e \notin ToSet(bucket)
        <5>1. \A e \in InSlot(c, s) : e \in Confirmed(c) /\ Slot(c, e) = s
          BY DEF InSlot
        <5>2. Slot(c, id) = slot /\ \A e \in ToSet(bucket) : Slot(c, e) = slot
          BY <1>8 DEF InSlot, slot
        <5> QED BY <1>4, <3>2, <5>1, <5>2
      <4>4. \A e \in InSlot(c, s) : ChainOf(x)[e] = ChainOf(c)[e]
        BY <2>2, <2>3, <2>7, <4>3
      <4>5. ListOf(1 .. L, ChainOf(x), c.table[s], Bucket(c, s), InSlot(c, s))
        BY <4>1, <4>4, ListFrame, Zenon
      <4>6. ListOf(1 .. L, ChainOf(x), x.table[s], Bucket(c, s), InSlot(x, s))
        BY <4>2, <4>5
      <4> QED BY <4>6, BucketIs, Zenon
    <3> QED BY <3>1, <3>2
  <2>10. \A e \in Ids(x) \ Confirmed(x) : x.entry[e].chain = INVALID_ENTRY
    <3>1. ASSUME NEW e \in 1 .. L, e # id, e \notin Confirmed(c) PROVE x.entry[e].chain = INVALID_ENTRY
      <4>1. i > 1 => e # bucket[i - 1]
        BY <1>8, <2>3, <3>1 DEF InSlot
      <4> QED BY <1>6, <2>2, <3>1, <4>1
    <3> QED BY <1>2, <1>3, <1>4, <3>1
  <2>11. x.confirmed = Cardinality(Confirmed(x))
    <3>1. Cardinality(Confirmed(c) \ {id}) = Cardinality(Confirmed(c)) - 1
      BY <1>4, <2>1, FS_RemoveElement
    <3> QED BY <1>3, <1>6, <2>1, <3>1
  <2> QED BY <2>9, <2>10, <2>11 DEF Tabled
<1> QED BY <1>12, <1>13

(* What holds first and of each if of the one before holds of all.         *)
LEMMA BoundedSteps ==
  ASSUME NEW m \in Nat, NEW T, 0 \in T, \A n \in 1 .. m : n - 1 \in T => n \in T
  PROVE  \A n \in 0 .. m : n \in T
<1> DEFINE f == [n \in 0 .. m |-> n]
<1>1. \A n \in 0 .. m : f[n] = n
  OBVIOUS
<1>2. 0 \in 0 .. m /\ \A n \in 1 .. m : n \in 0 .. m /\ n - 1 \in 0 .. m
  OBVIOUS
<1> HIDE DEF f
<1>3. f[0] \in T /\ \A n \in 1 .. m : f[n - 1] \in T => f[n] \in T
  BY <1>1, <1>2
<1>4. \A n \in 0 .. m : f[n] \in T
  BY <1>3, BoundedInduction, Zenon
<1> QED BY <1>1, <1>4

(* Each entry of S points to the next smaller one.                         *)
LEMMA LadderList ==
  ASSUME NEW L \in Nat, NEW S \in SUBSET (1 .. L), NEW p,
         \A e \in S : p[e] = Max0({j \in S : j < e})
  PROVE  \E s : ListOf(1 .. L, p, Max0(S), s, S)
<1> DEFINE UpTo(n) == {j \in S : j <= n}
           T == {n \in 0 .. L : \E s : ListOf(1 .. L, p, Max0(UpTo(n)), s, UpTo(n))}
<1>1. 0 \in T
  <2>1. UpTo(0) = {}
    <3>1. \A j \in S : j \in 1 .. L /\ ~ (j <= 0)
      OBVIOUS
    <3> QED BY <3>1
  <2>2. Max0({}) = INVALID_ENTRY
    <3>1. {} \in SUBSET (1 .. L)
      OBVIOUS
    <3> QED BY <3>1, Max0Is, Zenon
  <2>3. <<>> \in Seq(1 .. L) /\ IsInjective(<<>>) /\ ToSet(<<>>) = {}
    BY DEF IsInjective, ToSet
  <2>4. ListOf(1 .. L, p, INVALID_ENTRY, <<>>, {})
    BY <2>3 DEF ListOf, Piece
  <2>5. 0 \in 0 .. L
    OBVIOUS
  <2> HIDE DEF UpTo
  <2> QED BY <2>1, <2>2, <2>4, <2>5
<1>2. ASSUME NEW n \in 1 .. L, n - 1 \in T PROVE n \in T
  <2>1. PICK s : ListOf(1 .. L, p, Max0(UpTo(n - 1)), s, UpTo(n - 1))
    BY <1>2
  <2>2. CASE n \notin S
    <3>1. UpTo(n) = UpTo(n - 1)
      <4>1. \A j \in S : j \in Nat /\ j # n
        BY <2>2
      <4>2. \A j \in S : j <= n <=> j <= n - 1
        BY <4>1
      <4> QED BY <4>2
    <3> HIDE DEF UpTo
    <3> QED BY <2>1, <3>1
  <2>3. CASE n \in S
    <3>1. UpTo(n) = UpTo(n - 1) \cup {n} /\ n \notin UpTo(n - 1) /\ UpTo(n) \subseteq 1 .. L
      <4>1. \A j \in S : j \in Nat
        OBVIOUS
      <4>2. \A j \in S : j <= n <=> j <= n - 1 \/ j = n
        BY <4>1
      <4>3. UpTo(n) = UpTo(n - 1) \cup {n}
        BY <2>3, <4>2
      <4>4. ~ (n <= n - 1)
        OBVIOUS
      <4>5. n \notin UpTo(n - 1)
        BY <4>4
      <4>6. UpTo(n) \subseteq 1 .. L
        OBVIOUS
      <4> QED BY <4>3, <4>5, <4>6
    <3>2. {j \in S : j < n} = UpTo(n - 1)
      <4>1. \A j \in S : j < n <=> j <= n - 1
        OBVIOUS
      <4> QED BY <4>1
    <3>3. p[n] = Max0(UpTo(n - 1))
      BY <2>3, <3>2
    <3>4. Max0(UpTo(n)) = n
      <4>1. Max0(UpTo(n)) \in UpTo(n) /\ \A y \in UpTo(n) : y <= Max0(UpTo(n))
        <5>1. UpTo(n) # {} /\ UpTo(n) \in SUBSET (1 .. L)
          BY <3>1
        <5> HIDE DEF UpTo
        <5> QED BY <5>1, Max0Is, Zenon
      <4>2. n <= Max0(UpTo(n)) /\ Max0(UpTo(n)) <= n /\ Max0(UpTo(n)) \in Nat
        BY <3>1, <4>1
      <4> QED BY <4>2
    <3> HIDE DEF UpTo
    <3>5. ListOf(1 .. L, p, n, <<n>> \o s, UpTo(n - 1) \cup {n})
      BY <2>1, <3>1, <3>3, ListCons
    <3>6. ListOf(1 .. L, p, Max0(UpTo(n)), <<n>> \o s, UpTo(n))
      BY <3>1, <3>4, <3>5
    <3>7. n \in 0 .. L
      OBVIOUS
    <3> QED BY <3>6, <3>7
  <2> QED BY <2>2, <2>3
<1> HIDE DEF T
<1>3. \A n \in 0 .. L : n \in T
  BY <1>1, <1>2, BoundedSteps, Zenon
<1>4. L \in T
  BY <1>3
<1>5. UpTo(L) = S
  <2>1. \A j \in S : j \in 1 .. L /\ j <= L
    OBVIOUS
  <2> QED BY <2>1
<1> HIDE DEF UpTo
<1> QED BY <1>4, <1>5 DEF T

LEMMA GrowDoes ==
  ASSUME NEW K, Hashed(K), NEW L \in Nat, NEW c \in Caches(K, L), NEW d, d = GrowTableIfNeeded(c)
  PROVE  SameUse(c, d, 1 .. L) /\ SameLinks(c, d, 1 .. L) /\ SameBooks(c, d)
<1> DEFINE size == 2 * Cardinality(DOMAIN c.table)
           In(slot) == {id \in Confirmed(c) : Hash[c.entry[id].comp] % size = slot}
           Older(id) == {j \in In(Hash[c.entry[id].comp] % size) : j < id}
           t == [s \in 0 .. size - 1 |-> Max0(In(s))]
           f == [id \in Ids(c) |->
                   IF id \in Confirmed(c) THEN [c.entry[id] EXCEPT !.chain = Max0(Older(id))]
                   ELSE c.entry[id]]
<1>1. d = IF c.confirmed <= Cardinality(DOMAIN c.table) THEN c ELSE [c EXCEPT !.table = t, !.entry = f]
  BY Zenon DEF GrowTableIfNeeded
<1>2. \A id \in 1 .. L : OnlyChain(c.entry[id], f[id])
  <2>1. ASSUME NEW x \in Entries(K, L), NEW p PROVE OnlyChain(x, [x EXCEPT !.chain = p]) /\ OnlyChain(x, x)
    BY DEF Entries, OnlyChain
  <2>2. (\A id \in 1 .. L : c.entry[id] \in Entries(K, L)) /\ Ids(c) = 1 .. L
    BY CacheIds DEF Caches
  <2> HIDE DEF Older
  <2> QED BY <2>1, <2>2
<1> HIDE DEF t, f
<1>3. CASE d = c
  BY <1>3 DEF SameUse, SameLinks, SameBooks
<1>4. CASE d = [c EXCEPT !.table = t, !.entry = f]
  <2>1. d.entry = f /\ d.clock = c.clock /\ d.memory = c.memory /\ d.freeSlots = c.freeSlots
    BY <1>4 DEF Caches
  <2> QED BY <1>2, <2>1 DEF SameUse, SameLinks, SameBooks, OnlyChain
<1> QED BY <1>1, <1>3, <1>4

(* The doubled table.                                                      *)
LEMMA TabledGrow ==
  ASSUME NEW K, Hashed(K), NEW L \in Nat, NEW c \in Caches(K, L), Tabled(c)
  PROVE  Tabled(GrowTableIfNeeded(c))
<1> DEFINE size == 2 * Cardinality(DOMAIN c.table)
           In(slot) == {id \in Confirmed(c) : Hash[c.entry[id].comp] % size = slot}
           Older(id) == {j \in In(Hash[c.entry[id].comp] % size) : j < id}
           t == [s \in 0 .. size - 1 |-> Max0(In(s))]
           f == [id \in Ids(c) |->
                   IF id \in Confirmed(c) THEN [c.entry[id] EXCEPT !.chain = Max0(Older(id))]
                   ELSE c.entry[id]]
           d == GrowTableIfNeeded(c)
<1>1. d = IF c.confirmed <= Cardinality(DOMAIN c.table) THEN c ELSE [c EXCEPT !.table = t, !.entry = f]
  BY Zenon DEF GrowTableIfNeeded
<1>2. d \in Caches(K, L) /\ SameUse(c, d, 1 .. L)
  BY GrowType, GrowDoes, Zenon
<1>3. size \in Nat \ {0}
  BY TableType
<1>4. Confirmed(c) \subseteq 1 .. L /\ Ids(c) = 1 .. L /\ Ids(d) = 1 .. L /\ Confirmed(d) = Confirmed(c)
  <2>1. Confirmed(c) \subseteq 1 .. L /\ Ids(c) = 1 .. L
    BY ConfirmedIs, CacheIds, Zenon
  <2> HIDE DEF d
  <2>2. Ids(d) = 1 .. L
    BY <1>2, CacheIds, Zenon
  <2>3. Confirmed(d) = Confirmed(c)
    BY <1>2, SameUseSets
  <2> QED BY <2>1, <2>2, <2>3
<1>5. /\ \A id \in (1 .. L) \ Confirmed(c) : c.entry[id].chain = INVALID_ENTRY
      /\ c.confirmed = Cardinality(Confirmed(c))
  BY <1>4 DEF Tabled
<1>6. \A id \in 1 .. L : f[id].chain = IF id \in Confirmed(c) THEN Max0(Older(id)) ELSE c.entry[id].chain
  <2>1. ASSUME NEW x \in Entries(K, L), NEW p PROVE [x EXCEPT !.chain = p].chain = p
    BY DEF Entries
  <2>2. \A id \in 1 .. L : c.entry[id] \in Entries(K, L)
    BY DEF Caches
  <2> HIDE DEF Older
  <2> QED BY <1>4, <2>1, <2>2
<1> HIDE DEF t, f, d, size
<1>7. CASE d = c
  BY <1>7 DEF d
<1>8. CASE d = [c EXCEPT !.table = t, !.entry = f]
  <2>1. d.entry = f /\ d.table = t /\ d.confirmed = c.confirmed
    BY <1>8 DEF Caches
  <2>2. DOMAIN d.table = 0 .. size - 1 /\ \A s \in 0 .. size - 1 : d.table[s] = Max0(In(s))
    <3> HIDE DEF In
    <3> QED BY <2>1 DEF t
  <2>3. Cardinality(DOMAIN d.table) = size
    <3>1. Cardinality(0 .. size - 1) = IF 0 > size - 1 THEN 0 ELSE size - 1 - 0 + 1
      BY <1>3, FS_Interval
    <3> QED BY <1>3, <2>2, <3>1
  <2>4. \A e \in 1 .. L : d.entry[e].comp = c.entry[e].comp
    BY <1>2 DEF SameUse
  <2>5. ASSUME NEW s \in 0 .. size - 1
        PROVE  ListOf(Ids(d), ChainOf(d), d.table[s], Bucket(d, s), InSlot(d, s))
    <3>1. InSlot(d, s) = In(s) /\ In(s) \in SUBSET (1 .. L)
      BY <1>4, <2>3, <2>4 DEF InSlot, Slot
    <3>2. \A e \in In(s) : ChainOf(d)[e] = Max0({j \in In(s) : j < e})
      <4>1. \A e \in In(s) : e \in Confirmed(c) /\ e \in 1 .. L /\ Hash[c.entry[e].comp] % size = s
        BY <1>4
      <4>2. \A e \in 1 .. L : ChainOf(d)[e] = d.entry[e].chain
        BY <1>2, PointerTypes
      <4> HIDE DEF In
      <4> QED BY <1>6, <2>1, <4>1, <4>2
    <3>3. \E q : ListOf(1 .. L, ChainOf(d), Max0(In(s)), q, In(s))
      <4> HIDE DEF In
      <4> QED BY <3>1, <3>2, LadderList, Zenon
    <3>4. \E q : ListOf(1 .. L, ChainOf(d), d.table[s], q, InSlot(d, s))
      <4> HIDE DEF In
      <4> QED BY <2>2, <3>1, <3>3
    <3> QED BY <1>2, <3>4, BucketIs, Zenon
  <2>6. \A id \in (1 .. L) \ Confirmed(c) : d.entry[id].chain = INVALID_ENTRY
    BY <1>5, <1>6, <2>1
  <2> QED BY <1>4, <1>5, <2>1, <2>2, <2>5, <2>6 DEF Tabled, d
<1> QED BY <1>1, <1>7, <1>8

(* An entry gets a result and goes to the head of its bucket.              *)
LEMMA TabledLinked ==
  ASSUME NEW K, Hashed(K), NEW L \in Nat, NEW c \in Caches(K, L), Tabled(c), NEW id \in 1 .. L, id \notin Confirmed(c),
         NEW x \in Caches(K, L), Confirmed(x) = Confirmed(c) \cup {id}, SameTable(c, x, 1 .. L),
         \A e \in 1 .. L : x.entry[e].comp = c.entry[e].comp
  PROVE  Tabled(LinkIntoTable(x, id))
<1> DEFINE slot == Slot(x, id)
           e == [x.entry[id] EXCEPT !.chain = x.table[slot]]
           f == [x.entry EXCEPT ![id] = e]
           t == [x.table EXCEPT ![slot] = id]
           n == x.confirmed + 1
           y == [x EXCEPT !.entry = f, !.table = t, !.confirmed = n]
<1>1. slot \in DOMAIN x.table
  BY SlotType
<1> HIDE DEF slot
<1>2. x.table[slot] \in Pointers(L) /\ t \in Tables(L) /\ DOMAIN t = DOMAIN x.table
      /\ \A s \in DOMAIN x.table : t[s] = IF s = slot THEN id ELSE x.table[s]
  <2> DEFINE size == Cardinality(DOMAIN x.table)
  <2>1. size \in Nat \ {0} /\ x.table \in [0 .. size - 1 -> Pointers(L)] /\ DOMAIN x.table = 0 .. size - 1
    BY TableType
  <2> HIDE DEF size
  <2>2. id \in Pointers(L)
    BY DEF Pointers
  <2>3. t \in [0 .. size - 1 -> Pointers(L)]
    BY <2>1, <2>2
  <2> QED BY <1>1, <2>1, <2>3 DEF Tables
<1>3. e \in Entries(K, L) /\ OnlyChain(x.entry[id], e) /\ e.chain = x.table[slot]
  <2>1. ASSUME NEW u \in Entries(K, L), NEW p \in Pointers(L)
        PROVE  /\ [u EXCEPT !.chain = p] \in Entries(K, L) /\ OnlyChain(u, [u EXCEPT !.chain = p])
               /\ [u EXCEPT !.chain = p].chain = p
    BY DEF Entries, OnlyChain
  <2>2. x.entry[id] \in Entries(K, L)
    BY DEF Caches
  <2> QED BY <1>2, <2>1, <2>2
<1>4. f \in [1 .. L -> Entries(K, L)]
  BY <1>3, EntryChanged
<1>5. n \in Int
  BY DEF Caches
<1>6. LinkIntoTable(x, id) = GrowTableIfNeeded(y)
  <2>1. y = [x EXCEPT !.entry[id].chain = x.table[slot], !.table[slot] = id, !.confirmed = @ + 1]
    BY DEF Caches
  <2> QED BY <2>1, Zenon DEF LinkIntoTable, slot
<1>7. /\ \A i \in 1 .. L : OnlyChain(x.entry[i], f[i])
      /\ \A i \in 1 .. L : f[i].chain = IF i = id THEN x.table[slot] ELSE x.entry[i].chain
  <2>1. \A i \in 1 .. L : f[i] = IF i = id THEN e ELSE x.entry[i]
    BY DEF Caches
  <2> HIDE DEF f, e
  <2> QED BY <1>3, <2>1 DEF OnlyChain
<1> HIDE DEF f, t, n
<1>8. y \in Caches(K, L)
  BY <1>2, <1>4, <1>5 DEF Caches
<1>9. y.entry = f /\ y.table = t /\ y.confirmed = n
  BY DEF Caches
<1> HIDE DEF y
<1>10. SameUse(x, y, 1 .. L)
  BY <1>7, <1>9 DEF SameUse, OnlyChain
<1>11. Confirmed(y) = Confirmed(c) \cup {id}
  <2>1. Confirmed(y) = Confirmed(x)
    BY <1>8, <1>10, SameUseSets
  <2> QED BY <2>1
<1>12. /\ Confirmed(c) \subseteq 1 .. L /\ IsFiniteSet(Confirmed(c)) /\ Cardinality(Confirmed(c)) \in Nat
       /\ Ids(c) = 1 .. L /\ Ids(y) = 1 .. L
  <2>1. /\ Confirmed(c) \subseteq 1 .. L /\ IsFiniteSet(Confirmed(c)) /\ Cardinality(Confirmed(c)) \in Nat
        /\ Ids(c) = 1 .. L
    BY ConfirmedIs, CacheIds, Zenon
  <2> QED BY <1>8, <2>1, CacheIds, Zenon
<1>13. \A i \in 1 .. L : y.entry[i].comp = c.entry[i].comp
  BY <1>10 DEF SameUse
<1>14. x.table = c.table /\ x.confirmed = c.confirmed /\ \A i \in 1 .. L : x.entry[i].chain = c.entry[i].chain
  BY DEF SameTable
<1>15. \A i \in 1 .. L : Slot(y, i) = Slot(c, i) /\ Slot(x, i) = Slot(c, i)
  BY <1>2, <1>9, <1>13, <1>14 DEF Slot
<1>16. \A s : InSlot(y, s) = IF s = slot THEN InSlot(c, s) \cup {id} ELSE InSlot(c, s)
  <2>1. Slot(c, id) = slot
    BY <1>15 DEF slot
  <2> QED BY <1>11, <1>12, <1>15, <2>1 DEF InSlot
<1>17. \A i \in 1 .. L : ChainOf(y)[i] = IF i = id THEN c.table[slot] ELSE ChainOf(c)[i]
  <2>1. (\A i \in 1 .. L : ChainOf(c)[i] = c.entry[i].chain) /\ (\A i \in 1 .. L : ChainOf(y)[i] = y.entry[i].chain)
    BY <1>8, PointerTypes
  <2> QED BY <1>7, <1>9, <1>14, <2>1
<1>18. ASSUME NEW s \in DOMAIN y.table
       PROVE  ListOf(Ids(y), ChainOf(y), y.table[s], Bucket(y, s), InSlot(y, s))
  <2>1. ListOf(1 .. L, ChainOf(c), c.table[s], Bucket(c, s), InSlot(c, s))
    BY <1>2, <1>9, <1>12, <1>14 DEF Tabled
  <2>2. id \notin InSlot(c, s) /\ \A i \in InSlot(c, s) : i # id /\ i \in 1 .. L
    BY <1>12 DEF InSlot
  <2>3. \A i \in InSlot(c, s) : ChainOf(y)[i] = ChainOf(c)[i]
    BY <1>17, <2>2
  <2>4. CASE s = slot
    <3>1. ChainOf(y)[id] = c.table[s]
      BY <1>17, <2>4
    <3>2. ListOf(1 .. L, ChainOf(y), id, <<id>> \o Bucket(c, s), InSlot(c, s) \cup {id})
      BY ONLY <2>1, <2>2, <2>3, <3>1, id \in 1 .. L, ListCons
    <3>3. y.table[s] = id
      BY <1>2, <1>9, <2>4
    <3>4. ListOf(1 .. L, ChainOf(y), y.table[s], <<id>> \o Bucket(c, s), InSlot(y, s))
      BY <1>16, <2>4, <3>2, <3>3
    <3> QED BY <1>8, <3>4, BucketIs, Zenon
  <2>5. CASE s # slot
    <3>1. ListOf(1 .. L, ChainOf(y), c.table[s], Bucket(c, s), InSlot(c, s))
      BY <2>1, <2>3, ListFrame, Zenon
    <3>2. y.table[s] = c.table[s]
      BY <1>2, <1>9, <1>14, <2>5
    <3>3. ListOf(1 .. L, ChainOf(y), y.table[s], Bucket(c, s), InSlot(y, s))
      BY <1>16, <2>5, <3>1, <3>2
    <3> QED BY <1>8, <3>3, BucketIs, Zenon
  <2> QED BY <2>4, <2>5
<1>19. \A i \in Ids(y) \ Confirmed(y) : y.entry[i].chain = INVALID_ENTRY
  BY <1>7, <1>9, <1>11, <1>12, <1>14 DEF Tabled
<1>20. y.confirmed = Cardinality(Confirmed(y))
  <2>1. Cardinality(Confirmed(c) \cup {id}) = Cardinality(Confirmed(c)) + 1
    BY <1>12, FS_AddElement
  <2>2. c.confirmed = Cardinality(Confirmed(c))
    BY DEF Tabled
  <2> QED BY <1>9, <1>11, <1>14, <2>1, <2>2 DEF n
<1>21. Tabled(y)
  BY <1>18, <1>19, <1>20 DEF Tabled
<1> QED BY <1>6, <1>8, <1>21, TabledGrow, Zenon

(***************************************************************************)
(* What the methods keep.                                                  *)
(***************************************************************************)

(* The entries without a result.                                           *)
Open(c) == Live(c) \ Confirmed(c)

(* What has been created since t.                                          *)
Since(c, t) == {e \in Live(c) : c.entry[e].created >= t}

(* What a branch that splits x has created since it began at t is below x, *)
(* and comes first in the list of x.                                       *)
BranchAt(c, O, x, t) ==
    /\ x \in Live(c) /\ c.entry[x].created < t
    /\ \A e \in Since(c, t) \ O : c.entry[e].father = x \/ c.entry[e].father \in Since(c, t)
    /\ Leads(Children(c, x), Since(c, t))

(* The entries of P cannot be evicted, and no eviction takes them from     *)
(* below their fathers.                                                    *)
Guarded(c, P) ==
    \A e \in P : /\ e \in Live(c) /\ ~ c.entry[e].model /\ ~ c.entry[e].zero /\ ~ c.entry[e].delete
                 /\ c.entry[e].father \in P \cup {INVALID_ENTRY}

Woven(c, O) == Account(c) /\ Blank(c) /\ Tabled(c) /\ Rooted(c, O) /\ Listed(c)

(* The tree is the same, and time goes on.                                 *)
SameTree(c, d, E) ==
    /\ SameLinks(c, d, E)
    /\ \A e \in E : d.entry[e].created = c.entry[e].created /\ d.entry[e].free = c.entry[e].free
    /\ c.clock <= d.clock

LEMMA SameTreeSets ==
  ASSUME NEW K, NEW L \in Nat, NEW c \in Caches(K, L), NEW d \in Caches(K, L), SameTree(c, d, 1 .. L)
  PROVE  /\ Live(d) = Live(c) /\ NextOf(d) = NextOf(c) /\ Ids(d) = Ids(c)
         /\ \A t : Since(d, t) = Since(c, t)
         /\ \A g \in 1 .. L : Children(d, g) = Children(c, g) /\ Kids(d, g) = Kids(c, g)
<1>1. Live(c) \subseteq 1 .. L /\ Live(c) = {e \in 1 .. L : ~ c.entry[e].free} /\ Live(d) = {e \in 1 .. L : ~ d.entry[e].free}
  BY LiveIs, Zenon
<1>2. /\ \A e \in 1 .. L : /\ d.entry[e].father = c.entry[e].father
                           /\ d.entry[e].first = c.entry[e].first
                           /\ d.entry[e].next = c.entry[e].next
                           /\ d.entry[e].created = c.entry[e].created /\ d.entry[e].free = c.entry[e].free
  BY DEF SameTree, SameLinks
<1>3. Live(d) = Live(c)
  BY <1>1, <1>2
<1>4. Ids(c) = 1 .. L /\ Ids(d) = 1 .. L
  BY CacheIds, Zenon
<1>5. NextOf(d) = NextOf(c)
  BY <1>2, <1>4 DEF NextOf
<1>6. \A t : Since(d, t) = Since(c, t)
  BY <1>1, <1>2, <1>3 DEF Since
<1>7. \A g \in 1 .. L : Children(d, g) = Children(c, g)
  BY <1>2, <1>5 DEF Children
<1>8. \A g \in 1 .. L : Kids(d, g) = Kids(c, g)
  BY <1>1, <1>2, <1>3 DEF Kids
<1> QED BY <1>3, <1>4, <1>5, <1>6, <1>7, <1>8

LEMMA SameTreeKeeps ==
  ASSUME NEW K, NEW L \in Nat, NEW c \in Caches(K, L), NEW d \in Caches(K, L), SameTree(c, d, 1 .. L)
  PROVE  /\ \A O : Rooted(c, O) => Rooted(d, O)
         /\ Listed(c) => Listed(d)
         /\ \A O, x, t : BranchAt(c, O, x, t) => BranchAt(d, O, x, t)
<1>1. /\ Live(d) = Live(c) /\ NextOf(d) = NextOf(c) /\ Ids(d) = Ids(c)
      /\ \A t : Since(d, t) = Since(c, t)
      /\ \A g \in 1 .. L : Children(d, g) = Children(c, g) /\ Kids(d, g) = Kids(c, g)
  BY SameTreeSets, Zenon
<1>2. Live(c) \subseteq 1 .. L
  BY LiveIs, Zenon
<1>3. \A e \in Live(c) : /\ d.entry[e].father = c.entry[e].father
                         /\ d.entry[e].first = c.entry[e].first
                         /\ d.entry[e].created = c.entry[e].created /\ e \in 1 .. L
  BY <1>2 DEF SameTree, SameLinks
<1>4. c.clock <= d.clock /\ c.clock \in Nat /\ d.clock \in Nat /\ \A e \in 1 .. L : c.entry[e].created \in Nat
  BY DEF SameTree, Caches, Entries
<1>5. ASSUME NEW O, Rooted(c, O) PROVE Rooted(d, O)
  <2>1. O \subseteq Live(c) /\ \A e \in O : c.entry[e].father = INVALID_ENTRY
    BY <1>5 DEF Rooted
  <2>2. \A e \in Live(c) \ O : /\ c.entry[e].father \in Live(c)
                               /\ c.entry[c.entry[e].father].created < c.entry[e].created
    BY <1>5 DEF Rooted
  <2>3. \A e \in Live(c) : c.entry[e].created < d.clock
    BY <1>3, <1>4, <1>5 DEF Rooted
  <2>4. \A e \in Live(d) : d.entry[e].created < d.clock
    BY <1>1, <1>3, <2>3
  <2>5. \A e \in Live(d) \ O : d.entry[e].father \in Live(d) /\ d.entry[d.entry[e].father].created < d.entry[e].created
    BY <1>1, <1>3, <2>2
  <2>6. O \subseteq Live(d) /\ \A e \in O : d.entry[e].father = INVALID_ENTRY
    BY <1>1, <1>3, <2>1
  <2> QED BY <2>4, <2>5, <2>6 DEF Rooted
<1>6. ASSUME Listed(c) PROVE Listed(d)
  BY <1>1, <1>3, <1>6 DEF Listed
<1>7. ASSUME NEW O, NEW x, NEW t, BranchAt(c, O, x, t) PROVE BranchAt(d, O, x, t)
  <2>1. x \in Live(c) /\ x \in 1 .. L
    BY <1>2, <1>7 DEF BranchAt
  <2>2. \A e \in Since(c, t) : e \in Live(c)
    BY DEF Since
  <2> QED BY <1>1, <1>3, <1>7, <2>1, <2>2 DEF BranchAt
<1> QED BY <1>5, <1>6, <1>7

(* What a set leads by is what it has of the sequence.                     *)
LEMMA LeadsSame ==
  ASSUME NEW S, NEW s \in Seq(S), NEW Y, NEW Z, Leads(s, Y), \A e \in ToSet(s) : e \in Y <=> e \in Z
  PROVE  Leads(s, Z)
<1>1. \A i \in 1 .. Len(s) : s[i] \in ToSet(s)
  BY DEF ToSet
<1> QED BY <1>1 DEF Leads

(* An entry that can be evicted is below an older one, in its list.        *)
Removable(c, id, O, P, L) ==
    LET father == c.entry[id].father
    IN  /\ id \in 1 .. L /\ id \in Live(c) \ O /\ id \notin P
        /\ father \in 1 .. L /\ father \in Live(c) /\ father # id
        /\ Children(c, father) \in Seq(1 .. L) /\ id \in ToSet(Children(c, father))
        /\ ToSet(Children(c, father)) = Kids(c, father)
        /\ Children(c, id) \in Seq(1 .. L) /\ ToSet(Children(c, id)) = Kids(c, id)

LEMMA EvictableIs ==
  ASSUME NEW K, NEW L \in Nat, NEW c \in Caches(K, L), NEW O, Rooted(c, O), Listed(c),
         NEW P, Guarded(c, P), O \subseteq P, NEW id \in Evictable(c)
  PROVE  Removable(c, id, O, P, L)
<1> DEFINE father == c.entry[id].father
<1>1. Live(c) \subseteq 1 .. L /\ Ids(c) = 1 .. L
  BY LiveIs, CacheIds, Zenon
<1>2. id \in Live(c) /\ id \in 1 .. L /\ (c.entry[id].model \/ c.entry[id].zero)
  BY <1>1 DEF Evictable, Confirmed
<1>3. id \notin P
  BY <1>2 DEF Guarded
<1>4. father \in Live(c) /\ father \in 1 .. L /\ c.entry[father].created < c.entry[id].created
  BY <1>1, <1>2, <1>3 DEF Rooted
<1>5. father # id
  <2>1. c.entry[id].created \in Nat
    BY <1>2 DEF Caches, Entries
  <2> QED BY <1>4, <2>1
<1>6. id \in Kids(c, father)
  BY <1>2 DEF Kids
<1>7. \A g \in Live(c) : Children(c, g) \in Seq(1 .. L) /\ ToSet(Children(c, g)) = Kids(c, g)
  BY <1>1 DEF Listed, ListOf
<1> QED BY <1>2, <1>3, <1>4, <1>5, <1>6, <1>7 DEF Removable

Evicted(c, x, id, O, K, L) ==
    /\ x \in Caches(K, L) /\ Woven(x, O) /\ IsEvicted(c, x, id, L)
    /\ Evictable(x) = Evictable(c) \ {id} /\ Confirmed(x) = Confirmed(c) \ {id}

LEMMA EvictIs ==
  ASSUME NEW K, Hashed(K), NEW L \in Nat, NEW c \in Caches(K, L), NEW O, Woven(c, O),
         NEW P, Guarded(c, P), O \subseteq P, NEW id \in Evictable(c)
  PROVE  Evicted(c, Evict(c, id), id, O, K, L)
<1> DEFINE d == RemoveFromDescendantsTree(c, id)
           r == RemoveFromTable(d, id)
           x == FreeEntry(r, id)
           father == c.entry[id].father
           sib == Children(c, father)
           i == Place(sib, id)
           kids == Children(c, id)
<1>1. Account(c) /\ Blank(c) /\ Rooted(c, O) /\ Listed(c)
  BY DEF Woven
<1>2. /\ id \in 1 .. L /\ id \in Live(c) \ O /\ id \notin P
      /\ father \in 1 .. L /\ father \in Live(c) /\ father # id
      /\ sib \in Seq(1 .. L) /\ id \in ToSet(sib) /\ ToSet(sib) = Kids(c, father)
      /\ kids \in Seq(1 .. L) /\ ToSet(kids) = Kids(c, id)
  <2>1. Removable(c, id, O, P, L)
    BY <1>1, EvictableIs, Zenon
  <2> QED BY <2>1, Zenon DEF Removable
<1>3. d \in Caches(K, L) /\ IsAdopted(c, d, id, L)
  BY <1>2, RemoveFromTreeType, RemoveFromTreeDoes, Zenon
<1> HIDE DEF d
<1>4. r \in Caches(K, L) /\ IsUnlinked(d, r, id, L)
  BY <1>2, <1>3, RemoveFromTableType, RemoveFromTableDoes, Zenon
<1> HIDE DEF r
<1>5. x \in Caches(K, L) /\ IsFreed(r, x, id, L)
  BY <1>2, <1>4, FreeEntryType, FreeEntryDoes, Zenon
<1>6. x = Evict(c, id)
  BY Zenon DEF Evict, r, d
<1> HIDE DEF x
<1>7. SameLinks(d, r, 1 .. L) /\ SameUse(d, r, 1 .. L) /\ SameBooks(d, r)
  BY <1>4, Zenon DEF IsUnlinked
<1>8. r.clock = d.clock /\ r.memory = d.memory /\ r.freeSlots = d.freeSlots
  BY <1>7, Zenon DEF SameBooks
<1>9. Rooted(x, O) /\ Listed(x) /\ IsEvicted(c, x, id, L)
  BY <1>1, <1>2, <1>3, <1>4, <1>5, <1>7, <1>8, EvictTree, Zenon
<1>10. SameUse(c, d, 1 .. L) /\ d.memory = c.memory /\ d.freeSlots = c.freeSlots
  BY <1>3, Zenon DEF IsAdopted, SameBooks
<1>11. Account(r) /\ Live(r) = Live(c) /\ Confirmed(r) = Confirmed(c) /\ Evictable(r) = Evictable(c)
  <2>1. Account(d) /\ Live(d) = Live(c) /\ Confirmed(d) = Confirmed(c) /\ Evictable(d) = Evictable(c)
    <3>1. Account(c) /\ d \in Caches(K, L) /\ c \in Caches(K, L) /\ L \in Nat
      BY <1>1, <1>3
    <3>2. Account(d)
      BY ONLY <1>10, <3>1, SameAccount, Zenon
    <3>3. /\ Live(d) = Live(c) /\ Confirmed(d) = Confirmed(c) /\ WithModel(d) = WithModel(c)
          /\ Evictable(d) = Evictable(c)
      <4>1. SameUse(c, d, 1 .. L)
        BY <1>10
      <4> QED BY ONLY <3>1, <4>1, SameUseSets, ZenonT(60)
    <3> QED BY ONLY <3>2, <3>3, Zenon
  <2>2. Account(r) /\ Live(r) = Live(d) /\ Confirmed(r) = Confirmed(d) /\ Evictable(r) = Evictable(d)
    <3>1. r \in Caches(K, L) /\ d \in Caches(K, L) /\ L \in Nat
      BY <1>3, <1>4
    <3>2. Account(r)
      BY ONLY <1>7, <1>8, <2>1, <3>1, SameAccount, Zenon
    <3> QED BY ONLY <1>7, <3>1, <3>2, SameUseSets, ZenonT(60)
  <2> QED BY <2>1, <2>2, Zenon
<1>12. Account(x) /\ Confirmed(x) = Confirmed(c) \ {id} /\ Evictable(x) = Evictable(c) \ {id}
  <2>1. id \in Live(r)
    BY <1>2, <1>11
  <2>2. Account(x)
    BY <1>4, <1>5, <1>11, <2>1, FreedAccount, Zenon
  <2>3. Confirmed(x) = Confirmed(r) \ {id} /\ Evictable(x) = Evictable(r) \ {id}
    <3>1. r \in Caches(K, L) /\ x \in Caches(K, L) /\ L \in Nat /\ id \in 1 .. L /\ IsFreed(r, x, id, L)
      BY <1>2, <1>4, <1>5
    <3>2. /\ Live(x) = Live(r) \ {id} /\ Confirmed(x) = Confirmed(r) \ {id}
          /\ WithModel(x) = WithModel(r) \ {id} /\ Evictable(x) = Evictable(r) \ {id}
      BY ONLY <3>1, FreedSets
    <3> QED BY ONLY <3>2, Zenon
  <2> QED BY <1>11, <2>2, <2>3, Zenon
<1>13. Blank(x)
  <2>0. Ids(x) = 1 .. L /\ Ids(c) = 1 .. L /\ Live(c) = {e \in 1 .. L : ~ c.entry[e].free}
    <3>1. x \in Caches(K, L) /\ c \in Caches(K, L) /\ L \in Nat
      BY <1>5
    <3>2. Ids(x) = 1 .. L /\ Ids(c) = 1 .. L
      BY ONLY <3>1, CacheIds, Zenon
    <3> QED BY ONLY <3>1, <3>2, LiveIs, Zenon
  <2> SUFFICES ASSUME NEW e \in 1 .. L, x.entry[e].free PROVE IsBlank(x.entry[e])
    BY <2>0 DEF Blank
  <2>1. CASE e = id
    BY <1>5, <2>1 DEF IsFreed
  <2>2. CASE e # id
    <3>1. x.entry[e] = r.entry[e]
      BY <1>5, <2>2 DEF IsFreed
    <3>2. /\ r.entry[e].father = d.entry[e].father /\ r.entry[e].first = d.entry[e].first
          /\ r.entry[e].next = d.entry[e].next /\ r.entry[e].free = d.entry[e].free
          /\ r.entry[e].model = d.entry[e].model
      BY <1>7 DEF SameLinks, SameUse
    <3>3. d.entry[e].free = c.entry[e].free /\ d.entry[e].model = c.entry[e].model
      BY <1>10 DEF SameUse
    <3>4. c.entry[e].free /\ IsBlank(c.entry[e]) /\ e \notin Live(c)
      BY <1>1, <2>0, <3>1, <3>2, <3>3 DEF Blank
    <3>5. e \notin ToSet(kids) /\ e # father
      BY <1>2, <3>4 DEF Kids
    <3>6. i # 1 => e # sib[i - 1]
      <4> HIDE DEF sib
      <4>1. i \in 0 .. Len(sib) /\ i # 0
        BY <1>2, PlaceOf
      <4>2. i # 1 => i - 1 \in 1 .. Len(sib) /\ DOMAIN sib = 1 .. Len(sib)
        BY <1>2, <4>1
      <4>3. i # 1 => sib[i - 1] \in ToSet(sib)
        BY <4>2 DEF ToSet
      <4>4. i # 1 => sib[i - 1] \in Live(c)
        BY <1>2, <4>3 DEF Kids
      <4> QED BY <3>4, <4>4
    <3> HIDE DEF i, sib, kids, father
    <3>7. d.entry[e].father = c.entry[e].father /\ d.entry[e].first = c.entry[e].first /\ d.entry[e].next = c.entry[e].next
      BY <1>3, <2>2, <3>5, <3>6 DEF IsAdopted, i, sib, kids, father
    <3> QED BY <3>1, <3>2, <3>3, <3>4, <3>7 DEF IsBlank
  <2> QED BY <2>1, <2>2
<1>14. Tabled(x)
  <2>1. Tabled(c) /\ SameTable(c, d, 1 .. L) /\ SameUse(c, d, 1 .. L)
    BY <1>3 DEF Woven, IsAdopted
  <2>2. Tabled(d)
    BY <1>3, <2>1, TabledUse, Zenon
  <2> QED BY <1>2, <1>3, <1>4, <1>5, <2>2, TabledFreed, Zenon
<1>16. Woven(x, O)
  BY <1>9, <1>12, <1>13, <1>14 DEF Woven
<1>15. Evicted(c, x, id, O, K, L)
  BY <1>5, <1>9, <1>12, <1>16, Zenon DEF Evicted
<1> QED BY <1>6, <1>15, Zenon

(* The way up from an entry, s.                                            *)
Upwards(c, e, s, L) ==
    /\ ListOf(1 .. L, FatherOf(c), c.entry[e].father, s, ToSet(s))
    /\ \A a \in ToSet(s) : a \in Live(c) /\ c.entry[a].created < c.entry[e].created

LEMMA FatherOfIs ==
  ASSUME NEW K, NEW L \in Nat, NEW c \in Caches(K, L)
  PROVE  /\ FatherOf(c) \in [1 .. L -> 1 .. L \cup {INVALID_ENTRY}]
         /\ \A e \in 1 .. L : FatherOf(c)[e] = c.entry[e].father
<1>1. Ids(c) = 1 .. L
  BY CacheIds
<1>2. \A e \in 1 .. L : c.entry[e].father \in 1 .. L \cup {INVALID_ENTRY}
  BY DEF Caches, Entries, Pointers
<1> QED BY <1>1, <1>2 DEF FatherOf

LEMMA FatherUpwards ==
  ASSUME NEW K, NEW L \in Nat, NEW c \in Caches(K, L), NEW O, Rooted(c, O),
         NEW e \in Live(c) \ O, NEW s, Upwards(c, c.entry[e].father, s, L)
  PROVE  Upwards(c, e, <<c.entry[e].father>> \o s, L)
<1> DEFINE f == c.entry[e].father
           p == FatherOf(c)
           u == <<f>> \o s
<1>1. Live(c) \subseteq 1 .. L
  BY LiveIs, Zenon
<1>2. f \in Live(c) /\ f \in 1 .. L /\ c.entry[f].created < c.entry[e].created /\ e \in 1 .. L
  BY <1>1 DEF Rooted
<1>3. ListOf(1 .. L, p, c.entry[f].father, s, ToSet(s))
      /\ \A a \in ToSet(s) : a \in Live(c) /\ c.entry[a].created < c.entry[f].created
  BY DEF Upwards
<1>4. \A a \in 1 .. L : c.entry[a].created \in Nat
  BY DEF Caches, Entries
<1>5. f \notin ToSet(s)
  BY <1>2, <1>3, <1>4
<1>6. p[f] = c.entry[f].father
  BY <1>2, FatherOfIs
<1>7. ListOf(1 .. L, p, f, u, ToSet(s) \cup {f})
  BY <1>2, <1>3, <1>5, <1>6, ListCons
<1> HIDE DEF u, f
<1>8. ToSet(u) = ToSet(s) \cup {f}
  BY <1>7, Zenon DEF ListOf
<1>9. \A a \in ToSet(u) : a \in Live(c) /\ c.entry[a].created < c.entry[e].created
  <2>1. ASSUME NEW a \in ToSet(s) PROVE c.entry[a].created < c.entry[e].created
    <3>1. a \in 1 .. L /\ c.entry[a].created < c.entry[f].created
      BY <1>1, <1>3
    <3>2. c.entry[a].created \in Nat /\ c.entry[f].created \in Nat /\ c.entry[e].created \in Nat
      BY <1>2, <1>4, <3>1
    <3> QED BY <1>2, <3>1, <3>2
  <2> QED BY <1>2, <1>3, <1>8, <2>1
<1> QED BY <1>7, <1>8, <1>9 DEF Upwards, f, u

LEMMA EndUpwards ==
  ASSUME NEW K, NEW L \in Nat, NEW c \in Caches(K, L), NEW O, Rooted(c, O), NEW e \in O
  PROVE  Upwards(c, e, <<>>, L)
<1>1. c.entry[e].father = INVALID_ENTRY
  BY DEF Rooted
<1> QED BY <1>1 DEF Upwards, ListOf, Piece, ToSet, IsInjective

LEMMA UpwardsExist ==
  ASSUME NEW K, NEW L \in Nat, NEW c \in Caches(K, L), NEW O, Rooted(c, O)
  PROVE  \A e \in Live(c) : \E s : Upwards(c, e, s, L)
<1> DEFINE T == {n \in 0 .. c.clock : \A e \in Live(c) : c.entry[e].created < n => \E s : Upwards(c, e, s, L)}
<1>1. c.clock \in Nat /\ \A e \in Live(c) : c.entry[e].created \in Nat /\ c.entry[e].created < c.clock
  <2>1. Live(c) \subseteq 1 .. L
    BY LiveIs, Zenon
  <2> QED BY <2>1 DEF Rooted, Caches, Entries
<1>2. 0 \in T
  BY <1>1
<1>3. ASSUME NEW n \in 1 .. c.clock, n - 1 \in T PROVE n \in T
  <2> SUFFICES ASSUME NEW e \in Live(c), c.entry[e].created < n PROVE \E s : Upwards(c, e, s, L)
    BY <1>1
  <2>1. CASE e \in O
    BY <2>1, EndUpwards, Zenon
  <2>2. CASE e \notin O
    <3>1. c.entry[e].father \in Live(c) /\ c.entry[c.entry[e].father].created < c.entry[e].created
      BY <2>2 DEF Rooted
    <3>2. c.entry[c.entry[e].father].created < n - 1
      <4>1. c.entry[c.entry[e].father].created \in Nat /\ c.entry[e].created \in Nat
        BY <1>1, <3>1
      <4> QED BY <1>1, <3>1, <4>1
    <3>3. PICK s : Upwards(c, c.entry[e].father, s, L)
      BY <1>3, <3>1, <3>2
    <3>4. e \in Live(c) \ O
      BY <2>2
    <3> QED BY <3>3, <3>4, FatherUpwards, Zenon
  <2> QED BY <2>1, <2>2
<1> HIDE DEF T
<1>4. \A n \in 0 .. c.clock : n \in T
  BY <1>1, <1>2, <1>3, BoundedSteps, Zenon
<1>5. c.clock \in T
  BY <1>1, <1>4
<1> QED BY <1>1, <1>5 DEF T

LEMMA UpwardsAre ==
  ASSUME NEW K, NEW L \in Nat, NEW c \in Caches(K, L), NEW e \in Live(c), NEW s, Upwards(c, e, s, L)
  PROVE  Ancestors(c, e) = ToSet(s)
<1>1. FatherOf(c) \in [1 .. L -> 1 .. L \cup {INVALID_ENTRY}]
  BY FatherOfIs
<1>2. IsFiniteSet(1 .. L) /\ INVALID_ENTRY \notin 1 .. L
  BY IntervalFinite
<1>3. ListOf(1 .. L, FatherOf(c), c.entry[e].father, s, ToSet(s))
  BY DEF Upwards
<1>4. Follow(FatherOf(c), c.entry[e].father) = s
  BY <1>1, <1>2, <1>3, FollowList, Zenon
<1> QED BY <1>4 DEF Ancestors

(* The ancestors of an entry are its father and those of its father.       *)
Fathers(c, O) ==
    /\ \A e \in O : Ancestors(c, e) = {}
    /\ \A e \in Live(c) \ O : Ancestors(c, e) = {c.entry[e].father} \cup Ancestors(c, c.entry[e].father)
    /\ \A e \in Live(c) : \A a \in Ancestors(c, e) : a \in Live(c) /\ c.entry[a].created < c.entry[e].created

LEMMA AncestorsAre ==
  ASSUME NEW K, NEW L \in Nat, NEW c \in Caches(K, L), NEW O, Rooted(c, O)
  PROVE  Fathers(c, O)
<1>1. ASSUME NEW e \in O PROVE Ancestors(c, e) = {}
  <2>1. Upwards(c, e, <<>>, L) /\ e \in Live(c)
    BY EndUpwards, Zenon DEF Rooted
  <2>2. Ancestors(c, e) = ToSet(<<>>)
    BY <2>1, UpwardsAre, Zenon
  <2> QED BY <2>2 DEF ToSet
<1>2. ASSUME NEW e \in Live(c) \ O
      PROVE  Ancestors(c, e) = {c.entry[e].father} \cup Ancestors(c, c.entry[e].father)
  <2> DEFINE f == c.entry[e].father
  <2>1. f \in Live(c)
    BY DEF Rooted
  <2>2. PICK s : Upwards(c, f, s, L)
    BY <2>1, UpwardsExist, Zenon
  <2>3. Upwards(c, e, <<f>> \o s, L)
    BY <2>2, FatherUpwards, Zenon
  <2>4. Ancestors(c, f) = ToSet(s) /\ Ancestors(c, e) = ToSet(<<f>> \o s)
    BY <2>1, <2>2, <2>3, UpwardsAre, Zenon
  <2>5. ToSet(<<f>> \o s) = {f} \cup ToSet(s)
    <3>1. s \in Seq(1 .. L) /\ f \in 1 .. L
      <4>1. Live(c) \subseteq 1 .. L
        BY LiveIs, Zenon
      <4> QED BY <2>1, <2>2, <4>1 DEF Upwards, ListOf
    <3> QED BY <3>1, ConsIs, Zenon
  <2> QED BY <2>4, <2>5
<1>3. ASSUME NEW e \in Live(c), NEW a \in Ancestors(c, e)
      PROVE  a \in Live(c) /\ c.entry[a].created < c.entry[e].created
  <2>1. PICK s : Upwards(c, e, s, L)
    BY UpwardsExist, Zenon
  <2>2. Ancestors(c, e) = ToSet(s)
    BY <2>1, UpwardsAre, Zenon
  <2> QED BY <2>1, <2>2 DEF Upwards
<1> QED BY <1>1, <1>2, <1>3 DEF Fathers

(* That is, nothing else is what they are.                                 *)
LEMMA AncestorsOnly ==
  ASSUME NEW K, NEW L \in Nat, NEW c \in Caches(K, L), NEW O, Rooted(c, O),
         NEW f, \A e \in O : f[e] = {},
         \A e \in Live(c) \ O : f[e] = {c.entry[e].father} \cup f[c.entry[e].father]
  PROVE  \A e \in Live(c) : Ancestors(c, e) = f[e]
<1> DEFINE T == {n \in 0 .. c.clock : \A e \in Live(c) : c.entry[e].created < n => Ancestors(c, e) = f[e]}
<1>1. c.clock \in Nat /\ \A e \in Live(c) : c.entry[e].created \in Nat /\ c.entry[e].created < c.clock
  <2>1. Live(c) \subseteq 1 .. L
    BY LiveIs, Zenon
  <2> QED BY <2>1 DEF Rooted, Caches, Entries
<1>2. 0 \in T
  BY <1>1
<1>3. Fathers(c, O)
  BY AncestorsAre
<1>4. ASSUME NEW n \in 1 .. c.clock, n - 1 \in T PROVE n \in T
  <2> SUFFICES ASSUME NEW e \in Live(c), c.entry[e].created < n PROVE Ancestors(c, e) = f[e]
    BY <1>1
  <2>1. CASE e \in O
    BY <1>3, <2>1 DEF Fathers
  <2>2. CASE e \notin O
    <3>1. c.entry[e].father \in Live(c) /\ c.entry[c.entry[e].father].created < c.entry[e].created
      BY <2>2 DEF Rooted
    <3>2. c.entry[c.entry[e].father].created < n - 1
      <4>1. c.entry[c.entry[e].father].created \in Nat /\ c.entry[e].created \in Nat
        BY <1>1, <3>1
      <4> QED BY <1>1, <3>1, <4>1
    <3>3. Ancestors(c, c.entry[e].father) = f[c.entry[e].father]
      BY <1>4, <3>1, <3>2
    <3>4. e \in Live(c) \ O
      BY <2>2
    <3>5. Ancestors(c, e) = {c.entry[e].father} \cup Ancestors(c, c.entry[e].father)
      BY <1>3, <3>4, Zenon DEF Fathers
    <3>6. f[e] = {c.entry[e].father} \cup f[c.entry[e].father]
      BY <3>4, Zenon
    <3> QED BY <3>3, <3>5, <3>6
  <2> QED BY <2>1, <2>2
<1> HIDE DEF T
<1>5. \A n \in 0 .. c.clock : n \in T
  BY <1>1, <1>2, <1>4, BoundedSteps, Zenon
<1>6. c.clock \in T
  BY <1>1, <1>5
<1> QED BY <1>1, <1>6 DEF T

(* The ancestors stay the same where the fathers do.                       *)
LEMMA AncestorsKept ==
  ASSUME NEW K, NEW L \in Nat, NEW c \in Caches(K, L), NEW O, Rooted(c, O),
         NEW M \in Nat, NEW d \in Caches(K, M), NEW R, Rooted(d, R),
         Live(c) \subseteq Live(d), \A e \in Live(c) : d.entry[e].father = c.entry[e].father
  PROVE  \A e \in Live(c) : Ancestors(d, e) = Ancestors(c, e)
<1> DEFINE f == [e \in Live(c) |-> Ancestors(d, e)]
<1>1. Fathers(d, R)
  BY AncestorsAre
<1>2. /\ \A e \in R : Ancestors(d, e) = {}
      /\ \A e \in Live(d) \ R : Ancestors(d, e) = {d.entry[e].father} \cup Ancestors(d, d.entry[e].father)
  BY <1>1, Zenon DEF Fathers
<1>3. /\ O \subseteq Live(c) /\ \A e \in O : c.entry[e].father = INVALID_ENTRY
      /\ \A e \in Live(c) \ O : c.entry[e].father \in Live(c)
      /\ \A e \in R : d.entry[e].father = INVALID_ENTRY
      /\ \A e \in Live(d) \ R : d.entry[e].father \in Live(d)
  BY DEF Rooted
<1>4. \A e \in Live(d) : e # INVALID_ENTRY
  <2>1. Live(d) \subseteq 1 .. M
    BY LiveIs, Zenon
  <2> QED BY <2>1 DEF INVALID_ENTRY
<1>5. \A e \in Live(c) : e \in R <=> e \in O
  <2>1. Live(c) \subseteq 1 .. L
    BY LiveIs, Zenon
  <2>2. \A e \in Live(c) : e # INVALID_ENTRY
    BY <2>1 DEF INVALID_ENTRY
  <2> QED BY <1>3, <1>4, <2>2
<1>6. \A e \in O : f[e] = {}
  BY <1>2, <1>3, <1>5
<1>7. \A e \in Live(c) \ O : f[e] = {c.entry[e].father} \cup f[c.entry[e].father]
  BY <1>2, <1>3, <1>5
<1>8. \A e \in Live(c) : f[e] = Ancestors(d, e)
  OBVIOUS
<1> HIDE DEF f
<1>9. \A e \in Live(c) : Ancestors(c, e) = f[e]
  BY <1>6, <1>7, AncestorsOnly
<1> QED BY <1>8, <1>9

(* Without an entry whose children go to its father, the others have the   *)
(* ancestors that are left.                                                *)
LEMMA AncestorsLess ==
  ASSUME NEW K, NEW L \in Nat, NEW c \in Caches(K, L), NEW O, Rooted(c, O), NEW id \in Live(c) \ O,
         NEW x \in Caches(K, L), Rooted(x, O), IsEvicted(c, x, id, L)
  PROVE  \A e \in Live(x) : Ancestors(x, e) = Ancestors(c, e) \cap Live(x)
<1> DEFINE father == c.entry[id].father
           f == [e \in Live(x) |-> Ancestors(c, e) \ {id}]
<1>1. Live(c) \subseteq 1 .. L
  BY LiveIs, Zenon
<1>2. /\ Live(x) = Live(c) \ {id}
      /\ \A e \in 1 .. L : e # id =>
           x.entry[e].father = IF e \in Kids(c, id) THEN father ELSE c.entry[e].father
  BY Zenon DEF IsEvicted
<1>3. Fathers(c, O)
  BY AncestorsAre
<1>4. /\ \A e \in O : Ancestors(c, e) = {}
      /\ \A e \in Live(c) \ O : Ancestors(c, e) = {c.entry[e].father} \cup Ancestors(c, c.entry[e].father)
      /\ \A e \in Live(c) : \A a \in Ancestors(c, e) : a \in Live(c) /\ c.entry[a].created < c.entry[e].created
  BY <1>3, Zenon DEF Fathers
<1>5. O \subseteq Live(x) /\ (\A e \in Live(x) \ O : x.entry[e].father \in Live(x))
  BY DEF Rooted
<1>6. \A e \in O : f[e] = {}
  BY <1>4, <1>5
<1>7. ASSUME NEW e \in Live(x) \ O PROVE f[e] = {x.entry[e].father} \cup f[x.entry[e].father]
  <2>1. e \in Live(c) \ O /\ e # id /\ e \in 1 .. L
    BY <1>1, <1>2
  <2>2. x.entry[e].father \in Live(x) /\ x.entry[e].father # id
    BY <1>2, <1>5
  <2>3. Ancestors(c, e) \ {id} = {x.entry[e].father} \cup (Ancestors(c, x.entry[e].father) \ {id})
    <3>1. CASE e \in Kids(c, id)
      <4>1. c.entry[e].father = id /\ x.entry[e].father = father
        BY <1>2, <2>1, <3>1 DEF Kids
      <4>2. Ancestors(c, e) = {id} \cup Ancestors(c, id) /\ Ancestors(c, id) = {father} \cup Ancestors(c, father)
        BY <1>4, <2>1, <4>1
      <4> HIDE DEF father
      <4> QED BY <2>2, <4>1, <4>2
    <3>2. CASE e \notin Kids(c, id)
      <4>1. x.entry[e].father = c.entry[e].father
        BY <1>2, <2>1, <3>2
      <4>2. Ancestors(c, e) = {x.entry[e].father} \cup Ancestors(c, x.entry[e].father)
        BY <1>4, <2>1, <4>1
      <4> QED BY <2>2, <4>2
    <3> QED BY <3>1, <3>2
  <2> QED BY <2>2, <2>3
<1>8. \A e \in Live(x) : f[e] = Ancestors(c, e) \ {id}
  OBVIOUS
<1> HIDE DEF f
<1>9. \A e \in Live(x) : Ancestors(x, e) = f[e]
  BY <1>6, <1>7, AncestorsOnly
<1>10. \A e \in Live(x) : Ancestors(c, e) \ {id} = Ancestors(c, e) \cap Live(x)
  BY <1>2, <1>4
<1> QED BY <1>8, <1>9, <1>10

(* An entry that no other hangs below gets a father.                       *)
LEMMA AncestorsAdded ==
  ASSUME NEW K, NEW L \in Nat, NEW c \in Caches(K, L), NEW O, NEW id, Rooted(c, O \cup {id}), id \notin O,
         \A e \in Live(c) : c.entry[e].father # id,
         NEW d \in Caches(K, L), Rooted(d, O), Live(d) = Live(c),
         \A e \in Live(c) : e # id => d.entry[e].father = c.entry[e].father
  PROVE  /\ \A e \in Live(c) : e # id => Ancestors(d, e) = Ancestors(c, e)
         /\ Ancestors(d, id) = {d.entry[id].father} \cup Ancestors(c, d.entry[id].father)
<1> DEFINE p == d.entry[id].father
           f == [e \in Live(c) |-> IF e = id THEN {p} \cup Ancestors(c, p) ELSE Ancestors(c, e)]
<1>1. Fathers(c, O \cup {id})
  BY AncestorsAre
<1>2. /\ \A e \in O : Ancestors(c, e) = {}
      /\ \A e \in Live(c) \ (O \cup {id}) : Ancestors(c, e) = {c.entry[e].father} \cup Ancestors(c, c.entry[e].father)
  BY <1>1 DEF Fathers
<1>3. /\ O \subseteq Live(c) /\ id \in Live(c) /\ \A e \in O : e # id
      /\ \A e \in Live(c) \ (O \cup {id}) : c.entry[e].father \in Live(c)
  BY DEF Rooted
<1>4. p \in Live(c) /\ p # id
  <2>1. p \in Live(d) /\ d.entry[p].created < d.entry[id].created
    BY <1>3 DEF Rooted
  <2>2. d.entry[id].created \in Nat
    <3>1. Live(d) \subseteq 1 .. L
      BY LiveIs, Zenon
    <3> QED BY <1>3, <3>1 DEF Caches, Entries
  <2> QED BY <2>1, <2>2
<1> HIDE DEF p
<1>5. \A e \in O : f[e] = {}
  BY <1>2, <1>3
<1>6. ASSUME NEW e \in Live(c) \ O PROVE f[e] = {d.entry[e].father} \cup f[d.entry[e].father]
  <2>1. CASE e = id
    BY <1>3, <1>4, <2>1 DEF p
  <2>2. CASE e # id
    <3>1. d.entry[e].father = c.entry[e].father /\ c.entry[e].father \in Live(c) /\ c.entry[e].father # id
      BY <1>3, <2>2
    <3>2. Ancestors(c, e) = {c.entry[e].father} \cup Ancestors(c, c.entry[e].father)
      BY <1>2, <2>2
    <3> QED BY <2>2, <3>1, <3>2
  <2> QED BY <2>1, <2>2
<1>7. f[id] = {p} \cup Ancestors(c, p) /\ \A e \in Live(c) : e # id => f[e] = Ancestors(c, e)
  BY <1>3
<1> HIDE DEF f
<1>8. \A e \in Live(c) : Ancestors(d, e) = f[e]
  BY <1>5, <1>6, AncestorsOnly
<1> QED BY <1>3, <1>7, <1>8 DEF p

(* d is c after evictions.                                                 *)
Shrunk(c, d, O, P) ==
    /\ d.clock = c.clock /\ Live(d) \subseteq Live(c) /\ Open(d) = Open(c)
    /\ \A e \in Live(d) : d.entry[e].created = c.entry[e].created /\ d.entry[e].comp = c.entry[e].comp
    /\ \A e \in P : d.entry[e].father = c.entry[e].father
    /\ \A x \in P : \A t \in Nat : BranchAt(c, O, x, t) => BranchAt(d, O, x, t)
    /\ Confirmed(d) \subseteq Confirmed(c)
    /\ \A e \in Live(d) : c.entry[e].father \in Live(d) => d.entry[e].father = c.entry[e].father
    /\ \A e \in Live(d) : Ancestors(d, e) = Ancestors(c, e) \cap Live(d)
    /\ Ids(d) = Ids(c) /\ \A e \in Ids(c) : d.entry[e].created = c.entry[e].created

(* What evictions keep.                                                    *)
Keeps(c, d, O, P, K, L) == d \in Caches(K, L) /\ Woven(d, O) /\ Guarded(d, P) /\ Shrunk(c, d, O, P)

LEMMA EvictKeeps ==
  ASSUME NEW K, Hashed(K), NEW L \in Nat, NEW c \in Caches(K, L), NEW O, Woven(c, O),
         NEW P, Guarded(c, P), O \subseteq P, NEW id \in Evictable(c)
  PROVE  /\ Keeps(c, Evict(c, id), O, P, K, L)
         /\ Evictable(Evict(c, id)) = Evictable(c) \ {id}
<1> DEFINE x == Evict(c, id)
           father == c.entry[id].father
           sib == Children(c, father)
           kids == Children(c, id)
<1>1. Rooted(c, O) /\ Listed(c)
  BY DEF Woven
<1>2. /\ id \in 1 .. L /\ id \in Live(c) \ O /\ id \notin P
      /\ father \in 1 .. L /\ father \in Live(c) /\ father # id
      /\ sib \in Seq(1 .. L) /\ id \in ToSet(sib) /\ ToSet(sib) = Kids(c, father)
      /\ kids \in Seq(1 .. L) /\ ToSet(kids) = Kids(c, id)
  <2>1. Removable(c, id, O, P, L)
    BY <1>1, EvictableIs, Zenon
  <2> QED BY <2>1, Zenon DEF Removable
<1>3. /\ x \in Caches(K, L) /\ Woven(x, O) /\ IsEvicted(c, x, id, L)
      /\ Evictable(x) = Evictable(c) \ {id} /\ Confirmed(x) = Confirmed(c) \ {id}
  <2>1. Evicted(c, x, id, O, K, L)
    BY EvictIs, Zenon
  <2> HIDE DEF x
  <2> QED BY <2>1, Zenon DEF Evicted
<1>4. Live(c) \subseteq 1 .. L /\ \A e \in 1 .. L : c.entry[e].created \in Nat
  BY LiveIs DEF Caches, Entries
<1> HIDE DEF x
<1>5. /\ Live(x) = Live(c) \ {id} /\ x.clock = c.clock
      /\ \A e \in 1 .. L : e # id =>
             /\ x.entry[e].father = IF e \in Kids(c, id) THEN father ELSE c.entry[e].father
             /\ x.entry[e].comp = c.entry[e].comp /\ x.entry[e].created = c.entry[e].created
             /\ x.entry[e].model = c.entry[e].model /\ x.entry[e].zero = c.entry[e].zero
             /\ x.entry[e].delete = c.entry[e].delete /\ x.entry[e].free = c.entry[e].free
  BY <1>3, Zenon DEF IsEvicted
<1>6. /\ \A g \in Live(x) : g # father => Children(x, g) = Children(c, g)
      /\ \E a, b \in Seq(1 .. L) : sib = a \o (<<id>> \o b) /\ Children(x, father) = a \o (kids \o b)
  BY <1>3, Zenon DEF IsEvicted
<1> HIDE DEF sib, kids
<1>7. \A e \in P : e \in Live(c) /\ e # id /\ e \in 1 .. L /\ e \notin Kids(c, id)
  <2>1. id # INVALID_ENTRY
    BY <1>2 DEF INVALID_ENTRY
  <2> QED BY <1>2, <1>4, <2>1 DEF Guarded, Kids
<1>8. \A e \in P : x.entry[e].father = c.entry[e].father
  BY <1>5, <1>7
<1>9. Guarded(x, P)
  BY <1>5, <1>7, <1>8 DEF Guarded
<1>10. Open(x) = Open(c)
  <2>1. id \in Confirmed(c)
    BY DEF Evictable
  <2> QED BY <1>3, <1>5, <2>1 DEF Open
<1>11. ASSUME NEW y \in P, NEW t \in Nat, BranchAt(c, O, y, t) PROVE BranchAt(x, O, y, t)
  <2> DEFINE Y == Since(c, t)
             Z == Since(x, t)
  <2>1. y \in Live(c) /\ y # id /\ y \in 1 .. L /\ y \in Live(x)
    BY <1>5, <1>7
  <2>2. /\ c.entry[y].created < t /\ Leads(Children(c, y), Y)
        /\ \A e \in Y \ O : c.entry[e].father = y \/ c.entry[e].father \in Y
    BY <1>11 DEF BranchAt
  <2>3. Z = Y \ {id}
    BY <1>4, <1>5 DEF Since
  <2>4. \A e \in Y : e \in Live(c) /\ e \in 1 .. L
    BY <1>4 DEF Since
  <2>4a. \A e \in Live(c) : e \in Y <=> c.entry[e].created >= t
    BY DEF Since
  <2> HIDE DEF Y, Z
  <2>5. \A e \in Z \ O : x.entry[e].father = y \/ x.entry[e].father \in Z
    <3> SUFFICES ASSUME NEW e \in Z \ O PROVE x.entry[e].father = y \/ x.entry[e].father \in Z
      OBVIOUS
    <3>1. e \in Y \ O /\ e # id /\ e \in Live(c) /\ e \in 1 .. L
      BY <2>3, <2>4
    <3>2. CASE e \in Kids(c, id)
      <4>1. c.entry[e].father = id /\ x.entry[e].father = father
        BY <1>5, <3>1, <3>2 DEF Kids
      <4>2. id \in Y \ O
        BY <1>2, <2>1, <2>2, <3>1, <4>1
      <4>3. father = y \/ father \in Y
        BY <2>2, <4>2
      <4> QED BY <1>2, <2>3, <4>1, <4>3
    <3>3. CASE e \notin Kids(c, id)
      <4>1. c.entry[e].father # id /\ x.entry[e].father = c.entry[e].father
        BY <1>5, <3>1, <3>3 DEF Kids
      <4> QED BY <2>2, <2>3, <3>1, <4>1
    <3> QED BY <3>2, <3>3
  <2>6. Leads(Children(x, y), Y)
    <3>1. CASE y # father
      BY <1>6, <2>1, <2>2, <3>1
    <3>2. CASE y = father
      <4>1. PICK a \in Seq(1 .. L), b \in Seq(1 .. L) : sib = a \o (<<id>> \o b) /\ Children(x, father) = a \o (kids \o b)
        BY <1>6, Zenon
      <4>2. Leads(a \o (<<id>> \o b), Y)
        BY <2>2, <3>2, <4>1 DEF sib
      <4>3. id \in Y => ToSet(kids) \subseteq Y
        <5> SUFFICES ASSUME id \in Y, NEW e \in Kids(c, id) PROVE e \in Y
          BY <1>2
        <5>1. e \in Live(c) \ O /\ c.entry[e].father = id
          <6>1. id # INVALID_ENTRY
            BY <1>2 DEF INVALID_ENTRY
          <6> QED BY <1>1, <6>1 DEF Rooted, Kids
        <5>2. c.entry[id].created < c.entry[e].created
          BY <1>1, <5>1 DEF Rooted
        <5>3. c.entry[id].created >= t /\ c.entry[id].created \in Nat /\ c.entry[e].created \in Nat
          BY <1>2, <1>4, <2>4a, <5>1
        <5> QED BY <2>4a, <5>1, <5>2, <5>3
      <4>4. id \notin Y => ToSet(kids) \cap Y = {}
        <5> SUFFICES ASSUME id \notin Y, NEW e \in Kids(c, id), e \in Y PROVE FALSE
          BY <1>2
        <5>1. e \in Live(c) \ O /\ c.entry[e].father = id
          <6>1. id # INVALID_ENTRY
            BY <1>2 DEF INVALID_ENTRY
          <6> QED BY <1>1, <6>1 DEF Rooted, Kids
        <5> QED BY <2>1, <2>2, <5>1
      <4>5. kids \in Seq(1 .. L) /\ id \in 1 .. L
        BY <1>2
      <4>6. Leads(a \o (kids \o b), Y)
        BY ONLY <4>1, <4>2, <4>3, <4>4, <4>5, LeadsSplice, Zenon
      <4> QED BY <3>2, <4>1, <4>6
    <3> QED BY <3>1, <3>2
  <2>7. Leads(Children(x, y), Z)
    <3>1. Children(x, y) \in Seq(1 .. L)
      BY <1>3, <2>1, ChildrenType
    <3>2. id \notin ToSet(Children(x, y))
      <4>1. Listed(x)
        BY <1>3 DEF Woven
      <4>2. ToSet(Children(x, y)) = Kids(x, y)
        BY <2>1, <4>1 DEF Listed, ListOf
      <4> QED BY <1>5, <4>2 DEF Kids
    <3>3. \A e \in ToSet(Children(x, y)) : e \in Y <=> e \in Z
      BY <2>3, <3>2
    <3> QED BY <2>6, <3>1, <3>3, LeadsSame, Zenon
  <2> QED BY <1>5, <2>1, <2>2, <2>5, <2>7 DEF BranchAt, Z
<1>12. Shrunk(c, x, O, P)
  <2>1. \A e \in Live(x) : x.entry[e].created = c.entry[e].created /\ x.entry[e].comp = c.entry[e].comp
    BY <1>4, <1>5
  <2>2. Confirmed(x) \subseteq Confirmed(c)
    BY <1>3
  <2>3. \A e \in Live(x) : c.entry[e].father \in Live(x) => x.entry[e].father = c.entry[e].father
    BY <1>4, <1>5 DEF Kids
  <2>4. \A e \in Live(x) : Ancestors(x, e) = Ancestors(c, e) \cap Live(x)
    <3>1. Rooted(x, O) /\ Rooted(c, O) /\ id \in Live(c) \ O /\ x \in Caches(K, L) /\ IsEvicted(c, x, id, L)
      BY <1>1, <1>2, <1>3 DEF Woven
    <3> QED BY ONLY <3>1, L \in Nat, c \in Caches(K, L), AncestorsLess
  <2>5. Ids(x) = Ids(c) /\ \A e \in Ids(c) : x.entry[e].created = c.entry[e].created
    <3>1. x.entry[id].created = c.entry[id].created
      BY <1>3 DEF IsEvicted
    <3>2. Ids(c) = 1 .. L /\ Ids(x) = 1 .. L
      BY <1>3, CacheIds
    <3> QED BY <1>5, <3>1, <3>2
  <2> QED BY <1>5, <1>8, <1>10, <1>11, <2>1, <2>2, <2>3, <2>4, <2>5 DEF Shrunk
<1>13. Keeps(c, x, O, P, K, L) /\ Evictable(x) = Evictable(c) \ {id}
  BY <1>3, <1>9, <1>12, Zenon DEF Keeps
<1> QED BY <1>13 DEF x

LEMMA ShrunkOn ==
  ASSUME NEW O, NEW P, NEW c, NEW d, NEW x, Shrunk(c, d, O, P), Shrunk(d, x, O, P)
  PROVE  Shrunk(c, x, O, P)
<1>1. /\ d.clock = c.clock /\ Live(d) \subseteq Live(c) /\ Open(d) = Open(c)
      /\ \A e \in Live(d) : d.entry[e].created = c.entry[e].created /\ d.entry[e].comp = c.entry[e].comp
      /\ \A e \in P : d.entry[e].father = c.entry[e].father
      /\ \A y \in P : \A t \in Nat : BranchAt(c, O, y, t) => BranchAt(d, O, y, t)
      /\ Confirmed(d) \subseteq Confirmed(c)
      /\ \A e \in Live(d) : c.entry[e].father \in Live(d) => d.entry[e].father = c.entry[e].father
      /\ \A e \in Live(d) : Ancestors(d, e) = Ancestors(c, e) \cap Live(d)
      /\ Ids(d) = Ids(c) /\ \A e \in Ids(c) : d.entry[e].created = c.entry[e].created
  BY DEF Shrunk
<1>2. /\ x.clock = d.clock /\ Live(x) \subseteq Live(d) /\ Open(x) = Open(d)
      /\ \A e \in Live(x) : x.entry[e].created = d.entry[e].created /\ x.entry[e].comp = d.entry[e].comp
      /\ \A e \in P : x.entry[e].father = d.entry[e].father
      /\ \A y \in P : \A t \in Nat : BranchAt(d, O, y, t) => BranchAt(x, O, y, t)
      /\ Confirmed(x) \subseteq Confirmed(d)
      /\ \A e \in Live(x) : d.entry[e].father \in Live(x) => x.entry[e].father = d.entry[e].father
      /\ \A e \in Live(x) : Ancestors(x, e) = Ancestors(d, e) \cap Live(x)
      /\ Ids(x) = Ids(d) /\ \A e \in Ids(d) : x.entry[e].created = d.entry[e].created
  BY DEF Shrunk
<1>3. \A e \in Live(x) : e \in Live(d)
  BY <1>2
<1>4. \A e \in Live(x) : c.entry[e].father \in Live(x) => x.entry[e].father = c.entry[e].father
  BY <1>1, <1>2, <1>3
<1>5. \A e \in Live(x) : Ancestors(x, e) = Ancestors(c, e) \cap Live(x)
  BY <1>1, <1>2, <1>3
<1>6. Ids(x) = Ids(c) /\ \A e \in Ids(c) : x.entry[e].created = c.entry[e].created
  BY <1>1, <1>2
<1> QED BY <1>1, <1>2, <1>3, <1>4, <1>5, <1>6 DEF Shrunk

LEMMA EvictIfNeededKeeps ==
  ASSUME NEW K, Hashed(K), NEW L \in Nat, NEW c \in Caches(K, L), NEW O, Woven(c, O),
         NEW P, Guarded(c, P), O \subseteq P, NEW clear
  PROVE  Keeps(c, EvictIfNeeded(c, clear), O, P, K, L)
<1>1. Keeps(c, c, O, P, K, L)
  <2>1. \A e \in Live(c) : Ancestors(c, e) = Ancestors(c, e) \cap Live(c)
    <3>1. Fathers(c, O)
      BY AncestorsAre DEF Woven
    <3> QED BY <3>1 DEF Fathers
  <2> QED BY <2>1 DEF Keeps, Shrunk
<1>2. ASSUME NEW old, old \subseteq Evictable(c), NEW swept, IsSweep(swept, c, old, K, L)
      PROVE  Keeps(c, swept[L], O, P, K, L)
  <2> DEFINE T == {n \in 0 .. L : /\ Keeps(c, swept[n], O, P, K, L)
                                  /\ \A id \in old : id > n => id \in Evictable(swept[n])}
  <2>1. /\ swept[0] = c
        /\ \A id \in 1 .. L : swept[id] = IF id \in old THEN Evict(swept[id - 1], id) ELSE swept[id - 1]
    BY <1>2, Zenon DEF IsSweep
  <2>2. 0 \in T
    <3>1. 0 \in 0 .. L
      OBVIOUS
    <3> QED BY <1>1, <1>2, <2>1, <3>1
  <2>3. old \subseteq 1 .. L
    <3>1. Live(c) \subseteq 1 .. L
      BY LiveIs, Zenon
    <3> QED BY <1>2, <3>1 DEF Evictable, Confirmed
  <2>4. ASSUME NEW n \in 1 .. L, n - 1 \in T PROVE n \in T
    <3> DEFINE d == swept[n - 1]
    <3>1. Keeps(c, d, O, P, K, L) /\ \A id \in old : id > n - 1 => id \in Evictable(d)
      BY <2>4
    <3>2. n \in 0 .. L /\ n > n - 1 /\ \A id \in old : id > n => id > n - 1 /\ id # n
      BY <2>3
    <3> HIDE DEF d
    <3>3. CASE n \notin old
      <4>1. swept[n] = d
        BY <2>1, <3>3 DEF d
      <4> QED BY <3>1, <3>2, <4>1
    <3>4. CASE n \in old
      <4>1. swept[n] = Evict(d, n) /\ n \in Evictable(d)
        BY <2>1, <3>1, <3>2, <3>4 DEF d
      <4>2. d \in Caches(K, L) /\ Woven(d, O) /\ Guarded(d, P) /\ Shrunk(c, d, O, P)
        BY <3>1, Zenon DEF Keeps
      <4> DEFINE x == Evict(d, n)
      <4>3. /\ x \in Caches(K, L) /\ Woven(x, O) /\ Guarded(x, P) /\ Shrunk(d, x, O, P)
            /\ Evictable(x) = Evictable(d) \ {n}
        <5>1. Hashed(K) /\ L \in Nat /\ O \subseteq P
          OBVIOUS
        <5>2. Keeps(d, x, O, P, K, L) /\ Evictable(x) = Evictable(d) \ {n}
          BY ONLY <4>1, <4>2, <5>1, EvictKeeps
        <5> HIDE DEF x
        <5> QED BY ONLY <5>2, Zenon DEF Keeps
      <4> HIDE DEF x
      <4>4. Shrunk(c, x, O, P)
        BY <4>2, <4>3, ShrunkOn, Zenon
      <4>5. Keeps(c, x, O, P, K, L)
        BY <4>3, <4>4, Zenon DEF Keeps
      <4>6. swept[n] = x
        BY <4>1 DEF x
      <4>7. \A id \in old : id > n => id \in Evictable(x)
        BY <3>1, <3>2, <4>3
      <4> QED BY <3>2, <4>5, <4>6, <4>7
    <3> QED BY <3>3, <3>4
  <2> HIDE DEF T
  <2>5. L \in T
    <3>1. \A n \in 0 .. L : n \in T
      BY <2>2, <2>4, BoundedSteps, Zenon
    <3>2. L \in 0 .. L
      OBVIOUS
    <3> QED BY <3>1, <3>2
  <2> QED BY <2>5 DEF T
<1>3. \/ EvictIfNeeded(c, clear) = c
      \/ \E old \in SUBSET Evictable(c) : \E swept :
            IsSweep(swept, c, old, K, L) /\ EvictIfNeeded(c, clear) = swept[L]
  BY SweepSteps
<1> QED BY <1>1, <1>2, <1>3

(* A new entry has no father yet, and is the youngest.                     *)
Newborn(c, d, id, O, P) ==
    /\ Woven(d, O \cup {id}) /\ Guarded(d, P \cup {id})
    /\ Live(d) = Live(c) \cup {id} /\ Open(d) = Open(c) \cup {id} /\ id \notin Live(c)
    /\ Confirmed(d) = Confirmed(c)
    /\ d.entry[id].created = c.clock /\ d.clock = c.clock + 1
    /\ \A e \in Live(c) : d.entry[e] = c.entry[e]
    /\ \A y : \A t \in 0 .. c.clock : BranchAt(c, O, y, t) => BranchAt(d, O \cup {id}, y, t)

LEMMA CreatedKeeps ==
  ASSUME NEW K, NEW L \in Nat, NEW c \in Caches(K, L), NEW M \in Nat, NEW d \in Caches(K, M), NEW id, NEW comp,
         IsCreated(c, d, id, comp, L, M), NEW O, Woven(c, O), NEW P, Guarded(c, P)
  PROVE  Newborn(c, d, id, O, P)
<1>1. /\ id \in 1 .. M /\ id \notin Live(c) /\ 1 .. M = 1 .. L \cup {id}
      /\ \A e \in 1 .. L : e # id => d.entry[e] = c.entry[e]
      /\ d.entry[id].comp = comp /\ d.entry[id].created = c.clock
      /\ ~ d.entry[id].free /\ ~ d.entry[id].zero /\ ~ d.entry[id].delete /\ IsBlank(d.entry[id])
      /\ d.clock = c.clock + 1
  BY Zenon DEF IsCreated
<1>2. /\ Live(d) = Live(c) \cup {id} /\ Confirmed(d) = Confirmed(c)
  BY CreatedSets
<1>3. Account(c) /\ Blank(c) /\ Rooted(c, O) /\ Listed(c)
  BY DEF Woven
<1>4. Account(d)
  BY <1>3, CreatedAccount
<1>5. Live(c) \subseteq 1 .. L /\ Ids(c) = 1 .. L /\ Ids(d) = 1 .. M
  BY LiveIs, CacheIds, Zenon
<1>6. \A e \in Live(c) : e # id /\ e \in 1 .. L /\ d.entry[e] = c.entry[e]
  BY <1>1, <1>5
<1>7. Blank(d)
  <2> SUFFICES ASSUME NEW e \in 1 .. M, d.entry[e].free PROVE IsBlank(d.entry[e])
    BY <1>5 DEF Blank
  <2>1. e # id /\ e \in 1 .. L /\ d.entry[e] = c.entry[e]
    BY <1>1
  <2> QED BY <1>3, <1>5, <2>1 DEF Blank
<1>8. \A e \in 1 .. M : d.entry[e].created \in Nat
  BY DEF Caches, Entries
<1>9. c.clock \in Nat
  BY DEF Caches
<1>10. Rooted(d, O \cup {id})
  <2>1. O \subseteq Live(c) /\ \A e \in O : c.entry[e].father = INVALID_ENTRY
    BY <1>3 DEF Rooted
  <2>2. d.entry[id].father = INVALID_ENTRY
    BY <1>1 DEF IsBlank
  <2>3. \A e \in O \cup {id} : d.entry[e].father = INVALID_ENTRY
    BY <1>6, <2>1, <2>2
  <2>4. \A e \in Live(c) \ O : /\ c.entry[e].father \in Live(c)
                               /\ c.entry[c.entry[e].father].created < c.entry[e].created
    BY <1>3 DEF Rooted
  <2>5. \A e \in Live(d) \ (O \cup {id}) : /\ d.entry[e].father \in Live(d)
                                         /\ d.entry[d.entry[e].father].created < d.entry[e].created
    BY <1>2, <1>6, <2>4
  <2>6. \A e \in Live(c) : c.entry[e].created < c.clock
    BY <1>3 DEF Rooted
  <2>7. \A e \in Live(c) : c.entry[e].created < c.clock + 1
    <3>1. \A e \in Live(c) : c.entry[e].created \in Nat
      BY <1>1, <1>6, <1>8
    <3> QED BY <1>9, <2>6, <3>1
  <2>8. d.entry[id].created < d.clock
    BY <1>1, <1>9
  <2>9. \A e \in Live(d) : d.entry[e].created < d.clock
    BY <1>1, <1>2, <1>6, <2>7, <2>8
  <2> QED BY <1>2, <2>1, <2>3, <2>5, <2>9 DEF Rooted
<1>11. \A g \in Live(c) : Kids(d, g) = Kids(c, g)
  <2>1. d.entry[id].father = INVALID_ENTRY /\ \A g \in Live(c) : g # INVALID_ENTRY
    BY <1>1, <1>5 DEF IsBlank, INVALID_ENTRY
  <2> QED BY <1>2, <1>6, <2>1 DEF Kids
<1>12. Kids(d, id) = {}
  <2>1. id # INVALID_ENTRY
    BY <1>1 DEF INVALID_ENTRY
  <2>2. \A e \in Live(c) : c.entry[e].father # id
    BY <1>1, <1>3, <2>1 DEF Rooted
  <2>3. d.entry[id].father = INVALID_ENTRY
    BY <1>1 DEF IsBlank
  <2> QED BY <1>2, <1>6, <2>1, <2>2, <2>3 DEF Kids
<1>13. \A e \in Live(c) : NextOf(d)[e] = NextOf(c)[e]
  BY <1>1, <1>5, <1>6 DEF NextOf
<1>14. ASSUME NEW g \in Live(c)
       PROVE  /\ Children(d, g) = Children(c, g)
              /\ ListOf(Ids(d), NextOf(d), d.entry[g].first, Children(d, g), Kids(d, g))
  <2>1. ListOf(1 .. L, NextOf(c), c.entry[g].first, Children(c, g), Kids(c, g))
    BY <1>3, <1>5 DEF Listed
  <2>2. \A e \in Kids(c, g) : NextOf(d)[e] = NextOf(c)[e]
    BY <1>13 DEF Kids
  <2>3. 1 .. L \subseteq 1 .. M /\ g \in 1 .. M
    BY <1>1, <1>6
  <2>4. ListOf(1 .. M, NextOf(d), c.entry[g].first, Children(c, g), Kids(c, g))
    BY ONLY <2>1, <2>2, <2>3, ListFrame, Zenon
  <2>5. ListOf(1 .. M, NextOf(d), d.entry[g].first, Children(c, g), Kids(d, g))
    BY <1>6, <1>11, <2>4
  <2> QED BY <2>3, <2>5, ChildrenAre, Zenon
<1>15. ListOf(Ids(d), NextOf(d), d.entry[id].first, Children(d, id), Kids(d, id))
  <2>1. d.entry[id].first = INVALID_ENTRY
    BY <1>1 DEF IsBlank
  <2>2. ListOf(1 .. M, NextOf(d), d.entry[id].first, <<>>, Kids(d, id))
    BY <1>12, <2>1 DEF ListOf, IsInjective, Piece, ToSet
  <2> QED BY <1>1, <2>2, ChildrenAre, Zenon
<1>16. Listed(d)
  BY <1>2, <1>14, <1>15, Zenon DEF Listed
<1>17. Guarded(d, P \cup {id})
  <2>1. \A e \in P : e \in Live(d) /\ d.entry[e] = c.entry[e]
    BY <1>2, <1>6 DEF Guarded
  <2>2. ~ d.entry[id].model /\ d.entry[id].father = INVALID_ENTRY
    BY <1>1 DEF IsBlank
  <2> QED BY <1>1, <1>2, <2>1, <2>2 DEF Guarded
<1>18. Open(d) = Open(c) \cup {id}
  <2>1. id \notin Confirmed(c)
    BY <1>1 DEF Confirmed
  <2> QED BY <1>2, <2>1 DEF Open
<1>19. ASSUME NEW y, NEW t \in 0 .. c.clock, BranchAt(c, O, y, t) PROVE BranchAt(d, O \cup {id}, y, t)
  <2>1. /\ y \in Live(c) /\ c.entry[y].created < t
        /\ \A e \in Since(c, t) \ O : c.entry[e].father = y \/ c.entry[e].father \in Since(c, t)
        /\ Leads(Children(c, y), Since(c, t))
    BY <1>19 DEF BranchAt
  <2>2. Since(d, t) = Since(c, t) \cup {id}
    <3>1. d.entry[id].created >= t
      BY <1>1, <1>9
    <3> QED BY <1>2, <1>6, <3>1 DEF Since
  <2>3. \A e \in Since(c, t) : e \in Live(c)
    BY DEF Since
  <2>4. \A e \in Since(d, t) \ (O \cup {id}) : d.entry[e].father = y \/ d.entry[e].father \in Since(d, t)
    BY <1>6, <2>1, <2>2, <2>3
  <2>5. Leads(Children(d, y), Since(d, t))
    <3>1. Children(c, y) \in Seq(1 .. L) /\ ToSet(Children(c, y)) = Kids(c, y)
      BY <1>3, <1>5, <2>1 DEF Listed, ListOf
    <3>2. \A e \in Kids(c, y) : e # id
      BY <1>1 DEF Kids
    <3>3. \A e \in ToSet(Children(c, y)) : e \in Since(c, t) <=> e \in Since(d, t)
      BY <2>2, <3>1, <3>2
    <3>4. Leads(Children(c, y), Since(d, t))
      BY <2>1, <3>1, <3>3, LeadsSame, Zenon
    <3> QED BY <1>14, <2>1, <3>4
  <2>6. y \in Live(d) /\ d.entry[y].created < t
    BY <1>2, <1>6, <2>1
  <2> QED BY <2>4, <2>5, <2>6 DEF BranchAt
<1>20. Woven(d, O \cup {id})
  <2>1. Tabled(c)
    BY DEF Woven
  <2>2. Tabled(d)
    BY <2>1, TabledCreated
  <2> QED BY <1>4, <1>7, <1>10, <1>16, <2>2 DEF Woven
<1> QED BY <1>1, <1>2, <1>6, <1>17, <1>18, <1>19, <1>20 DEF Newborn

(* AddDescendant(c, p, id) is d.                                           *)
IsAdded(c, d, p, id, L) ==
    /\ SameUse(c, d, 1 .. L) /\ SameBooks(c, d) /\ SameTable(c, d, 1 .. L)
    /\ \A e \in 1 .. L :
         /\ d.entry[e].father = IF e = id THEN p ELSE c.entry[e].father
         /\ d.entry[e].next = IF e = id THEN c.entry[p].first ELSE c.entry[e].next
         /\ d.entry[e].first = IF e = p THEN id ELSE c.entry[e].first

LEMMA AddDescendantDoes ==
  ASSUME NEW K, NEW L \in Nat, NEW c \in Caches(K, L), NEW p \in 1 .. L, NEW id \in 1 .. L, p # id
  PROVE  IsAdded(c, AddDescendant(c, p, id), p, id, L)
<1> DEFINE x == [c.entry[id] EXCEPT !.father = p, !.next = c.entry[p].first]
           y == [c.entry[p] EXCEPT !.first = id]
           f == [c.entry EXCEPT ![id] = x]
           g == [f EXCEPT ![p] = y]
           d == AddDescendant(c, p, id)
<1>1. c.entry \in [1 .. L -> Entries(K, L)] /\ c.entry[id] \in Entries(K, L) /\ c.entry[p] \in Entries(K, L)
  BY DEF Caches
<1>2. x \in Entries(K, L)
  <2>1. ASSUME NEW u \in Entries(K, L), NEW i \in Pointers(L), NEW j \in Pointers(L)
        PROVE  [u EXCEPT !.father = i, !.next = j] \in Entries(K, L)
    BY DEF Entries
  <2>2. p \in Pointers(L) /\ c.entry[p].first \in Pointers(L)
    BY <1>1 DEF Pointers, Entries
  <2> QED BY <1>1, <2>1, <2>2, Zenon
<1>3. f \in [1 .. L -> Entries(K, L)] /\ f[p] = c.entry[p]
  <2>1. f \in [1 .. L -> Entries(K, L)]
    BY <1>2, EntryChanged
  <2> QED BY <1>1, <2>1
<1>4. d = [c EXCEPT !.entry = g]
  BY <1>3 DEF AddDescendant, Caches
<1>5. \A e \in 1 .. L : g[e] = IF e = p THEN y ELSE IF e = id THEN x ELSE c.entry[e]
  BY <1>1
<1>6. x.father = p /\ x.next = c.entry[p].first /\ x.first = c.entry[id].first /\ OnlyLinks(c.entry[id], x)
  BY <1>1 DEF Entries, OnlyLinks
<1>7. y.father = c.entry[p].father /\ y.next = c.entry[p].next /\ y.first = id /\ OnlyLinks(c.entry[p], y)
  BY <1>1 DEF Entries, OnlyLinks
<1> HIDE DEF x, y, f, g
<1>8. d.entry = g /\ d.clock = c.clock /\ d.memory = c.memory /\ d.freeSlots = c.freeSlots
      /\ d.table = c.table /\ d.confirmed = c.confirmed
  BY <1>4 DEF Caches
<1> HIDE DEF d
<1>9. \A e \in 1 .. L : OnlyLinks(c.entry[e], d.entry[e])
  BY <1>5, <1>6, <1>7, <1>8 DEF OnlyLinks
<1>10. SameUse(c, d, 1 .. L) /\ SameTable(c, d, 1 .. L) /\ SameBooks(c, d)
  BY <1>8, <1>9 DEF SameUse, SameTable, SameBooks, OnlyLinks
<1>11. \A e \in 1 .. L :
         /\ d.entry[e].father = IF e = id THEN p ELSE c.entry[e].father
         /\ d.entry[e].next = IF e = id THEN c.entry[p].first ELSE c.entry[e].next
         /\ d.entry[e].first = IF e = p THEN id ELSE c.entry[e].first
  BY <1>5, <1>6, <1>7, <1>8
<1>12. IsAdded(c, d, p, id, L)
  BY <1>10, <1>11 DEF IsAdded
<1> QED BY <1>12 DEF d

(* The newborn id has its father now.                                      *)
Fathered(c, d, p, id, O, P) ==
    /\ Woven(d, O) /\ Guarded(d, P)
    /\ Live(d) = Live(c) /\ Open(d) = Open(c) /\ d.clock = c.clock /\ Confirmed(d) = Confirmed(c)
    /\ \A e \in Live(c) : d.entry[e].created = c.entry[e].created /\ d.entry[e].comp = c.entry[e].comp
    /\ \A e \in Live(c) : e # id => d.entry[e].father = c.entry[e].father
    /\ d.entry[id].father = p
    /\ \A y : \A t \in Nat :
         BranchAt(c, O \cup {id}, y, t) /\ t <= c.entry[id].created /\ (p = y \/ p \in Since(c, t)) => BranchAt(d, O, y, t)

LEMMA AddDescendantKeeps ==
  ASSUME NEW K, NEW L \in Nat, NEW c \in Caches(K, L), NEW O, NEW P, NEW p, NEW id,
         id \notin O, Woven(c, O \cup {id}), Guarded(c, P), p \in P, p # id,
         c.entry[p].created < c.entry[id].created,
         NEW d \in Caches(K, L), IsAdded(c, d, p, id, L)
  PROVE  Fathered(c, d, p, id, O, P)
<1>1. Account(c) /\ Blank(c) /\ Rooted(c, O \cup {id}) /\ Listed(c)
  BY DEF Woven
<1>2. Live(c) \subseteq 1 .. L /\ Ids(c) = 1 .. L /\ Ids(d) = 1 .. L
  BY LiveIs, CacheIds, Zenon
<1>3. p \in Live(c) /\ id \in Live(c) /\ p \in 1 .. L /\ id \in 1 .. L
  BY <1>1, <1>2 DEF Rooted, Guarded
<1>4. /\ SameUse(c, d, 1 .. L) /\ d.clock = c.clock /\ d.memory = c.memory /\ d.freeSlots = c.freeSlots
      /\ \A e \in 1 .. L :
           /\ d.entry[e].father = IF e = id THEN p ELSE c.entry[e].father
           /\ d.entry[e].next = IF e = id THEN c.entry[p].first ELSE c.entry[e].next
           /\ d.entry[e].first = IF e = p THEN id ELSE c.entry[e].first
  BY Zenon DEF IsAdded, SameBooks
<1>5. Live(d) = Live(c) /\ Confirmed(d) = Confirmed(c)
  BY <1>4, SameUseSets
<1>6. Account(d)
  BY <1>1, <1>4, SameAccount, Zenon
<1>7. \A e \in 1 .. L : /\ d.entry[e].created = c.entry[e].created /\ d.entry[e].comp = c.entry[e].comp
                        /\ d.entry[e].model = c.entry[e].model /\ d.entry[e].free = c.entry[e].free
                        /\ d.entry[e].zero = c.entry[e].zero /\ d.entry[e].delete = c.entry[e].delete
  BY <1>4 DEF SameUse
<1>8. \A e \in 1 .. L : c.entry[e].free => e # p /\ e # id
  <2>1. Live(c) = {e \in 1 .. L : ~ c.entry[e].free}
    BY LiveIs, Zenon
  <2> QED BY <1>3, <2>1
<1>9. Blank(d)
  BY <1>1, <1>2, <1>4, <1>7, <1>8 DEF Blank, IsBlank
<1>10. c.entry[id].father = INVALID_ENTRY
  BY <1>1 DEF Rooted
<1>11. \A e \in Live(c) : e \in 1 .. L
  BY <1>2
<1>12. Rooted(d, O)
  <2>1. O \subseteq Live(d) /\ \A e \in O : d.entry[e].father = INVALID_ENTRY
    BY <1>1, <1>4, <1>5, <1>11 DEF Rooted
  <2>2. ASSUME NEW e \in Live(d) \ O
        PROVE  d.entry[e].father \in Live(d) /\ d.entry[d.entry[e].father].created < d.entry[e].created
    <3>1. CASE e = id
      BY <1>3, <1>4, <1>5, <1>7, <3>1
    <3>2. CASE e # id
      <4>1. c.entry[e].father \in Live(c) /\ c.entry[c.entry[e].father].created < c.entry[e].created
        BY <1>1, <1>5, <2>2, <3>2 DEF Rooted
      <4> QED BY <1>4, <1>5, <1>7, <1>11, <2>2, <3>2, <4>1
    <3> QED BY <3>1, <3>2
  <2>3. \A e \in Live(d) : d.entry[e].created < d.clock
    BY <1>1, <1>4, <1>5, <1>7, <1>11 DEF Rooted
  <2> QED BY <2>1, <2>2, <2>3 DEF Rooted
<1>13. id \notin Kids(c, p)
  <2>1. p # INVALID_ENTRY
    BY <1>3 DEF INVALID_ENTRY
  <2> QED BY <1>10, <2>1 DEF Kids
<1>14. Kids(d, p) = Kids(c, p) \cup {id} /\ \A g \in Live(c) : g # p => Kids(d, g) = Kids(c, g)
  <2>1. \A g \in Live(c) : g # INVALID_ENTRY
    BY <1>11 DEF INVALID_ENTRY
  <2>2. \A e \in Live(c) : d.entry[e].father = IF e = id THEN p ELSE c.entry[e].father
    BY <1>4, <1>11
  <2>3. \A g : Kids(d, g) = {e \in Live(c) : d.entry[e].father = g}
    BY <1>5 DEF Kids
  <2>4. Kids(d, p) = Kids(c, p) \cup {id}
    <3>1. \A e \in Live(c) : d.entry[e].father = p <=> c.entry[e].father = p \/ e = id
      BY ONLY <2>2
    <3>2. Kids(d, p) = {e \in Live(c) : d.entry[e].father = p}
      BY ONLY <2>3, Zenon
    <3> QED BY ONLY <1>3, <3>1, <3>2 DEF Kids
  <2>5. ASSUME NEW g \in Live(c), g # p PROVE Kids(d, g) = Kids(c, g)
    <3>1. \A e \in Live(c) : d.entry[e].father = g <=> c.entry[e].father = g
      BY ONLY <1>10, <2>1, <2>2, <2>5
    <3> QED BY ONLY <2>3, <3>1 DEF Kids
  <2> QED BY <2>4, <2>5
<1>15. /\ \A e \in 1 .. L : e # id => NextOf(d)[e] = NextOf(c)[e]
       /\ NextOf(d)[id] = c.entry[p].first
  BY <1>2, <1>3, <1>4 DEF NextOf
<1>16. \A g \in Live(c) : /\ ListOf(1 .. L, NextOf(c), c.entry[g].first, Children(c, g), Kids(c, g))
                          /\ Children(c, g) \in Seq(1 .. L) /\ ToSet(Children(c, g)) = Kids(c, g)
  BY <1>1, <1>2 DEF Listed, ListOf
<1>17. ASSUME NEW g \in Live(c), g # p
       PROVE  /\ Children(d, g) = Children(c, g)
              /\ ListOf(Ids(d), NextOf(d), d.entry[g].first, Children(d, g), Kids(d, g))
  <2>1. ListOf(1 .. L, NextOf(c), c.entry[g].first, Children(c, g), Kids(c, g))
    BY <1>16
  <2>2. \A e \in Kids(c, g) : NextOf(d)[e] = NextOf(c)[e]
    <3>1. id \notin Kids(c, g)
      <4>1. g # INVALID_ENTRY
        BY <1>11 DEF INVALID_ENTRY
      <4> QED BY <1>10, <4>1 DEF Kids
    <3>2. \A e \in Kids(c, g) : e # id /\ e \in 1 .. L
      BY <1>11, <3>1 DEF Kids
    <3> QED BY <1>15, <3>2
  <2>3. 1 .. L \subseteq 1 .. L
    OBVIOUS
  <2>4. ListOf(1 .. L, NextOf(d), c.entry[g].first, Children(c, g), Kids(c, g))
    BY ONLY <2>1, <2>2, <2>3, ListFrame, Zenon
  <2>5. ListOf(1 .. L, NextOf(d), d.entry[g].first, Children(c, g), Kids(d, g)) /\ g \in 1 .. L
    BY <1>4, <1>11, <1>14, <1>17, <2>4
  <2> QED BY <2>5, ChildrenAre, Zenon
<1>18. /\ Children(d, p) = <<id>> \o Children(c, p)
       /\ ListOf(Ids(d), NextOf(d), d.entry[p].first, Children(d, p), Kids(d, p))
  <2>1. ListOf(1 .. L, NextOf(c), c.entry[p].first, Children(c, p), Kids(c, p))
    BY <1>3, <1>16
  <2>2. \A e \in Kids(c, p) : NextOf(d)[e] = NextOf(c)[e]
    <3>1. \A e \in Kids(c, p) : e # id /\ e \in 1 .. L
      BY <1>11, <1>13 DEF Kids
    <3> QED BY <1>15, <3>1
  <2>3. ListOf(1 .. L, NextOf(d), id, <<id>> \o Children(c, p), Kids(c, p) \cup {id})
    BY ONLY <1>3, <1>13, <1>15, <2>1, <2>2, ListCons, Zenon
  <2>4. ListOf(1 .. L, NextOf(d), d.entry[p].first, <<id>> \o Children(c, p), Kids(d, p))
    BY <1>3, <1>4, <1>14, <2>3
  <2> QED BY <1>3, <2>4, ChildrenAre, Zenon
<1>19. Listed(d)
  BY <1>5, <1>17, <1>18, Zenon DEF Listed
<1>20. Woven(d, O)
  <2>1. Tabled(c) /\ SameTable(c, d, 1 .. L)
    BY DEF Woven, IsAdded
  <2>2. Tabled(d)
    BY <1>4, <2>1, TabledUse, Zenon
  <2> QED BY <1>6, <1>9, <1>12, <1>19, <2>2 DEF Woven
<1>21. Guarded(d, P)
  <2>1. \A e \in P : e \in Live(c) /\ e \in 1 .. L
    BY <1>11 DEF Guarded
  <2>2. \A e \in P : d.entry[e].father \in P \cup {INVALID_ENTRY}
    BY <1>4, <2>1 DEF Guarded
  <2> QED BY <1>5, <1>7, <2>1, <2>2 DEF Guarded
<1>22. ASSUME NEW y, NEW t \in Nat, BranchAt(c, O \cup {id}, y, t), t <= c.entry[id].created, p = y \/ p \in Since(c, t)
       PROVE  BranchAt(d, O, y, t)
  <2>1. /\ y \in Live(c) /\ c.entry[y].created < t
        /\ \A e \in Since(c, t) \ (O \cup {id}) : c.entry[e].father = y \/ c.entry[e].father \in Since(c, t)
        /\ Leads(Children(c, y), Since(c, t))
    BY <1>22 DEF BranchAt
  <2>2. Since(d, t) = Since(c, t)
    BY <1>5, <1>7, <1>11 DEF Since
  <2>3. \A e \in Since(c, t) : e \in 1 .. L
    BY <1>11 DEF Since
  <2>4. \A e \in Since(d, t) \ O : d.entry[e].father = y \/ d.entry[e].father \in Since(d, t)
    BY <1>4, <1>22, <2>1, <2>2, <2>3
  <2>5. id \in Since(c, t)
    <3>1. c.entry[id].created \in Nat
      BY <1>3 DEF Caches, Entries
    <3> QED BY <1>3, <1>22, <3>1 DEF Since
  <2>6. Leads(Children(d, y), Since(d, t))
    <3>1. CASE y # p
      BY <1>17, <2>1, <2>2, <3>1
    <3>2. CASE y = p
      <4>1. <<id>> \in Seq(1 .. L) /\ ToSet(<<id>>) = {id} /\ Children(c, p) \in Seq(1 .. L)
        BY <1>3, <1>16 DEF ToSet
      <4>2. Leads(<<id>>, Since(c, t))
        BY DEF Leads
      <4>3. {id} \subseteq Since(c, t)
        BY <2>5
      <4>4. Leads(<<id>> \o Children(c, p), Since(c, t))
        <5> DEFINE x == <<id>>
                   s == Children(c, p)
                   Y == Since(c, t)
        <5>1. x \in Seq(1 .. L) /\ ToSet(x) = {id} /\ s \in Seq(1 .. L) /\ Leads(x, Y) /\ {id} \subseteq Y /\ Leads(s, Y)
          BY <2>1, <3>2, <4>1, <4>2, <4>3
        <5> HIDE DEF x, s, Y
        <5>2. Leads(x \o s, Y) <=> (Leads(x, Y) /\ Leads(s, Y) /\ (ToSet(s) \cap Y # {} => ToSet(x) \subseteq Y))
          BY ONLY <5>1, LeadsConcat
        <5>3. Leads(x \o s, Y)
          BY ONLY <5>1, <5>2
        <5> QED BY <5>3 DEF x, s, Y
      <4> QED BY <1>18, <2>2, <3>2, <4>4
    <3> QED BY <3>1, <3>2
  <2>7. y \in Live(d) /\ d.entry[y].created < t
    BY <1>5, <1>7, <1>11, <2>1
  <2> QED BY <2>4, <2>6, <2>7 DEF BranchAt
<1>23. Open(d) = Open(c)
  BY <1>5 DEF Open
<1> QED BY <1>3, <1>4, <1>5, <1>7, <1>11, <1>20, <1>21, <1>22, <1>23 DEF Fathered

(***************************************************************************)
(* The inductive invariant: types, the stretches of the component stack    *)
(* that the decisions own, the fixed levels, and which components have     *)
(* projection variables.                                                   *)
(***************************************************************************)
CompsOf(k) == DOMAIN Inputs[k].residuals
KeysOf(k) == CompsOf(k) \cup {NoComp}
PCs == {"main", "exists", "decide", "clean", "backtrack", "found", "refuted", "exit", "interrupted"}

Typed ==
    /\ input \in DOMAIN Inputs
    /\ cache \in AnyCaches(KeysOf(input))
    /\ comps \in Seq([id : Ids(cache), comp : CompsOf(input)])
    /\ decisions \in Seq(Decisions)
    /\ fixed \in Nat
    /\ pc \in PCs
    /\ preLevel \in -1 .. Len(decisions) - 1
    /\ stop \in BOOLEAN

(* The decisions ds own the stack cs, one stretch after the other: all but *)
(* the last have at least the component that is split above.               *)
Owned(ds, cs) ==
    /\ Len(ds) >= 1
    /\ ds[1].base = 1
    /\ ds[Len(ds)].top = Len(cs)
    /\ \A k \in 1 .. Len(ds) : 1 <= ds[k].base /\ ds[k].base <= ds[k].top
    /\ \A k \in 1 .. Len(ds) - 1 : ds[k].base < ds[k].top /\ ds[k + 1].base = ds[k].top
    /\ \A j, k \in 1 .. Len(ds) : j < k => ds[j].top <= ds[k].base

(* The decision at the top has components left only where it counts or     *)
(* checks them.                                                            *)
Stretches ==
    /\ Owned(decisions, comps)
    /\ pc = "main" => (AtEntry <=> HasUnprocessedComp(TopDecision))
    /\ pc = "decide" => HasUnprocessedComp(TopDecision)
    /\ pc = "backtrack" => AtEntry \/ ~ HasUnprocessedComp(TopDecision)
    /\ pc \in {"exists", "found", "refuted"} => ~ InExists

(* A fixed level is in its second branch with nothing left but what is     *)
(* split above it, and the search is back at one only to leave it.         *)
FixedBelow(ds, level) ==
    \A k \in 1 .. Len(ds) : k <= level => ds[k].second /\ ds[k].top <= ds[k].base + 1

FixedLevels ==
    /\ FixedBelow(decisions, fixed)
    /\ Len(decisions) <= fixed => pc \in {"clean", "backtrack", "exit"}
    /\ InExists => fixed <= preLevel

(* Components without projection variables come last in their stretch, and *)
(* stretches that have been decided on have none outside countExists().    *)
Stretch(d) == d.base + 1 .. d.top
SVarIn(in, comp) == \E v \in comp.vars : v < Inputs[in].nsvars

SVarsLead(in, ds, cs) ==
    \A k \in 1 .. Len(ds) : \A i, j \in Stretch(ds[k]) :
        i < j /\ ~ SVarIn(in, cs[i].comp) => ~ SVarIn(in, cs[j].comp)

AllSVars(in, ds, cs, level) ==
    \A k \in 1 .. level : \A i \in Stretch(ds[k]) : SVarIn(in, cs[i].comp)

Counted == IF InExists THEN preLevel ELSE Len(decisions) - 1

SVarsFirst ==
    /\ SVarsLead(input, decisions, comps)
    /\ AllSVars(input, decisions, comps, Counted)
    /\ pc = "decide" /\ ~ InExists => SVarIn(input, Super)
    /\ pc = "main" /\ AtEntry => ~ SVarIn(input, Super)

Control == Typed /\ Stretches /\ FixedLevels /\ SVarsFirst

LEMMA InputFacts ==
  ASSUME input \in DOMAIN Inputs
  PROVE  /\ Hashed(KeysOf(input)) /\ CompsOf(input) \subseteq KeysOf(input)
         /\ Residuals = Inputs[input].residuals /\ CompsOf(input) = DOMAIN Residuals
         /\ RootComp \in CompsOf(input) /\ Inputs[input].maxMemory \in Nat
         /\ Polls \subseteq Int /\ NSVars \in Nat
         /\ \A comp \in CompsOf(input) :
              /\ comp.vars \subseteq Nat
              /\ ~ Projected => \A v \in comp.vars : v < NSVars
              /\ \A found \in Residuals[comp] :
                   /\ found \subseteq CompsOf(input) /\ IsFiniteSet(found)
                   /\ \A a \in found : a.vars # {} /\ a.vars \subseteq comp.vars
<1> DEFINE in == Inputs[input]
<1>1. /\ in.root \in DOMAIN in.residuals /\ in.nsvars \in Nat /\ in.maxMemory \in Nat /\ in.maxPolls \in Nat
      /\ in.projected \/ \A comp \in DOMAIN in.residuals : \A v \in comp.vars : v < in.nsvars
      /\ \A comp \in DOMAIN in.residuals :
           /\ comp.vars \subseteq Nat
           /\ \A found \in in.residuals[comp] :
                /\ found \subseteq DOMAIN in.residuals \ {in.root} /\ IsFiniteSet(found)
                /\ \A a \in found : a.vars # {} /\ a.vars \subseteq comp.vars
      /\ \A comp \in DOMAIN in.residuals \cup {NoComp} : Hash[comp] \in Nat
  BY InputsAssumption, Zenon
<1>2. Polls \subseteq Int
  BY <1>1 DEF Polls, MaxPolls
<1> QED BY <1>1, <1>2, Zenon DEF Hashed, KeysOf, CompsOf, Residuals, RootComp, Projected, NSVars

LEMMA DecisionOps ==
  ASSUME NEW d \in Decisions
  PROVE  /\ ChangeBranch(d) \in Decisions /\ ChangeBranch(d).base = d.base
         /\ ChangeBranch(d).top = d.top /\ ChangeBranch(d).second
         /\ MarkBranchUnsat(d) \in Decisions /\ MarkBranchUnsat(d).base = d.base
         /\ MarkBranchUnsat(d).top = d.top /\ MarkBranchUnsat(d).second = d.second
         /\ MarkBranchUnsat(d).split = d.split
         /\ \A val \in {"zero", "some"} :
              LET e == IncreaseModels(d, val)
              IN  /\ e \in Decisions /\ e.base = d.base /\ e.top = d.top /\ e.second = d.second
                  /\ e.split = d.split
         /\ d.base \in Nat /\ d.top \in Nat /\ d.second \in BOOLEAN /\ d.split \in Times
<1>1. NoSplit \in Times
  BY BoundsAssumption DEF Times
<1>2. /\ ChangeBranch(d) \in Decisions /\ ChangeBranch(d).base = d.base
      /\ ChangeBranch(d).top = d.top /\ ChangeBranch(d).second
  BY <1>1 DEF ChangeBranch, Decisions
<1>3. /\ MarkBranchUnsat(d) \in Decisions /\ MarkBranchUnsat(d).base = d.base
      /\ MarkBranchUnsat(d).top = d.top /\ MarkBranchUnsat(d).second = d.second
      /\ MarkBranchUnsat(d).split = d.split
  <2>1. Branch(d) \in {1, 2} /\ "none" \in Counts
    BY DEF Branch, Counts
  <2>2. [d.models EXCEPT ![Branch(d)] = "none"] \in Counts \X Counts
    BY <2>1 DEF Decisions
  <2>3. MarkBranchUnsat(d) = [d EXCEPT !.models = [d.models EXCEPT ![Branch(d)] = "none"]]
    BY DEF MarkBranchUnsat, Decisions
  <2> HIDE DEF Branch
  <2> QED BY <2>2, <2>3 DEF Decisions
<1>4. \A val \in {"zero", "some"} :
        LET e == IncreaseModels(d, val)
        IN  /\ e \in Decisions /\ e.base = d.base /\ e.top = d.top /\ e.second = d.second
            /\ e.split = d.split
  BY IncreaseType, IncreaseKeeps, Zenon
<1>5. d.base \in Nat /\ d.top \in Nat /\ d.second \in BOOLEAN /\ d.split \in Times
  BY DEF Decisions
<1> QED BY <1>2, <1>3, <1>4, <1>5, Zenon

LEMMA NewDecisionType ==
  ASSUME NEW height \in Nat
  PROVE  /\ NewDecision(height) \in Decisions /\ NewDecision(height).base = height
         /\ NewDecision(height).top = height
<1>1. NoSplit \in Times
  BY BoundsAssumption DEF Times
<1> QED BY <1>1 DEF NewDecision, Decisions, Counts

LEMMA NextCompType ==
  ASSUME NEW d \in Decisions, d.top # 0
  PROVE  /\ NextComp(d) \in Decisions /\ NextComp(d).base = d.base /\ NextComp(d).second = d.second
         /\ NextComp(d).top = d.top - 1 /\ NextComp(d).split = d.split
BY DEF NextComp, Decisions

LEMMA ReplacedTop ==
  ASSUME NEW S, decisions \in Seq(S), Len(decisions) >= 1, NEW d \in S
  PROVE  /\ SetTop(d) \in Seq(S) /\ Len(SetTop(d)) = Len(decisions)
         /\ SetTop(d)[Len(decisions)] = d /\ Last(SetTop(d)) = d
         /\ \A k \in 1 .. Len(decisions) - 1 : SetTop(d)[k] = decisions[k]
BY DEF SetTop, Last

(* What splitComponent() does to the stack and the decision.               *)
SplitDone(s, found) ==
    /\ \E L \in Nat : s.cache \in Caches(KeysOf(input), L) /\ s.comps \in Seq([id : 1 .. L, comp : CompsOf(input)])
    /\ s.dead \in BOOLEAN
    /\ s.decision \in Decisions /\ s.decision.base = TopDecision.base
    /\ s.decision.second = TopDecision.second /\ s.decision.top = Len(s.comps)
    /\ s.decision.split = IF TopDecision.split = NoSplit THEN cache.clock ELSE TopDecision.split
    /\ Len(comps) <= Len(s.comps)
    /\ \A i \in 1 .. Len(comps) : s.comps[i] = comps[i]
    /\ \A i \in Len(comps) + 1 .. Len(s.comps) : s.comps[i].comp \in found
    /\ \A i, j \in Len(comps) + 1 .. Len(s.comps) :
         i < j => Precedes(s.comps[i].comp, s.comps[j].comp)

LEMMA StackElements ==
  ASSUME NEW I, NEW R, NEW s \in Seq([id : I, comp : R])
  PROVE  \A i \in 1 .. Len(s) : s[i] \in [id : I, comp : R] /\ s[i].id \in I /\ s[i].comp \in R
<1> DEFINE S == [id : I, comp : R]
<1>1. s \in Seq(S) /\ \A x \in S : x.id \in I /\ x.comp \in R
  OBVIOUS
<1> HIDE DEF S
<1>2. \A i \in 1 .. Len(s) : s[i] \in S
  BY <1>1
<1> QED BY <1>1, <1>2 DEF S

LEMMA TypedFacts ==
  ASSUME Typed, Stretches
  PROVE  LET L == Len(cache.entry)
         IN  /\ L \in Nat /\ cache \in Caches(KeysOf(input), L) /\ Ids(cache) = 1 .. L
             /\ comps \in Seq([id : 1 .. L, comp : CompsOf(input)])
             /\ Len(comps) \in Nat /\ Len(comps) >= 1
             /\ \A i \in 1 .. Len(comps) : comps[i].id \in 1 .. L /\ comps[i].comp \in CompsOf(input)
             /\ Super = comps[Len(comps)].comp /\ Last(comps) = comps[Len(comps)]
             /\ Len(decisions) \in Nat /\ Len(decisions) >= 1
             /\ TopDecision = decisions[Len(decisions)] /\ TopDecision \in Decisions
             /\ \A k \in 1 .. Len(decisions) : decisions[k] \in Decisions
             /\ 1 <= TopDecision.base /\ TopDecision.base <= Len(comps) /\ TopDecision.top = Len(comps)
<1>1. PICK L \in Nat : cache \in Caches(KeysOf(input), L)
  BY DEF Typed, AnyCaches
<1>2. L = Len(cache.entry) /\ Ids(cache) = 1 .. L
  BY <1>1, CacheIds
<1>3. comps \in Seq([id : 1 .. L, comp : CompsOf(input)]) /\ decisions \in Seq(Decisions)
  BY <1>2 DEF Typed
<1>4. Len(decisions) \in Nat /\ Len(decisions) >= 1 /\ \A k \in 1 .. Len(decisions) : decisions[k] \in Decisions
  BY <1>3 DEF Stretches, Owned
<1>5. TopDecision = decisions[Len(decisions)] /\ TopDecision \in Decisions
  BY <1>4 DEF TopDecision, Last
<1>6. TopDecision.base \in Nat /\ TopDecision.top \in Nat
  BY <1>5, DecisionOps, Zenon
<1>7. 1 <= TopDecision.base /\ TopDecision.base <= TopDecision.top /\ TopDecision.top = Len(comps)
  BY <1>4, <1>5 DEF Stretches, Owned
<1>8. Len(comps) \in Nat /\ Len(comps) >= 1
  BY <1>3, <1>6, <1>7
<1>9. \A i \in 1 .. Len(comps) : comps[i].id \in 1 .. L /\ comps[i].comp \in CompsOf(input)
  BY <1>3, StackElements, Zenon
<1>10. Last(comps) = comps[Len(comps)] /\ Super = comps[Len(comps)].comp
  BY DEF Super, Last
<1> QED BY <1>1, <1>2, <1>3, <1>4, <1>5, <1>7, <1>8, <1>9, <1>10

LEMMA BegunType ==
  ASSUME Typed, Stretches, NEW free \in FreeFactors, NEW polls \in Polls
  PROVE  LET b == Begun(free, polls)
         IN  /\ b \in States(KeysOf(input), CompsOf(input), Last(comps).id)
             /\ b.comps = comps /\ b.decision.base = TopDecision.base
             /\ b.decision.second = TopDecision.second
             /\ b.decision.split = IF TopDecision.split = NoSplit THEN cache.clock ELSE TopDecision.split
             /\ b.cache = cache /\ b.dead = FALSE
<1> DEFINE L == Len(cache.entry)
           K == KeysOf(input)
           R == CompsOf(input)
           top == [TopDecision EXCEPT !.split = IF @ = NoSplit THEN cache.clock ELSE @]
           d == IF free = "none" THEN top ELSE IncreaseModels(top, free)
<1>1. /\ L \in Nat /\ cache \in Caches(K, L) /\ comps \in Seq([id : 1 .. L, comp : R])
      /\ Last(comps).id \in 1 .. L /\ TopDecision \in Decisions
  BY TypedFacts
<1>2. cache.clock \in Times
  BY <1>1 DEF Caches, Times
<1>3. top \in Decisions /\ top.base = TopDecision.base /\ top.second = TopDecision.second
      /\ top.split = IF TopDecision.split = NoSplit THEN cache.clock ELSE TopDecision.split
  BY <1>1, <1>2 DEF Decisions
<1>4. free \in {"none", "zero", "some"}
  BY DEF FreeFactors, Weights
<1> HIDE DEF top
<1>5. d \in Decisions /\ d.base = top.base /\ d.second = top.second /\ d.split = top.split
  <2>1. CASE free = "none"
    BY <1>3, <2>1
  <2>2. CASE free # "none"
    <3>1. free \in {"zero", "some"}
      BY <1>4, <2>2
    <3> QED BY <1>3, <2>2, <3>1, DecisionOps
  <2> QED BY <2>1, <2>2
<1>6. polls \in Int
  BY InputFacts DEF Typed
<1>7. Begun(free, polls) = [cache |-> cache, comps |-> comps, dead |-> FALSE, polls |-> polls, decision |-> d]
  BY Zenon DEF Begun, top
<1> HIDE DEF d, K, R
<1>8. Begun(free, polls) \in StatesWith(K, R, L)
  BY <1>1, <1>5, <1>6, <1>7 DEF StatesWith
<1>9. Begun(free, polls) \in States(K, R, Last(comps).id)
  BY <1>1, <1>8 DEF States
<1> QED BY <1>3, <1>5, <1>7, <1>9 DEF K, R

LEMMA FoundComps ==
  ASSUME Typed, Stretches, NEW found \in Left, NEW order \in Ascending(found)
  PROVE  /\ found \subseteq CompsOf(input) /\ order \in Seq(CompsOf(input))
         /\ Len(order) \in Nat /\ \A n \in 1 .. Len(order) : order[n] \in found
         /\ \A m, n \in 1 .. Len(order) : m < n => Precedes(order[m], order[n])
<1>1. Super \in CompsOf(input)
  BY TypedFacts
<1>2. found \subseteq CompsOf(input) /\ IsFiniteSet(found)
  <2>1. CASE found \in Residuals[Super]
    BY <1>1, <2>1, InputFacts DEF Typed
  <2>2. CASE found = {Super}
    BY <1>1, <2>2, FS_Singleton
  <2> QED BY <2>1, <2>2 DEF Left
<1> DEFINE n == Cardinality(found)
<1>3. n \in Nat
  BY <1>2, FS_CardinalityType
<1>4. order \in [1 .. n -> found] /\ \A i, j \in DOMAIN order : i < j => Precedes(order[i], order[j])
  BY DEF Ascending, Precedes
<1> HIDE DEF n
<1>5. DOMAIN order = 1 .. n /\ order \in Seq(found) /\ Len(order) = n
  BY <1>3, <1>4, LenIs
<1>6. order \in Seq(CompsOf(input))
  BY <1>2, <1>5, SeqMonotonic
<1> QED BY <1>2, <1>3, <1>4, <1>5, <1>6

LEMMA SplitIs ==
  ASSUME Typed, Stretches, NEW found \in Left, NEW order \in Ascending(found),
         NEW free \in FreeFactors, NEW polls \in Polls
  PROVE  SplitDone(SplitComponent(order, free, polls), found)
<1> DEFINE K == KeysOf(input)
           R == CompsOf(input)
           parent == Last(comps).id
           b == Begun(free, polls)
           N == Len(order)
           time == IF TopDecision.split = NoSplit THEN cache.clock ELSE TopDecision.split
<1>1. Hashed(K) /\ R \in SUBSET K
  BY InputFacts DEF Typed
<1>2. /\ b \in States(K, R, parent) /\ b.comps = comps /\ b.decision.base = TopDecision.base
      /\ b.decision.second = TopDecision.second /\ b.decision.split = time
  BY BegunType, Zenon
<1>3. order \in Seq(R) /\ N \in Nat /\ \A n \in 1 .. N : order[n] \in found
  BY FoundComps
<1>3a. \A m, n \in 1 .. N : m < n => Precedes(order[m], order[n])
  BY FoundComps, Zenon
<1> HIDE DEF K, R, b, N, time
<1>4. PICK upTo : /\ IsSplit(upTo, b, order, parent, K, R)
                  /\ SplitComponent(order, free, polls) = SetDecision(upTo[N], SplitResult(upTo[N]))
  <2>1. Begun(free, polls) \in States(K, R, Last(comps).id)
    BY <1>2, Zenon DEF b
  <2>2. \E upTo : /\ IsSplit(upTo, Begun(free, polls), order, Last(comps).id, K, R)
                  /\ SplitComponent(order, free, polls) =
                       SetDecision(upTo[Len(order)], SplitResult(upTo[Len(order)]))
    BY <1>1, <1>3, <2>1, SplitSteps
  <2> QED BY <2>2, Zenon DEF b, N
<1> HIDE DEF parent
<1>5. /\ upTo \in [0 .. N -> States(K, R, parent)] /\ upTo[0] = b
      /\ \A n \in 1 .. N : upTo[n] = ExploreBelow(parent, upTo[n - 1], order[n])
  BY <1>4, Zenon DEF IsSplit, N
<1>6. Len(comps) \in Nat
  BY TypedFacts
<1> DEFINE T == {n \in Nat : n <= N => Grew(upTo[n], b, order, n)}
<1>7. 0 \in T
  <2>1. Grew(b, b, order, 0)
    BY <1>2, <1>6 DEF Grew
  <2> QED BY <1>5, <2>1
<1>8. ASSUME NEW n \in T PROVE n + 1 \in T
  <2> SUFFICES ASSUME n + 1 <= N PROVE Grew(upTo[n + 1], b, order, n + 1)
    OBVIOUS
  <2>1. n + 1 \in 1 .. N /\ n \in 0 .. N /\ (n + 1) - 1 = n /\ n + 1 \in Nat /\ n + 1 # 0
    BY <1>3
  <2>2. Grew(upTo[n], b, order, n) /\ upTo[n] \in States(K, R, parent)
    BY <1>3, <1>5, <2>1
  <2>3. upTo[n + 1] = ExploreBelow(parent, upTo[n], order[n + 1])
    BY <1>5, <2>1, Zenon
  <2>4. \A m \in 1 .. (n + 1) - 1 : Precedes(order[m], order[n + 1])
    <3>1. \A m \in 1 .. (n + 1) - 1 : m \in 1 .. N /\ m < n + 1
      BY <1>3, <2>1
    <3> QED BY <1>3a, <2>1, <3>1, Zenon
  <2> QED BY <1>2, <1>6, <2>1, <2>2, <2>3, <2>4, GrewStep, Zenon
<1>9. Grew(upTo[N], b, order, N) /\ upTo[N] \in States(K, R, parent)
  <2>1. T \in SUBSET Nat
    OBVIOUS
  <2>2. T = Nat
    <3> HIDE DEF T
    <3> QED BY <1>7, <1>8, <2>1, NumberInduction
  <2>3. N \in T /\ N \in 0 .. N
    BY <1>3, <2>2
  <2> QED BY <1>3, <1>5, <2>3
<1> HIDE DEF T
<1> DEFINE s == upTo[N]
           r == SplitResult(s)
<1>10. PICK L \in Nat : s \in StatesWith(K, R, L)
  BY <1>9 DEF States
<1>11. /\ s.cache \in Caches(K, L) /\ s.comps \in Seq([id : 1 .. L, comp : R]) /\ s.dead \in BOOLEAN
       /\ s.decision \in Decisions
  BY <1>10 DEF StatesWith
<1>12. /\ Len(comps) <= Len(s.comps)
       /\ \A i \in 1 .. Len(comps) : s.comps[i] = comps[i]
       /\ \A i \in Len(comps) + 1 .. Len(s.comps) : \E m \in 1 .. N : s.comps[i].comp = order[m]
       /\ \A i, j \in Len(comps) + 1 .. Len(s.comps) :
            i < j => Precedes(s.comps[i].comp, s.comps[j].comp)
       /\ s.decision.base = TopDecision.base /\ s.decision.second = TopDecision.second
       /\ s.decision.split = time
  BY <1>2, <1>9, Zenon DEF Grew
<1>13. \A i \in Len(comps) + 1 .. Len(s.comps) : s.comps[i].comp \in found
  BY <1>3, <1>12, Zenon
<1>14. r \in Decisions /\ r.base = TopDecision.base /\ r.second = TopDecision.second
       /\ r.top = Len(s.comps) /\ r.split = time
  <2> DEFINE d == [s.decision EXCEPT !.top = Len(s.comps)]
  <2>1. d \in Decisions /\ d.base = TopDecision.base /\ d.second = TopDecision.second
        /\ d.top = Len(s.comps) /\ d.split = time
    <3>1. Len(s.comps) \in Nat
      BY <1>11
    <3> HIDE DEF s
    <3> QED BY <1>11, <1>12, <3>1 DEF Decisions
  <2>2. r = d \/ r = MarkBranchUnsat(d) \/ r = IncreaseModels(d, "some")
    BY Zenon DEF SplitResult
  <2> HIDE DEF d, r
  <2> QED BY <2>1, <2>2, DecisionOps
<1> HIDE DEF r
<1>15. LET e == SetDecision(s, r)
       IN  e.cache = s.cache /\ e.comps = s.comps /\ e.dead = s.dead /\ e.decision = r
  <2> HIDE DEF s
  <2> QED BY <1>10 DEF SetDecision, StatesWith
<1>16. SplitComponent(order, free, polls) = SetDecision(s, r)
  BY <1>4, Zenon DEF r
<1> DEFINE e == SplitComponent(order, free, polls)
<1>17. e.cache = s.cache /\ e.comps = s.comps /\ e.dead = s.dead /\ e.decision = r
  BY <1>15, <1>16, Zenon
<1> HIDE DEF s, e
<1>18. SplitDone(e, found)
  BY <1>11, <1>12, <1>13, <1>14, <1>17, Zenon DEF SplitDone, K, R, time
<1> QED BY <1>18 DEF e

(* A stack that is cut, and a decision that is left, taken on or extended. *)
Cut(ds, cs, es, ts) ==
    /\ 1 <= Len(es) /\ Len(es) <= Len(ds)
    /\ \A k \in 1 .. Len(es) - 1 : es[k].base = ds[k].base /\ es[k].top = ds[k].top
    /\ es[Len(es)].base = ds[Len(es)].base
    /\ es[Len(es)].base <= es[Len(es)].top /\ es[Len(es)].top <= ds[Len(es)].top
    /\ Len(ts) = es[Len(es)].top
    /\ \A i \in 1 .. Len(ts) : ts[i] = cs[i]

LEMMA DecisionElements ==
  ASSUME NEW ds \in Seq(Decisions)
  PROVE  \A k \in 1 .. Len(ds) :
           /\ ds[k] \in Decisions /\ ds[k].base \in Nat /\ ds[k].top \in Nat
           /\ ds[k].second \in BOOLEAN /\ ds[k].split \in Times
<1>1. \A k \in 1 .. Len(ds) : ds[k] \in Decisions
  OBVIOUS
<1>2. \A d \in Decisions : d.base \in Nat /\ d.top \in Nat /\ d.second \in BOOLEAN /\ d.split \in Times
  BY DEF Decisions
<1> QED BY <1>1, <1>2, Zenon

LEMMA Chained ==
  ASSUME NEW a \in Nat, NEW b \in Nat, NEW c \in Nat, a <= b, b <= c
  PROVE  a <= c /\ a <= a
OBVIOUS

LEMMA Within ==
  ASSUME NEW d \in Decisions, NEW e \in Decisions, NEW m \in Nat,
         e.base = d.base, e.top <= d.top, e.top <= m, NEW i \in Stretch(e)
  PROVE  i \in Stretch(d) /\ i \in 1 .. m
BY DEF Decisions, Stretch

LEMMA CutStacks ==
  ASSUME NEW S, NEW R, NEW in,
         NEW ds \in Seq(Decisions), NEW es \in Seq(Decisions), NEW cs \in Seq(S), NEW ts \in Seq(R),
         Owned(ds, cs), SVarsLead(in, ds, cs), Cut(ds, cs, es, ts)
  PROVE  /\ Owned(es, ts) /\ SVarsLead(in, es, ts)
         /\ \A m \in 0 .. Len(es) - 1 : AllSVars(in, ds, cs, m) => AllSVars(in, es, ts, m)
<1> DEFINE n == Len(es)
           N == Len(ds)
<1>1. n \in Nat /\ N \in Nat /\ 1 <= n /\ n <= N /\ Len(cs) \in Nat /\ Len(ts) \in Nat
  BY DEF Cut
<1>2. \A k \in 1 .. N : ds[k].base \in Nat /\ ds[k].top \in Nat
  BY DecisionElements, Zenon
<1>3. \A k \in 1 .. n : es[k].base \in Nat /\ es[k].top \in Nat
  BY DecisionElements, Zenon
<1>4. /\ \A k \in 1 .. n - 1 : es[k].base = ds[k].base /\ es[k].top = ds[k].top
      /\ es[n].base = ds[n].base /\ es[n].base <= es[n].top /\ es[n].top <= ds[n].top
      /\ Len(ts) = es[n].top /\ \A i \in 1 .. Len(ts) : ts[i] = cs[i]
  BY Zenon DEF Cut
<1>5. /\ ds[1].base = 1
      /\ \A k \in 1 .. N : 1 <= ds[k].base /\ ds[k].base <= ds[k].top
      /\ \A k \in 1 .. N - 1 : ds[k].base < ds[k].top /\ ds[k + 1].base = ds[k].top
      /\ \A j, k \in 1 .. N : j < k => ds[j].top <= ds[k].base
  BY Zenon DEF Owned
<1> HIDE DEF n, N
<1>6. ASSUME NEW k \in 1 .. n
      PROVE  k \in 1 .. N /\ es[k].base = ds[k].base /\ es[k].top <= ds[k].top /\ es[k].top <= es[n].top
             /\ 1 <= es[k].base /\ es[k].base <= es[k].top
  <2>1. k \in 1 .. N /\ n \in 1 .. N
    BY <1>1
  <2>2. CASE k = n
    BY <1>1, <1>3, <1>4, <1>5, <2>1, <2>2
  <2>3. CASE k # n
    <3>1. k \in 1 .. n - 1 /\ k < n
      BY <1>1, <2>3
    <3>2. ds[k].top <= ds[n].base /\ 1 <= ds[k].base /\ ds[k].base <= ds[k].top
      BY <1>5, <2>1, <3>1
    <3>3. es[k].base = ds[k].base /\ es[k].top = ds[k].top /\ es[n].base = ds[n].base
          /\ es[n].base <= es[n].top
      BY <1>4, <3>1, Zenon
    <3>4. /\ es[k].base \in Nat /\ es[k].top \in Nat /\ es[n].base \in Nat /\ es[n].top \in Nat
          /\ ds[k].top \in Nat
      BY <1>1, <1>2, <1>3, <2>1
    <3>5. ds[k].top <= es[n].base /\ es[n].base <= es[n].top
      BY <3>2, <3>3, Zenon
    <3>6. ds[k].top <= es[n].top /\ ds[k].top <= ds[k].top
      BY ONLY <3>4, <3>5, Chained, Zenon
    <3> QED BY <2>1, <3>2, <3>3, <3>6, Zenon
  <2> QED BY <2>2, <2>3
<1>7. Owned(es, ts)
  <2>1. es[1].base = 1
    BY <1>1, <1>5, <1>6
  <2>2. ASSUME NEW k \in 1 .. n - 1
        PROVE  es[k].base < es[k].top /\ es[k + 1].base = es[k].top
    <3>1. k \in 1 .. N - 1 /\ k + 1 \in 1 .. n
      BY <1>1
    <3>2. es[k + 1].base = ds[k + 1].base
      BY <1>6, <3>1
    <3> QED BY <1>4, <1>5, <3>1, <3>2
  <2>3. ASSUME NEW j \in 1 .. n, NEW k \in 1 .. n, j < k
        PROVE  es[j].top <= es[k].base
    <3>1. j \in 1 .. N /\ k \in 1 .. N /\ j \in 1 .. n - 1
      BY <1>1, <2>3
    <3>2. ds[j].top <= ds[k].base /\ es[j].top = ds[j].top /\ es[k].base = ds[k].base
      BY <1>4, <1>5, <1>6, <2>3, <3>1
    <3> QED BY <3>2
  <2> QED BY <1>1, <1>4, <1>6, <2>1, <2>2, <2>3, Zenon DEF Owned, n
<1>8. ASSUME NEW k \in 1 .. n, NEW i \in Stretch(es[k])
      PROVE  k \in 1 .. N /\ i \in Stretch(ds[k]) /\ ts[i] = cs[i]
  <2>1. /\ k \in 1 .. N /\ es[k].base = ds[k].base /\ es[k].top <= ds[k].top /\ es[k].top <= es[n].top
        /\ es[k].base \in Nat /\ es[k].top \in Nat /\ ds[k].top \in Nat /\ es[n].top \in Nat
    <3>1. n \in 1 .. n
      BY <1>1
    <3> QED BY <1>2, <1>3, <1>6, <3>1, Zenon
  <2>2. i \in Stretch(ds[k]) /\ i \in 1 .. es[n].top
    <3>1. es[k] \in Decisions /\ ds[k] \in Decisions
      BY <2>1, DecisionElements, Zenon DEF n, N
    <3> QED BY <2>1, <3>1, Within, Zenon
  <2> QED BY <1>4, <2>1, <2>2
<1>9. SVarsLead(in, es, ts)
  BY <1>8, Zenon DEF SVarsLead, n, N
<1>10. ASSUME NEW m \in 0 .. n - 1, AllSVars(in, ds, cs, m) PROVE AllSVars(in, es, ts, m)
  <2>1. \A k \in 1 .. m : k \in 1 .. n
    BY <1>1
  <2> QED BY <1>8, <1>10, <2>1, Zenon DEF AllSVars
<1> QED BY <1>7, <1>9, <1>10, Zenon DEF n

(* A decision with nothing of its own yet, on top of one that has a component. *)
Pushed(ds, cs, es) ==
    /\ Len(es) = Len(ds) + 1
    /\ \A k \in 1 .. Len(ds) : es[k] = ds[k]
    /\ es[Len(ds) + 1].base = Len(cs) /\ es[Len(ds) + 1].top = Len(cs)
    /\ ds[Len(ds)].base < ds[Len(ds)].top

LEMMA PushStacks ==
  ASSUME NEW S, NEW in, NEW ds \in Seq(Decisions), NEW es \in Seq(Decisions), NEW cs \in Seq(S),
         Owned(ds, cs), SVarsLead(in, ds, cs), Pushed(ds, cs, es)
  PROVE  /\ Owned(es, cs) /\ SVarsLead(in, es, cs)
         /\ \A m \in 0 .. Len(ds) : AllSVars(in, ds, cs, m) => AllSVars(in, es, cs, m)
<1> DEFINE N == Len(ds)
           C == Len(cs)
           d == es[N + 1]
<1>1. es \in Seq(Decisions) /\ Len(es) = N + 1 /\ es[N + 1] = d /\ \A k \in 1 .. N : es[k] = ds[k]
  BY Zenon DEF Pushed
<1>2. N \in Nat /\ 1 <= N /\ C \in Nat
  BY DEF Owned
<1>3. \A k \in 1 .. N : ds[k].base \in Nat /\ ds[k].top \in Nat
  BY DecisionElements, Zenon
<1>4. /\ ds[1].base = 1 /\ ds[N].top = C
      /\ \A k \in 1 .. N : 1 <= ds[k].base /\ ds[k].base <= ds[k].top
      /\ \A k \in 1 .. N - 1 : ds[k].base < ds[k].top /\ ds[k + 1].base = ds[k].top
      /\ \A j, k \in 1 .. N : j < k => ds[j].top <= ds[k].base
  BY Zenon DEF Owned
<1>5. ds[N].base < ds[N].top /\ d.base = C /\ d.top = C
  BY Zenon DEF Pushed
<1> HIDE DEF N, C, d
<1>6. \A k \in 1 .. N + 1 : k \in 1 .. N \/ k = N + 1
  BY <1>2
<1>7. N \in 1 .. N /\ 1 \in 1 .. N
  BY <1>2
<1>7a. 1 <= C
  <2>1. 1 <= ds[N].base /\ ds[N].base <= C /\ ds[N].base \in Nat
    BY <1>3, <1>4, <1>7, Zenon
  <2>2. ASSUME NEW b \in Nat, 1 <= b, b <= C PROVE 1 <= C
    BY <1>2, <2>2
  <2> QED BY <2>1, <2>2, Zenon
<1>7b. \A j \in 1 .. N : ds[j].top <= C
  <2> TAKE j \in 1 .. N
  <2>1. CASE j = N
    BY <1>2, <1>4, <2>1
  <2>2. CASE j # N
    <3>1. j < N /\ ds[N].base \in Nat /\ ds[j].top \in Nat
      BY <1>2, <1>3, <1>7, <2>2
    <3>2. ds[j].top <= ds[N].base /\ ds[N].base <= C
      BY <1>4, <1>7, <3>1, Zenon
    <3> QED BY ONLY <1>2, <3>1, <3>2, Chained, Zenon
  <2> QED BY <2>1, <2>2
<1>8. Owned(es, cs)
  <2>1. es[1].base = 1 /\ es[N + 1].top = C
    BY <1>1, <1>4, <1>5, <1>7
  <2>2. \A k \in 1 .. N + 1 : 1 <= es[k].base /\ es[k].base <= es[k].top
    <3>1. 1 <= d.base /\ d.base <= d.top
      BY <1>2, <1>5, <1>7a
    <3> QED BY <1>1, <1>4, <1>6, <3>1, Zenon
  <2>3. ASSUME NEW k \in 1 .. N PROVE es[k].base < es[k].top /\ es[k + 1].base = es[k].top
    <3>1. CASE k = N
      BY <1>1, <1>4, <1>5, <1>7, <3>1, Zenon
    <3>2. CASE k # N
      <4>1. k \in 1 .. N - 1 /\ k + 1 \in 1 .. N
        BY <1>2, <3>2
      <4> QED BY <1>1, <1>4, <4>1, Zenon
    <3> QED BY <3>1, <3>2
  <2>4. ASSUME NEW j \in 1 .. N + 1, NEW k \in 1 .. N + 1, j < k PROVE es[j].top <= es[k].base
    <3>1. j \in 1 .. N
      BY <1>2, <2>4
    <3>2. CASE k \in 1 .. N
      BY <1>1, <1>4, <2>4, <3>1, <3>2, Zenon
    <3>3. CASE k = N + 1
      BY <1>1, <1>5, <1>7b, <3>1, <3>3, Zenon
    <3> QED BY <1>6, <3>2, <3>3
  <2>5. 1 <= N + 1 /\ (N + 1) - 1 = N
    BY <1>2
  <2> QED BY <1>1, <2>1, <2>2, <2>3, <2>4, <2>5 DEF Owned, C
<1>9. SVarsLead(in, es, cs)
  <2>1. Stretch(d) = {}
    BY <1>2, <1>5 DEF Stretch
  <2>2. \A k \in 1 .. N + 1 : \A i, j \in Stretch(es[k]) :
          i < j /\ ~ SVarIn(in, cs[i].comp) => ~ SVarIn(in, cs[j].comp)
    BY <1>1, <1>6, <2>1, Zenon DEF SVarsLead, N
  <2> QED BY <1>1, <2>2, Zenon DEF SVarsLead
<1>10. ASSUME NEW m \in 0 .. N, AllSVars(in, ds, cs, m) PROVE AllSVars(in, es, cs, m)
  <2>1. \A k \in 1 .. m : k \in 1 .. N
    BY <1>2
  <2> QED BY <1>1, <1>10, <2>1, Zenon DEF AllSVars
<1> QED BY <1>1, <1>8, <1>9, <1>10, Zenon DEF N

(* Where the last component of a stretch has a projection variable, all of *)
(* them have.                                                              *)
LEMMA TopStretch ==
  ASSUME NEW S, NEW in, NEW ds \in Seq(Decisions), NEW cs \in Seq(S), Owned(ds, cs), SVarsLead(in, ds, cs),
         AllSVars(in, ds, cs, Len(ds) - 1), SVarIn(in, cs[Len(cs)].comp)
  PROVE  AllSVars(in, ds, cs, Len(ds))
<1> DEFINE N == Len(ds)
           C == Len(cs)
<1>1. N \in 1 .. N /\ N \in Nat /\ C \in Nat /\ ds[N].top = C
  BY DEF Owned
<1>2. ds[N].base \in Nat
  BY <1>1, DecisionElements, Zenon
<1> HIDE DEF N, C
<1>3. ASSUME NEW i \in Stretch(ds[N]) PROVE SVarIn(in, cs[i].comp)
  <2>1. i \in ds[N].base + 1 .. C
    BY <1>1 DEF Stretch
  <2>2. i = C \/ (i < C /\ C \in Stretch(ds[N]))
    BY <1>1, <1>2, <2>1 DEF Stretch
  <2> QED BY <1>1, <2>2, Zenon DEF SVarsLead, N, C
<1>4. \A k \in 1 .. N : k \in 1 .. N - 1 \/ k = N
  BY <1>1
<1> QED BY <1>3, <1>4, Zenon DEF AllSVars, N

(* Components pushed onto the stack, for the decision at the top.          *)
Extended(in, ds, cs, es, ts) ==
    /\ Len(es) = Len(ds) /\ \A k \in 1 .. Len(ds) - 1 : es[k] = ds[k]
    /\ es[Len(ds)].base = ds[Len(ds)].base /\ es[Len(ds)].top = Len(ts)
    /\ Len(cs) <= Len(ts) /\ \A i \in 1 .. Len(cs) : ts[i] = cs[i]
    /\ \A i, j \in Len(cs) + 1 .. Len(ts) :
         i < j /\ ~ SVarIn(in, ts[i].comp) => ~ SVarIn(in, ts[j].comp)
    /\ \A j \in Len(cs) + 1 .. Len(ts) :
         SVarIn(in, ts[j].comp) => ds[Len(ds)].base = ds[Len(ds)].top

LEMMA GrowStacks ==
  ASSUME NEW S, NEW R, NEW in, NEW ds \in Seq(Decisions), NEW es \in Seq(Decisions),
         NEW cs \in Seq(S), NEW ts \in Seq(R), Owned(ds, cs), SVarsLead(in, ds, cs),
         Extended(in, ds, cs, es, ts)
  PROVE  /\ Owned(es, ts) /\ SVarsLead(in, es, ts)
         /\ \A m \in 0 .. Len(ds) - 1 : AllSVars(in, ds, cs, m) => AllSVars(in, es, ts, m)
<1> DEFINE N == Len(ds)
           C == Len(cs)
           T == Len(ts)
<1>0. Len(es) = N /\ C <= T
  BY Zenon DEF Extended
<1>1. N \in Nat /\ 1 <= N /\ C \in Nat /\ T \in Nat /\ C <= T /\ N \in 1 .. N /\ 1 \in 1 .. N
  BY <1>0 DEF Owned
<1>2. \A k \in 1 .. N : /\ ds[k].base \in Nat /\ ds[k].top \in Nat /\ es[k].base \in Nat /\ es[k].top \in Nat
                        /\ ds[k] \in Decisions
  BY <1>0, DecisionElements, Zenon
<1>3. /\ ds[1].base = 1 /\ ds[N].top = C
      /\ \A k \in 1 .. N : 1 <= ds[k].base /\ ds[k].base <= ds[k].top
      /\ \A k \in 1 .. N - 1 : ds[k].base < ds[k].top /\ ds[k + 1].base = ds[k].top
      /\ \A j, k \in 1 .. N : j < k => ds[j].top <= ds[k].base
  BY Zenon DEF Owned
<1>4. /\ Len(es) = N /\ \A k \in 1 .. N - 1 : es[k] = ds[k]
      /\ es[N].base = ds[N].base /\ es[N].top = T /\ \A i \in 1 .. C : ts[i] = cs[i]
      /\ \A i, j \in C + 1 .. T : i < j /\ ~ SVarIn(in, ts[i].comp) => ~ SVarIn(in, ts[j].comp)
      /\ \A j \in C + 1 .. T : SVarIn(in, ts[j].comp) => ds[N].base = ds[N].top
  BY Zenon DEF Extended
<1> HIDE DEF N, C, T
<1>5. \A k \in 1 .. N : k = N \/ k \in 1 .. N - 1
  BY <1>1
<1>6. \A k \in 1 .. N : es[k].base = ds[k].base
  BY <1>4, <1>5, Zenon
<1>7. Owned(es, ts)
  <2>1. ds[N].base <= T
    <3>1. ds[N].base <= C /\ ds[N].base \in Nat
      BY <1>1, <1>2, <1>3
    <3> QED BY <1>1, <3>1, Chained, Zenon
  <2>2. \A k \in 1 .. N : 1 <= es[k].base /\ es[k].base <= es[k].top
    BY <1>1, <1>3, <1>4, <1>5, <2>1, Zenon
  <2>3. \A k \in 1 .. N - 1 : k \in 1 .. N /\ k + 1 \in 1 .. N
    BY <1>1
  <2>4. \A k \in 1 .. N - 1 : es[k].base < es[k].top /\ es[k + 1].base = es[k].top
    BY <1>3, <1>4, <1>6, <2>3, Zenon
  <2>5. ASSUME NEW j \in 1 .. N, NEW k \in 1 .. N, j < k PROVE es[j].top <= es[k].base
    <3>1. j \in 1 .. N - 1
      BY <1>1, <2>5
    <3> QED BY <1>3, <1>4, <1>6, <2>5, <3>1, Zenon
  <2> QED BY <1>1, <1>3, <1>4, <1>6, <2>2, <2>4, <2>5, Zenon DEF Owned, T
<1>8. ASSUME NEW k \in 1 .. N - 1
      PROVE  k \in 1 .. N /\ es[k] = ds[k] /\ \A i \in Stretch(ds[k]) : ts[i] = cs[i]
  <2>1. k \in 1 .. N /\ k < N /\ N \in 1 .. N
    BY <1>1
  <2>2. ds[k].top <= ds[N].base /\ ds[N].base <= C
    BY <1>3, <2>1, Zenon
  <2>3. ds[k].top \in Nat /\ ds[N].base \in Nat /\ ds[k] \in Decisions
    BY <1>2, <2>1, Zenon
  <2>4. ds[k].top <= C
    BY ONLY <1>1, <2>2, <2>3, Chained, Zenon
  <2>5. ds[k].base = ds[k].base /\ ds[k].top <= ds[k].top
    BY <2>3
  <2>6. \A i \in Stretch(ds[k]) : i \in 1 .. C
    BY <1>1, <2>3, <2>4, <2>5, Within, Zenon
  <2> QED BY <1>4, <2>1, <2>6, Zenon
<1>9. ASSUME NEW i \in Stretch(es[N])
      PROVE  (i \in Stretch(ds[N]) /\ ts[i] = cs[i]) \/ i \in C + 1 .. T
  <2>1. ds[N].base \in Nat /\ i \in ds[N].base + 1 .. T
    BY <1>1, <1>2, <1>4 DEF Stretch
  <2>2. ASSUME NEW b \in Nat, i \in b + 1 .. T PROVE i \in C + 1 .. T \/ (i \in b + 1 .. C /\ i \in 1 .. C)
    BY <1>1, <2>2
  <2>3. i \in C + 1 .. T \/ (i \in ds[N].base + 1 .. C /\ i \in 1 .. C)
    BY <2>1, <2>2, Zenon
  <2> QED BY <1>3, <1>4, <2>3, Zenon DEF Stretch
<1>10. SVarsLead(in, es, ts)
  <2>1. ASSUME NEW i \in Stretch(es[N]), NEW j \in Stretch(es[N]), i < j, ~ SVarIn(in, ts[i].comp)
        PROVE  ~ SVarIn(in, ts[j].comp)
    <3>1. CASE i \in C + 1 .. T
      <4>1. j \in Stretch(ds[N]) => j <= C
        BY <1>1, <1>2, <1>3 DEF Stretch
      <4>2. j \in Stretch(ds[N]) => FALSE
        BY <1>1, <1>2, <1>3, <2>1, <3>1, <4>1 DEF Stretch
      <4> QED BY <1>4, <1>9, <2>1, <3>1, <4>2, Zenon
    <3>2. CASE i \in Stretch(ds[N]) /\ ts[i] = cs[i]
      <4>1. ds[N].base # ds[N].top
        <5>1. ASSUME NEW b \in Nat, i \in b + 1 .. b PROVE FALSE
          BY ONLY <5>1
        <5>2. ds[N].base \in Nat /\ i \in ds[N].base + 1 .. ds[N].top
          BY <1>1, <1>2, <3>2, Zenon DEF Stretch
        <5> QED BY <5>1, <5>2, Zenon
      <4>2. CASE j \in C + 1 .. T
        BY <1>4, <4>1, <4>2, Zenon
      <4>3. CASE j \in Stretch(ds[N]) /\ ts[j] = cs[j]
        BY <1>1, <2>1, <3>2, <4>3, Zenon DEF SVarsLead, N
      <4> QED BY <1>9, <4>2, <4>3, Zenon
    <3> QED BY <1>9, <3>1, <3>2, Zenon
  <2>2. ASSUME NEW k \in 1 .. N - 1, NEW i \in Stretch(es[k]), NEW j \in Stretch(es[k]),
               i < j, ~ SVarIn(in, ts[i].comp)
        PROVE  ~ SVarIn(in, ts[j].comp)
    BY <1>8, <2>2, Zenon DEF SVarsLead, N
  <2> QED BY <1>4, <1>5, <2>1, <2>2, Zenon DEF SVarsLead
<1>11. ASSUME NEW m \in 0 .. N - 1, AllSVars(in, ds, cs, m) PROVE AllSVars(in, es, ts, m)
  <2>1. \A k \in 1 .. m : k \in 1 .. N - 1
    BY <1>1
  <2> QED BY <1>8, <1>11, <2>1, Zenon DEF AllSVars
<1> QED BY <1>7, <1>10, <1>11, Zenon DEF N

(***************************************************************************)
(* The invariant holds initially and every action preserves it.            *)
(***************************************************************************)
LEMMA RootType ==
  ASSUME NEW K, Hashed(K), NEW max \in Nat
  PROVE  /\ EmptyCache(max) \in Caches(K, 0) /\ AllocId(EmptyCache(max)) = 1
         /\ NewRootEntry(EmptyCache(max)) \in Caches(K, 1)
<1> DEFINE c == EmptyCache(max)
<1>1. c \in Caches(K, 0)
  <2>1. <<>> \in [1 .. 0 -> Entries(K, 0)] /\ <<>> \in Seq(1 .. 0)
    OBVIOUS
  <2>2. [s \in 0 .. InitTable - 1 |-> INVALID_ENTRY] \in Tables(0)
    BY BoundsAssumption DEF Tables, Pointers
  <2> DEFINE t == [s \in 0 .. InitTable - 1 |-> INVALID_ENTRY]
  <2>3. c = [entry |-> <<>>, table |-> t, freeSlots |-> <<>>, clock |-> 1, maxMemory |-> max,
             memory |-> 0, confirmed |-> 0]
    BY DEF EmptyCache
  <2> HIDE DEF t, c
  <2> QED BY <2>1, <2>2, <2>3 DEF Caches, t
<1>2. c.freeSlots = <<>> /\ c.entry = <<>>
  BY DEF EmptyCache
<1> HIDE DEF c
<1>3. AllocId(c) = 1 /\ Grown(c, 0) = 1
  BY <1>2 DEF AllocId, Grown
<1> DEFINE d == AllocEntry(c)
<1>4. d \in Caches(K, 1)
  <2>1. 0 \in Nat
    OBVIOUS
  <2>2. d \in Caches(K, Grown(c, 0))
    BY <1>1, <2>1, AllocType, Zenon
  <2> QED BY <1>3, <2>2, Zenon
<1> HIDE DEF d
<1> DEFINE e == [d.entry[1] EXCEPT !.free = FALSE]
           f == [d.entry EXCEPT ![1] = e]
           m == d.memory + 1
<1>5. d.entry[1] \in Entries(K, 1) /\ m \in Int
  BY <1>4 DEF Caches
<1>6. e \in Entries(K, 1)
  BY <1>5 DEF Entries
<1>7. f \in [1 .. 1 -> Entries(K, 1)]
  BY <1>4, <1>6, EntryChanged
<1>8. NewRootEntry(c) = [d EXCEPT !.entry = f, !.memory = m]
  BY <1>3, <1>4 DEF NewRootEntry, Caches, d
<1> HIDE DEF f, m
<1>9. NewRootEntry(c) \in Caches(K, 1)
  BY <1>4, <1>5, <1>7, <1>8 DEF Caches
<1> QED BY <1>1, <1>3, <1>9 DEF c

LEMMA InitControl ==
  ASSUME Init
  PROVE  Control
<1> DEFINE K == KeysOf(input)
           d == ChangeBranch(NewDecision(1))
           x == [id |-> 1, comp |-> RootComp]
<1>1. /\ Hashed(K) /\ RootComp \in CompsOf(input) /\ Inputs[input].maxMemory \in Nat
  BY InputFacts DEF Init
<1>2. cache \in Caches(K, 1) /\ comps = <<x>> /\ decisions = <<d>> /\ pc = "main" /\ fixed = 0
      /\ preLevel = -1 /\ stop = FALSE /\ input \in DOMAIN Inputs
  <2>1. NewRootEntry(EmptyCache(Inputs[input].maxMemory)) \in Caches(K, 1)
    BY <1>1, RootType
  <2>2. AllocId(EmptyCache(0)) = 1
    BY <1>1, RootType
  <2> QED BY <2>1, <2>2 DEF Init
<1>3. d \in Decisions /\ d.base = 1 /\ d.top = 1
  <2>1. NewDecision(1) \in Decisions /\ NewDecision(1).base = 1 /\ NewDecision(1).top = 1
    BY NewDecisionType
  <2> QED BY <2>1, DecisionOps
<1>4. Ids(cache) = 1 .. 1
  BY <1>2, CacheIds
<1> HIDE DEF d, K
<1>5. Typed
  <2>1. x \in [id : Ids(cache), comp : CompsOf(input)]
    BY <1>1, <1>4
  <2> DEFINE S == [id : Ids(cache), comp : CompsOf(input)]
  <2> HIDE DEF S, x
  <2>2. comps \in Seq(S) /\ decisions \in Seq(Decisions) /\ Len(decisions) = 1
    BY <1>2, <1>3, <2>1 DEF S
  <2>3. cache \in AnyCaches(K)
    BY <1>2 DEF AnyCaches
  <2>4. fixed \in Nat /\ pc \in PCs /\ preLevel \in -1 .. Len(decisions) - 1 /\ stop \in BOOLEAN
    <3>1. fixed = 0 /\ preLevel = -1 /\ pc = "main" /\ stop = FALSE /\ Len(decisions) = 1
      BY <1>2, <2>2, Zenon
    <3>2. fixed \in Nat 
      BY ONLY <3>1
    <3>3. stop \in BOOLEAN
      BY ONLY <3>1
    <3>4. preLevel \in -1 .. Len(decisions) - 1
      BY ONLY <3>1
    <3>5. pc \in PCs
      BY ONLY <3>1 DEF PCs
    <3> QED BY <3>2, <3>3, <3>4, <3>5
  <2> QED BY <1>2, <2>2, <2>3, <2>4, Zenon DEF Typed, S, K
<1>6. Len(decisions) = 1 /\ decisions[1] = d /\ Len(comps) = 1
  BY <1>2
<1>7. Owned(decisions, comps)
  BY <1>3, <1>6 DEF Owned
<1>8. Stretches
  BY <1>2, <1>3, <1>6, <1>7 DEF Stretches, AtEntry, InExists, HasUnprocessedComp, TopDecision, Last
<1>9. FixedLevels
  BY <1>2, <1>6 DEF FixedLevels, FixedBelow, InExists
<1>10. SVarsFirst
  <2>1. Stretch(d) = {}
    BY <1>3 DEF Stretch
  <2>2. SVarsLead(input, decisions, comps)
    BY <1>6, <2>1 DEF SVarsLead
  <2>3. AllSVars(input, decisions, comps, Counted)
    BY <1>2, <1>6 DEF AllSVars, Counted, InExists
  <2> QED BY <1>2, <2>2, <2>3 DEF SVarsFirst, AtEntry, InExists
<1> QED BY <1>5, <1>8, <1>9, <1>10 DEF Control

LEMMA TypedStep ==
  ASSUME Typed, input' = input, NEW L \in Nat, cache' \in Caches(KeysOf(input), L),
         comps' \in Seq([id : 1 .. L, comp : CompsOf(input)]), decisions' \in Seq(Decisions),
         fixed' \in Nat, pc' \in PCs, preLevel' \in -1 .. Len(decisions') - 1, stop' \in BOOLEAN
  PROVE  Typed'
<1>1. Ids(cache') = 1 .. L
  BY CacheIds, Zenon
<1>2. cache' \in AnyCaches(KeysOf(input))
  BY DEF AnyCaches
<1>3. input' \in DOMAIN Inputs
  BY Zenon DEF Typed
<1> QED BY <1>1, <1>2, <1>3, Zenon DEF Typed

(* A step that leaves every stretch as it is.                              *)
SameStretches ==
    /\ input' = input /\ cache' = cache /\ comps' = comps /\ fixed' = fixed
    /\ decisions' \in Seq(Decisions) /\ Len(decisions') = Len(decisions)
    /\ \A k \in 1 .. Len(decisions) :
         /\ decisions'[k].base = decisions[k].base /\ decisions'[k].top = decisions[k].top
         /\ decisions[k].second => decisions'[k].second

LEMMA SameStretchesKeep ==
  ASSUME Control, SameStretches, pc' \in PCs, preLevel' \in -1 .. Len(decisions) - 1, stop' \in BOOLEAN
  PROVE  /\ Typed' /\ Owned(decisions', comps') /\ FixedBelow(decisions', fixed')
         /\ SVarsLead(input', decisions', comps') /\ Super' = Super
         /\ TopDecision'.base = TopDecision.base /\ TopDecision'.top = TopDecision.top
         /\ Len(decisions') = Len(decisions) /\ Len(decisions) \in Nat /\ fixed' = fixed
         /\ \A m \in 0 .. Len(decisions) - 1 :
              AllSVars(input, decisions, comps, m) => AllSVars(input', decisions', comps', m)
<1> DEFINE L == Len(cache.entry)
           S == [id : 1 .. L, comp : CompsOf(input)]
           N == Len(decisions)
<1>1. /\ L \in Nat /\ cache \in Caches(KeysOf(input), L) /\ comps \in Seq(S) /\ N \in Nat /\ N >= 1
      /\ TopDecision = decisions[N]
  BY TypedFacts DEF Control
<1> HIDE DEF L, S
<1>2. /\ input' = input /\ cache' = cache /\ comps' = comps /\ fixed' = fixed
      /\ decisions' \in Seq(Decisions) /\ Len(decisions') = N
      /\ \A k \in 1 .. N :
           /\ decisions'[k].base = decisions[k].base /\ decisions'[k].top = decisions[k].top
           /\ decisions[k].second => decisions'[k].second
  BY DEF SameStretches
<1>3. Typed'
  <2>1. fixed' \in Nat
    BY <1>2 DEF Control, Typed
  <2>2. comps' \in Seq([id : 1 .. L, comp : CompsOf(input)]) /\ cache' \in Caches(KeysOf(input), L)
    BY <1>1, <1>2, Zenon DEF S
  <2>3. preLevel' \in -1 .. Len(decisions') - 1
    BY <1>2
  <2>4. Typed
    BY DEF Control
  <2> QED BY <1>1, <1>2, <2>1, <2>2, <2>3, <2>4, TypedStep, Zenon
<1> DEFINE ds == decisions
           es == decisions'
<1>4. Cut(ds, comps, es, comps)
  <2>1. Owned(ds, comps)
    BY DEF Control, Stretches
  <2>2. es[N].base <= es[N].top /\ es[N].top <= ds[N].top /\ Len(comps) = es[N].top
    <3>1. N \in 1 .. N
      BY <1>1
    <3>2. ds[N].base <= ds[N].top /\ Len(comps) = ds[N].top
      BY <2>1, <3>1, Zenon DEF Owned
    <3>3. ds[N].top <= ds[N].top
      <4>1. ds[N].top \in Nat
        BY <3>1, DecisionElements, Zenon DEF Control, Typed
      <4> QED BY <4>1
    <3> QED BY <1>2, <3>1, <3>2, <3>3, Zenon
  <2>3. \A k \in 1 .. N - 1 : k \in 1 .. N
    BY <1>1
  <2>4. 1 <= N /\ N <= N /\ N \in 1 .. N
    BY <1>1
  <2> HIDE DEF ds, es
  <2> QED BY <1>2, <2>2, <2>3, <2>4, Zenon DEF Cut, ds, es
<1>5. ds \in Seq(Decisions) /\ Owned(ds, comps) /\ SVarsLead(input, ds, comps)
  BY DEF Control, Typed, Stretches, SVarsFirst
<1>6. /\ Owned(es, comps) /\ SVarsLead(input, es, comps)
      /\ \A m \in 0 .. Len(es) - 1 : AllSVars(input, ds, comps, m) => AllSVars(input, es, comps, m)
  BY <1>1, <1>2, <1>4, <1>5, CutStacks, Zenon
<1>7. FixedBelow(decisions', fixed')
  <2>1. FixedBelow(decisions, fixed)
    BY DEF Control, FixedLevels
  <2> QED BY <1>2, <2>1, Zenon DEF FixedBelow
<1>8. Super' = Super
  BY <1>2 DEF Super, Last
<1>9. TopDecision' = decisions'[N] /\ N \in 1 .. N
  BY <1>1, <1>2 DEF TopDecision, Last
<1> QED BY <1>1, <1>2, <1>3, <1>6, <1>7, <1>8, <1>9, Zenon

(* Two of its cases: no decision changes, or the one at the top does.      *)
LEMMA SameDecisions ==
  ASSUME Control, UNCHANGED <<input, cache, comps, decisions, fixed>>
  PROVE  SameStretches
BY Zenon DEF SameStretches, Control, Typed

LEMMA SameTop ==
  ASSUME Control, UNCHANGED <<input, cache, comps, fixed>>, NEW d \in Decisions, decisions' = SetTop(d),
         d.base = TopDecision.base, d.top = TopDecision.top, TopDecision.second => d.second
  PROVE  SameStretches
<1>1. decisions \in Seq(Decisions) /\ Len(decisions) >= 1 /\ Len(decisions) \in Nat
      /\ TopDecision = decisions[Len(decisions)]
  BY TypedFacts DEF Control, Typed
<1>2. /\ SetTop(d) \in Seq(Decisions) /\ Len(SetTop(d)) = Len(decisions)
      /\ SetTop(d)[Len(decisions)] = d
      /\ \A k \in 1 .. Len(decisions) - 1 : SetTop(d)[k] = decisions[k]
  BY <1>1, ReplacedTop
<1>3. \A k \in 1 .. Len(decisions) : k = Len(decisions) \/ k \in 1 .. Len(decisions) - 1
  BY <1>1
<1> QED BY <1>1, <1>2, <1>3, Zenon DEF SameStretches

LEMMA QuietStep ==
  ASSUME Control, SameStretches, pc' \in PCs, preLevel' \in -1 .. Len(decisions) - 1, stop' \in BOOLEAN,
         Counted' = Counted,
         pc' = "main" => (AtEntry' <=> HasUnprocessedComp(TopDecision)),
         pc' = "decide" => HasUnprocessedComp(TopDecision),
         pc' = "backtrack" => AtEntry' \/ ~ HasUnprocessedComp(TopDecision),
         pc' \in {"exists", "found", "refuted"} => ~ InExists',
         Len(decisions) <= fixed => pc' \in {"clean", "backtrack", "exit"},
         InExists' => fixed <= preLevel',
         pc' = "decide" /\ ~ InExists' => SVarIn(input, Super),
         pc' = "main" /\ AtEntry' => ~ SVarIn(input, Super)
  PROVE  Control'
<1>1. /\ Typed' /\ Owned(decisions', comps') /\ FixedBelow(decisions', fixed')
      /\ SVarsLead(input', decisions', comps') /\ Super' = Super
      /\ TopDecision'.base = TopDecision.base /\ TopDecision'.top = TopDecision.top
      /\ Len(decisions') = Len(decisions) /\ Len(decisions) \in Nat /\ fixed' = fixed
      /\ \A m \in 0 .. Len(decisions) - 1 :
           AllSVars(input, decisions, comps, m) => AllSVars(input', decisions', comps', m)
  BY SameStretchesKeep, Zenon
<1>2. HasUnprocessedComp(TopDecision)' <=> HasUnprocessedComp(TopDecision)
  BY <1>1, Zenon DEF HasUnprocessedComp
<1>3. Stretches'
  BY <1>1, <1>2, Zenon DEF Stretches
<1>4. FixedLevels'
  BY <1>1, Zenon DEF FixedLevels
<1>5. Counted \in 0 .. Len(decisions) - 1
  BY TypedFacts DEF Counted, InExists, Control, Typed
<1>6. AllSVars(input, decisions, comps, Counted)
  BY Zenon DEF Control, SVarsFirst
<1>7. input' = input
  BY Zenon DEF SameStretches
<1>8. SVarsFirst'
  BY <1>1, <1>5, <1>6, <1>7, Zenon DEF SVarsFirst
<1> QED BY <1>1, <1>3, <1>4, <1>8, Zenon DEF Control

LEMMA QuietActions ==
  ASSUME Control, ConflictAtEntry \/ StartExists \/ ExistsDone \/ BacktrackRoot \/ BacktrackEntry
                  \/ Signal \/ Interrupt \/ Done
  PROVE  Control'
<1>1. /\ Len(decisions) \in Nat /\ Len(decisions) >= 1 /\ preLevel \in -1 .. Len(decisions) - 1
      /\ pc \in PCs /\ stop \in BOOLEAN /\ fixed \in Nat
      /\ Super = Last(comps).comp
  BY TypedFacts DEF Control, Typed, Super
<1>2. UNCHANGED <<input, cache, comps, decisions, fixed>>
  BY DEF ConflictAtEntry, StartExists, ExistsDone, BacktrackRoot, BacktrackEntry, Signal, Interrupt, Done, vars
<1>3. SameStretches
  BY <1>2, SameDecisions, Zenon
<1>4. /\ pc = "main" => (AtEntry <=> HasUnprocessedComp(TopDecision))
      /\ pc = "decide" => HasUnprocessedComp(TopDecision)
      /\ pc = "backtrack" => AtEntry \/ ~ HasUnprocessedComp(TopDecision)
      /\ pc \in {"exists", "found", "refuted"} => ~ InExists
      /\ Len(decisions) <= fixed => pc \in {"clean", "backtrack", "exit"}
      /\ InExists => fixed <= preLevel
      /\ pc = "decide" /\ ~ InExists => SVarIn(input, Super)
      /\ pc = "main" /\ AtEntry => ~ SVarIn(input, Super)
  BY DEF Control, Stretches, FixedLevels, SVarsFirst
<1>5. HasSVar(Super) <=> SVarIn(input, Super)
  BY DEF HasSVar, SVarIn, NSVars
<1> HIDE DEF Super
<1>6. CASE ConflictAtEntry \/ BacktrackEntry
  <2>1. preLevel' = -1 /\ pc' = "refuted" /\ stop' = stop /\ AtEntry
    BY <1>6 DEF ConflictAtEntry, BacktrackEntry
  <2>2. Counted' = Counted
    BY <1>1, <1>2, <2>1 DEF Counted, InExists, AtEntry
  <2>3. ~ InExists'
    BY <2>1 DEF InExists
  <2>4. ~ (Len(decisions) <= fixed)
    BY <1>1, <1>4, <2>1 DEF AtEntry, InExists
  <2>5. preLevel' \in -1 .. Len(decisions) - 1 /\ pc' \in PCs /\ stop' \in BOOLEAN
    <3>1. preLevel' \in -1 .. Len(decisions) - 1
      BY <1>1, <2>1
    <3>2. pc' \in PCs
      BY <2>1 DEF PCs
    <3> QED BY <1>1, <2>1, <3>1, <3>2, Zenon
  <2>6. pc' # "main" /\ pc' # "decide" /\ pc' # "backtrack"
    BY <2>1
  <2> QED BY <1>3, <2>2, <2>3, <2>4, <2>5, <2>6, QuietStep, Zenon
<1>7. CASE StartExists
  <2>1. preLevel' = Len(decisions) - 1 /\ pc' = "main" /\ stop' = stop /\ pc = "exists"
        /\ HasUnprocessedComp(TopDecision) /\ ~ SVarIn(input, Super)
    BY <1>5, <1>7 DEF StartExists, Unprojected
  <2>2. Counted' = Counted /\ AtEntry' /\ InExists' /\ fixed <= preLevel' /\ ~ (Len(decisions) <= fixed)
    BY <1>1, <1>2, <1>4, <2>1 DEF Counted, InExists, AtEntry
  <2>3. preLevel' \in -1 .. Len(decisions) - 1 /\ pc' \in PCs /\ stop' \in BOOLEAN
    <3>1. preLevel' \in -1 .. Len(decisions) - 1
      BY <1>1, <2>1
    <3>2. pc' \in PCs
      BY <2>1 DEF PCs
    <3> QED BY <1>1, <2>1, <3>1, <3>2, Zenon
  <2>4. pc' # "decide" /\ pc' # "backtrack" /\ pc' \notin {"exists", "found", "refuted"}
    BY <2>1
  <2> QED BY <1>3, <2>1, <2>2, <2>3, <2>4, QuietStep, Zenon
<1>8. CASE ExistsDone
  <2>1. preLevel' = preLevel /\ stop' = stop /\ pc = "exists" /\ ~ Unprojected
        /\ pc' = IF HasUnprocessedComp(TopDecision) THEN "decide" ELSE "backtrack"
    BY <1>8 DEF ExistsDone
  <2>2. ~ HasUnprocessedComp(TopDecision) \/ SVarIn(input, Super)
    BY <1>5, <2>1 DEF Unprojected
  <2>3. Counted' = Counted /\ (InExists' <=> InExists) /\ ~ InExists /\ ~ (Len(decisions) <= fixed)
    BY <1>1, <1>2, <1>4, <2>1 DEF Counted, InExists
  <2>4. pc' \in PCs /\ pc' \in {"decide", "backtrack"}
    BY <2>1 DEF PCs
  <2>5. /\ pc' # "main" /\ pc' \notin {"exists", "found", "refuted"}
        /\ pc' = "decide" => HasUnprocessedComp(TopDecision) /\ SVarIn(input, Super)
        /\ pc' = "backtrack" => ~ HasUnprocessedComp(TopDecision)
    BY <2>1, <2>2
  <2> QED BY <1>1, <1>3, <2>1, <2>3, <2>4, <2>5, QuietStep, Zenon
<1>9. CASE BacktrackRoot
  <2>1. preLevel' = preLevel /\ stop' = stop /\ pc' = "exit" /\ ~ InExists
    BY <1>9 DEF BacktrackRoot
  <2>2. Counted' = Counted /\ ~ InExists'
    BY <1>2, <2>1 DEF Counted, InExists
  <2>3. pc' \in PCs /\ pc' \in {"clean", "backtrack", "exit"} /\ pc' # "main" /\ pc' # "decide" /\ pc' # "backtrack"
        /\ pc' \notin {"exists", "found", "refuted"}
    BY <2>1 DEF PCs
  <2> QED BY <1>1, <1>3, <2>1, <2>2, <2>3, QuietStep, Zenon
<1>10. CASE Interrupt
  <2>1. preLevel' = preLevel /\ stop' = stop /\ pc' = "interrupted" /\ (pc = "main" \/ pc = "exists")
    BY <1>10 DEF Interrupt
  <2>2. Counted' = Counted /\ (InExists' <=> InExists)
    BY <1>2, <2>1 DEF Counted, InExists
  <2>3. pc' \in PCs /\ pc' # "main" /\ pc' # "decide" /\ pc' # "backtrack"
        /\ pc' \notin {"exists", "found", "refuted"}
    BY <2>1 DEF PCs
  <2>4. ~ (Len(decisions) <= fixed)
    BY <1>4, <2>1
  <2> QED BY <1>1, <1>3, <1>4, <2>1, <2>2, <2>3, <2>4, QuietStep, Zenon
<1>11. CASE Signal \/ Done
  <2>1. preLevel' = preLevel /\ stop' \in BOOLEAN /\ pc' = pc
    BY <1>1, <1>11 DEF Signal, Done, vars
  <2>2. Counted' = Counted /\ (InExists' <=> InExists) /\ (AtEntry' <=> AtEntry)
    BY <1>2, <2>1 DEF Counted, InExists, AtEntry
  <2> QED BY <1>1, <1>3, <1>4, <2>1, <2>2, QuietStep, Zenon
<1> QED BY <1>6, <1>7, <1>8, <1>9, <1>10, <1>11

LEMMA WeighIs ==
  ASSUME NEW d \in Decisions, NEW weight \in BranchWeights
  PROVE  /\ Weigh(d, weight) \in Decisions /\ Weigh(d, weight).base = d.base
         /\ Weigh(d, weight).top = d.top /\ Weigh(d, weight).second = d.second
         /\ Weigh(d, weight).split = d.split
<1>1. weight \in {"zero", "some"}
  BY DEF BranchWeights, Weights
<1>2. Weigh(d, weight) = d \/ Weigh(d, weight) = IncreaseModels(d, weight)
  BY Zenon DEF Weigh
<1>3. /\ IncreaseModels(d, weight) \in Decisions /\ IncreaseModels(d, weight).base = d.base
      /\ IncreaseModels(d, weight).top = d.top /\ IncreaseModels(d, weight).second = d.second
      /\ IncreaseModels(d, weight).split = d.split
  BY <1>1, IncreaseType, IncreaseKeeps, Zenon
<1> QED BY <1>2, <1>3

LEMMA TopActions ==
  ASSUME Control, Conflict \/ ExistsFalse \/ FlipBranch
  PROVE  Control'
<1>1. /\ Len(decisions) \in Nat /\ Len(decisions) >= 1 /\ preLevel \in -1 .. Len(decisions) - 1
      /\ pc \in PCs /\ stop \in BOOLEAN /\ fixed \in Nat
      /\ Super = Last(comps).comp /\ TopDecision \in Decisions
      /\ TopDecision = decisions[Len(decisions)]
  BY TypedFacts DEF Control, Typed, Super
<1>2. /\ pc = "main" => (AtEntry <=> HasUnprocessedComp(TopDecision))
      /\ pc = "backtrack" => AtEntry \/ ~ HasUnprocessedComp(TopDecision)
      /\ Len(decisions) <= fixed => pc \in {"clean", "backtrack", "exit"}
      /\ InExists => fixed <= preLevel
  BY DEF Control, Stretches, FixedLevels, SVarsFirst
<1>3. UNCHANGED <<input, cache, comps, fixed, preLevel, stop>>
  BY DEF Conflict, ExistsFalse, FlipBranch
<1>4. MarkBranchUnsat(TopDecision) \in Decisions
      /\ MarkBranchUnsat(TopDecision).base = TopDecision.base
      /\ MarkBranchUnsat(TopDecision).top = TopDecision.top
      /\ MarkBranchUnsat(TopDecision).second = TopDecision.second
  BY <1>1, DecisionOps
<1> DEFINE Ready == SameStretches
<1>5. SameStretches /\ Len(decisions') = Len(decisions)
  <2>1. CASE UNCHANGED decisions
    BY <1>3, <2>1, SameDecisions
  <2>2. CASE decisions' = SetTop(MarkBranchUnsat(TopDecision))
    <3>1. SameStretches
      BY <1>3, <1>4, <2>2, SameTop, Zenon
    <3> QED BY <3>1 DEF SameStretches
  <2>3. CASE FlipBranch
    <3>1. PICK weight \in BranchWeights : decisions' = SetTop(ChangeBranch(Weigh(TopDecision, weight)))
      BY <2>3 DEF FlipBranch
    <3> DEFINE w == Weigh(TopDecision, weight)
    <3>2. w \in Decisions /\ w.base = TopDecision.base /\ w.top = TopDecision.top
      BY <1>1, WeighIs
    <3> HIDE DEF w
    <3>3. ChangeBranch(w) \in Decisions /\ ChangeBranch(w).base = w.base /\ ChangeBranch(w).top = w.top
          /\ ChangeBranch(w).second
      BY <3>2, DecisionOps
    <3> DEFINE d == ChangeBranch(w)
    <3>4. d \in Decisions /\ d.base = TopDecision.base /\ d.top = TopDecision.top /\ (TopDecision.second => d.second)
          /\ decisions' = SetTop(d)
      BY <3>1, <3>2, <3>3, Zenon DEF w
    <3> HIDE DEF d
    <3>5. SameStretches
      BY <1>3, <3>4, SameTop, Zenon
    <3> QED BY <3>5 DEF SameStretches
  <2> QED BY <2>1, <2>2, <2>3 DEF Conflict, ExistsFalse
<1>6. Counted' = Counted /\ (InExists' <=> InExists) /\ (AtEntry' <=> AtEntry)
  BY <1>1, <1>3, <1>5 DEF Counted, InExists, AtEntry
<1>7. CASE Conflict
  <2>1. pc = "main" /\ ~ AtEntry /\ (pc' = "exit" \/ pc' = "backtrack")
    BY <1>7 DEF Conflict
  <2>2. ~ HasUnprocessedComp(TopDecision) /\ ~ (Len(decisions) <= fixed)
    BY <1>2, <2>1
  <2>3. pc' \in PCs /\ pc' # "main" /\ pc' # "decide" /\ pc' \notin {"exists", "found", "refuted"}
    BY <2>1 DEF PCs
  <2> QED BY <1>1, <1>2, <1>3, <1>5, <1>6, <2>2, <2>3, QuietStep, Zenon
<1>8. CASE ExistsFalse
  <2>1. pc' = "clean"
    BY <1>8 DEF ExistsFalse
  <2>2. pc' \in PCs /\ pc' # "main" /\ pc' # "decide" /\ pc' # "backtrack" /\ pc' \notin {"exists", "found", "refuted"}
        /\ pc' \in {"clean", "backtrack", "exit"}
    BY <2>1 DEF PCs
  <2> QED BY <1>1, <1>2, <1>3, <1>5, <1>6, <2>2, QuietStep, Zenon
<1>9. CASE FlipBranch
  <2>1. pc = "backtrack" /\ ~ AtEntry /\ pc' = "main" /\ ~ TopDecision.second
    BY <1>9 DEF FlipBranch, Backtracking, ToFlip
  <2>2. ~ (Len(decisions) <= fixed)
    <3>1. FixedBelow(decisions, fixed) /\ Len(decisions) \in 1 .. Len(decisions)
      BY <1>1 DEF Control, FixedLevels
    <3> QED BY <1>1, <2>1, <3>1, Zenon DEF FixedBelow
  <2>3. pc' \in PCs /\ pc' # "backtrack" /\ pc' # "decide" /\ pc' \notin {"exists", "found", "refuted"}
    BY <2>1 DEF PCs
  <2>4. ~ HasUnprocessedComp(TopDecision)
    BY <1>2, <2>1
  <2> QED BY <1>1, <1>2, <1>3, <1>5, <1>6, <2>1, <2>2, <2>3, <2>4, QuietStep, Zenon
<1> QED BY <1>7, <1>8, <1>9

LEMMA SimplifyFailsKeeps ==
  ASSUME Control, SimplifyFails
  PROVE  Control'
<1> DEFINE N == Len(decisions)
           d == MarkBranchUnsat(TopDecision)
<1>1. /\ N \in Nat /\ N >= 1 /\ preLevel \in -1 .. N - 1 /\ stop \in BOOLEAN /\ fixed \in Nat
      /\ TopDecision \in Decisions /\ TopDecision = decisions[N] /\ decisions \in Seq(Decisions)
  BY TypedFacts DEF Control, Typed
<1>2. /\ UNCHANGED <<input, cache, comps, preLevel, stop>> /\ decisions' = SetTop(d) /\ pc' = "clean"
      /\ fixed' = fixed + 1 /\ fixed + 1 = N /\ TopDecision.second
      /\ TopDecision.top - TopDecision.base = 1 /\ ~ InExists /\ pc = "decide"
  BY DEF SimplifyFails, AtFixedLevel
<1>3. d \in Decisions /\ d.base = TopDecision.base /\ d.top = TopDecision.top /\ d.second = TopDecision.second
  BY <1>1, DecisionOps
<1>4. /\ decisions' \in Seq(Decisions) /\ Len(decisions') = N /\ decisions'[N] = d
      /\ \A k \in 1 .. N - 1 : decisions'[k] = decisions[k]
  BY <1>1, <1>2, <1>3, ReplacedTop
<1> HIDE DEF d
<1>5. \A k \in 1 .. N : k = N \/ k \in 1 .. N - 1
  BY <1>1
<1> DEFINE L == Len(cache.entry)
           S == [id : 1 .. L, comp : CompsOf(input)]
<1>6. L \in Nat /\ cache \in Caches(KeysOf(input), L) /\ comps \in Seq(S)
  BY TypedFacts DEF Control
<1>7. Typed'
  <2>1. fixed' \in Nat /\ preLevel' \in -1 .. Len(decisions') - 1
    BY <1>1, <1>2, <1>4
  <2>2. pc' \in PCs
    BY <1>2 DEF PCs
  <2>3. stop' \in BOOLEAN /\ cache' \in Caches(KeysOf(input), L) /\ comps' \in Seq(S) /\ input' = input
    BY <1>1, <1>2, <1>6, Zenon
  <2>4. Typed
    BY DEF Control
  <2> QED BY <1>4, <1>6, <2>1, <2>2, <2>3, <2>4, TypedStep, Zenon
<1> HIDE DEF L, S
<1> DEFINE es == decisions'
<1>8. Cut(decisions, comps, es, comps)
  <2>1. N \in 1 .. N /\ 1 <= N /\ N <= N
    BY <1>1
  <2>2. Owned(decisions, comps)
    BY DEF Control, Stretches
  <2>3. decisions[N].base <= decisions[N].top /\ Len(comps) = decisions[N].top
    BY <2>1, <2>2, Zenon DEF Owned
  <2>4. decisions[N].top <= decisions[N].top
    BY <1>1 DEF Decisions
  <2>5. es[N].base = decisions[N].base /\ es[N].top = decisions[N].top
    BY <1>1, <1>3, <1>4, Zenon
  <2>6. \A k \in 1 .. N - 1 : es[k].base = decisions[k].base /\ es[k].top = decisions[k].top
    BY <1>4, Zenon
  <2>7. Len(es) = N
    BY <1>4
  <2> HIDE DEF es, N
  <2> QED BY <2>1, <2>3, <2>4, <2>5, <2>6, <2>7, Zenon DEF Cut, N
<1>9. decisions \in Seq(Decisions) /\ Owned(decisions, comps) /\ SVarsLead(input, decisions, comps)
      /\ AllSVars(input, decisions, comps, Counted)
  BY DEF Control, Typed, Stretches, SVarsFirst
<1>10. /\ Owned(es, comps) /\ SVarsLead(input, es, comps)
      /\ \A m \in 0 .. Len(es) - 1 : AllSVars(input, decisions, comps, m) => AllSVars(input, es, comps, m)
  BY <1>4, <1>6, <1>8, <1>9, CutStacks, Zenon
<1>11. Counted' = N - 1 /\ Counted = N - 1 /\ ~ InExists' /\ N - 1 \in 0 .. Len(es) - 1
  BY <1>1, <1>2, <1>4 DEF Counted, InExists
<1>12. FixedBelow(decisions', fixed')
  <2>1. FixedBelow(decisions, fixed)
    BY DEF Control, FixedLevels
  <2>2. d.second /\ d.top <= d.base + 1
    <3>1. d.top \in Nat /\ d.base \in Nat
      BY <1>3, DecisionOps, Zenon
    <3>2. d.top - d.base = 1 /\ d.second
      BY <1>2, <1>3
    <3> QED BY ONLY <3>1, <3>2
  <2>3. \A k \in 1 .. N - 1 : k \in 1 .. N /\ k <= fixed
    BY <1>1, <1>2
  <2> QED BY <1>4, <1>5, <2>1, <2>2, <2>3, Zenon DEF FixedBelow
<1>13. pc' # "main" /\ pc' # "decide" /\ pc' # "backtrack" /\ pc' \notin {"exists", "found", "refuted"}
       /\ pc' \in {"clean", "backtrack", "exit"}
  BY <1>2
<1>14. input' = input /\ comps' = comps
  BY <1>2
<1>15. Stretches'
  BY <1>10, <1>13, <1>14, Zenon DEF Stretches
<1>16. FixedLevels'
  BY <1>11, <1>12, <1>13, Zenon DEF FixedLevels
<1>17. SVarsFirst'
  BY <1>9, <1>10, <1>11, <1>13, <1>14, Zenon DEF SVarsFirst
<1> QED BY <1>7, <1>15, <1>16, <1>17 DEF Control

LEMMA DecideKeeps ==
  ASSUME Control, Decide
  PROVE  Control'
<1> DEFINE N == Len(decisions)
           C == Len(comps)
           d == NewDecision(C)
           L == Len(cache.entry)
           S == [id : 1 .. L, comp : CompsOf(input)]
<1>1. /\ N \in Nat /\ N >= 1 /\ preLevel \in -1 .. N - 1 /\ stop \in BOOLEAN /\ fixed \in Nat
      /\ decisions \in Seq(Decisions) /\ C \in Nat /\ C >= 1 /\ Super = comps[C].comp
      /\ L \in Nat /\ cache \in Caches(KeysOf(input), L) /\ comps \in Seq(S)
      /\ TopDecision = decisions[N] /\ TopDecision.base \in Nat /\ TopDecision.top \in Nat
  BY TypedFacts, DecisionOps DEF Control, Typed
<1>2. /\ UNCHANGED <<input, cache, comps, preLevel, stop>> /\ decisions' = Append(decisions, d)
      /\ pc = "decide" /\ pc' = "main" /\ fixed' = IF AtFixedLevel /\ ~ InExists THEN fixed + 1 ELSE fixed
  BY DEF Decide
<1>3. d \in Decisions /\ d.base = C /\ d.top = C
  BY <1>1, NewDecisionType
<1> HIDE DEF d, S, L, C
<1>4. /\ Owned(decisions, comps) /\ SVarsLead(input, decisions, comps)
      /\ AllSVars(input, decisions, comps, Counted) /\ FixedBelow(decisions, fixed)
      /\ HasUnprocessedComp(TopDecision) /\ ~ (N <= fixed) /\ (InExists => fixed <= preLevel)
      /\ (~ InExists => SVarIn(input, Super)) /\ Typed
  BY <1>2 DEF Control, Stretches, SVarsFirst, FixedLevels
<1>5. decisions[N].base < decisions[N].top
  BY <1>1, <1>4 DEF HasUnprocessedComp
<1> DEFINE es == decisions'
<1>6. /\ es \in Seq(Decisions) /\ Len(es) = N + 1 /\ es[N + 1] = d
      /\ \A k \in 1 .. N : es[k] = decisions[k]
      /\ Owned(es, comps) /\ SVarsLead(input, es, comps)
      /\ \A m \in 0 .. N : AllSVars(input, decisions, comps, m) => AllSVars(input, es, comps, m)
  <2>1. es \in Seq(Decisions) /\ Len(es) = N + 1 /\ es[N + 1] = d /\ \A k \in 1 .. N : es[k] = decisions[k]
    BY <1>1, <1>2, <1>3, AppendIs
  <2>2. Pushed(decisions, comps, es)
    BY <1>3, <1>5, <2>1 DEF Pushed, C
  <2> HIDE DEF es
  <2>3. /\ Owned(es, comps) /\ SVarsLead(input, es, comps)
        /\ \A m \in 0 .. N : AllSVars(input, decisions, comps, m) => AllSVars(input, es, comps, m)
    BY <1>1, <1>4, <2>1, <2>2, PushStacks, Zenon
  <2> QED BY <2>1, <2>3, Zenon
<1>7. Counted \in 0 .. N /\ ~ InExists => Counted = N - 1
  BY <1>1 DEF Counted, InExists
<1>8. AllSVars(input, es, comps, Counted')
  <2>1. CASE InExists
    <3>1. Counted' = Counted /\ Counted \in 0 .. N
      BY <1>1, <1>2, <2>1 DEF Counted, InExists
    <3> QED BY <1>4, <1>6, <3>1, Zenon
  <2>2. CASE ~ InExists
    <3>1. Counted' = N /\ Counted = N - 1 /\ N \in 0 .. N
      BY <1>1, <1>2, <1>6, <2>2 DEF Counted, InExists
    <3>2. AllSVars(input, decisions, comps, N)
      <4>1. AllSVars(input, decisions, comps, Len(decisions) - 1) /\ SVarIn(input, comps[Len(comps)].comp)
        BY <1>1, <1>4, <2>2, <3>1, Zenon DEF C
      <4> QED BY <1>1, <1>4, <4>1, TopStretch, Zenon
    <3> QED BY <1>6, <3>1, <3>2, Zenon
  <2> QED BY <2>1, <2>2
<1>9. /\ fixed' \in Nat /\ fixed' <= N /\ (InExists => fixed' <= preLevel)
      /\ preLevel' \in -1 .. Len(decisions') - 1 /\ ~ (Len(decisions') <= fixed')
  BY <1>1, <1>2, <1>4, <1>6
<1>10. FixedBelow(es, fixed')
  <2>1. ASSUME NEW k \in 1 .. N, k <= fixed' PROVE decisions[k].second /\ decisions[k].top <= decisions[k].base + 1
    <3>1. CASE k <= fixed
      BY <1>4, <3>1, Zenon DEF FixedBelow
    <3>2. CASE ~ (k <= fixed)
      <4>1. AtFixedLevel
        BY <1>2, <2>1, <3>2
      <4>2. k = N /\ TopDecision.second /\ TopDecision.top - TopDecision.base = 1
        BY <1>1, <1>2, <2>1, <3>2, <4>1 DEF AtFixedLevel
      <4>3. TopDecision.top <= TopDecision.base + 1
        BY <1>1, <4>2
      <4> QED BY <1>1, <4>2, <4>3, Zenon
    <3> QED BY <3>1, <3>2
  <2>2. \A k \in 1 .. N + 1 : k <= fixed' => k \in 1 .. N
    BY <1>1, <1>9
  <2> QED BY <1>6, <2>1, <2>2, Zenon DEF FixedBelow
<1>11. pc' \in PCs /\ pc' # "decide" /\ pc' # "backtrack" /\ pc' \notin {"exists", "found", "refuted"}
  BY <1>2 DEF PCs
<1>12. ~ AtEntry' /\ (InExists' <=> InExists)
  BY <1>1, <1>2, <1>6 DEF AtEntry, InExists
<1>13. ~ HasUnprocessedComp(TopDecision)'
  <2>1. TopDecision' = d
    BY <1>6 DEF TopDecision, Last
  <2> QED BY <1>1, <1>3, <2>1 DEF HasUnprocessedComp
<1>14. input' = input /\ comps' = comps /\ cache' = cache /\ preLevel' = preLevel /\ stop' \in BOOLEAN
  BY <1>1, <1>2
<1>15. Typed'
  <2>1. comps' \in Seq([id : 1 .. L, comp : CompsOf(input)]) /\ cache' \in Caches(KeysOf(input), L)
    BY <1>1, <1>14, Zenon DEF S
  <2> QED BY <1>1, <1>4, <1>6, <1>9, <1>11, <1>14, <2>1, TypedStep, Zenon
<1> HIDE DEF N
<1>16. Stretches'
  BY <1>6, <1>11, <1>12, <1>13, <1>14, Zenon DEF Stretches
<1>17. FixedLevels'
  BY <1>9, <1>10, <1>12, <1>14, Zenon DEF FixedLevels
<1>18. SVarsFirst'
  BY <1>6, <1>8, <1>11, <1>12, <1>14, Zenon DEF SVarsFirst
<1> QED BY <1>15, <1>16, <1>17, <1>18 DEF Control

(* A step that cuts the stacks and leaves the branches below as they are.  *)
CutsStacks ==
    /\ Cut(decisions, comps, decisions', comps')
    /\ input' = input /\ fixed' = fixed /\ stop' \in BOOLEAN
    /\ cache' \in Caches(KeysOf(input), Len(cache.entry))
    /\ comps' \in Seq([id : 1 .. Len(cache.entry), comp : CompsOf(input)])
    /\ decisions' \in Seq(Decisions)
    /\ \A k \in 1 .. Len(decisions') : decisions'[k].second = decisions[k].second

LEMMA CutStep ==
  ASSUME Control, CutsStacks, pc' \in PCs, pc' # "main", preLevel' \in -1 .. Len(decisions') - 1,
         Counted' \in 0 .. Counted,
         pc' = "decide" => HasUnprocessedComp(TopDecision'),
         pc' = "backtrack" => AtEntry' \/ ~ HasUnprocessedComp(TopDecision'),
         pc' \in {"exists", "found", "refuted"} => ~ InExists',
         Len(decisions') <= fixed => pc' \in {"clean", "backtrack", "exit"},
         InExists' => fixed <= preLevel',
         pc' = "decide" /\ ~ InExists' => SVarIn(input, Super')
  PROVE  Control'
<1> DEFINE L == Len(cache.entry)
           S == [id : 1 .. L, comp : CompsOf(input)]
           ds == decisions
           es == decisions'
           cs == comps
           ts == comps'
<1>1. /\ L \in Nat /\ cs \in Seq(S) /\ ds \in Seq(Decisions) /\ Len(ds) \in Nat /\ preLevel \in -1 .. Len(ds) - 1
  BY TypedFacts DEF Control, Typed
<1>2. /\ Cut(ds, cs, es, ts) /\ es \in Seq(Decisions) /\ ts \in Seq(S) /\ input' = input /\ fixed' = fixed
      /\ \A k \in 1 .. Len(es) : es[k].second = ds[k].second
  BY DEF CutsStacks
<1>3. /\ Owned(ds, cs) /\ SVarsLead(input, ds, cs) /\ FixedBelow(ds, fixed) /\ AllSVars(input, ds, cs, Counted)
  BY DEF Control, Stretches, FixedLevels, SVarsFirst
<1> HIDE DEF S, L, ds, es, cs, ts
<1>4. /\ Owned(es, ts) /\ SVarsLead(input, es, ts)
      /\ \A m \in 0 .. Len(es) - 1 : AllSVars(input, ds, cs, m) => AllSVars(input, es, ts, m)
  BY <1>1, <1>2, <1>3, CutStacks, Zenon
<1>5. Len(es) \in Nat /\ Len(es) >= 1 /\ Len(es) <= Len(ds)
  BY <1>2 DEF Cut
<1>6. Typed'
  <2>1. Typed /\ fixed' \in Nat
    BY <1>2 DEF Control, Typed
  <2>2. cache' \in Caches(KeysOf(input), L) /\ comps' \in Seq([id : 1 .. L, comp : CompsOf(input)]) /\ stop' \in BOOLEAN
    BY DEF CutsStacks, L
  <2> QED BY <1>1, <1>2, <2>1, <2>2, TypedStep, Zenon DEF es
<1>7. Stretches'
  BY <1>4, Zenon DEF Stretches, es, ts
<1>8. FixedBelow(es, fixed')
  <2>1. ASSUME NEW k \in 1 .. Len(es), k <= fixed PROVE es[k].second /\ es[k].top <= es[k].base + 1
    <3>1. k \in 1 .. Len(ds)
      BY <1>1, <1>5
    <3>2. es[k].second /\ ds[k].top <= ds[k].base + 1
      BY <1>2, <1>3, <2>1, <3>1, Zenon DEF FixedBelow
    <3>3. es[k].base = ds[k].base /\ es[k].top <= ds[k].top
      <4>1. CASE k = Len(es)
        BY <1>2, <4>1, Zenon DEF Cut
      <4>2. CASE k # Len(es)
        <5>1. k \in 1 .. Len(es) - 1
          BY <1>5, <4>2
        <5>2. es[k].base = ds[k].base /\ es[k].top = ds[k].top /\ ds[k].top \in Nat
          BY <1>1, <1>2, <3>1, <5>1, DecisionElements, Zenon DEF Cut
        <5> QED BY <5>2
      <4> QED BY <4>1, <4>2
    <3>4. es[k].top \in Nat /\ ds[k].base \in Nat /\ ds[k].top \in Nat
      BY <1>1, <1>2, <3>1, DecisionElements, Zenon
    <3>5. ASSUME NEW t \in Nat, NEW u \in Nat, NEW b \in Nat, t <= u, u <= b + 1 PROVE t <= b + 1
      BY ONLY <3>5
    <3> QED BY <3>2, <3>3, <3>4, <3>5, Zenon
  <2> QED BY <1>2, <2>1, Zenon DEF FixedBelow
<1>9. FixedLevels'
  BY <1>2, <1>8, Zenon DEF FixedLevels, es
<1>10. AllSVars(input, es, ts, Counted')
  <2>1. Counted \in Nat /\ Counted' \in 0 .. Len(es) - 1
    BY <1>1, <1>5 DEF Counted, InExists, es
  <2>2. \A k \in 1 .. Counted' : k \in 1 .. Counted
    BY <2>1
  <2>3. AllSVars(input, ds, cs, Counted')
    BY <1>3, <2>2, Zenon DEF AllSVars
  <2> QED BY <1>4, <2>1, <2>3, Zenon
<1>11. SVarsFirst'
  BY <1>2, <1>4, <1>10, Zenon DEF SVarsFirst, es, ts
<1> QED BY <1>6, <1>7, <1>9, <1>11 DEF Control

LEMMA PermitType ==
  ASSUME NEW K, NEW L \in Nat, NEW c \in Caches(K, L), NEW popped
  PROVE  [c EXCEPT !.entry = [id \in Ids(c) |->
            IF id \in popped THEN [@[id] EXCEPT !.delete = TRUE] ELSE @[id]]] \in Caches(K, L)
<1> DEFINE f == [id \in 1 .. L |->
                   IF id \in popped THEN [c.entry[id] EXCEPT !.delete = TRUE] ELSE c.entry[id]]
<1>1. c.entry \in [1 .. L -> Entries(K, L)]
  BY DEF Caches
<1>2. \A e \in Entries(K, L) : [e EXCEPT !.delete = TRUE] \in Entries(K, L)
  BY DEF Entries
<1>3. f \in [1 .. L -> Entries(K, L)]
  BY <1>1, <1>2
<1>4. Ids(c) = 1 .. L
  BY CacheIds
<1>5. [c EXCEPT !.entry = [id \in Ids(c) |->
         IF id \in popped THEN [@[id] EXCEPT !.delete = TRUE] ELSE @[id]]] = [c EXCEPT !.entry = f]
  BY <1>4 DEF Caches
<1> HIDE DEF f
<1> QED BY <1>3, <1>5 DEF Caches

LEMMA CleanKeeps ==
  ASSUME Control, Clean
  PROVE  Control'
<1> DEFINE N == Len(decisions)
           L == Len(cache.entry)
           S == [id : 1 .. L, comp : CompsOf(input)]
           d == TopDecision
           e == [d EXCEPT !.top = d.base]
<1>1. /\ N \in Nat /\ N >= 1 /\ preLevel \in -1 .. N - 1 /\ stop \in BOOLEAN /\ fixed \in Nat
      /\ decisions \in Seq(Decisions) /\ d \in Decisions /\ d = decisions[N]
      /\ L \in Nat /\ cache \in Caches(KeysOf(input), L) /\ comps \in Seq(S)
      /\ 1 <= d.base /\ d.base <= Len(comps) /\ d.top = Len(comps) /\ input \in DOMAIN Inputs
      /\ \A i \in 1 .. Len(comps) : comps[i].id \in 1 .. L
  BY TypedFacts DEF Control, Typed
<1>1a. InExists => fixed <= preLevel
  BY DEF Control, FixedLevels
<1>2. /\ comps' = SubSeq(comps, 1, d.base) /\ decisions' = SetTop(e) /\ pc' = "backtrack"
      /\ UNCHANGED <<input, fixed, preLevel, stop>>
  BY DEF Clean
<1>3. cache' \in Caches(KeysOf(input), L)
  <2> DEFINE popped == {comps[i].id : i \in d.base + 1 .. d.top}
             permitted == [cache EXCEPT !.entry = [id \in Ids(cache) |->
                             IF id \in popped THEN [@[id] EXCEPT !.delete = TRUE] ELSE @[id]]]
  <2>1. cache' = CleanDescendants(permitted, comps[d.base].id, d.split)
    BY DEF Clean
  <2> HIDE DEF popped
  <2>2. permitted \in Caches(KeysOf(input), L)
    BY <1>1, PermitType, Zenon
  <2> HIDE DEF permitted
  <2>3. d.base \in 1 .. Len(comps)
    BY <1>1, DecisionOps
  <2>4. comps[d.base].id \in 1 .. L /\ Hashed(KeysOf(input))
    BY <1>1, <2>3, InputFacts, Zenon
  <2> QED BY <1>1, <2>1, <2>2, <2>4, CleanDescendantsType, Zenon
<1>4. e \in Decisions /\ e.base = d.base /\ e.top = d.base /\ e.second = d.second /\ d.base \in Nat /\ d.top \in Nat
  BY <1>1 DEF Decisions
<1> HIDE DEF e, L, S
<1>5. /\ comps' \in Seq(S) /\ Len(comps') = d.base /\ \A i \in 1 .. d.base : comps'[i] = comps[i]
  <2>1. d.base \in 0 .. Len(comps)
    BY <1>1, <1>4
  <2> QED BY <1>1, <1>2, <2>1, PrefixIs, Zenon
<1>6. /\ decisions' \in Seq(Decisions) /\ Len(decisions') = N /\ decisions'[N] = e
      /\ \A k \in 1 .. N - 1 : decisions'[k] = decisions[k]
  BY <1>1, <1>2, <1>4, ReplacedTop
<1>7. \A k \in 1 .. N : k = N \/ k \in 1 .. N - 1
  BY <1>1
<1>8. CutsStacks
  <2>1. Cut(decisions, comps, decisions', comps')
    <3>1. 1 <= N /\ N <= N /\ d.base <= d.base /\ d.base <= d.top
      BY <1>1, <1>4
    <3> QED BY <1>1, <1>4, <1>5, <1>6, <3>1, Zenon DEF Cut
  <2>2. \A k \in 1 .. N : decisions'[k].second = decisions[k].second
    BY <1>1, <1>4, <1>6, <1>7, Zenon
  <2>3. input' = input /\ fixed' = fixed /\ stop' \in BOOLEAN
    BY <1>1, <1>2
  <2> QED BY <1>3, <1>5, <1>6, <2>1, <2>2, <2>3, Zenon DEF CutsStacks, S, L
<1>9. TopDecision' = e
  BY <1>6 DEF TopDecision, Last
<1>10. ~ HasUnprocessedComp(TopDecision')
  BY <1>4, <1>9 DEF HasUnprocessedComp
<1>11. (InExists' <=> InExists) /\ preLevel' = preLevel /\ Counted' = Counted /\ Counted \in 0 .. Counted
  BY <1>1, <1>2, <1>6 DEF InExists, Counted
<1>12. preLevel' \in -1 .. Len(decisions') - 1
  BY <1>1, <1>2, <1>6
<1>13. pc' \in PCs /\ pc' # "main" /\ pc' # "decide" /\ pc' \notin {"exists", "found", "refuted"}
       /\ pc' \in {"clean", "backtrack", "exit"}
  BY <1>2 DEF PCs
<1> QED BY <1>1a, <1>8, <1>10, <1>11, <1>12, <1>13, CutStep, Zenon

LEMMA ExistsTrueKeeps ==
  ASSUME Control, ExistsTrue
  PROVE  Control'
<1> DEFINE N == Len(decisions)
           L == Len(cache.entry)
           S == [id : 1 .. L, comp : CompsOf(input)]
           d == TopDecision
           m == IncreaseModels(d, "some")
           e == NextComp(m)
<1>1. /\ N \in Nat /\ N >= 1 /\ preLevel \in -1 .. N - 1 /\ stop \in BOOLEAN /\ fixed \in Nat
      /\ decisions \in Seq(Decisions) /\ d \in Decisions /\ d = decisions[N]
      /\ L \in Nat /\ cache \in Caches(KeysOf(input), L) /\ comps \in Seq(S)
      /\ 1 <= d.base /\ d.base <= Len(comps) /\ d.top = Len(comps) /\ input \in DOMAIN Inputs
      /\ Len(comps) \in Nat /\ Last(comps).id \in 1 .. L
  BY TypedFacts DEF Control, Typed
<1>2. /\ cache' = PopComponent(Store(cache, Last(comps).id)) /\ comps' = Front(comps)
      /\ decisions' = SetTop(e) /\ pc' = "exists" /\ UNCHANGED <<input, fixed, preLevel, stop>>
      /\ pc \in {"exists", "found"} /\ HasUnprocessedComp(d)
  BY DEF ExistsTrue, Answered, Unprojected
<1>3. ~ InExists /\ ~ (N <= fixed)
  BY <1>2 DEF Control, Stretches, FixedLevels
<1>4. cache' \in Caches(KeysOf(input), L)
  <2>1. Hashed(KeysOf(input))
    BY <1>1, InputFacts
  <2>2. Store(cache, Last(comps).id) \in Caches(KeysOf(input), L) /\ TRUE \in BOOLEAN
    BY <1>1, <2>1, StoreType, Zenon
  <2> QED BY <1>1, <1>2, <2>2, SetDeleteType, Zenon DEF PopComponent
<1>5. m \in Decisions /\ m.base = d.base /\ m.top = d.top /\ m.second = d.second
  BY <1>1, IncreaseType, IncreaseKeeps, Zenon
<1>6. d.base \in Nat /\ d.top \in Nat /\ d.base < d.top
  BY <1>1, <1>2, DecisionOps DEF HasUnprocessedComp
<1> HIDE DEF m
<1>7. e \in Decisions /\ e.base = d.base /\ e.top = d.top - 1 /\ e.second = d.second
  BY <1>5, <1>6, NextCompType
<1> HIDE DEF e, L, S
<1>8. /\ comps' \in Seq(S) /\ Len(comps') = d.top - 1 /\ \A i \in 1 .. d.top - 1 : comps'[i] = comps[i]
  <2>1. comps # <<>>
    BY <1>1, <1>6
  <2> QED BY <1>1, <1>2, <2>1, FrontIs, Zenon
<1>9. /\ decisions' \in Seq(Decisions) /\ Len(decisions') = N /\ decisions'[N] = e
      /\ \A k \in 1 .. N - 1 : decisions'[k] = decisions[k]
  BY <1>1, <1>2, <1>7, ReplacedTop
<1>10. \A k \in 1 .. N : k = N \/ k \in 1 .. N - 1
  BY <1>1
<1>11. CutsStacks
  <2>1. Cut(decisions, comps, decisions', comps')
    <3>1. 1 <= N /\ N <= N /\ d.base <= d.top - 1 /\ d.top - 1 <= d.top
      BY <1>1, <1>6
    <3> QED BY <1>1, <1>7, <1>8, <1>9, <3>1, Zenon DEF Cut
  <2>2. \A k \in 1 .. N : decisions'[k].second = decisions[k].second
    BY <1>1, <1>7, <1>9, <1>10, Zenon
  <2>3. input' = input /\ fixed' = fixed /\ stop' \in BOOLEAN
    BY <1>1, <1>2
  <2> QED BY <1>4, <1>8, <1>9, <2>1, <2>2, <2>3, Zenon DEF CutsStacks, S, L
<1>12. ~ InExists' /\ Counted' = Counted /\ Counted \in 0 .. Counted
  BY <1>1, <1>2, <1>3, <1>9 DEF InExists, Counted
<1>13. preLevel' \in -1 .. Len(decisions') - 1
  BY <1>1, <1>2, <1>9
<1>14. pc' \in PCs /\ pc' # "main" /\ pc' # "decide" /\ pc' # "backtrack"
  BY <1>2 DEF PCs
<1> QED BY <1>3, <1>9, <1>11, <1>12, <1>13, <1>14, CutStep, Zenon

LEMMA TotalsIn ==
  ASSUME NEW d \in Decisions
  PROVE  Totals(d.models) \subseteq Counts
<1>1. d.models[1] \in Counts /\ d.models[2] \in Counts
  BY DEF Decisions
<1>2. Weights \subseteq Counts /\ "zero" \in Counts /\ "some" \in Counts
  BY DEF Weights, Counts
<1> QED BY <1>1, <1>2 DEF Totals

(* What the decision below a finished one is told.                         *)
Told(val) ==
    LET prev == decisions[Len(decisions) - 1]
    IN  IF val = "none" THEN MarkBranchUnsat(prev) ELSE IncreaseModels(prev, val)

LEMMA ToldIs ==
  ASSUME NEW val \in Counts, decisions[Len(decisions) - 1] \in Decisions
  PROVE  LET prev == decisions[Len(decisions) - 1]
         IN  /\ Told(val) \in Decisions /\ Told(val).base = prev.base /\ Told(val).top = prev.top
             /\ Told(val).second = prev.second /\ Told(val).split = prev.split
<1> DEFINE prev == decisions[Len(decisions) - 1]
<1>1. Told(val) = IF val = "none" THEN MarkBranchUnsat(prev) ELSE IncreaseModels(prev, val)
  BY DEF Told
<1>2. val # "none" => val \in {"zero", "some"}
  BY DEF Counts
<1>3. CASE val = "none"
  <2>1. /\ MarkBranchUnsat(prev) \in Decisions /\ MarkBranchUnsat(prev).base = prev.base
        /\ MarkBranchUnsat(prev).top = prev.top /\ MarkBranchUnsat(prev).second = prev.second
        /\ MarkBranchUnsat(prev).split = prev.split
    BY DecisionOps
  <2> QED BY <1>1, <1>3, <2>1
<1>4. CASE val # "none"
  <2>1. /\ IncreaseModels(prev, val) \in Decisions /\ IncreaseModels(prev, val).base = prev.base
        /\ IncreaseModels(prev, val).top = prev.top /\ IncreaseModels(prev, val).second = prev.second
        /\ IncreaseModels(prev, val).split = prev.split
    BY <1>2, <1>4, IncreaseType, IncreaseKeeps, Zenon
  <2> QED BY <1>1, <1>4, <2>1
<1> QED BY <1>3, <1>4

(* What FinishLevel does.                                                  *)
Finished(val) ==
    LET id == Last(comps).id
        below == NextComp(Told(val))
        toEntry == InExists /\ Len(decisions) - 2 = preLevel
    IN  /\ \E stored \in {Store(cache, id), StoreZero(cache, id), cache} :
              InBounds(stored) /\ cache' = PopComponent(stored)
        /\ decisions' = Append(SubSeq(decisions, 1, Len(decisions) - 2), below)
        /\ toEntry => pc' \in {"found", "refuted"} /\ preLevel' = -1
        /\ ~ toEntry => /\ preLevel' = preLevel
                        /\ \/ pc' = "clean" /\ IsUnsat(below)
                           \/ pc' = "decide" /\ HasUnprocessedComp(below)
                           \/ pc' = "backtrack" /\ ~ HasUnprocessedComp(below)
        /\ comps' = Front(comps)
        /\ UNCHANGED <<input, fixed, stop>>

LEMMA FinishIs ==
  ASSUME Control, FinishLevel
  PROVE  Backtracking /\ ~ ToFlip /\ \E val \in Counts : Finished(val)
<1>1. PICK weight \in BranchWeights : \E v \in Totals(Weigh(TopDecision, weight).models) :
         LET id == Last(comps).id
             prev == decisions[Len(decisions) - 1]
             told == IF v = "none" THEN MarkBranchUnsat(prev) ELSE IncreaseModels(prev, v)
             below == NextComp(told)
             stored == CASE v = "some" -> Store(cache, id)
                         [] v # "some" /\ CacheUnsat -> StoreZero(cache, id)
                         [] OTHER -> cache
             toEntry == InExists /\ Len(decisions) - 2 = preLevel
         IN  /\ InBounds(stored)
             /\ cache' = PopComponent(stored)
             /\ decisions' = Append(SubSeq(decisions, 1, Len(decisions) - 2), below)
             /\ pc' = CASE toEntry -> IF v = "some" THEN "found" ELSE "refuted"
                        [] ~ toEntry /\ IsUnsat(below) -> "clean"
                        [] ~ toEntry /\ ~ IsUnsat(below) /\ HasUnprocessedComp(below) -> "decide"
                        [] OTHER -> "backtrack"
             /\ preLevel' = IF toEntry THEN -1 ELSE preLevel
  BY DEF FinishLevel
<1>2. PICK val \in Totals(Weigh(TopDecision, weight).models) :
         LET id == Last(comps).id
             below == NextComp(Told(val))
             stored == CASE val = "some" -> Store(cache, id)
                         [] val # "some" /\ CacheUnsat -> StoreZero(cache, id)
                         [] OTHER -> cache
             toEntry == InExists /\ Len(decisions) - 2 = preLevel
         IN  /\ InBounds(stored)
             /\ cache' = PopComponent(stored)
             /\ decisions' = Append(SubSeq(decisions, 1, Len(decisions) - 2), below)
             /\ pc' = CASE toEntry -> IF val = "some" THEN "found" ELSE "refuted"
                        [] ~ toEntry /\ IsUnsat(below) -> "clean"
                        [] ~ toEntry /\ ~ IsUnsat(below) /\ HasUnprocessedComp(below) -> "decide"
                        [] OTHER -> "backtrack"
             /\ preLevel' = IF toEntry THEN -1 ELSE preLevel
  BY <1>1, Zenon DEF Told
<1>3. val \in Counts
  <2>1. TopDecision \in Decisions
    BY TypedFacts DEF Control
  <2>2. Weigh(TopDecision, weight) \in Decisions
    BY <2>1, WeighIs, Zenon
  <2> QED BY <2>2, TotalsIn
<1> DEFINE id == Last(comps).id
           below == NextComp(Told(val))
           stored == CASE val = "some" -> Store(cache, id)
                       [] val # "some" /\ CacheUnsat -> StoreZero(cache, id)
                       [] OTHER -> cache
           toEntry == InExists /\ Len(decisions) - 2 = preLevel
<1>4. stored \in {Store(cache, id), StoreZero(cache, id), cache}
  BY Zenon
<1>5. cache' = PopComponent(stored) /\ InBounds(stored)
  BY <1>2
<1> HIDE DEF below, toEntry, stored
<1>6. pc' = CASE toEntry -> IF val = "some" THEN "found" ELSE "refuted"
              [] ~ toEntry /\ IsUnsat(below) -> "clean"
              [] ~ toEntry /\ ~ IsUnsat(below) /\ HasUnprocessedComp(below) -> "decide"
              [] OTHER -> "backtrack"
  BY <1>2, Zenon DEF below, toEntry
<1>7. toEntry => pc' \in {"found", "refuted"}
  BY <1>6, Zenon
<1>8. ~ toEntry => \/ pc' = "clean" /\ IsUnsat(below)
                   \/ pc' = "decide" /\ HasUnprocessedComp(below)
                   \/ pc' = "backtrack" /\ ~ HasUnprocessedComp(below)
  BY <1>6, Zenon
<1>9. preLevel' = IF toEntry THEN -1 ELSE preLevel
  BY <1>2 DEF toEntry
<1>10. decisions' = Append(SubSeq(decisions, 1, Len(decisions) - 2), below)
  BY <1>2 DEF below
<1>11. Backtracking /\ ~ ToFlip /\ comps' = Front(comps) /\ UNCHANGED <<input, fixed, stop>>
  BY DEF FinishLevel
<1>12. (toEntry => preLevel' = -1) /\ (~ toEntry => preLevel' = preLevel)
  BY <1>9
<1>13. \E t \in {Store(cache, id), StoreZero(cache, id), cache} : InBounds(t) /\ cache' = PopComponent(t)
  BY <1>4, <1>5, Zenon
<1> QED BY <1>3, <1>7, <1>8, <1>10, <1>11, <1>12, <1>13 DEF Finished, below, toEntry

LEMMA FinishKeeps ==
  ASSUME Control, FinishLevel
  PROVE  Control'
<1> DEFINE N == Len(decisions)
           C == Len(comps)
           L == Len(cache.entry)
           S == [id : 1 .. L, comp : CompsOf(input)]
           d == decisions[N - 1]
<1>1. /\ N \in Nat /\ N >= 1 /\ preLevel \in -1 .. N - 1 /\ stop \in BOOLEAN /\ fixed \in Nat
      /\ decisions \in Seq(Decisions) /\ TopDecision = decisions[N] /\ C \in Nat
      /\ L \in Nat /\ cache \in Caches(KeysOf(input), L) /\ comps \in Seq(S)
      /\ TopDecision.base <= C /\ TopDecision.top = C /\ input \in DOMAIN Inputs
      /\ Last(comps).id \in 1 .. L
      /\ \A k \in 1 .. N : decisions[k] \in Decisions
  BY TypedFacts DEF Control, Typed
<1>2. PICK val \in Counts : Finished(val)
  BY FinishIs
<1>3. pc = "backtrack" /\ N > 1 /\ ~ AtEntry
  BY FinishIs DEF Backtracking
<1>4. /\ ~ HasUnprocessedComp(TopDecision) /\ (InExists => fixed <= preLevel)
      /\ Owned(decisions, comps) /\ FixedBelow(decisions, fixed) /\ AllSVars(input, decisions, comps, Counted)
  BY <1>3 DEF Control, Stretches, FixedLevels, SVarsFirst
<1>5. N - 1 \in 1 .. N /\ N \in 1 .. N /\ N - 1 \in 1 .. N - 1 /\ d \in Decisions
  BY <1>1, <1>3
<1>6. d.base \in Nat /\ d.top \in Nat /\ TopDecision.base \in Nat /\ d.base < d.top /\ d.top = C
  <2>1. d.base \in Nat /\ d.top \in Nat /\ TopDecision.base \in Nat
    BY <1>1, <1>5, DecisionOps
  <2>2. TopDecision.base = C
    BY <1>1, <1>4, <2>1 DEF HasUnprocessedComp
  <2>3. d.base < d.top /\ decisions[(N - 1) + 1].base = d.top
    BY <1>4, <1>5, Zenon DEF Owned
  <2>4. (N - 1) + 1 = N
    BY <1>1
  <2> QED BY <1>1, <2>1, <2>2, <2>3, <2>4
<1> DEFINE t == Told(val)
           e == NextComp(t)
           toEntry == InExists /\ N - 2 = preLevel
<1>7. t \in Decisions /\ t.base = d.base /\ t.top = d.top /\ t.second = d.second
  BY <1>5, ToldIs
<1> HIDE DEF t, d
<1>7a. d = decisions[N - 1]
  BY DEF d
<1>8. e \in Decisions /\ e.base = d.base /\ e.top = d.top - 1 /\ e.second = d.second
  <2>1. t.top # 0
    BY <1>6, <1>7
  <2> QED BY <1>7, <2>1, NextCompType
<1> HIDE DEF e, S, L
<1>9. /\ decisions' = Append(SubSeq(decisions, 1, N - 2), e) /\ comps' = Front(comps)
      /\ UNCHANGED <<input, fixed, stop>>
      /\ toEntry => pc' \in {"found", "refuted"} /\ preLevel' = -1
      /\ ~ toEntry => /\ preLevel' = preLevel
                      /\ \/ pc' = "clean"
                         \/ pc' = "decide" /\ HasUnprocessedComp(e)
                         \/ pc' = "backtrack" /\ ~ HasUnprocessedComp(e)
  BY <1>2, Zenon DEF Finished, e, t, toEntry
<1>10. cache' \in Caches(KeysOf(input), L)
  <2>1. Hashed(KeysOf(input))
    BY <1>1, InputFacts
  <2>2. PICK stored \in {Store(cache, Last(comps).id), StoreZero(cache, Last(comps).id), cache} :
          cache' = PopComponent(stored)
    BY <1>2 DEF Finished
  <2>3. stored \in Caches(KeysOf(input), L) /\ TRUE \in BOOLEAN
    BY <1>1, <2>1, <2>2, StoreType, Zenon
  <2> QED BY <1>1, <2>2, <2>3, SetDeleteType, Zenon DEF PopComponent
<1>11. /\ comps' \in Seq(S) /\ Len(comps') = C - 1 /\ \A i \in 1 .. C - 1 : comps'[i] = comps[i]
  <2>1. comps # <<>>
    BY <1>1, <1>6
  <2> QED BY <1>1, <1>9, <2>1, FrontIs, Zenon
<1>12. /\ decisions' \in Seq(Decisions) /\ Len(decisions') = N - 1 /\ decisions'[N - 1] = e
       /\ \A k \in 1 .. N - 2 : decisions'[k] = decisions[k]
  <2> DEFINE p == SubSeq(decisions, 1, N - 2)
  <2>1. N - 2 \in 0 .. N
    BY <1>1, <1>3
  <2>2. p \in Seq(Decisions) /\ Len(p) = N - 2 /\ \A k \in 1 .. N - 2 : p[k] = decisions[k]
    BY <1>1, <2>1, PrefixIs, Zenon
  <2> HIDE DEF p
  <2>3. /\ Append(p, e) \in Seq(Decisions) /\ Len(Append(p, e)) = (N - 2) + 1
        /\ Append(p, e)[(N - 2) + 1] = e /\ \A k \in 1 .. N - 2 : Append(p, e)[k] = p[k]
    BY <1>8, <2>2, AppendIs
  <2>4. (N - 2) + 1 = N - 1
    BY <1>1
  <2>5. decisions' = Append(p, e)
    BY <1>9 DEF p
  <2> QED BY <2>2, <2>3, <2>4, <2>5
<1>13. (N - 1) - 1 = N - 2 /\ (\A k \in 1 .. N - 1 : k = N - 1 \/ k \in 1 .. N - 2)
       /\ (\A k \in 1 .. N - 2 : k \in 1 .. N - 1)
  BY <1>1, <1>3
<1>14. CutsStacks
  <2>1. Cut(decisions, comps, decisions', comps')
    <3>1. 1 <= N - 1 /\ N - 1 <= N /\ d.base <= C - 1 /\ C - 1 <= C /\ e.top = C - 1
      BY <1>1, <1>3, <1>6, <1>8
    <3>2. \A k \in 1 .. N - 2 : decisions'[k].base = decisions[k].base /\ decisions'[k].top = decisions[k].top
      BY <1>12, Zenon
    <3>3. decisions'[N - 1].base = d.base /\ decisions'[N - 1].top = C - 1
      BY <1>8, <1>12, <3>1, Zenon
    <3>4. decisions'[N - 1].top <= d.top /\ d.base <= decisions'[N - 1].top
      BY <1>6, <3>1, <3>3, Zenon
    <3> QED BY <1>7a, <1>11, <1>12, <1>13, <3>1, <3>2, <3>3, <3>4, Zenon DEF Cut
  <2>2. \A k \in 1 .. N - 1 : decisions'[k].second = decisions[k].second
    BY <1>7a, <1>8, <1>12, <1>13, Zenon
  <2>3. input' = input /\ fixed' = fixed /\ stop' \in BOOLEAN
    BY <1>1, <1>9
  <2> QED BY <1>10, <1>11, <1>12, <2>1, <2>2, <2>3, Zenon DEF CutsStacks, S, L
<1>15. C # 1 => Super' = comps[C - 1].comp
  <2>1. Super' = comps'[Len(comps')].comp
    BY DEF Super, Last
  <2>2. C # 1 => C - 1 \in 1 .. C - 1
    <3>1. ASSUME NEW b \in Nat, NEW c \in Nat, b < c, c # 1 PROVE c - 1 \in 1 .. c - 1
      BY ONLY <3>1
    <3>2. d.base < C
      BY <1>6, Zenon
    <3> QED BY <1>1, <1>6, <3>1, <3>2, Zenon
  <2> QED BY <1>11, <2>1, <2>2, Zenon
<1>15a. TopDecision' = e
  BY <1>12 DEF TopDecision, Last
<1>16. pc' \in PCs /\ pc' # "main"
  BY <1>9 DEF PCs
<1>17. InExists' => ~ toEntry /\ preLevel' = preLevel /\ preLevel <= N - 3 /\ InExists
  <2>1. toEntry => ~ InExists'
    BY <1>9 DEF InExists
  <2>2. ~ toEntry => preLevel' = preLevel
    BY <1>9
  <2>3. InExists /\ ~ toEntry => preLevel <= N - 3
    BY <1>1, <1>3 DEF AtEntry
  <2> QED BY <2>1, <2>2, <2>3 DEF InExists
<1>18. preLevel' \in -1 .. Len(decisions') - 1 /\ Counted' \in 0 .. Counted
  <2>1. CASE toEntry
    <3>1. Counted = N - 2 /\ Counted' = N - 2 /\ preLevel' = -1
      BY <1>1, <1>9, <1>12, <2>1 DEF Counted, InExists
    <3> QED BY <1>1, <1>3, <1>12, <3>1
  <2>2. CASE ~ toEntry /\ InExists
    <3>1. preLevel' = preLevel /\ preLevel <= N - 3 /\ preLevel >= 0
      BY <1>1, <1>3, <1>9, <2>2 DEF AtEntry, InExists
    <3>2. Counted = preLevel /\ Counted' = preLevel
      BY <2>2, <3>1 DEF Counted, InExists
    <3> QED BY <1>1, <1>12, <3>1, <3>2
  <2>3. CASE ~ toEntry /\ ~ InExists
    <3>1. preLevel' = preLevel /\ preLevel = -1
      BY <1>1, <1>9, <2>3 DEF InExists
    <3>2. Counted = N - 1 /\ Counted' = N - 2
      BY <1>1, <1>12, <3>1 DEF Counted, InExists
    <3> QED BY <1>1, <1>3, <1>12, <3>1, <3>2
  <2> QED BY <2>1, <2>2, <2>3
<1>19. pc' = "decide" => HasUnprocessedComp(TopDecision')
  BY <1>9, <1>15a
<1>20. pc' = "backtrack" => ~ HasUnprocessedComp(TopDecision')
  BY <1>9, <1>15a
<1>21. pc' \in {"exists", "found", "refuted"} => ~ InExists'
  BY <1>9, <1>17
<1>22. InExists' => fixed <= preLevel'
  BY <1>4, <1>17
<1>23. Len(decisions') <= fixed => pc' \in {"clean", "backtrack", "exit"}
  <2> SUFFICES ASSUME Len(decisions') <= fixed PROVE pc' \in {"clean", "backtrack", "exit"}
    OBVIOUS
  <2>1. N - 1 <= fixed
    BY <1>12
  <2>2. ~ toEntry
    BY <1>1, <1>4, <2>1
  <2>3. d.top <= d.base + 1
    BY <1>4, <1>5, <1>7a, <2>1, Zenon DEF FixedBelow
  <2>4. ~ HasUnprocessedComp(e)
    BY <1>6, <1>8, <2>3 DEF HasUnprocessedComp
  <2> QED BY <1>9, <2>2, <2>4
<1>24. pc' = "decide" /\ ~ InExists' => SVarIn(input, Super')
  <2> SUFFICES ASSUME pc' = "decide", ~ InExists' PROVE SVarIn(input, Super')
    OBVIOUS
  <2>1. pc' = "decide" /\ ~ InExists'
    OBVIOUS
  <2>2. ~ toEntry /\ HasUnprocessedComp(e)
    BY <1>9, <2>1
  <2>3. ~ InExists
    BY <1>9, <2>1, <2>2 DEF InExists
  <2>4. Counted = N - 1
    BY <2>3 DEF Counted
  <2>5. d.base < C - 1
    BY <1>6, <1>8, <2>2 DEF HasUnprocessedComp
  <2>6. C - 1 \in Stretch(d) /\ C # 1
    <3>1. ASSUME NEW b \in Nat, NEW c \in Nat, b < c - 1 PROVE c - 1 \in b + 1 .. c /\ c # 1
      BY ONLY <3>1
    <3>2. C - 1 \in d.base + 1 .. C /\ C # 1
      BY <1>1, <1>6, <2>5, <3>1, Zenon
    <3> QED BY <1>6, <3>2, Zenon DEF Stretch
  <2>7. SVarIn(input, comps[C - 1].comp)
    BY <1>4, <1>5, <1>7a, <2>4, <2>6, Zenon DEF AllSVars
  <2> QED BY <1>15, <2>6, <2>7
<1> QED BY <1>14, <1>16, <1>18, <1>19, <1>20, <1>21, <1>22, <1>23, <1>24, CutStep, Zenon

(* Where a component has no projection variable, none that comes later has. *)
LEMMA PrecedesSVars ==
  ASSUME NEW in \in DOMAIN Inputs, Inputs[in].nsvars \in Nat, NEW a, NEW b,
         a.vars \subseteq Nat, b.vars \subseteq Nat, a.vars # {}, b.vars # {}, Precedes(a, b), SVarIn(in, b)
  PROVE  SVarIn(in, a)
<1>1. PICK v \in b.vars : v < Inputs[in].nsvars
  BY DEF SVarIn
<1>2. Min(a.vars) \in a.vars
  BY MinIs
<1>3. Min(b.vars) \in b.vars /\ Min(b.vars) <= v
  BY MinIs
<1>4. Min(a.vars) < Min(b.vars)
  BY DEF Precedes
<1> DEFINE x == Min(a.vars)
           y == Min(b.vars)
<1>5. x \in Nat /\ y \in Nat /\ v \in Nat
  BY <1>1, <1>2, <1>3
<1> HIDE DEF x, y
<1>6. x < Inputs[in].nsvars
  BY <1>1, <1>3, <1>4, <1>5 DEF x, y
<1> QED BY <1>2, <1>6 DEF SVarIn, x

LEMMA SplitKeeps ==
  ASSUME Control, Split
  PROVE  Control'
<1> DEFINE N == Len(decisions)
           C == Len(comps)
           d == TopDecision
<1>1. /\ N \in Nat /\ N >= 1 /\ preLevel \in -1 .. N - 1 /\ stop \in BOOLEAN /\ fixed \in Nat
      /\ decisions \in Seq(Decisions) /\ d = decisions[N] /\ d \in Decisions /\ C \in Nat /\ C >= 1
      /\ comps \in Seq([id : 1 .. Len(cache.entry), comp : CompsOf(input)])
      /\ d.base <= C /\ d.top = C /\ input \in DOMAIN Inputs
      /\ Super = comps[C].comp /\ Super \in CompsOf(input)
  BY TypedFacts DEF Control, Typed
<1>2. Typed /\ Stretches /\ pc = "main" /\ ~ stop
  BY DEF Control, Split
<1>3. PICK found \in Left, free \in FreeFactors, polls \in Polls :
       \E order \in Ascending(found) : \E s \in {SplitComponent(order, free, polls)} :
             /\ cache' = s.cache
             /\ comps' = s.comps
             /\ decisions' = SetTop(s.decision)
             /\ pc' = CASE s.dead -> "clean"
                        [] Len(s.comps) = C -> "backtrack"
                        [] OTHER -> IF Projected /\ ~ InExists THEN "exists" ELSE "decide"
             /\ stop' = (s.polls = 0)
  BY DEF Split
<1>4. PICK order \in Ascending(found) : \E s \in {SplitComponent(order, free, polls)} :
             /\ cache' = s.cache
             /\ comps' = s.comps
             /\ decisions' = SetTop(s.decision)
             /\ pc' = CASE s.dead -> "clean"
                        [] Len(s.comps) = C -> "backtrack"
                        [] OTHER -> IF Projected /\ ~ InExists THEN "exists" ELSE "decide"
             /\ stop' = (s.polls = 0)
  BY <1>3
<1> DEFINE s == SplitComponent(order, free, polls)
<1>5. SplitDone(s, found)
  BY <1>2, SplitIs, Zenon
<1> HIDE DEF s
<1>6. /\ cache' = s.cache /\ comps' = s.comps /\ decisions' = SetTop(s.decision) /\ stop' = (s.polls = 0)
      /\ pc' = CASE s.dead -> "clean"
                 [] Len(s.comps) = C -> "backtrack"
                 [] OTHER -> IF Projected /\ ~ InExists THEN "exists" ELSE "decide"
  BY <1>4, Zenon DEF s
<1>7. UNCHANGED <<input, fixed, preLevel>>
  BY DEF Split
<1> DEFINE e == s.decision
           ts == comps'
           es == decisions'
           T == Len(comps')
<1>8. PICK L \in Nat : cache' \in Caches(KeysOf(input), L) /\ ts \in Seq([id : 1 .. L, comp : CompsOf(input)])
  BY <1>5, <1>6 DEF SplitDone
<1>9. /\ e \in Decisions /\ e.base = d.base /\ e.second = d.second /\ e.top = T
      /\ C <= T /\ \A i \in 1 .. C : ts[i] = comps[i]
      /\ \A i \in C + 1 .. T : ts[i].comp \in found
      /\ \A i, j \in C + 1 .. T : i < j => Precedes(ts[i].comp, ts[j].comp)
  BY <1>5, <1>6, Zenon DEF SplitDone
<1>10. \/ pc' = "clean"
       \/ pc' = "backtrack" /\ T = C
       \/ pc' = "exists" /\ ~ InExists
       \/ pc' = "decide" /\ T # C /\ (~ InExists => ~ Projected)
  <2>1. T = Len(s.comps)
    BY <1>6
  <2> HIDE DEF T
  <2>2. pc' = CASE s.dead -> "clean"
                 [] T = C -> "backtrack"
                 [] OTHER -> IF Projected /\ ~ InExists THEN "exists" ELSE "decide"
    BY <1>6, <2>1, Zenon
  <2>3. CASE s.dead
    BY <2>2, <2>3
  <2>4. CASE ~ s.dead /\ T = C
    BY <2>2, <2>4, Zenon
  <2>5. CASE ~ s.dead /\ T # C
    <3>1. pc' = IF Projected /\ ~ InExists THEN "exists" ELSE "decide"
      BY <2>2, <2>5, Zenon
    <3> QED BY <2>5, <3>1, Zenon
  <2> QED BY <2>3, <2>4, <2>5, Zenon
<1> HIDE DEF e
<1>11. /\ es \in Seq(Decisions) /\ Len(es) = N /\ es[N] = e
       /\ \A k \in 1 .. N - 1 : es[k] = decisions[k]
  BY <1>1, <1>6, <1>9, ReplacedTop DEF e
<1>12. /\ Owned(decisions, comps) /\ SVarsLead(input, decisions, comps)
       /\ AllSVars(input, decisions, comps, Counted) /\ FixedBelow(decisions, fixed)
       /\ (AtEntry <=> HasUnprocessedComp(d)) /\ ~ (N <= fixed) /\ (InExists => fixed <= preLevel)
       /\ (AtEntry => ~ SVarIn(input, Super))
  BY <1>2 DEF Control, Stretches, FixedLevels, SVarsFirst
<1>13. d.base \in Nat /\ d.top \in Nat /\ T \in Nat
  BY <1>1, <1>8, DecisionOps
<1> HIDE DEF T
<1>14. Inputs[input].nsvars \in Nat /\ Super.vars \subseteq Nat /\ (~ Projected => \A v \in Super.vars : v < Inputs[input].nsvars)
  BY <1>1, InputFacts, Zenon DEF NSVars
<1>15. ASSUME ~ AtEntry, NEW a \in found
       PROVE  a.vars # {} /\ a.vars \subseteq Super.vars
  <2>1. found \in Residuals[Super]
    BY <1>15 DEF Left
  <2> QED BY <1>1, <1>15, <2>1, InputFacts, Zenon
<1>16. AtEntry => \A a \in found : a.vars \subseteq Super.vars
  <2>1. CASE found \in Residuals[Super]
    BY <1>1, <2>1, InputFacts, Zenon
  <2>2. CASE found = {Super}
    BY <2>2
  <2> QED BY <2>1, <2>2 DEF Left
<1>17. AtEntry => \A a \in found : ~ SVarIn(input, a)
  BY <1>12, <1>16 DEF SVarIn
<1>18. Extended(input, decisions, comps, es, ts)
  <2>1. ASSUME NEW i \in C + 1 .. T, NEW j \in C + 1 .. T, i < j, ~ SVarIn(input, ts[i].comp)
        PROVE  ~ SVarIn(input, ts[j].comp)
    <3>1. CASE AtEntry
      BY <1>9, <1>17, <3>1, Zenon
    <3>2. CASE ~ AtEntry
      <4> DEFINE a == ts[i].comp
                 b == ts[j].comp
      <4>1. a \in found /\ b \in found /\ Precedes(a, b) /\ ~ SVarIn(input, a)
        BY <1>9, <2>1, Zenon
      <4> HIDE DEF a, b
      <4>2. a.vars # {} /\ b.vars # {} /\ a.vars \subseteq Nat /\ b.vars \subseteq Nat
        BY <1>14, <1>15, <3>2, <4>1
      <4>3. ~ SVarIn(input, b)
        BY <1>1, <1>14, <4>1, <4>2, PrecedesSVars, Zenon
      <4> QED BY <4>3 DEF b
    <3> QED BY <3>1, <3>2
  <2>2. ASSUME NEW j \in C + 1 .. T, SVarIn(input, ts[j].comp) PROVE d.base = d.top
    <3>1. ~ AtEntry
      BY <1>9, <1>17, <2>2, Zenon
    <3> QED BY <1>1, <1>12, <1>13, <3>1 DEF HasUnprocessedComp
  <2>3. es[N].base = d.base /\ es[N].top = T
    BY <1>9, <1>11, Zenon
  <2> QED BY <1>1, <1>9, <1>11, <2>1, <2>2, <2>3, Zenon DEF Extended, T
<1>19. /\ Owned(es, ts) /\ SVarsLead(input, es, ts)
       /\ \A m \in 0 .. N - 1 : AllSVars(input, decisions, comps, m) => AllSVars(input, es, ts, m)
  <2> HIDE DEF es, ts, N
  <2> DEFINE S == [id : 1 .. Len(cache.entry), comp : CompsOf(input)]
             R == [id : 1 .. L, comp : CompsOf(input)]
  <2>0. /\ decisions \in Seq(Decisions) /\ es \in Seq(Decisions) /\ comps \in Seq(S) /\ ts \in Seq(R)
        /\ Owned(decisions, comps) /\ SVarsLead(input, decisions, comps)
    BY <1>1, <1>8, <1>11, <1>12, Zenon
  <2> HIDE DEF S, R
  <2>1. /\ Owned(es, ts) /\ SVarsLead(input, es, ts)
        /\ \A m \in 0 .. Len(decisions) - 1 : AllSVars(input, decisions, comps, m) => AllSVars(input, es, ts, m)
    BY <1>18, <2>0, GrowStacks, Zenon
  <2> QED BY <2>1, Zenon DEF N
<1>20. Typed'
  <2>1. input' = input /\ fixed' \in Nat /\ pc' \in PCs /\ preLevel' \in -1 .. Len(decisions') - 1
    BY <1>1, <1>7, <1>10, <1>11 DEF PCs
  <2>2. stop' \in BOOLEAN
    BY <1>6
  <2> QED BY <1>2, <1>8, <1>11, <2>1, <2>2, TypedStep, Zenon
<1>21. (InExists' <=> InExists) /\ (AtEntry' <=> AtEntry) /\ Counted' = Counted /\ Counted \in 0 .. N - 1
  BY <1>1, <1>7, <1>11 DEF InExists, AtEntry, Counted
<1>22. TopDecision' = e
  BY <1>11 DEF TopDecision, Last
<1>23. pc' = "decide" => HasUnprocessedComp(e)
  <2> SUFFICES ASSUME pc' = "decide" PROVE HasUnprocessedComp(e)
    OBVIOUS
  <2>1. T # C
    BY <1>10
  <2>2. ASSUME NEW b \in Nat, NEW c \in Nat, NEW t \in Nat, b <= c, c <= t, t # c PROVE b < t
    BY ONLY <2>2
  <2>3. d.base < T
    BY <1>1, <1>9, <1>13, <2>1, <2>2, Zenon
  <2> QED BY <1>9, <2>3, Zenon DEF HasUnprocessedComp
<1>24. pc' = "backtrack" => AtEntry \/ ~ HasUnprocessedComp(e)
  <2> SUFFICES ASSUME pc' = "backtrack", ~ AtEntry PROVE ~ HasUnprocessedComp(e)
    OBVIOUS
  <2>1. T = C /\ ~ HasUnprocessedComp(d)
    BY <1>10, <1>12
  <2> QED BY <1>1, <1>9, <2>1, Zenon DEF HasUnprocessedComp
<1>25. pc' = "decide" /\ ~ InExists => SVarIn(input, Super')
  <2> SUFFICES ASSUME pc' = "decide", ~ InExists PROVE SVarIn(input, Super')
    OBVIOUS
  <2>1. T # C /\ ~ Projected /\ ~ AtEntry
    BY <1>10 DEF AtEntry
  <2>2. T \in C + 1 .. T
    BY <1>1, <1>9, <1>13, <2>1
  <2> DEFINE a == ts[T].comp
  <2>3. a \in found
    BY <1>9, <2>2, Zenon
  <2>4. Super' = a
    BY DEF Super, Last, T
  <2> HIDE DEF a
  <2>5. a.vars # {} /\ a.vars \subseteq Super.vars
    BY <1>15, <2>1, <2>3
  <2>6. SVarIn(input, a)
    BY <1>14, <2>1, <2>5 DEF SVarIn
  <2> QED BY <2>4, <2>6
<1>26. Stretches'
  <2>1. pc' # "main"
    BY <1>10
  <2>2. pc' \in {"exists", "found", "refuted"} => ~ InExists
    BY <1>10
  <2> QED BY <1>19, <1>21, <1>22, <1>23, <1>24, <2>1, <2>2, Zenon DEF Stretches
<1>27. FixedLevels'
  <2>1. \A k \in 1 .. N : k <= fixed => k \in 1 .. N - 1
    BY <1>1, <1>12
  <2>2. FixedBelow(es, fixed')
    BY <1>7, <1>11, <1>12, <2>1, Zenon DEF FixedBelow
  <2> QED BY <1>7, <1>11, <1>12, <1>21, <2>2, Zenon DEF FixedLevels
<1>28. SVarsFirst'
  <2>1. input' = input /\ pc' # "main"
    BY <1>7, <1>10
  <2> QED BY <1>12, <1>19, <1>21, <1>25, <2>1, Zenon DEF SVarsFirst
<1> QED BY <1>20, <1>26, <1>27, <1>28 DEF Control

LEMMA NextKeeps ==
  ASSUME Control, [Next]_vars
  PROVE  Control'
<1>1. CASE UNCHANGED vars
  <2>1. UNCHANGED <<input, cache, comps, decisions, fixed, preLevel, pc, stop>>
    BY <1>1 DEF vars
  <2> QED BY <2>1, Zenon DEF Control, Typed, Stretches, FixedLevels, SVarsFirst, AtEntry, InExists,
                             TopDecision, Super, Counted
<1>2. CASE Split
  BY <1>2, SplitKeeps
<1>3. CASE Conflict \/ ExistsFalse \/ FlipBranch
  BY <1>3, TopActions
<1>4. CASE ConflictAtEntry \/ StartExists \/ ExistsDone \/ BacktrackRoot \/ BacktrackEntry
           \/ Signal \/ Interrupt \/ Done
  BY <1>4, QuietActions
<1>5. CASE ExistsTrue
  BY <1>5, ExistsTrueKeeps
<1>6. CASE Clean
  BY <1>6, CleanKeeps
<1>7. CASE FinishLevel
  BY <1>7, FinishKeeps
<1>8. CASE Decide
  BY <1>8, DecideKeeps
<1>9. CASE SimplifyFails
  BY <1>9, SimplifyFailsKeeps
<1> QED BY <1>1, <1>2, <1>3, <1>4, <1>5, <1>6, <1>7, <1>8, <1>9, Zenon DEF Next, Search

(***************************************************************************)
(* The invariant, for every input there may be, with no bound on the       *)
(* number of entries, levels or components: types, the stretches of the    *)
(* component stack that the decisions own (base_ and top_ of Decision),    *)
(* the fixed levels of checkfixedDL(), and which components have           *)
(* projection variables.                                                   *)
(***************************************************************************)
THEOREM Invariant == Spec => []Control
<1>1. Init => Control
  BY InitControl
<1>2. Control /\ [Next]_vars => Control'
  BY NextKeeps
<1> QED BY <1>1, <1>2, PTL DEF Spec

(* The stacks hold decisions and components of the input, every component  *)
(* with an entry that the cache has, after any sequence of insertions,     *)
(* evictions and cleanings.                                                *)
THEOREM TypeCorrect == Spec => []TypeOK
<1>1. Control => TypeOK
  <2> SUFFICES ASSUME Control PROVE TypeOK
    OBVIOUS
  <2>1. Typed /\ input \in DOMAIN Inputs
    BY DEF Control, Typed
  <2>2. CompsOf(input) = DOMAIN Residuals
    BY <2>1, InputFacts
  <2> QED BY <2>1, <2>2, Zenon DEF Typed, TypeOK, Decisions, PCs
<1> QED BY <1>1, Invariant, PTL

(* The component that count_main() takes a decision on has a projection    *)
(* variable: the assertion that selectBranchVar() returns one.             *)
THEOREM DecisionHasVariable == Spec => []DecideHasSVar
<1>1. Control => DecideHasSVar
  BY Zenon DEF Control, Stretches, SVarsFirst, DecideHasSVar, SVarIn, HasSVar, NSVars
<1> QED BY <1>1, Invariant, PTL

(* The search never goes on at a level that checkfixedDL() has fixed, below *)
(* which simplify() has removed the satisfied clauses for good.            *)
THEOREM FixedLevelsAreFinal == Spec => []FixedIsFinal
<1>1. Control => FixedIsFinal
  <2> SUFFICES ASSUME Control, pc \in {"main", "exists", "decide"} PROVE Len(decisions) > fixed
    BY DEF FixedIsFinal
  <2>1. Len(decisions) \in Nat /\ fixed \in Nat
    BY TypedFacts DEF Control, Typed
  <2>2. ~ (Len(decisions) <= fixed)
    BY Zenon DEF Control, FixedLevels
  <2> QED BY <2>1, <2>2
<1> QED BY <1>1, Invariant, PTL
=============================================================================
