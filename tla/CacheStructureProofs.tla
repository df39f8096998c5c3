------------------------ MODULE CacheStructureProofs ------------------------
(***************************************************************************)
(* Proofs about the cache and the component stack together: from the tree  *)
(* with the stack and the branches that split it (Shape) and the cleaning  *)
(* of a branch to the invariant of the component manager (Structure).      *)
(* Then what the components that have ended leave behind (NothingIsLeft),  *)
(* why no component has two entries (Singular), and that all of it         *)
(* implements DescendantTree (TreeImplemented).                            *)
(***************************************************************************)
EXTENDS ComponentManagerProofs

(***************************************************************************)
(* The component stack and the tree.                                       *)
(***************************************************************************)
OnStack(cs) == {cs[i].id : i \in 1 .. Len(cs)}

(* The entries without a result that no component on the stack is for.     *)
Loose(c, cs) == Open(c) \ OnStack(cs)

Roots(cs) == {cs[1].id}

(* Components further up were entered later.                               *)
Climbs(c, cs) ==
    \A i, j \in 1 .. Len(cs) : i < j => c.entry[cs[i].id].created < c.entry[cs[j].id].created

(* A component is a part of one below it on the stack and its entry below  *)
(* the entry of that one, which is in the same stretch or the one the      *)
(* stretch was split from.                                                 *)
Below(c, cs, B) ==
    \A i \in 2 .. Len(cs) : \E j \in 1 .. i - 1 :
        /\ cs[i].comp.vars \subseteq cs[j].comp.vars
        /\ c.entry[cs[i].id].father = cs[j].id
        /\ \A b \in B : b[1] < i => b[1] <= j

(* The branch b = <<base, time>> of a decision: what has been entered for  *)
(* it is on the stack above its base and in the tree below it.             *)
Branching(c, cs, b) ==
    /\ b[1] \in 1 .. Len(cs) /\ b[2] \in Nat /\ (b[2] <= c.clock \/ b[2] = NoSplit)
    /\ BranchAt(c, Roots(cs), cs[b[1]].id, b[2])
    /\ \A i \in b[1] + 1 .. Len(cs) : c.entry[cs[i].id].created >= b[2]

Shape(c, cs, B) ==
    /\ Len(cs) >= 1
    /\ Woven(c, Roots(cs)) /\ Guarded(c, OnStack(cs)) /\ Climbs(c, cs) /\ Below(c, cs, B)
    /\ \A b \in B : Branching(c, cs, b)

(* The component stack.                                                    *)
Stack(L, R) == Seq([id : 1 .. L, comp : R])

LEMMA StackIs ==
  ASSUME NEW L \in Nat, NEW R, NEW cs \in Stack(L, R)
  PROVE  /\ Len(cs) \in Nat /\ DOMAIN cs = 1 .. Len(cs)
         /\ \A i \in 1 .. Len(cs) : cs[i].id \in 1 .. L /\ cs[i].comp \in R /\ cs[i].id \in OnStack(cs)
         /\ OnStack(cs) \subseteq 1 .. L
<1>1. Len(cs) \in Nat /\ DOMAIN cs = 1 .. Len(cs)
  BY DEF Stack
<1>2. \A i \in 1 .. Len(cs) : cs[i].id \in 1 .. L /\ cs[i].comp \in R
  BY StackElements, Zenon DEF Stack
<1> QED BY <1>1, <1>2 DEF OnStack

(* The tree stays, and so does the shape.                                  *)
LEMMA ShapeSame ==
  ASSUME NEW K, NEW L \in Nat, NEW c \in Caches(K, L), NEW d \in Caches(K, L), SameTree(c, d, 1 .. L),
         NEW R, NEW cs \in Stack(L, R), NEW B, Shape(c, cs, B),
         Account(d), Blank(d), Tabled(d), Guarded(d, OnStack(cs))
  PROVE  Shape(d, cs, B)
<1>1. /\ Len(cs) >= 1
      /\ Woven(c, Roots(cs)) /\ Guarded(c, OnStack(cs)) /\ Climbs(c, cs) /\ Below(c, cs, B)
      /\ \A b \in B : Branching(c, cs, b)
  BY Zenon DEF Shape
<1>2. Rooted(c, Roots(cs)) /\ Listed(c)
  BY <1>1 DEF Woven
<1>3. /\ \A O : Rooted(c, O) => Rooted(d, O)
      /\ Listed(c) => Listed(d)
      /\ \A O, x, t : BranchAt(c, O, x, t) => BranchAt(d, O, x, t)
  BY SameTreeKeeps, Zenon
<1>4. Woven(d, Roots(cs))
  BY <1>2, <1>3 DEF Woven
<1>5. \A i \in 1 .. Len(cs) : cs[i].id \in 1 .. L
  BY StackIs
<1>6. \A e \in 1 .. L : d.entry[e].created = c.entry[e].created /\ d.entry[e].father = c.entry[e].father
  BY DEF SameTree, SameLinks
<1>7. Climbs(d, cs)
  BY <1>1, <1>5, <1>6 DEF Climbs
<1>8. Below(d, cs, B)
  <2>1. \A i \in 2 .. Len(cs) : i \in 1 .. Len(cs)
    BY StackIs
  <2> QED BY <1>1, <1>5, <1>6, <2>1 DEF Below
<1>9. ASSUME NEW b \in B PROVE Branching(d, cs, b)
  <2>1. /\ b[1] \in 1 .. Len(cs) /\ b[2] \in Nat /\ (b[2] <= c.clock \/ b[2] = NoSplit)
        /\ BranchAt(c, Roots(cs), cs[b[1]].id, b[2])
        /\ \A i \in b[1] + 1 .. Len(cs) : c.entry[cs[i].id].created >= b[2]
    BY <1>1, Zenon DEF Branching
  <2>2. c.clock <= d.clock /\ c.clock \in Nat /\ d.clock \in Nat
    BY DEF SameTree, Caches
  <2>3. b[2] <= d.clock \/ b[2] = NoSplit
    BY <2>1, <2>2
  <2>4. \A i \in b[1] + 1 .. Len(cs) : d.entry[cs[i].id].created >= b[2]
    <3>1. \A i \in b[1] + 1 .. Len(cs) : i \in 1 .. Len(cs)
      BY <2>1
    <3> QED BY <1>5, <1>6, <2>1, <3>1
  <2>5. BranchAt(d, Roots(cs), cs[b[1]].id, b[2])
    BY <1>3, <2>1, Zenon
  <2> QED BY <2>1, <2>3, <2>4, <2>5, Zenon DEF Branching
<1> QED BY <1>1, <1>4, <1>7, <1>8, <1>9, Zenon DEF Shape

(* Lookup(c, comp) is d.                                                   *)
LEMMA LookupDoes ==
  ASSUME NEW K, Hashed(K), NEW L \in Nat, NEW c \in Caches(K, L), NEW comp \in K
  PROVE  LET d == Lookup(c, comp)
         IN  /\ SameUse(c, d, 1 .. L) /\ SameLinks(c, d, 1 .. L) /\ SameTable(c, d, 1 .. L)
             /\ d.memory = c.memory /\ d.freeSlots = c.freeSlots
             /\ c.clock <= d.clock
<1> DEFINE id == Find(c, comp)
           d == Lookup(c, comp)
<1>0. c.clock \in Nat
  BY DEF Caches
<1>1. CASE id = INVALID_ENTRY
  <2>1. d = c
    BY <1>1 DEF Lookup
  <2> HIDE DEF d
  <2>2. SameUse(c, d, 1 .. L) /\ SameLinks(c, d, 1 .. L) /\ SameTable(c, d, 1 .. L)
        /\ d.memory = c.memory /\ d.freeSlots = c.freeSlots /\ c.clock <= d.clock
    BY <1>0, <2>1 DEF SameUse, SameLinks, SameTable
  <2> QED BY <2>2 DEF d
<1>2. CASE id # INVALID_ENTRY
  <2>1. id \in 1 .. L
    BY <1>2, FindIs DEF Pointers
  <2> DEFINE e == [c.entry[id] EXCEPT !.used = c.clock]
             f == [c.entry EXCEPT ![id] = e]
             k == c.clock + 1
  <2>2. d = [c EXCEPT !.entry = f, !.clock = k]
    <3> HIDE DEF id
    <3> QED BY <1>2, <2>1 DEF Lookup, id, Caches
  <2>3. OnlyChain(c.entry[id], e) /\ e.chain = c.entry[id].chain
    <3>1. c.entry[id] \in Entries(K, L)
      BY <2>1 DEF Caches
    <3> HIDE DEF id
    <3> QED BY <3>1 DEF Entries, OnlyChain
  <2>4. \A x \in 1 .. L : f[x] = IF x = id THEN e ELSE c.entry[x]
    <3>1. c.entry \in [1 .. L -> Entries(K, L)]
      BY DEF Caches
    <3> HIDE DEF id, e
    <3> QED BY <2>1, <3>1
  <2>5. c.clock <= k
    BY <1>0
  <2> HIDE DEF e, f, d, k
  <2>6. d.entry = f /\ d.clock = k /\ d.memory = c.memory /\ d.freeSlots = c.freeSlots
        /\ d.table = c.table /\ d.confirmed = c.confirmed
    BY <2>2 DEF Caches
  <2>7. \A x \in 1 .. L : OnlyChain(c.entry[x], d.entry[x]) /\ d.entry[x].chain = c.entry[x].chain
    BY <2>3, <2>4, <2>6 DEF OnlyChain
  <2>8. SameUse(c, d, 1 .. L) /\ SameLinks(c, d, 1 .. L) /\ SameTable(c, d, 1 .. L)
    BY <2>6, <2>7 DEF SameUse, SameLinks, SameTable, OnlyChain
  <2> QED BY <2>5, <2>6, <2>8 DEF d
<1> QED BY <1>1, <1>2

(* What an entry is and its links are the same.                            *)
LEMMA ShapeUse ==
  ASSUME NEW K, NEW L \in Nat, NEW c \in Caches(K, L), NEW d \in Caches(K, L),
         SameUse(c, d, 1 .. L), SameLinks(c, d, 1 .. L), SameTable(c, d, 1 .. L),
         d.memory = c.memory, d.freeSlots = c.freeSlots, c.clock <= d.clock,
         NEW R, NEW cs \in Stack(L, R), NEW B, Shape(c, cs, B)
  PROVE  Shape(d, cs, B)
<1>1. Account(c) /\ Blank(c) /\ Guarded(c, OnStack(cs))
  BY DEF Shape, Woven
<1>2. Account(d)
  BY <1>1, SameAccount, Zenon
<1>3. \A e \in 1 .. L : /\ d.entry[e].created = c.entry[e].created /\ d.entry[e].father = c.entry[e].father
                        /\ d.entry[e].first = c.entry[e].first /\ d.entry[e].next = c.entry[e].next
                        /\ d.entry[e].model = c.entry[e].model /\ d.entry[e].zero = c.entry[e].zero
                        /\ d.entry[e].delete = c.entry[e].delete /\ d.entry[e].free = c.entry[e].free
  BY DEF SameUse, SameLinks
<1>4. Ids(c) = 1 .. L /\ Ids(d) = 1 .. L
  BY CacheIds, Zenon
<1>5. Blank(d)
  BY <1>1, <1>3, <1>4 DEF Blank, IsBlank
<1>6. Live(d) = Live(c)
  BY SameUseSets
<1>7. Guarded(d, OnStack(cs))
  <2>1. \A e \in OnStack(cs) : e \in 1 .. L
    BY StackIs
  <2> QED BY <1>1, <1>3, <1>6, <2>1 DEF Guarded
<1>8. SameTree(c, d, 1 .. L)
  BY <1>3 DEF SameTree
<1>9. Tabled(d)
  <2>1. Tabled(c)
    BY DEF Shape, Woven
  <2> QED BY <2>1, TabledUse, Zenon
<1> QED BY <1>2, <1>5, <1>7, <1>8, <1>9, ShapeSame, Zenon

(* d is c with the entry id of comp, a child of p, without what has been   *)
(* evicted.                                                                *)
Joined(c, d, id, comp, p) ==
    /\ id \notin Live(c) /\ d.entry[id].comp = comp /\ d.entry[id].father = p
    /\ Confirmed(d) \subseteq Confirmed(c)
    /\ \A e \in Live(d) \ {id} :
         /\ e \in Live(c) /\ d.entry[e].comp = c.entry[e].comp
         /\ c.entry[e].father \in Live(d) => d.entry[e].father = c.entry[e].father

(* d is c with the new entry id below p: what has been evicted has a       *)
(* result, and the ancestors are those that are left.                      *)
Grafted(c, d, id, p) ==
    /\ Ids(d) = Ids(c) \cup {id} /\ id \in Live(d) /\ id \notin Live(c) /\ Live(d) \ {id} \subseteq Live(c)
    /\ Live(c) \ Live(d) \subseteq Confirmed(c) /\ Confirmed(d) = Confirmed(c) \cap Live(d)
    /\ d.entry[id].created = c.clock /\ d.clock = c.clock + 1
    /\ \A e \in Ids(c) \ {id} : d.entry[e].created = c.entry[e].created
    /\ \A e \in Live(d) \ {id} : Ancestors(d, e) = Ancestors(c, e) \cap Live(d)
    /\ Ancestors(d, id) = (Ancestors(c, p) \cup {p}) \cap Live(d)

(* A component goes on the stack and its new entry below that of the one   *)
(* at m, the last when the loop of splitComponent() began.                 *)
LEMMA EnteredShape ==
  ASSUME NEW K, Hashed(K), NEW L \in Nat, NEW c \in Caches(K, L), NEW R \in SUBSET K,
         NEW cs \in Stack(L, R), NEW B, Shape(c, cs, B), \A b \in B : b[2] <= c.clock,
         NEW m \in 1 .. Len(cs), \A b \in B : b[1] <= m,
         NEW comp \in R, comp.vars \subseteq cs[m].comp.vars, NEW clear
  PROVE  LET d == AddDescendant(NewEntry(c, comp, clear), cs[m].id, AllocId(c))
             longer == Append(cs, [id |-> AllocId(c), comp |-> comp])
         IN  /\ Shape(d, longer, B) /\ Loose(d, longer) \subseteq Loose(c, cs)
             /\ c.clock <= d.clock /\ Joined(c, d, AllocId(c), comp, cs[m].id)
             /\ Grafted(c, d, AllocId(c), cs[m].id)
<1> DEFINE O == Roots(cs)
           P == OnStack(cs)
           M == Grown(c, L)
           id == AllocId(c)
           a == Created(c, comp)
           e == NewEntry(c, comp, clear)
           p == cs[m].id
           d == AddDescendant(e, p, id)
           x == [id |-> id, comp |-> comp]
           cs2 == Append(cs, x)
           n == Len(cs)
<1>1. /\ n >= 1 /\ Woven(c, O) /\ Guarded(c, P) /\ Climbs(c, cs) /\ Below(c, cs, B)
      /\ \A b \in B : Branching(c, cs, b)
  BY Zenon DEF Shape
<1>2. /\ n \in Nat /\ P \subseteq 1 .. L
      /\ \A i \in 1 .. n : cs[i].id \in 1 .. L /\ cs[i].comp \in R /\ cs[i].id \in P
  BY StackIs
<1>3. M \in Nat /\ L <= M /\ id \in 1 .. M /\ a \in Caches(K, M) /\ e \in Caches(K, M)
  <2>1. M \in Nat /\ L <= M /\ id \in 1 .. M
    BY AllocType
  <2>2. comp \in K
    OBVIOUS
  <2>3. a \in Caches(K, M)
    BY <2>2, CreatedType
  <2> HIDE DEF M, a
  <2>4. EvictIfNeeded(a, clear) \in Caches(K, M)
    BY <2>1, <2>3, EvictIfNeededType, Zenon
  <2>5. e = EvictIfNeeded(a, clear)
    BY NewEntryIs, Zenon DEF a
  <2> QED BY <2>1, <2>3, <2>4, <2>5
<1>4. Account(c) /\ Blank(c) /\ comp \in K /\ Rooted(c, O)
  BY <1>1 DEF Woven
<1>5. IsCreated(c, a, id, comp, L, M)
  BY <1>4, CreatedDoes, Zenon
<1>6. e = EvictIfNeeded(a, clear)
  BY NewEntryIs, Zenon
<1> HIDE DEF M, a, e, id
<1>7. Newborn(c, a, id, O, P)
  BY <1>1, <1>3, <1>5, CreatedKeeps, Zenon
<1>8. /\ Woven(a, O \cup {id}) /\ Guarded(a, P \cup {id})
      /\ Live(a) = Live(c) \cup {id} /\ id \notin Live(c) /\ Open(a) = Open(c) \cup {id}
      /\ Confirmed(a) = Confirmed(c)
      /\ a.entry[id].created = c.clock /\ a.clock = c.clock + 1
      /\ \A g \in Live(c) : a.entry[g] = c.entry[g]
      /\ \A y : \A t \in 0 .. c.clock : BranchAt(c, O, y, t) => BranchAt(a, O \cup {id}, y, t)
  BY <1>7, Zenon DEF Newborn
<1>9. Keeps(a, e, O \cup {id}, P \cup {id}, K, M)
  <2>1. O \subseteq P
    BY <1>1, <1>2 DEF Roots
  <2>2. O \cup {id} \subseteq P \cup {id}
    BY <2>1
  <2> QED BY <1>3, <1>6, <1>8, <2>2, EvictIfNeededKeeps, Zenon
<1>10. /\ Woven(e, O \cup {id}) /\ Guarded(e, P \cup {id}) /\ e.clock = a.clock
       /\ Live(e) \subseteq Live(a) /\ Open(e) = Open(a)
       /\ \A g \in Live(e) : e.entry[g].created = a.entry[g].created
       /\ \A g \in P \cup {id} : e.entry[g].father = a.entry[g].father
       /\ \A y \in P \cup {id} : \A t \in Nat : BranchAt(a, O \cup {id}, y, t) => BranchAt(e, O \cup {id}, y, t)
       /\ Confirmed(e) \subseteq Confirmed(a) /\ \A g \in Live(e) : e.entry[g].comp = a.entry[g].comp
       /\ \A g \in Live(e) : a.entry[g].father \in Live(e) => e.entry[g].father = a.entry[g].father
  BY <1>9, Zenon DEF Keeps, Shrunk
<1>11. \A g \in P : g \in Live(c) /\ g # id /\ g \in Live(e)
  BY <1>1, <1>8, <1>10 DEF Guarded
<1>12. id \in Live(e)
  BY <1>10 DEF Guarded
<1>13. /\ \A g \in P : e.entry[g].created = c.entry[g].created /\ e.entry[g].father = c.entry[g].father
       /\ e.entry[id].created = c.clock
  BY <1>8, <1>10, <1>11, <1>12
<1>14. \A g \in P : c.entry[g].created < c.clock /\ c.entry[g].created \in Nat
  <2>1. \A g \in 1 .. L : c.entry[g].created \in Nat
    BY DEF Caches, Entries
  <2> QED BY <1>2, <1>4, <1>11, <2>1 DEF Rooted
<1>15. p \in P /\ p # id /\ p \in 1 .. M
  <2>1. p \in P /\ p \in 1 .. L
    BY <1>2
  <2>2. p \in 1 .. M
    BY <1>3, <2>1
  <2> QED BY <1>11, <2>1, <2>2
<1>16. IsAdded(e, d, p, id, M) /\ d \in Caches(K, M)
  BY <1>3, <1>15, AddDescendantDoes, AddDescendantType, Zenon
<1> HIDE DEF d
<1>17. Fathered(e, d, p, id, O, P \cup {id})
  <2>1. id \notin O
    BY <1>1, <1>2, <1>11 DEF Roots
  <2>2. e.entry[p].created < e.entry[id].created
    BY <1>13, <1>14, <1>15
  <2>3. p \in P \cup {id}
    BY <1>15
  <2> HIDE DEF O, P, p
  <2> QED BY ONLY <1>3, <1>10, <1>15, <1>16, <2>1, <2>2, <2>3, AddDescendantKeeps
<1>18. /\ Woven(d, O) /\ Guarded(d, P \cup {id}) /\ d.clock = e.clock /\ Open(d) = Open(e)
       /\ \A g \in Live(e) : d.entry[g].created = e.entry[g].created
       /\ \A g \in Live(e) : g # id => d.entry[g].father = e.entry[g].father
       /\ d.entry[id].father = p
       /\ \A y : \A t \in Nat :
            BranchAt(e, O \cup {id}, y, t) /\ t <= e.entry[id].created /\ (p = y \/ p \in Since(e, t)) => BranchAt(d, O, y, t)
       /\ Live(d) = Live(e) /\ Confirmed(d) = Confirmed(e) /\ \A g \in Live(e) : d.entry[g].comp = e.entry[g].comp
  BY <1>17, Zenon DEF Fathered
<1>19. /\ \A g \in P : d.entry[g].created = c.entry[g].created /\ d.entry[g].father = c.entry[g].father
       /\ d.entry[id].created = c.clock
  BY <1>11, <1>12, <1>13, <1>18
<1>20. d.clock = c.clock + 1 /\ c.clock \in Nat
  BY <1>8, <1>10, <1>18 DEF Caches
<1>21. /\ Len(cs2) = n + 1 /\ cs2[n + 1] = x /\ \A i \in 1 .. n : cs2[i] = cs[i]
  <2> DEFINE S == [id : 1 .. L, comp : R] \cup {x}
             T == [id : 1 .. L, comp : R]
  <2>1. cs \in Seq(S) /\ x \in S
    <3>1. cs \in Seq(T) /\ T \subseteq S
      BY DEF Stack
    <3> HIDE DEF T, S, x
    <3>2. cs \in Seq(S)
      BY <3>1, SeqMonotonic
    <3> QED BY <3>2 DEF S
  <2> HIDE DEF S, x
  <2> QED BY ONLY <2>1, AppendIs DEF cs2, n
<1>22. x.id = id /\ x.comp = comp
  OBVIOUS
<1> HIDE DEF x, cs2
<1>23. \A i \in 1 .. n + 1 : i \in 1 .. n \/ i = n + 1
  BY <1>2
<1>24. (\A i \in 1 .. n : i \in 1 .. n + 1) /\ n + 1 \in 1 .. n + 1 /\ 1 \in 1 .. n
  BY <1>1, <1>2
<1>25. OnStack(cs2) = P \cup {id}
  <2>1. \A i \in 1 .. n : cs2[i].id = cs[i].id
    BY <1>21
  <2>2. cs2[n + 1].id = id
    BY <1>21, <1>22
  <2>3. OnStack(cs2) = {cs2[i].id : i \in 1 .. n + 1} /\ P = {cs[i].id : i \in 1 .. n}
    BY <1>21 DEF OnStack
  <2>4. \A i \in 1 .. n + 1 : cs2[i].id \in P \cup {id}
    BY <1>2, <1>23, <2>1, <2>2
  <2>5. \A i \in 1 .. n : cs[i].id \in OnStack(cs2)
    BY <1>24, <2>1, <2>3
  <2>6. id \in OnStack(cs2)
    BY <1>24, <2>2, <2>3
  <2> QED BY <2>3, <2>4, <2>5, <2>6
<1>26. Roots(cs2) = O
  BY <1>21, <1>24 DEF Roots
<1>27. Climbs(d, cs2)
  <2>1. ASSUME NEW i \in 1 .. n + 1, NEW j \in 1 .. n + 1, i < j
        PROVE  d.entry[cs2[i].id].created < d.entry[cs2[j].id].created
    <3>1. i \in 1 .. n
      BY <1>2, <2>1
    <3>2. cs2[i].id = cs[i].id /\ d.entry[cs[i].id].created = c.entry[cs[i].id].created
      BY <1>2, <1>19, <1>21, <3>1
    <3>3. CASE j \in 1 .. n
      <4>1. cs2[j].id = cs[j].id /\ d.entry[cs[j].id].created = c.entry[cs[j].id].created
        BY <1>2, <1>19, <1>21, <3>3
      <4> QED BY <1>1, <2>1, <3>1, <3>2, <3>3, <4>1 DEF Climbs
    <3>4. CASE j = n + 1
      BY <1>2, <1>14, <1>19, <1>21, <1>22, <3>1, <3>2, <3>4
    <3> QED BY <1>23, <3>3, <3>4
  <2> QED BY <1>21, <2>1 DEF Climbs
<1>28. Below(d, cs2, B)
  <2>1. ASSUME NEW i \in 2 .. n + 1
        PROVE  \E j \in 1 .. i - 1 : /\ cs2[i].comp.vars \subseteq cs2[j].comp.vars
                                     /\ d.entry[cs2[i].id].father = cs2[j].id
                                     /\ \A b \in B : b[1] < i => b[1] <= j
    <3>1. CASE i \in 2 .. n
      <4>1. PICK j \in 1 .. i - 1 : /\ cs[i].comp.vars \subseteq cs[j].comp.vars
                                    /\ c.entry[cs[i].id].father = cs[j].id
                                    /\ \A b \in B : b[1] < i => b[1] <= j
        BY <1>1, <3>1 DEF Below
      <4>2. i \in 1 .. n /\ j \in 1 .. n
        BY <1>2, <3>1
      <4> QED BY <1>2, <1>19, <1>21, <4>1, <4>2
    <3>2. CASE i = n + 1
      <4>1. m \in 1 .. i - 1
        BY <1>2, <3>2
      <4> QED BY <1>18, <1>21, <1>22, <3>2, <4>1
    <3>3. i \in 2 .. n \/ i = n + 1
      <4> HIDE DEF n
      <4> QED BY ONLY <1>2, i \in 2 .. n + 1
    <3> QED BY <3>1, <3>2, <3>3
  <2> QED BY <1>21, <2>1 DEF Below
<1>29. ASSUME NEW b \in B PROVE Branching(d, cs2, b)
  <2>1. /\ b[1] \in 1 .. n /\ b[2] \in Nat /\ b[2] <= c.clock /\ b[1] <= m
        /\ BranchAt(c, O, cs[b[1]].id, b[2])
        /\ \A i \in b[1] + 1 .. n : c.entry[cs[i].id].created >= b[2]
    BY <1>1, Zenon DEF Branching
  <2> DEFINE y == cs[b[1]].id
             t == b[2]
  <2>2. t \in 0 .. c.clock /\ t \in Nat /\ t <= d.clock /\ y \in P
    BY <1>2, <1>20, <2>1
  <2>3. BranchAt(a, O \cup {id}, y, t)
    BY <1>8, <2>1, <2>2
  <2>4. BranchAt(e, O \cup {id}, y, t)
    BY <1>10, <2>2, <2>3
  <2>5. p = y \/ p \in Since(e, t)
    <3>1. CASE m = b[1]
      BY <3>1
    <3>2. CASE m # b[1]
      <4>1. m \in b[1] + 1 .. n
        BY <1>2, <2>1, <3>2
      <4> QED BY <1>11, <1>13, <1>15, <2>1, <4>1 DEF Since
    <3> QED BY <3>1, <3>2
  <2>6. BranchAt(d, O, y, t)
    BY <1>13, <1>18, <2>1, <2>2, <2>4, <2>5
  <2>7. \A i \in b[1] + 1 .. n + 1 : d.entry[cs2[i].id].created >= b[2]
    <3>1. \A i \in b[1] + 1 .. n + 1 : (i \in b[1] + 1 .. n /\ i \in 1 .. n) \/ i = n + 1
      <4>1. ASSUME NEW l \in Nat, NEW k \in 1 .. l
            PROVE  \A i \in k + 1 .. l + 1 : (i \in k + 1 .. l /\ i \in 1 .. l) \/ i = l + 1
        OBVIOUS
      <4> HIDE DEF n
      <4> QED BY ONLY <1>2, <2>1, <4>1
    <3>2. d.entry[id].created >= b[2]
      BY <1>19, <1>20, <2>1
    <3> QED BY <1>2, <1>19, <1>21, <1>22, <2>1, <3>1, <3>2
  <2>8. b[1] \in 1 .. n + 1 /\ cs2[b[1]].id = y
    BY <1>21, <1>24, <2>1
  <2> QED BY <1>21, <1>26, <2>1, <2>2, <2>6, <2>7, <2>8 DEF Branching
<1>30. Len(cs2) >= 1
  BY <1>1, <1>2, <1>21
<1>31. c.clock <= d.clock
  BY <1>20
<1>32. Shape(d, cs2, B)
  BY <1>18, <1>25, <1>26, <1>27, <1>28, <1>29, <1>30 DEF Shape
<1>33. Loose(d, cs2) \subseteq Loose(c, cs)
  BY <1>8, <1>10, <1>18, <1>25 DEF Loose
<1>34. Joined(c, d, id, comp, p)
  <2>1. a.entry[id].comp = comp
    BY <1>5 DEF IsCreated
  <2>2. d.entry[id].comp = comp /\ Confirmed(d) \subseteq Confirmed(c)
    BY <1>8, <1>10, <1>12, <1>18, <2>1
  <2>3. ASSUME NEW g \in Live(d) \ {id}
        PROVE  /\ g \in Live(c) /\ d.entry[g].comp = c.entry[g].comp
               /\ c.entry[g].father \in Live(d) => d.entry[g].father = c.entry[g].father
    <3>1. g \in Live(e) /\ g # id /\ g \in Live(c) /\ a.entry[g] = c.entry[g]
      BY <1>8, <1>10, <1>18
    <3>2. d.entry[g].comp = c.entry[g].comp
      BY <1>10, <1>18, <3>1
    <3> QED BY <1>10, <1>18, <3>1, <3>2
  <2> QED BY <1>8, <1>18, <2>2, <2>3 DEF Joined
<1>35. /\ Ids(c) = 1 .. L /\ Ids(e) = 1 .. M /\ Ids(d) = 1 .. M /\ 1 .. M = 1 .. L \cup {id}
       /\ \A g \in 1 .. L : g # id => a.entry[g].created = c.entry[g].created
       /\ \A g \in 1 .. M : d.entry[g].created = e.entry[g].created /\ e.entry[g].created = a.entry[g].created
  <2>1. Ids(c) = 1 .. L /\ Ids(a) = 1 .. M /\ Ids(e) = 1 .. M /\ Ids(d) = 1 .. M
    BY <1>3, <1>16, CacheIds
  <2>2. 1 .. M = 1 .. L \cup {id} /\ \A g \in 1 .. L : g # id => a.entry[g] = c.entry[g]
    BY <1>5, Zenon DEF IsCreated
  <2>3. \A g \in Ids(a) : e.entry[g].created = a.entry[g].created
    BY <1>9, Zenon DEF Keeps, Shrunk
  <2>4. \A g \in 1 .. M : d.entry[g].created = e.entry[g].created
    BY <1>16 DEF IsAdded, SameUse
  <2> QED BY <2>1, <2>2, <2>3, <2>4
<1>36. \A g \in Live(c) : Ancestors(a, g) = Ancestors(c, g)
  <2>1. Live(c) \subseteq Live(a) /\ \A g \in Live(c) : a.entry[g].father = c.entry[g].father
    BY <1>8
  <2>2. Rooted(a, O \cup {id})
    BY <1>8 DEF Woven
  <2> QED BY ONLY <1>3, <1>4, <2>1, <2>2, L \in Nat, c \in Caches(K, L), AncestorsKept
<1>37. \A g \in Live(e) : Ancestors(e, g) = Ancestors(a, g) \cap Live(e)
  BY <1>9, Zenon DEF Keeps, Shrunk
<1>38. /\ \A g \in Live(e) : g # id => Ancestors(d, g) = Ancestors(e, g)
       /\ Ancestors(d, id) = {p} \cup Ancestors(e, p)
  <2>1. id \notin O
    BY <1>1, <1>2, <1>11 DEF Roots
  <2>2. Rooted(e, O \cup {id}) /\ Rooted(d, O)
    BY <1>10, <1>18 DEF Woven
  <2>3. ASSUME NEW g \in Live(e), e.entry[g].father = id PROVE FALSE
    <3>1. id # INVALID_ENTRY
      BY <1>3 DEF INVALID_ENTRY
    <3>2. e.entry[id].created < e.entry[g].created /\ e.entry[g].created < e.clock
      BY <2>2, <2>3, <3>1 DEF Rooted
    <3>3. e.entry[g].created \in Nat
      <4>1. Live(e) \subseteq 1 .. M
        BY <1>3, LiveIs, Zenon
      <4> QED BY <1>3, <4>1 DEF Caches, Entries
    <3> QED BY <1>8, <1>10, <1>13, <1>20, <3>2, <3>3
  <2>4. Live(d) = Live(e) /\ \A g \in Live(e) : g # id => d.entry[g].father = e.entry[g].father
    BY <1>18
  <2>5. M \in Nat /\ e \in Caches(K, M) /\ d \in Caches(K, M) /\ \A g \in Live(e) : e.entry[g].father # id
    BY <1>3, <1>16, <2>3
  <2>6. /\ \A g \in Live(e) : g # id => Ancestors(d, g) = Ancestors(e, g)
        /\ Ancestors(d, id) = {d.entry[id].father} \cup Ancestors(e, d.entry[id].father)
    BY ONLY <2>1, <2>2, <2>4, <2>5, AncestorsAdded
  <2> QED BY <1>18, <2>6
<1>39. Grafted(c, d, id, p)
  <2>1. /\ id \in Live(d) /\ id \notin Live(c) /\ Live(d) \ {id} \subseteq Live(c) /\ Live(d) = Live(e)
        /\ p \in Live(c) /\ p \in Live(e) /\ p # id
    BY <1>8, <1>10, <1>11, <1>12, <1>15, <1>18
  <2>2. Open(d) = Open(c) \cup {id}
    BY <1>8, <1>10, <1>18
  <2>3. Live(c) \ Live(d) \subseteq Confirmed(c)
    BY <2>2 DEF Open
  <2>4. Confirmed(d) = Confirmed(c) \cap Live(d)
    <3>1. Confirmed(d) \subseteq Confirmed(c) /\ Confirmed(d) \subseteq Live(d) /\ Confirmed(c) \subseteq Live(c)
      BY <1>8, <1>10, <1>18 DEF Confirmed
    <3> QED BY <2>1, <2>2, <3>1 DEF Open
  <2>5. d.entry[id].created = c.clock /\ \A g \in Ids(c) \ {id} : d.entry[g].created = c.entry[g].created
    BY <1>19, <1>35
  <2>6. \A g \in Live(d) \ {id} : Ancestors(d, g) = Ancestors(c, g) \cap Live(d)
    BY <1>36, <1>37, <1>38, <2>1
  <2>7. Ancestors(d, id) = (Ancestors(c, p) \cup {p}) \cap Live(d)
    <3>1. Ancestors(e, p) = Ancestors(c, p) \cap Live(e)
      BY <1>36, <1>37, <2>1
    <3> QED BY <1>38, <2>1, <3>1
  <2>8. Ids(d) = Ids(c) \cup {id}
    BY <1>35
  <2> QED BY <1>20, <2>1, <2>3, <2>4, <2>5, <2>6, <2>7, <2>8 DEF Grafted
<1> QED BY <1>31, <1>32, <1>33, <1>34, <1>39 DEF d, cs2, x, e, p, id

(* The loop of splitComponent() so far: it began with the component at m   *)
(* on top of the stack, whose entry is parent, and the loose entries Z.    *)
Looping(s, B, Z, m, parent, vs, K, R) ==
    \E L \in Nat :
        /\ s \in StatesWith(K, R, L) /\ Shape(s.cache, s.comps, B) /\ Loose(s.cache, s.comps) \subseteq Z
        /\ \A b \in B : b[1] <= m /\ b[2] <= s.cache.clock
        /\ m \in 1 .. Len(s.comps) /\ s.comps[m].id = parent /\ s.comps[m].comp.vars = vs

LEMMA ExploreShape ==
  ASSUME NEW K, Hashed(K), NEW R \in SUBSET K, NEW s, NEW B, NEW Z, NEW m, NEW parent, NEW vs,
         Looping(s, B, Z, m, parent, vs, K, R), NEW comp \in R, comp.vars \subseteq vs
  PROVE  Looping(ExploreBelow(parent, s, comp), B, Z, m, parent, vs, K, R)
<1>1. PICK L \in Nat :
        /\ s \in StatesWith(K, R, L) /\ Shape(s.cache, s.comps, B) /\ Loose(s.cache, s.comps) \subseteq Z
        /\ \A b \in B : b[1] <= m /\ b[2] <= s.cache.clock
        /\ m \in 1 .. Len(s.comps) /\ s.comps[m].id = parent /\ s.comps[m].comp.vars = vs
  BY DEF Looping
<1> DEFINE c == s.cache
           cs == s.comps
           id == Find(c, comp)
           new == AllocId(c)
           x == [id |-> new, comp |-> comp]
           look == Lookup(c, comp)
           enter == Entered(s, comp, parent)
           M == Grown(c, L)
           left == PollsLeft(c, s.polls)
           more == IncreaseModels(s.decision, "some")
           longer == Append(cs, x)
<1>2. /\ c \in Caches(K, L) /\ cs \in Stack(L, R) /\ s.dead \in BOOLEAN
      /\ s.polls \in Int /\ s.decision \in Decisions /\ comp \in K
  BY <1>1 DEF StatesWith, Stack
<1>3. parent \in 1 .. L
  BY <1>1, <1>2, StackIs
<1>4. s \in States(K, R, parent)
  BY <1>1, <1>3 DEF States
<1>5. ExploreBelow(parent, s, comp) \in States(K, R, parent)
  BY <1>4, ExploreType
<1>6. /\ look \in Caches(K, L) /\ Shape(look, cs, B) /\ Loose(look, cs) \subseteq Z /\ c.clock <= look.clock
  <2>1. look \in Caches(K, L)
    BY <1>2, LookupType
  <2>2. /\ SameUse(c, look, 1 .. L) /\ SameLinks(c, look, 1 .. L) /\ SameTable(c, look, 1 .. L)
        /\ look.memory = c.memory /\ look.freeSlots = c.freeSlots /\ c.clock <= look.clock
    BY <1>2, LookupDoes, Zenon
  <2> HIDE DEF look
  <2>3. Shape(look, cs, B)
    BY <1>1, <1>2, <2>1, <2>2, ShapeUse, Zenon
  <2>4. Open(look) = Open(c)
    <3>1. Live(look) = Live(c) /\ Confirmed(look) = Confirmed(c)
      BY ONLY <1>2, <2>1, <2>2, L \in Nat, SameUseSets
    <3> QED BY <3>1 DEF Open
  <2> QED BY <1>1, <2>1, <2>2, <2>3, <2>4 DEF Loose
<1>7. /\ Shape(enter, longer, B) /\ Loose(enter, longer) \subseteq Z /\ c.clock <= enter.clock
  <2>1. comp.vars \subseteq cs[m].comp.vars /\ parent = cs[m].id /\ m \in 1 .. Len(cs)
    BY <1>1
  <2>2. (\A b \in B : b[1] <= m) /\ (\A b \in B : b[2] <= c.clock)
    BY <1>1
  <2> DEFINE e == AddDescendant(NewEntry(c, comp, s.polls), cs[m].id, new)
  <2>3. enter = e
    BY <2>1 DEF Entered
  <2>4. /\ Shape(e, longer, B) /\ Loose(e, longer) \subseteq Loose(c, cs)
        /\ c.clock <= e.clock /\ Joined(c, e, AllocId(c), comp, cs[m].id)
    <3>1. Shape(c, cs, B)
      BY <1>1
    <3> HIDE DEF c, cs
    <3> QED BY ONLY <1>2, <2>1, <2>2, <3>1, Hashed(K), L \in Nat, R \in SUBSET K, comp \in R, EnteredShape
  <2> HIDE DEF e, enter, longer
  <2> QED BY <1>1, <2>3, <2>4
<1>8. /\ M \in Nat /\ enter \in Caches(K, M) /\ longer \in Stack(M, R)
      /\ m \in 1 .. Len(longer) /\ longer[m] = cs[m]
  <2>1. M \in Nat /\ L <= M /\ new \in 1 .. M /\ enter \in Caches(K, M)
    BY <1>2, <1>3, EnteredType DEF Entered
  <2> DEFINE S == [id : 1 .. M, comp : R]
             T == [id : 1 .. L, comp : R]
  <2>2. cs \in Seq(S) /\ x \in S
    <3>1. x \in S
      BY <2>1
    <3>2. cs \in Seq(T) /\ T \subseteq S
      BY <1>2, <2>1 DEF Stack
    <3> HIDE DEF T, S, x
    <3> QED BY <3>1, <3>2, SeqMonotonic
  <2> HIDE DEF S, x
  <2>3. longer \in Seq(S) /\ Len(longer) = Len(cs) + 1 /\ \A i \in 1 .. Len(cs) : longer[i] = cs[i]
    BY ONLY <2>2, AppendIs
  <2>4. m \in 1 .. Len(cs) /\ Len(cs) \in Nat
    BY <1>1, <1>2, StackIs
  <2> HIDE DEF longer, cs
  <2>5. m \in 1 .. Len(longer)
    BY <2>3, <2>4
  <2> QED BY <2>1, <2>3, <2>4, <2>5 DEF S, Stack
<1>9. left \in Int
  BY <1>2, PollsType
<1>10. more \in Decisions
  BY <1>2, IncreaseType
<1>11. (\A b \in B : b[2] <= look.clock) /\ (\A b \in B : b[2] <= enter.clock)
  <2>1. c.clock \in Nat /\ look.clock \in Nat /\ enter.clock \in Nat
    BY <1>2, <1>6, <1>8 DEF Caches
  <2>2. \A b \in B : b[2] \in Nat /\ b[2] <= c.clock
    BY <1>1, Zenon DEF Shape, Branching
  <2> HIDE DEF c, look, enter
  <2> QED BY <1>6, <1>7, <2>1, <2>2
<1> HIDE DEF look, enter, longer, more, left, M, x, id, new
<1>12. ExploreBelow(parent, s, comp) =
        IF s.dead THEN s
        ELSE IF id = INVALID_ENTRY THEN [s EXCEPT !.cache = enter, !.comps = longer, !.polls = left]
        ELSE IF s.cache.entry[id].zero THEN [s EXCEPT !.cache = look, !.dead = TRUE]
        ELSE [s EXCEPT !.cache = look, !.decision = more]
  BY DEF ExploreBelow, id, x, look, enter, left, more, longer, new
<1>13. Looping([s EXCEPT !.cache = enter, !.comps = longer, !.polls = left], B, Z, m, parent, vs, K, R)
  <2> DEFINE t == [s EXCEPT !.cache = enter, !.comps = longer, !.polls = left]
  <2>1. t \in StatesWith(K, R, M) /\ t.cache = enter /\ t.comps = longer
    BY <1>1, <1>8, <1>9 DEF StatesWith, Stack
  <2> HIDE DEF t
  <2>2. Looping(t, B, Z, m, parent, vs, K, R)
    BY <1>1, <1>7, <1>8, <1>11, <2>1 DEF Looping
  <2> QED BY <2>2 DEF t
<1>14. Looping([s EXCEPT !.cache = look, !.dead = TRUE], B, Z, m, parent, vs, K, R)
  <2> DEFINE t == [s EXCEPT !.cache = look, !.dead = TRUE]
  <2>1. t \in StatesWith(K, R, L) /\ t.cache = look /\ t.comps = cs
    BY <1>1, <1>6 DEF StatesWith
  <2> HIDE DEF t
  <2>2. Looping(t, B, Z, m, parent, vs, K, R)
    BY <1>1, <1>6, <1>11, <2>1 DEF Looping
  <2> QED BY <2>2 DEF t
<1>15. Looping([s EXCEPT !.cache = look, !.decision = more], B, Z, m, parent, vs, K, R)
  <2> DEFINE t == [s EXCEPT !.cache = look, !.decision = more]
  <2>1. t \in StatesWith(K, R, L) /\ t.cache = look /\ t.comps = cs
    BY <1>1, <1>6, <1>10 DEF StatesWith
  <2> HIDE DEF t
  <2>2. Looping(t, B, Z, m, parent, vs, K, R)
    BY <1>1, <1>6, <1>11, <2>1 DEF Looping
  <2> QED BY <2>2 DEF t
<1> QED BY <1>12, <1>13, <1>14, <1>15, Zenon

(***************************************************************************)
(* The steps of the search.                                                *)
(***************************************************************************)
Branches(ds) == {<<ds[k].base, ds[k].split>> : k \in 1 .. Len(ds)}

(* The inductive invariant of the tree and the account.                    *)
Structure ==
    /\ Shape(cache, comps, Branches(decisions))
    /\ cache.clock <= NoSplit
    /\ pc = "exit" => Len(comps) = 1

LEMMA BranchFacts ==
  ASSUME NEW b1, NEW b2
  PROVE  <<b1, b2>>[1] = b1 /\ <<b1, b2>>[2] = b2
OBVIOUS

(* When splitComponent() begins: a branch that has not split begins now.   *)
LEMMA BeginShape ==
  ASSUME Control, Structure, NEW d \in Decisions, d.base = TopDecision.base,
         d.split = IF TopDecision.split = NoSplit THEN cache.clock ELSE TopDecision.split
  PROVE  /\ Shape(cache, comps, Branches(SetTop(d)))
         /\ \A b \in Branches(SetTop(d)) : b[1] <= Len(comps) /\ b[2] <= cache.clock
<1> DEFINE L == Len(cache.entry)
           N == Len(decisions)
           n == Len(comps)
           K == KeysOf(input)
           top == TopDecision
           B == Branches(decisions)
           D == Branches(SetTop(d))
<1>1. /\ L \in Nat /\ cache \in Caches(K, L) /\ comps \in Stack(L, CompsOf(input))
      /\ n \in Nat /\ n >= 1 /\ N \in Nat /\ N >= 1 /\ top = decisions[N] /\ top \in Decisions
      /\ \A k \in 1 .. N : decisions[k] \in Decisions
      /\ \A i \in 1 .. n : comps[i].id \in 1 .. L
  BY TypedFacts, Zenon DEF Control, Stack
<1>2. /\ Shape(cache, comps, B) /\ cache.clock <= NoSplit
  BY DEF Structure
<1>3. /\ Woven(cache, Roots(comps)) /\ Guarded(cache, OnStack(comps)) /\ Below(cache, comps, B)
      /\ \A b \in B : Branching(cache, comps, b)
  BY <1>2, Zenon DEF Shape
<1>4. cache.clock \in Nat /\ NoSplit \in Nat /\ \A e \in 1 .. L : cache.entry[e].created \in Nat
  BY <1>1, BoundsAssumption DEF Caches, Entries
<1>5. \A i \in 1 .. n : /\ comps[i].id \in Live(cache)
                        /\ cache.entry[comps[i].id].created < cache.clock
                        /\ cache.entry[comps[i].id].created \in Nat
  <2>1. \A i \in 1 .. n : comps[i].id \in OnStack(comps)
    BY DEF OnStack
  <2>2. \A e \in Live(cache) : cache.entry[e].created < cache.clock
    BY <1>3 DEF Woven, Rooted
  <2> QED BY <1>1, <1>3, <1>4, <2>1, <2>2 DEF Guarded
<1>6. ASSUME NEW k \in 1 .. N
      PROVE  LET e == decisions[k]
             IN  /\ e.base \in 1 .. n /\ e.split \in Nat /\ (e.split <= cache.clock \/ e.split = NoSplit)
                 /\ BranchAt(cache, Roots(comps), comps[e.base].id, e.split)
                 /\ \A i \in e.base + 1 .. n : cache.entry[comps[i].id].created >= e.split
  <2> DEFINE e == decisions[k]
             b == <<e.base, e.split>>
  <2>1. b \in B
    BY DEF Branches
  <2>2. Branching(cache, comps, b)
    BY <1>3, <2>1
  <2>3. b[1] = e.base /\ b[2] = e.split
    OBVIOUS
  <2> HIDE DEF e, b
  <2>4. /\ e.base \in 1 .. n /\ e.split \in Nat /\ (e.split <= cache.clock \/ e.split = NoSplit)
        /\ BranchAt(cache, Roots(comps), comps[e.base].id, e.split)
        /\ \A i \in e.base + 1 .. n : cache.entry[comps[i].id].created >= e.split
    BY <2>2, <2>3 DEF Branching
  <2> QED BY <2>4 DEF e
<1>7. ASSUME NEW k \in 1 .. N, decisions[k].base < n PROVE decisions[k].split <= cache.clock
  <2>1. decisions[k].base + 1 \in decisions[k].base + 1 .. n /\ decisions[k].base + 1 \in 1 .. n
    <3>1. decisions[k].base \in 1 .. n
      BY <1>6
    <3> QED BY <1>1, <1>7, <3>1
  <2> DEFINE t == cache.entry[comps[decisions[k].base + 1].id].created
  <2>2. t >= decisions[k].split /\ t < cache.clock /\ t \in Nat /\ decisions[k].split \in Nat
    BY <1>5, <1>6, <2>1
  <2> HIDE DEF t
  <2> QED BY <1>4, <2>2
<1>8. ASSUME NEW k \in 1 .. N - 1 PROVE decisions[k].base < n
  <2>1. k < N /\ k \in 1 .. N /\ N \in 1 .. N
    BY <1>1
  <2>2. decisions[k].base < decisions[k].top /\ decisions[k].top <= decisions[N].base
    BY <2>1 DEF Control, Stretches, Owned
  <2>3. decisions[k].base \in 1 .. n /\ decisions[N].base \in 1 .. n /\ decisions[k].top \in Nat
    BY <1>1, <1>6, <2>1 DEF Decisions
  <2>4. ASSUME NEW a, NEW b \in Nat, NEW e, a \in 1 .. n, e \in 1 .. n, a < b, b <= e PROVE a < n
    BY <1>1, <2>4
  <2> HIDE DEF n, N
  <2> QED BY <2>2, <2>3, <2>4
<1>9. \A k \in 1 .. N - 1 : k \in 1 .. N /\ decisions[k].split <= cache.clock
  <2>1. \A k \in 1 .. N - 1 : k \in 1 .. N
    BY <1>1
  <2> QED BY <1>7, <1>8, <2>1
<1>10. N \in 1 .. N /\ top.base \in 1 .. n
  BY <1>1, <1>6
<1>11. d.split \in Nat /\ d.split <= cache.clock
  BY <1>1, <1>4, <1>6, <1>10
<1>12. BranchAt(cache, Roots(comps), comps[top.base].id, d.split)
  <2>1. CASE top.split # NoSplit
    BY <1>1, <1>6, <1>10, <2>1
  <2>2. CASE top.split = NoSplit
    <3>1. Since(cache, cache.clock) = {}
      <4>1. \A e \in Live(cache) : e \in 1 .. L /\ cache.entry[e].created < cache.clock
        <5>1. Live(cache) \subseteq 1 .. L
          BY <1>1, LiveIs, Zenon
        <5> QED BY <1>3, <5>1 DEF Woven, Rooted
      <4>2. \A e \in Live(cache) : ~ (cache.entry[e].created >= cache.clock)
        BY <1>4, <4>1
      <4> QED BY <4>2 DEF Since
    <3>2. Leads(Children(cache, comps[top.base].id), {})
      BY DEF Leads
    <3> QED BY <1>5, <1>10, <2>2, <3>1, <3>2 DEF BranchAt
  <2> QED BY <2>1, <2>2
<1>13. \A i \in top.base + 1 .. n : cache.entry[comps[i].id].created >= d.split
  <2>1. CASE top.split # NoSplit
    BY <1>1, <1>6, <1>10, <2>1
  <2>2. CASE top.split = NoSplit
    <3> SUFFICES ASSUME NEW i \in top.base + 1 .. n PROVE FALSE
      OBVIOUS
    <3>1. i \in 1 .. n
      BY <1>10
    <3>2. cache.entry[comps[i].id].created >= NoSplit
      BY <1>1, <1>6, <1>10, <2>2
    <3> QED BY <1>2, <1>4, <1>5, <3>1, <3>2
  <2> QED BY <2>1, <2>2
<1>14. /\ Len(SetTop(d)) = N /\ SetTop(d)[N] = d
       /\ \A k \in 1 .. N - 1 : SetTop(d)[k] = decisions[k]
  <2>1. decisions \in Seq(Decisions)
    BY DEF Control, Typed
  <2> QED BY <1>1, <2>1, ReplacedTop
<1>15. \A b \in D : \/ b = <<top.base, d.split>>
                    \/ \E k \in 1 .. N - 1 : b = <<decisions[k].base, decisions[k].split>>
  <2>1. \A k \in 1 .. N : k = N \/ k \in 1 .. N - 1
    BY <1>1
  <2> QED BY <1>14, <2>1 DEF Branches
<1>16. ASSUME NEW b \in D
       PROVE  Branching(cache, comps, b) /\ b[1] <= n /\ b[2] <= cache.clock
  <2>1. CASE b = <<top.base, d.split>>
    <3>1. b[1] = top.base /\ b[2] = d.split
      BY <2>1
    <3>2. top.base <= n
      BY <1>1, <1>10
    <3> QED BY <1>10, <1>11, <1>12, <1>13, <3>1, <3>2 DEF Branching
  <2>2. ASSUME NEW k \in 1 .. N - 1, b = <<decisions[k].base, decisions[k].split>>
        PROVE  Branching(cache, comps, b) /\ b[1] <= n /\ b[2] <= cache.clock
    <3>1. b[1] = decisions[k].base /\ b[2] = decisions[k].split
      BY <2>2
    <3>2. b \in B
      BY <1>9, <2>2 DEF Branches
    <3>3. decisions[k].base <= n
      BY <1>1, <1>6, <1>9
    <3> QED BY <1>3, <1>9, <3>1, <3>2, <3>3
  <2> QED BY <1>15, <2>1, <2>2
<1>17. Below(cache, comps, D)
  <2>1. ASSUME NEW b \in D PROVE \E a \in B : a[1] = b[1]
    <3>1. CASE b = <<top.base, d.split>>
      <4>1. <<top.base, top.split>> \in B
        BY <1>1, <1>10 DEF Branches
      <4> QED BY <3>1, <4>1
    <3>2. CASE \E k \in 1 .. N - 1 : b = <<decisions[k].base, decisions[k].split>>
      <4>1. b \in B
        BY <1>9, <3>2 DEF Branches
      <4> QED BY <4>1
    <3> QED BY <1>15, <3>1, <3>2
  <2> HIDE DEF B, D
  <2> QED BY <1>3, <2>1 DEF Below
<1>18. Shape(cache, comps, D)
  BY <1>2, <1>16, <1>17, Zenon DEF Shape
<1> QED BY <1>16, <1>18

LEMMA SameBranches ==
  ASSUME decisions \in Seq(Decisions), Len(decisions) >= 1, NEW d \in Decisions, NEW e \in Decisions,
         d.base = e.base, d.split = e.split
  PROVE  Branches(SetTop(d)) = Branches(SetTop(e))
<1> DEFINE N == Len(decisions)
           D == SetTop(d)
           E == SetTop(e)
<1>1. /\ Len(D) = N /\ D[N] = d /\ \A k \in 1 .. N - 1 : D[k] = decisions[k]
      /\ Len(E) = N /\ E[N] = e /\ \A k \in 1 .. N - 1 : E[k] = decisions[k]
  BY ReplacedTop
<1>2. \A k \in 1 .. N : k = N \/ k \in 1 .. N - 1
  OBVIOUS
<1> HIDE DEF D, E, N
<1>3. \A k \in 1 .. N : D[k].base = E[k].base /\ D[k].split = E[k].split
  BY <1>1, <1>2, Zenon
<1>4. Branches(D) = Branches(E)
  BY <1>1, <1>3 DEF Branches
<1> QED BY <1>4 DEF D, E

(* The loop of splitComponent() from its start to its end.                 *)
SplitLoop(upTo, order, free, polls) ==
    LET b == Begun(free, polls)
        N == Len(order)
    IN  /\ upTo[0] = b
        /\ \A k \in 1 .. N : upTo[k] = ExploreBelow(Last(comps).id, upTo[k - 1], order[k])
        /\ SplitComponent(order, free, polls) = SetDecision(upTo[N], SplitResult(upTo[N]))
        /\ \A k \in 0 .. N :
             Looping(upTo[k], Branches(SetTop(b.decision)), Loose(cache, comps), Len(comps),
                     Last(comps).id, Super.vars, KeysOf(input), CompsOf(input))

LEMMA SplitLoops ==
  ASSUME Control, Structure, NEW found \in Left, NEW order \in Ascending(found),
         NEW free \in FreeFactors, NEW polls \in Polls
  PROVE  \E upTo : SplitLoop(upTo, order, free, polls)
<1> DEFINE K == KeysOf(input)
           Z == Loose(cache, comps)
           R == CompsOf(input)
           L == Len(cache.entry)
           n == Len(comps)
           parent == Last(comps).id
           vs == Super.vars
           b == Begun(free, polls)
           N == Len(order)
           B == Branches(SetTop(b.decision))
<1>1. Hashed(K) /\ R \in SUBSET K
  BY InputFacts DEF Typed, Control
<1>2. Typed /\ Stretches
  BY DEF Control
<1>3. /\ b \in States(K, R, parent) /\ b.comps = comps /\ b.decision.base = TopDecision.base
      /\ b.decision.split = IF TopDecision.split = NoSplit THEN cache.clock ELSE TopDecision.split
      /\ b.cache = cache /\ b.dead = FALSE
  BY <1>2, BegunType, Zenon
<1>4. order \in Seq(R) /\ N \in Nat /\ \A k \in 1 .. N : order[k] \in found
  BY <1>2, FoundComps
<1>5. /\ L \in Nat /\ cache \in Caches(K, L) /\ comps \in Stack(L, R) /\ n \in Nat /\ n >= 1
      /\ comps[n].comp = Super /\ Last(comps) = comps[n] /\ Super \in R /\ comps[n].id \in 1 .. L
  <2>1. L \in Nat /\ cache \in Caches(K, L) /\ comps \in Stack(L, R) /\ n \in Nat /\ n >= 1
        /\ comps[n].comp = Super /\ Last(comps) = comps[n] /\ n \in 1 .. n
        /\ \A i \in 1 .. n : comps[i].id \in 1 .. L /\ comps[i].comp \in R
    BY <1>2, TypedFacts DEF Stack
  <2> QED BY <2>1
<1>6. \A k \in 1 .. N : order[k] \in R /\ order[k].vars \subseteq vs
  <2>1. \A a \in found : a.vars \subseteq vs
    <3>1. CASE found \in Residuals[Super]
      BY <1>2, <1>5, <3>1, InputFacts DEF Typed
    <3>2. CASE found = {Super}
      BY <3>2
    <3> QED BY <3>1, <3>2 DEF Left
  <2> QED BY <1>4, <2>1
<1>7. b.decision \in Decisions /\ \E M \in Nat : b \in StatesWith(K, R, M) /\ b.cache.entry \in [1 .. M -> Entries(K, M)]
  <2>1. PICK M \in Nat : b \in StatesWith(K, R, M)
    BY <1>3 DEF States
  <2>2. b.cache \in Caches(K, M) /\ b.decision \in Decisions
    BY <2>1 DEF StatesWith
  <2> QED BY <2>1, <2>2 DEF Caches
<1>8. b \in StatesWith(K, R, L)
  <2>1. PICK M \in Nat : b \in StatesWith(K, R, M) /\ b.cache.entry \in [1 .. M -> Entries(K, M)]
    BY <1>7
  <2>2. M = L
    BY <1>3, <2>1, LenIs
  <2> QED BY <2>1, <2>2
<1>9. Shape(cache, comps, B) /\ \A x \in B : x[1] <= n /\ x[2] <= cache.clock
  BY <1>3, <1>7, BeginShape, Zenon
<1> HIDE DEF K, R, b, N, L, n, vs, parent, B, Z
<1>10. Looping(b, B, Z, n, parent, vs, K, R)
  <2>1. n \in 1 .. n /\ comps[n].id = parent /\ comps[n].comp.vars = vs
    BY <1>5 DEF parent, vs
  <2>2. Loose(b.cache, b.comps) \subseteq Z
    BY <1>3 DEF Z
  <2> QED BY <1>3, <1>5, <1>8, <1>9, <2>1, <2>2, Zenon DEF Looping, n
<1>11. PICK upTo : /\ IsSplit(upTo, b, order, parent, K, R)
                   /\ SplitComponent(order, free, polls) = SetDecision(upTo[N], SplitResult(upTo[N]))
  <2>1. Begun(free, polls) \in States(K, R, Last(comps).id)
    BY <1>3, Zenon DEF b, parent
  <2>2. \E upTo : /\ IsSplit(upTo, Begun(free, polls), order, Last(comps).id, K, R)
                  /\ SplitComponent(order, free, polls) =
                       SetDecision(upTo[Len(order)], SplitResult(upTo[Len(order)]))
    BY <1>1, <1>4, <2>1, SplitSteps
  <2> QED BY <2>2, Zenon DEF b, N, parent
<1>12. /\ upTo \in [0 .. N -> States(K, R, parent)] /\ upTo[0] = b
       /\ \A k \in 1 .. N : upTo[k] = ExploreBelow(parent, upTo[k - 1], order[k])
  BY <1>11, Zenon DEF IsSplit, N
<1> DEFINE T == {k \in 0 .. N : Looping(upTo[k], B, Z, n, parent, vs, K, R)}
<1>13. 0 \in T
  BY <1>4, <1>10, <1>12
<1>14. ASSUME NEW k \in 1 .. N, k - 1 \in T PROVE k \in T
  <2>1. Looping(upTo[k - 1], B, Z, n, parent, vs, K, R) /\ k \in 0 .. N
    BY <1>4, <1>14
  <2>2. Looping(ExploreBelow(parent, upTo[k - 1], order[k]), B, Z, n, parent, vs, K, R)
    BY <1>1, <1>6, <2>1, ExploreShape, Zenon
  <2> QED BY <1>12, <2>1, <2>2
<1>15. \A k \in 0 .. N : Looping(upTo[k], B, Z, n, parent, vs, K, R)
  <2> HIDE DEF T
  <2>1. \A k \in 0 .. N : k \in T
    BY <1>4, <1>13, <1>14, BoundedSteps, Zenon
  <2> QED BY <2>1 DEF T
<1>16. SplitLoop(upTo, order, free, polls)
  BY <1>11, <1>12, <1>15, Zenon DEF SplitLoop, K, R, b, N, n, vs, parent, B, Z
<1> QED BY <1>16

LEMMA SplitShape ==
  ASSUME Control, Structure, NEW found \in Left, NEW order \in Ascending(found),
         NEW free \in FreeFactors, NEW polls \in Polls, NEW s, s = SplitComponent(order, free, polls)
  PROVE  Shape(s.cache, s.comps, Branches(SetTop(s.decision))) /\ Loose(s.cache, s.comps) \subseteq Loose(cache, comps)
<1> DEFINE K == KeysOf(input)
           R == CompsOf(input)
           Z == Loose(cache, comps)
           b == Begun(free, polls)
           N == Len(order)
           B == Branches(SetTop(b.decision))
<1>1. Typed /\ Stretches
  BY DEF Control
<1>2. N \in Nat /\ N \in 0 .. N
  BY <1>1, FoundComps
<1>3. PICK upTo : SplitLoop(upTo, order, free, polls)
  BY SplitLoops, Zenon
<1>4. /\ SplitComponent(order, free, polls) = SetDecision(upTo[N], SplitResult(upTo[N]))
      /\ Looping(upTo[N], B, Z, Len(comps), Last(comps).id, Super.vars, K, R)
  BY <1>2, <1>3, Zenon DEF SplitLoop
<1>5. /\ b.decision \in Decisions /\ b.decision.base = TopDecision.base
      /\ b.decision.split = IF TopDecision.split = NoSplit THEN cache.clock ELSE TopDecision.split
  <2>1. b \in States(K, R, Last(comps).id) /\ b.decision.base = TopDecision.base
        /\ b.decision.split = IF TopDecision.split = NoSplit THEN cache.clock ELSE TopDecision.split
    BY <1>1, BegunType, Zenon
  <2> HIDE DEF b
  <2>2. PICK L \in Nat : b \in StatesWith(K, R, L)
    BY <2>1 DEF States
  <2>3. b.decision \in Decisions
    BY <2>2 DEF StatesWith
  <2> QED BY <2>1, <2>3
<1> DEFINE u == upTo[N]
<1> HIDE DEF K, R, Z, b, N, B
<1>6. Shape(u.cache, u.comps, B) /\ Loose(u.cache, u.comps) \subseteq Z /\ \E M \in Nat : u \in StatesWith(K, R, M)
  BY <1>4 DEF Looping
<1>7. s.cache = u.cache /\ s.comps = u.comps
  <2>1. s = SetDecision(u, SplitResult(u))
    BY <1>4
  <2> HIDE DEF u
  <2> QED BY <1>6, <2>1 DEF SetDecision, StatesWith
<1>8. Branches(SetTop(s.decision)) = B
  <2>1. SplitDone(s, found)
    BY <1>1, SplitIs, Zenon
  <2>2. s.decision \in Decisions /\ s.decision.base = b.decision.base /\ s.decision.split = b.decision.split
    BY <1>5, <2>1, Zenon DEF SplitDone
  <2>3. decisions \in Seq(Decisions) /\ Len(decisions) >= 1
    BY <1>1 DEF Typed, Stretches, Owned
  <2> QED BY <1>5, <2>2, <2>3, SameBranches, Zenon DEF B
<1> QED BY <1>6, <1>7, <1>8, Zenon DEF Z

(* The components above a place leave the stack, with the decisions that   *)
(* split one of them.                                                      *)
LEMMA ShapeCut ==
  ASSUME NEW K, NEW L \in Nat, NEW c \in Caches(K, L), NEW R, NEW cs \in Stack(L, R), NEW B, Shape(c, cs, B),
         NEW ts \in Stack(L, R), 1 <= Len(ts), Len(ts) <= Len(cs), \A i \in 1 .. Len(ts) : ts[i] = cs[i],
         NEW E \in SUBSET B, \A b \in E : b[1] <= Len(ts)
  PROVE  /\ Shape(c, ts, E)
         /\ \A i \in Len(ts) + 1 .. Len(cs) : cs[i].id \in Open(c) \ OnStack(ts)
<1> DEFINE n == Len(cs)
           m == Len(ts)
           O == Roots(cs)
<1>1. /\ Woven(c, O) /\ Guarded(c, OnStack(cs)) /\ Climbs(c, cs) /\ Below(c, cs, B)
      /\ \A b \in B : Branching(c, cs, b)
  BY Zenon DEF Shape
<1>2. n \in Nat /\ m \in Nat /\ 1 <= m /\ m <= n /\ 1 \in 1 .. m
  BY StackIs
<1>3. Roots(ts) = O
  BY <1>2 DEF Roots
<1> HIDE DEF n, m, O
<1>4. \A i \in 1 .. m : i \in 1 .. n /\ ts[i] = cs[i]
  BY <1>2 DEF m
<1>5. Climbs(c, ts)
  BY <1>1, <1>4 DEF Climbs, n, m
<1>6. Below(c, ts, E)
  <2>1. ASSUME NEW i \in 2 .. m
        PROVE  \E j \in 1 .. i - 1 : /\ ts[i].comp.vars \subseteq ts[j].comp.vars
                                     /\ c.entry[ts[i].id].father = ts[j].id
                                     /\ \A b \in E : b[1] < i => b[1] <= j
    <3>1. i \in 2 .. n /\ i \in 1 .. m /\ \A j \in 1 .. i - 1 : j \in 1 .. m
      BY <1>2
    <3>2. PICK j \in 1 .. i - 1 : /\ cs[i].comp.vars \subseteq cs[j].comp.vars
                                  /\ c.entry[cs[i].id].father = cs[j].id
                                  /\ \A b \in B : b[1] < i => b[1] <= j
      BY <1>1, <3>1 DEF Below, n
    <3>3. ts[i] = cs[i] /\ ts[j] = cs[j]
      BY <1>4, <3>1
    <3>4. \A b \in E : b[1] < i => b[1] <= j
      BY <3>2
    <3> QED BY <3>2, <3>3, <3>4
  <2> QED BY <2>1 DEF Below, m
<1>7. Guarded(c, OnStack(ts))
  <2>1. \A e \in OnStack(ts) : e \in OnStack(cs)
    BY <1>4 DEF OnStack, n, m
  <2>2. ASSUME NEW i \in 1 .. m PROVE c.entry[ts[i].id].father \in OnStack(ts) \cup {INVALID_ENTRY}
    <3>1. CASE i = 1
      <4>1. ts[1].id \in O
        BY <1>3 DEF Roots
      <4> QED BY <1>1, <3>1, <4>1 DEF Woven, Rooted
    <3>2. CASE i # 1
      <4>1. i \in 2 .. m /\ \A j \in 1 .. i - 1 : j \in 1 .. m
        BY <1>2, <3>2
      <4>2. \E j \in 1 .. i - 1 : c.entry[ts[i].id].father = ts[j].id
        BY <1>6, <4>1 DEF Below, m
      <4> QED BY <4>1, <4>2 DEF OnStack, m
    <3> QED BY <3>1, <3>2
  <2>3. \A e \in OnStack(ts) : c.entry[e].father \in OnStack(ts) \cup {INVALID_ENTRY}
    BY <2>2 DEF OnStack, m
  <2> QED BY <1>1, <2>1, <2>3, Zenon DEF Guarded
<1>8. ASSUME NEW b \in E PROVE Branching(c, ts, b)
  <2>1. /\ b[1] \in 1 .. n /\ b[2] \in Nat /\ (b[2] <= c.clock \/ b[2] = NoSplit)
        /\ BranchAt(c, O, cs[b[1]].id, b[2])
        /\ \A i \in b[1] + 1 .. n : c.entry[cs[i].id].created >= b[2]
    BY <1>1, Zenon DEF Branching, n, O
  <2>2. b[1] \in 1 .. m /\ ts[b[1]] = cs[b[1]]
    <3>1. b[1] <= m
      BY DEF m
    <3>2. b[1] \in 1 .. m
      BY <1>2, <2>1, <3>1
    <3> QED BY <1>4, <3>2
  <2>3. \A i \in b[1] + 1 .. m : i \in b[1] + 1 .. n /\ ts[i] = cs[i]
    <3>1. \A i \in b[1] + 1 .. m : i \in b[1] + 1 .. n /\ i \in 1 .. m
      <4>1. ASSUME NEW k \in 1 .. n PROVE \A i \in k + 1 .. m : i \in k + 1 .. n /\ i \in 1 .. m
        BY <1>2
      <4> QED BY <2>1, <4>1
    <3> QED BY <1>4, <3>1
  <2>4. Roots(ts) = O
    BY <1>3
  <2>5. \A i \in b[1] + 1 .. m : c.entry[ts[i].id].created >= b[2]
    BY <2>1, <2>3
  <2> QED BY <2>1, <2>2, <2>4, <2>5 DEF Branching, m
<1>9. Shape(c, ts, E)
  BY <1>1, <1>2, <1>3, <1>5, <1>6, <1>7, <1>8 DEF Shape, m
<1>10. ASSUME NEW i \in m + 1 .. n PROVE cs[i].id \in Open(c) \ OnStack(ts)
  <2>1. i \in 1 .. n /\ \A j \in 1 .. m : j < i /\ j \in 1 .. n
    BY <1>2
  <2>2. cs[i].id \in OnStack(cs)
    BY <2>1 DEF OnStack, n
  <2>3. cs[i].id \in Open(c)
    BY <1>1, <2>2 DEF Guarded, Open, Confirmed
  <2>4. ASSUME NEW j \in 1 .. m, ts[j].id = cs[i].id PROVE FALSE
    <3>1. c.entry[cs[j].id].created < c.entry[cs[i].id].created
      BY <1>1, <2>1 DEF Climbs, n
    <3>2. c.entry[cs[i].id].created \in Nat
      <4>1. cs[i].id \in 1 .. L
        BY <2>1, StackIs DEF n
      <4> QED BY <4>1 DEF Caches, Entries
    <3>3. cs[j].id = cs[i].id
      BY <1>4, <2>4
    <3> QED BY <3>1, <3>2, <3>3
  <2> QED BY <2>3, <2>4 DEF OnStack, m
<1> QED BY <1>9, <1>10 DEF m, n

(***************************************************************************)
(* The methods that store a result.                                        *)
(***************************************************************************)
LEMMA LinkDoes ==
  ASSUME NEW K, Hashed(K), NEW L \in Nat, NEW c \in Caches(K, L), NEW id \in 1 .. L, NEW d, d = LinkIntoTable(c, id)
  PROVE  SameUse(c, d, 1 .. L) /\ SameLinks(c, d, 1 .. L) /\ SameBooks(c, d)
<1> DEFINE slot == Slot(c, id)
           e == [c.entry[id] EXCEPT !.chain = c.table[slot]]
           f == [c.entry EXCEPT ![id] = e]
           t == [c.table EXCEPT ![slot] = id]
           n == c.confirmed + 1
           x == [c EXCEPT !.entry = f, !.table = t, !.confirmed = n]
<1>1. slot \in DOMAIN c.table
  BY SlotType
<1> HIDE DEF slot
<1>2. c.table[slot] \in Pointers(L) /\ t \in Tables(L)
  <2> DEFINE size == Cardinality(DOMAIN c.table)
  <2>1. size \in Nat \ {0} /\ c.table \in [0 .. size - 1 -> Pointers(L)] /\ DOMAIN c.table = 0 .. size - 1
    BY TableType
  <2> HIDE DEF size
  <2>2. id \in Pointers(L)
    BY DEF Pointers
  <2>3. t \in [0 .. size - 1 -> Pointers(L)]
    BY <2>1, <2>2
  <2> QED BY <1>1, <2>1, <2>3 DEF Tables
<1>3. e \in Entries(K, L) /\ OnlyChain(c.entry[id], e)
  BY <1>2 DEF Caches, Entries, OnlyChain
<1>4. f \in [1 .. L -> Entries(K, L)]
  BY <1>3, EntryChanged
<1>5. n \in Int
  BY DEF Caches
<1>6. d = GrowTableIfNeeded(x)
  <2>1. x = [c EXCEPT !.entry[id].chain = c.table[slot], !.table[slot] = id, !.confirmed = @ + 1]
    BY DEF Caches
  <2> QED BY <2>1, Zenon DEF LinkIntoTable, slot
<1>7. \A i \in 1 .. L : OnlyChain(c.entry[i], f[i])
  <2>1. \A i \in 1 .. L : f[i] = IF i = id THEN e ELSE c.entry[i]
    BY DEF Caches
  <2> HIDE DEF f, e
  <2> QED BY <1>3, <2>1 DEF OnlyChain
<1> HIDE DEF f, t, n
<1>8. x \in Caches(K, L)
  BY <1>2, <1>4, <1>5 DEF Caches
<1>9. x.entry = f /\ x.clock = c.clock /\ x.memory = c.memory /\ x.freeSlots = c.freeSlots
  BY DEF Caches
<1> HIDE DEF x
<1>10. SameUse(x, d, 1 .. L) /\ SameLinks(x, d, 1 .. L) /\ SameBooks(x, d)
  BY <1>6, <1>8, GrowDoes, Zenon
<1>11. SameUse(c, x, 1 .. L) /\ SameLinks(c, x, 1 .. L) /\ SameBooks(c, x)
  BY <1>7, <1>9 DEF SameUse, SameLinks, SameBooks, OnlyChain
<1> QED BY <1>10, <1>11 DEF SameUse, SameLinks, SameBooks

(* d is c with what the end of the component of id leaves: whether it has  *)
(* a result and may be evicted is all that changes, and a count takes its  *)
(* unit of memory.                                                         *)
Concludes(c, d, id, L) ==
    /\ SameLinks(c, d, 1 .. L) /\ SameUse(c, d, (1 .. L) \ {id})
    /\ d.entry[id].comp = c.entry[id].comp /\ d.entry[id].created = c.entry[id].created
    /\ d.entry[id].free = c.entry[id].free
    /\ d.freeSlots = c.freeSlots /\ c.clock <= d.clock
    /\ d.memory = IF d.entry[id].model THEN c.memory + 1 ELSE c.memory

LEMMA StoreDoes ==
  ASSUME NEW K, Hashed(K), NEW L \in Nat, NEW c \in Caches(K, L), NEW id \in 1 .. L, ~ c.entry[id].model
  PROVE  /\ Concludes(c, Store(c, id), id, L) /\ Concludes(c, StoreZero(c, id), id, L) /\ Concludes(c, c, id, L)
         /\ Store(c, id).entry[id].model /\ StoreZero(c, id).entry[id].zero
         /\ Store(c, id).clock = c.clock + 1 /\ StoreZero(c, id).clock = c.clock + 1
<1> DEFINE e == [c.entry[id] EXCEPT !.model = TRUE, !.used = c.clock]
           z == [c.entry[id] EXCEPT !.zero = TRUE, !.used = c.clock, !.delete = TRUE]
           f == [c.entry EXCEPT ![id] = e]
           g == [c.entry EXCEPT ![id] = z]
           k == c.clock + 1
           m == c.memory + 1
           x == [c EXCEPT !.entry = f, !.clock = k, !.memory = m]
           y == [c EXCEPT !.entry = g, !.clock = k]
<1>1. e \in Entries(K, L) /\ z \in Entries(K, L)
  <2>1. ASSUME NEW u \in Entries(K, L), NEW t \in Nat
        PROVE  [u EXCEPT !.model = TRUE, !.used = t] \in Entries(K, L) /\ [u EXCEPT !.zero = TRUE, !.used = t, !.delete = TRUE] \in Entries(K, L)
    BY DEF Entries
  <2>2. c.entry[id] \in Entries(K, L) /\ c.clock \in Nat
    BY DEF Caches
  <2> QED BY <2>1, <2>2, Zenon
<1>2. f \in [1 .. L -> Entries(K, L)] /\ g \in [1 .. L -> Entries(K, L)]
  BY <1>1, EntryChanged
<1>3. k \in Nat \ {0} /\ m \in Int /\ c.clock <= k
  BY DEF Caches
<1>4. /\ Store(c, id) = LinkIntoTable(x, id)
      /\ StoreZero(c, id) = LinkIntoTable(y, id)
  <2>1. /\ [c EXCEPT !.entry[id].model = TRUE, !.entry[id].used = c.clock, !.clock = @ + 1, !.memory = @ + 1] = x
        /\ [c EXCEPT !.entry[id].zero = TRUE, !.entry[id].used = c.clock, !.entry[id].delete = TRUE, !.clock = @ + 1] = y
    BY DEF Caches
  <2> QED BY <2>1, Zenon DEF Store, StoreZero
<1>5. /\ e.father = c.entry[id].father /\ e.first = c.entry[id].first /\ e.next = c.entry[id].next
      /\ e.comp = c.entry[id].comp /\ e.created = c.entry[id].created /\ e.free = c.entry[id].free /\ e.model
      /\ z.father = c.entry[id].father /\ z.first = c.entry[id].first /\ z.next = c.entry[id].next
      /\ z.comp = c.entry[id].comp /\ z.created = c.entry[id].created /\ z.free = c.entry[id].free /\ ~ z.model /\ z.zero
  <2>1. c.entry[id] \in Entries(K, L)
    BY DEF Caches
  <2> QED BY <2>1 DEF Entries
<1>6. \A i \in 1 .. L : f[i] = (IF i = id THEN e ELSE c.entry[i]) /\ g[i] = (IF i = id THEN z ELSE c.entry[i])
  BY DEF Caches
<1> HIDE DEF e, z, f, g, k, m
<1>7. x \in Caches(K, L) /\ y \in Caches(K, L)
  BY <1>2, <1>3 DEF Caches
<1>8. /\ x.entry = f /\ x.clock = k /\ x.memory = m /\ x.freeSlots = c.freeSlots
      /\ y.entry = g /\ y.clock = k /\ y.memory = c.memory /\ y.freeSlots = c.freeSlots
  BY DEF Caches
<1> HIDE DEF x, y
<1>9. Concludes(c, x, id, L) /\ Concludes(c, y, id, L) /\ x.entry[id].model /\ y.entry[id].zero
  BY <1>3, <1>5, <1>6, <1>8 DEF Concludes, SameLinks, SameUse, m
<1>10. ASSUME NEW u \in Caches(K, L), Concludes(c, u, id, L)
       PROVE  /\ Concludes(c, LinkIntoTable(u, id), id, L)
              /\ u.entry[id].model => LinkIntoTable(u, id).entry[id].model
              /\ u.entry[id].zero => LinkIntoTable(u, id).entry[id].zero
              /\ LinkIntoTable(u, id).clock = u.clock
  <2> DEFINE d == LinkIntoTable(u, id)
  <2>1. SameUse(u, d, 1 .. L) /\ SameLinks(u, d, 1 .. L) /\ SameBooks(u, d)
    BY <1>10, LinkDoes, Zenon
  <2> HIDE DEF d
  <2>2. Concludes(c, d, id, L)
    BY <1>10, <2>1 DEF Concludes, SameUse, SameLinks, SameBooks
  <2>3. d.entry[id].model = u.entry[id].model /\ d.entry[id].zero = u.entry[id].zero /\ d.clock = u.clock
    BY <2>1 DEF SameUse, SameBooks
  <2> QED BY <2>2, <2>3 DEF d
<1>11. Concludes(c, c, id, L)
  BY DEF Concludes, SameUse, SameLinks, Caches
<1>12. x.clock = c.clock + 1 /\ y.clock = c.clock + 1
  BY <1>8 DEF k
<1> QED BY <1>4, <1>7, <1>9, <1>10, <1>11, <1>12, Zenon

(* x is d with another setting for the entry that c has concluded as d.    *)
Condemns(c, d, x, id, L) ==
    /\ Concludes(c, x, id, L)
    /\ x.entry[id].model = d.entry[id].model /\ x.entry[id].zero = d.entry[id].zero

LEMMA SetDeleteDoes ==
  ASSUME NEW K, NEW L \in Nat, NEW c \in Caches(K, L), NEW d \in Caches(K, L), NEW id \in 1 .. L,
         Concludes(c, d, id, L), NEW b
  PROVE  Condemns(c, d, SetDeletePermitted(d, id, b), id, L)
<1> DEFINE e == [d.entry[id] EXCEPT !.delete = b]
           f == [d.entry EXCEPT ![id] = e]
           x == SetDeletePermitted(d, id, b)
<1>1. x = [d EXCEPT !.entry = f]
  BY DEF SetDeletePermitted, Caches
<1>2. /\ e.father = d.entry[id].father /\ e.first = d.entry[id].first /\ e.next = d.entry[id].next
      /\ e.comp = d.entry[id].comp /\ e.created = d.entry[id].created /\ e.free = d.entry[id].free
      /\ e.model = d.entry[id].model /\ e.zero = d.entry[id].zero
  <2>1. d.entry[id] \in Entries(K, L)
    BY DEF Caches
  <2> QED BY <2>1 DEF Entries
<1>3. \A i \in 1 .. L : f[i] = (IF i = id THEN e ELSE d.entry[i])
  BY DEF Caches
<1> HIDE DEF e, f, x
<1>4. x.entry = f /\ x.clock = d.clock /\ x.memory = d.memory /\ x.freeSlots = d.freeSlots
  BY <1>1 DEF Caches
<1>5. Concludes(c, x, id, L)
  BY <1>2, <1>3, <1>4 DEF Concludes, SameUse, SameLinks
<1> QED BY <1>2, <1>3, <1>4, <1>5 DEF x, Condemns

(* A result goes into the table; the flag of the entry stays out of it.    *)
LEMMA StoredTabled ==
  ASSUME NEW K, Hashed(K), NEW L \in Nat, NEW c \in Caches(K, L), NEW id \in 1 .. L, id \in Open(c), Tabled(c),
         NEW stored \in {Store(c, id), StoreZero(c, id), c}
  PROVE  Tabled(SetDeletePermitted(stored, id, TRUE))
<1> DEFINE e == [c.entry[id] EXCEPT !.model = TRUE, !.used = c.clock]
           z == [c.entry[id] EXCEPT !.zero = TRUE, !.used = c.clock, !.delete = TRUE]
           f == [c.entry EXCEPT ![id] = e]
           g == [c.entry EXCEPT ![id] = z]
           k == c.clock + 1
           m == c.memory + 1
           x == [c EXCEPT !.entry = f, !.clock = k, !.memory = m]
           y == [c EXCEPT !.entry = g, !.clock = k]
<1>1. e \in Entries(K, L) /\ z \in Entries(K, L)
  <2>1. ASSUME NEW u \in Entries(K, L), NEW t \in Nat
        PROVE  [u EXCEPT !.model = TRUE, !.used = t] \in Entries(K, L) /\ [u EXCEPT !.zero = TRUE, !.used = t, !.delete = TRUE] \in Entries(K, L)
    BY DEF Entries
  <2>2. c.entry[id] \in Entries(K, L) /\ c.clock \in Nat
    BY DEF Caches
  <2> QED BY <2>1, <2>2, Zenon
<1>2. f \in [1 .. L -> Entries(K, L)] /\ g \in [1 .. L -> Entries(K, L)]
  BY <1>1, EntryChanged
<1>3. k \in Nat \ {0} /\ m \in Int
  BY DEF Caches
<1>4. /\ Store(c, id) = LinkIntoTable(x, id)
      /\ StoreZero(c, id) = LinkIntoTable(y, id)
  <2>1. /\ [c EXCEPT !.entry[id].model = TRUE, !.entry[id].used = c.clock, !.clock = @ + 1, !.memory = @ + 1] = x
        /\ [c EXCEPT !.entry[id].zero = TRUE, !.entry[id].used = c.clock, !.entry[id].delete = TRUE, !.clock = @ + 1] = y
    BY DEF Caches
  <2> QED BY <2>1, Zenon DEF Store, StoreZero
<1>5. /\ e.comp = c.entry[id].comp /\ e.chain = c.entry[id].chain /\ e.free = c.entry[id].free /\ e.model
      /\ z.comp = c.entry[id].comp /\ z.chain = c.entry[id].chain /\ z.free = c.entry[id].free /\ z.zero
  <2>1. c.entry[id] \in Entries(K, L)
    BY DEF Caches
  <2> QED BY <2>1 DEF Entries
<1>6. \A i \in 1 .. L : f[i] = (IF i = id THEN e ELSE c.entry[i]) /\ g[i] = (IF i = id THEN z ELSE c.entry[i])
  BY DEF Caches
<1> HIDE DEF e, z, f, g, k, m
<1>7. x \in Caches(K, L) /\ y \in Caches(K, L)
  BY <1>2, <1>3 DEF Caches
<1>8. /\ x.entry = f /\ x.table = c.table /\ x.confirmed = c.confirmed
      /\ y.entry = g /\ y.table = c.table /\ y.confirmed = c.confirmed
  BY DEF Caches
<1> HIDE DEF x, y
<1>9. id \in Live(c) /\ id \notin Confirmed(c) /\ Live(c) \subseteq 1 .. L
  BY LiveIs DEF Open
<1>10. /\ Live(c) = {i \in 1 .. L : ~ c.entry[i].free} /\ Live(x) = {i \in 1 .. L : ~ x.entry[i].free}
       /\ Live(y) = {i \in 1 .. L : ~ y.entry[i].free}
  <2>1. \A d \in Caches(K, L) : Live(d) = {i \in 1 .. L : ~ d.entry[i].free}
    BY ONLY L \in Nat, LiveIs, Zenon
  <2> QED BY ONLY <1>7, <2>1, c \in Caches(K, L), Zenon
<1>11. Confirmed(x) = Confirmed(c) \cup {id} /\ Confirmed(y) = Confirmed(c) \cup {id}
  <2>1. Live(x) = Live(c) /\ Live(y) = Live(c)
    BY <1>5, <1>6, <1>8, <1>10
  <2> QED BY <1>5, <1>6, <1>8, <1>9, <2>1 DEF Confirmed
<1>12. SameTable(c, x, 1 .. L) /\ SameTable(c, y, 1 .. L)
  BY <1>5, <1>6, <1>8 DEF SameTable
<1>13. \A i \in 1 .. L : x.entry[i].comp = c.entry[i].comp /\ y.entry[i].comp = c.entry[i].comp
  BY <1>5, <1>6, <1>8
<1>14. Tabled(LinkIntoTable(x, id)) /\ Tabled(LinkIntoTable(y, id))
  BY <1>7, <1>9, <1>11, <1>12, <1>13, TabledLinked
<1>15. stored \in Caches(K, L) /\ Tabled(stored)
  <2>1. Store(c, id) \in Caches(K, L) /\ StoreZero(c, id) \in Caches(K, L)
    BY StoreType, Zenon
  <2> QED BY <1>4, <1>14, <2>1, Zenon
<1> DEFINE r == [stored.entry[id] EXCEPT !.delete = TRUE]
           h == [stored.entry EXCEPT ![id] = r]
           d == SetDeletePermitted(stored, id, TRUE)
<1>16. d = [stored EXCEPT !.entry = h] /\ d \in Caches(K, L)
  <2>1. d \in Caches(K, L)
    BY <1>15, SetDeleteType, Zenon
  <2> QED BY <1>15, <2>1 DEF SetDeletePermitted, Caches
<1>17. /\ r.comp = stored.entry[id].comp /\ r.chain = stored.entry[id].chain /\ r.free = stored.entry[id].free
       /\ r.model = stored.entry[id].model /\ r.zero = stored.entry[id].zero
  <2>1. stored.entry[id] \in Entries(K, L)
    BY <1>15 DEF Caches
  <2> QED BY <2>1 DEF Entries
<1>18. \A i \in 1 .. L : h[i] = (IF i = id THEN r ELSE stored.entry[i])
  BY <1>15 DEF Caches
<1> HIDE DEF r, h, d
<1>19. d.entry = h /\ d.table = stored.table /\ d.confirmed = stored.confirmed
  BY <1>15, <1>16 DEF Caches
<1>20. /\ Confirmed(d) = Confirmed(stored) /\ Confirmed(stored) \subseteq 1 .. L /\ Ids(stored) = 1 .. L
       /\ \A i \in 1 .. L : d.entry[i].chain = stored.entry[i].chain /\ d.entry[i].comp = stored.entry[i].comp
  <2>1. /\ Live(d) = {i \in 1 .. L : ~ d.entry[i].free}
        /\ Live(stored) = {i \in 1 .. L : ~ stored.entry[i].free}
        /\ Confirmed(stored) \subseteq 1 .. L /\ Ids(stored) = 1 .. L
    <3>1. Live(d) = {i \in 1 .. L : ~ d.entry[i].free}
      BY <1>16 DEF Live, Ids, Caches
    <3>2. Live(stored) = {i \in 1 .. L : ~ stored.entry[i].free} /\ Ids(stored) = 1 .. L
      BY <1>15 DEF Live, Ids, Caches
    <3>3. Confirmed(stored) \subseteq 1 .. L
      BY ONLY <1>15, L \in Nat, ConfirmedIs, Zenon
    <3> QED BY <3>1, <3>2, <3>3
  <2>2. Live(d) = Live(stored)
    BY <1>17, <1>18, <1>19, <2>1
  <2> QED BY <1>17, <1>18, <1>19, <2>1, <2>2 DEF Confirmed
<1>21. /\ \A i \in Confirmed(stored) : d.entry[i].chain = stored.entry[i].chain /\ d.entry[i].comp = stored.entry[i].comp
       /\ \A i \in (1 .. L) \ Confirmed(stored) : d.entry[i].chain = INVALID_ENTRY
  BY <1>15, <1>20 DEF Tabled
<1>22. Tabled(d)
  BY ONLY <1>15, <1>16, <1>19, <1>20, <1>21, L \in Nat, TabledSame
<1> QED BY <1>22 DEF d

(* What the end of the component of id leaves without a result.            *)
LeavesOpen(c, stored, id) ==
    LET d == SetDeletePermitted(stored, id, TRUE)
    IN  /\ Open(d) \subseteq Open(c)
        /\ \A e \in Open(c) : d.entry[e].created = c.entry[e].created
        /\ stored \in {Store(c, id), StoreZero(c, id)} => id \notin Open(d)
        /\ Live(d) = Live(c) /\ Confirmed(d) \subseteq Confirmed(c) \cup {id}
        /\ \A e \in Live(d) : d.entry[e].comp = c.entry[e].comp /\ d.entry[e].father = c.entry[e].father

LEMMA FinishedOpen ==
  ASSUME NEW K, Hashed(K), NEW L \in Nat, NEW c \in Caches(K, L), NEW id \in Open(c),
         NEW stored \in {Store(c, id), StoreZero(c, id), c}
  PROVE  LeavesOpen(c, stored, id)
<1> DEFINE d == SetDeletePermitted(stored, id, TRUE)
<1>1. /\ Live(c) \subseteq 1 .. L /\ Live(c) = {e \in 1 .. L : ~ c.entry[e].free}
      /\ id \in Live(c) /\ id \in 1 .. L /\ ~ c.entry[id].model
  <2>1. Live(c) \subseteq 1 .. L /\ Live(c) = {e \in 1 .. L : ~ c.entry[e].free}
    BY LiveIs, ZenonT(60)
  <2> QED BY <2>1 DEF Open, Confirmed
<1>2. /\ Concludes(c, Store(c, id), id, L) /\ Concludes(c, StoreZero(c, id), id, L) /\ Concludes(c, c, id, L)
      /\ Store(c, id).entry[id].model /\ StoreZero(c, id).entry[id].zero
  BY <1>1, StoreDoes
<1>3. stored \in Caches(K, L) /\ d \in Caches(K, L)
  <2>1. Store(c, id) \in Caches(K, L) /\ StoreZero(c, id) \in Caches(K, L)
    BY <1>1, StoreType, Zenon
  <2>2. stored \in Caches(K, L) /\ TRUE \in BOOLEAN
    BY <2>1
  <2> QED BY <1>1, <2>2, SetDeleteType, Zenon
<1>4. /\ Concludes(c, stored, id, L)
      /\ stored \in {Store(c, id), StoreZero(c, id)} => stored.entry[id].model \/ stored.entry[id].zero
  BY <1>2
<1>5. /\ Concludes(c, d, id, L)
      /\ d.entry[id].model = stored.entry[id].model /\ d.entry[id].zero = stored.entry[id].zero
  <2>1. Concludes(c, stored, id, L) /\ id \in 1 .. L
    BY <1>1, <1>4
  <2>2. Condemns(c, stored, d, id, L)
    BY <1>3, <2>1, SetDeleteDoes, Zenon
  <2> QED BY <2>2, Zenon DEF Condemns
<1> HIDE DEF d
<1>6. Live(d) = {e \in 1 .. L : ~ d.entry[e].free}
  BY <1>3, LiveIs, Zenon
<1>7. /\ \A e \in 1 .. L : d.entry[e].free = c.entry[e].free /\ d.entry[e].created = c.entry[e].created
      /\ \A e \in 1 .. L : e # id => d.entry[e].model = c.entry[e].model /\ d.entry[e].zero = c.entry[e].zero
  BY <1>5 DEF Concludes, SameUse
<1>8. Live(d) = Live(c)
  BY <1>1, <1>6, <1>7
<1>9. Open(d) \subseteq Open(c)
  BY <1>1, <1>7, <1>8 DEF Open, Confirmed
<1>10. \A e \in Open(c) : d.entry[e].created = c.entry[e].created
  BY <1>1, <1>7 DEF Open
<1>11. stored \in {Store(c, id), StoreZero(c, id)} => id \notin Open(d)
  BY <1>1, <1>4, <1>5, <1>8 DEF Open, Confirmed
<1>12. Confirmed(d) \subseteq Confirmed(c) \cup {id}
  BY <1>1, <1>7, <1>8 DEF Confirmed
<1>13. \A e \in Live(d) : d.entry[e].comp = c.entry[e].comp /\ d.entry[e].father = c.entry[e].father
  BY <1>1, <1>5, <1>8 DEF Concludes, SameUse, SameLinks
<1> QED BY <1>8, <1>9, <1>10, <1>11, <1>12, <1>13 DEF d, LeavesOpen

(* The account and the shape stay when a component that has left the stack *)
(* is done.                                                                *)
LEMMA FinishedShape ==
  ASSUME NEW K, NEW L \in Nat, NEW c \in Caches(K, L), NEW d \in Caches(K, L),
         NEW R, NEW cs \in Stack(L, R), NEW B, Shape(c, cs, B),
         NEW id \in Open(c) \ OnStack(cs), Concludes(c, d, id, L), Tabled(d)
  PROVE  Shape(d, cs, B)
<1>1. Account(c) /\ Blank(c) /\ Guarded(c, OnStack(cs))
  BY DEF Shape, Woven
<1>2. Ids(c) = 1 .. L /\ Ids(d) = 1 .. L /\ Live(c) \subseteq 1 .. L /\ IsFiniteSet(Live(c))
  BY CacheIds, LiveIs, Zenon
<1>3. id \in 1 .. L /\ id \in Live(c) /\ ~ c.entry[id].model /\ ~ c.entry[id].free
  BY <1>2 DEF Open, Confirmed, Live
<1>4. /\ \A e \in 1 .. L : /\ d.entry[e].created = c.entry[e].created /\ d.entry[e].father = c.entry[e].father
                           /\ d.entry[e].first = c.entry[e].first /\ d.entry[e].next = c.entry[e].next
                           /\ d.entry[e].free = c.entry[e].free
      /\ \A e \in 1 .. L : e # id => /\ d.entry[e].model = c.entry[e].model /\ d.entry[e].zero = c.entry[e].zero
                                     /\ d.entry[e].delete = c.entry[e].delete
      /\ d.freeSlots = c.freeSlots /\ c.clock <= d.clock
      /\ d.memory = IF d.entry[id].model THEN c.memory + 1 ELSE c.memory
  BY <1>3 DEF Concludes, SameUse, SameLinks
<1>5. SameTree(c, d, 1 .. L)
  BY <1>4 DEF SameTree, SameLinks
<1>6. Live(d) = Live(c)
  BY <1>5, SameTreeSets, Zenon
<1>7. Account(d)
  <2>1. WithModel(d) = IF d.entry[id].model THEN WithModel(c) \cup {id} ELSE WithModel(c)
    BY <1>2, <1>3, <1>4, <1>6 DEF WithModel
  <2>2. id \notin WithModel(c) /\ IsFiniteSet(WithModel(c)) /\ Cardinality(WithModel(c)) \in Nat
        /\ Cardinality(WithModel(c) \cup {id}) = Cardinality(WithModel(c)) + 1
    <3>1. WithModel(c) \subseteq Live(c) /\ id \notin WithModel(c)
      BY <1>3 DEF WithModel
    <3>2. IsFiniteSet(WithModel(c))
      BY <1>2, <3>1, FS_Subset
    <3> QED BY <3>1, <3>2, FS_CardinalityType, FS_AddElement
  <2>3. Cardinality(Live(c)) \in Nat
    BY <1>2, FS_CardinalityType
  <2>4. c.memory = Cardinality(Live(c)) + Cardinality(WithModel(c))
        /\ ToSet(c.freeSlots) = Ids(c) \ Live(c) /\ IsInjective(c.freeSlots)
    BY <1>1 DEF Account
  <2>5. d.memory = Cardinality(Live(d)) + Cardinality(WithModel(d))
    BY <1>4, <1>6, <2>1, <2>2, <2>3, <2>4
  <2> QED BY <1>2, <1>4, <1>6, <2>4, <2>5 DEF Account
<1>8. Blank(d)
  BY <1>1, <1>2, <1>3, <1>4 DEF Blank, IsBlank
<1>9. Guarded(d, OnStack(cs))
  <2>1. \A e \in OnStack(cs) : e \in 1 .. L /\ e # id
    BY StackIs
  <2> QED BY <1>1, <1>4, <1>6, <2>1 DEF Guarded
<1> QED BY <1>5, <1>7, <1>8, <1>9, ShapeSame, Zenon

(***************************************************************************)
(* cleanDescendants().                                                     *)
(***************************************************************************)

(* The list of every entry but x is that of its children.                  *)
ListedBut(c, x) ==
    \A g \in Live(c) \ {x} : ListOf(Ids(c), NextOf(c), c.entry[g].first, Children(c, g), Kids(c, g))

(* G has id and all that is below it.                                      *)
Subtree(c, id, G) ==
    /\ id \in G /\ G \subseteq Live(c)
    /\ \A e \in G : c.entry[e].created >= c.entry[id].created
    /\ \A e \in G : e = id \/ c.entry[e].father \in G
    /\ \A e \in Live(c) : c.entry[e].father \in G => e \in G

(* Where the walk of cleanPollutions() below id is.                        *)
Walked(c, seen, todo, id, L) ==
    /\ seen \in Seq(1 .. L) /\ todo \in Seq(1 .. L) /\ IsInjective(seen) /\ IsInjective(todo)
    /\ ToSet(seen) \cap ToSet(todo) = {}
    /\ id \in ToSet(seen) \cup ToSet(todo)
    /\ \A e \in ToSet(seen) \cup ToSet(todo) :
         /\ e \in Live(c) /\ c.entry[e].created >= c.entry[id].created
         /\ e = id \/ c.entry[e].father \in ToSet(seen)
    /\ \A e \in Live(c) : c.entry[e].father \in ToSet(seen) => e \in ToSet(seen) \cup ToSet(todo)

LEMMA HeadTailSet ==
  ASSUME NEW S, NEW s \in Seq(S), s # <<>>, IsInjective(s)
  PROVE  /\ Head(s) \in S /\ Tail(s) \in Seq(S) /\ IsInjective(Tail(s))
         /\ ToSet(s) = {Head(s)} \cup ToSet(Tail(s)) /\ Head(s) \notin ToSet(Tail(s))
<1> DEFINE h == Head(s)
           t == Tail(s)
           u == <<h>>
<1>1. h \in S /\ t \in Seq(S) /\ s = <<h>> \o t
  BY HeadTailType, Zenon
<1> HIDE DEF h, t
<1>2. u \in Seq(S) /\ ToSet(u) = {h} /\ s = u \o t
  BY <1>1 DEF ToSet
<1> HIDE DEF u
<1>3. ToSet(s) = ToSet(u) \cup ToSet(t)
  BY ONLY <1>1, <1>2, ConcatSet, SMTT(30)
<1>4. IsInjective(t) /\ ToSet(u) \cap ToSet(t) = {}
  <2>1. IsInjective(u \o t)
    BY <1>2
  <2> QED BY <1>1, <1>2, <2>1, ConcatInjective, Zenon
<1> QED BY <1>1, <1>2, <1>3, <1>4 DEF h, t

LEMMA WalkedOn ==
  ASSUME NEW K, NEW L \in Nat, NEW c \in Caches(K, L), NEW O, Rooted(c, O), NEW x, ListedBut(c, x),
         NEW id \in Live(c), x \in Live(c) => c.entry[x].created < c.entry[id].created,
         NEW seen, NEW todo, Walked(c, seen, todo, id, L), todo # <<>>
  PROVE  Walked(c, <<Head(todo)>> \o seen, Children(c, Head(todo)) \o Tail(todo), id, L)
<1> DEFINE h == Head(todo)
           t == Tail(todo)
           k == Children(c, h)
           S == ToSet(seen)
           T == ToSet(todo)
           R == ToSet(t)
           C == ToSet(k)
           s2 == <<h>> \o seen
           t2 == k \o t
<1>1. /\ seen \in Seq(1 .. L) /\ todo \in Seq(1 .. L) /\ IsInjective(seen) /\ IsInjective(todo)
      /\ \A e \in S : e \notin T
      /\ id \in S \cup T
      /\ \A e \in S \cup T : /\ e \in Live(c) /\ c.entry[e].created >= c.entry[id].created
                             /\ e = id \/ c.entry[e].father \in S
      /\ \A e \in Live(c) : c.entry[e].father \in S => e \in S \cup T
  BY DEF Walked
<1>2. h \in 1 .. L /\ t \in Seq(1 .. L) /\ IsInjective(t) /\ T = {h} \cup R /\ h \notin R
  BY <1>1, HeadTailSet, Zenon
<1>3. Live(c) \subseteq 1 .. L /\ Ids(c) = 1 .. L /\ \A e \in 1 .. L : c.entry[e].created \in Nat
  BY LiveIs, CacheIds DEF Caches, Entries
<1>4. h \in Live(c) /\ h # x
  BY <1>1, <1>2, <1>3
<1>5. k \in Seq(1 .. L) /\ IsInjective(k) /\ C = Kids(c, h)
  BY <1>3, <1>4 DEF ListedBut, ListOf
<1>6. ASSUME NEW e \in C
      PROVE  e \in Live(c) /\ c.entry[e].father = h /\ c.entry[h].created < c.entry[e].created
  <2>1. e \in Live(c) /\ c.entry[e].father = h
    BY <1>5 DEF Kids
  <2>2. e \notin O
    BY <1>2, <2>1 DEF Rooted, INVALID_ENTRY
  <2> QED BY <2>1, <2>2 DEF Rooted
<1>7. ASSUME NEW e \in C, e \in S \cup T PROVE FALSE
  <2>1. e \in Live(c) /\ c.entry[e].father = h /\ c.entry[h].created < c.entry[e].created
    BY <1>6
  <2>2. h \in S \cup T /\ h \notin S
    BY <1>1, <1>2
  <2>3. e = id
    BY <1>1, <1>7, <2>1, <2>2
  <2>4. c.entry[h].created >= c.entry[id].created
    BY <1>1, <2>2
  <2> QED BY <1>3, <1>4, <2>1, <2>3, <2>4
<1> HIDE DEF h, t, k, S, T, R, C
<1>9. s2 \in Seq(1 .. L) /\ ToSet(s2) = {h} \cup S /\ IsInjective(s2)
  <2>1. h \notin ToSet(seen)
    BY <1>1, <1>2 DEF S
  <2> QED BY <1>1, <1>2, <2>1, ConsIs, Zenon DEF S
<1>10. t2 \in Seq(1 .. L) /\ ToSet(t2) = C \cup R /\ IsInjective(t2)
  <2>1. t2 \in Seq(1 .. L) /\ ToSet(t2) = ToSet(k) \cup ToSet(t)
    BY <1>2, <1>5, ConcatSet
  <2>2. ToSet(k) \cap ToSet(t) = {}
    BY <1>2, <1>7 DEF C, R
  <2>3. IsInjective(t2)
    BY <1>2, <1>5, <2>2, ConcatInjective, Zenon
  <2> QED BY <2>1, <2>3 DEF C, R
<1> HIDE DEF s2, t2
<1>11. ToSet(s2) \cap ToSet(t2) = {}
  BY <1>1, <1>2, <1>7, <1>9, <1>10
<1>12. id \in ToSet(s2) \cup ToSet(t2)
  BY <1>1, <1>2, <1>9, <1>10
<1>13. ASSUME NEW e \in ToSet(s2) \cup ToSet(t2)
       PROVE  /\ e \in Live(c) /\ c.entry[e].created >= c.entry[id].created
              /\ e = id \/ c.entry[e].father \in ToSet(s2)
  <2>1. CASE e \in S \cup T
    BY <1>1, <1>9, <2>1
  <2>2. CASE e \in C
    <3>1. c.entry[h].created >= c.entry[id].created /\ h \in 1 .. L /\ e \in 1 .. L /\ id \in 1 .. L
      BY <1>1, <1>2, <1>3, <1>6, <2>2
    <3>2. c.entry[e].created >= c.entry[id].created
      BY <1>3, <1>6, <2>2, <3>1
    <3> QED BY <1>6, <1>9, <2>2, <3>2
  <2> QED BY <1>2, <1>9, <1>10, <2>1, <2>2
<1>14. ASSUME NEW e \in Live(c), c.entry[e].father \in ToSet(s2) PROVE e \in ToSet(s2) \cup ToSet(t2)
  <2>1. CASE c.entry[e].father \in S
    BY <1>1, <1>2, <1>9, <1>10, <2>1
  <2>2. CASE c.entry[e].father = h
    BY <1>5, <1>10, <2>2 DEF Kids
  <2> QED BY <1>9, <1>14, <2>1, <2>2
<1>15. Walked(c, s2, t2, id, L)
  BY <1>9, <1>10, <1>11, <1>12, <1>13, <1>14 DEF Walked
<1> QED BY <1>15, Zenon DEF s2, t2, k, t, h

(* The walk ends: it has seen as many as it has taken steps, and no more   *)
(* than there are entries.                                                 *)
LEMMA FreeOrderIs ==
  ASSUME NEW K, NEW L \in Nat, NEW c \in Caches(K, L), NEW O, Rooted(c, O), NEW x, ListedBut(c, x),
         NEW id \in Live(c), x \in Live(c) => c.entry[x].created < c.entry[id].created
  PROVE  LET order == FreeOrder(c, id)
         IN  order \in Seq(1 .. L) /\ IsInjective(order) /\ Subtree(c, id, ToSet(order))
<1>1. Live(c) \subseteq 1 .. L /\ id \in 1 .. L
  BY LiveIs
<1>2. PICK walk : IsWalk(walk, c, id, L) /\ FreeOrder(c, id) = walk[L].seen
  BY <1>1, WalkSteps, Zenon
<1>3. /\ walk \in [Nat -> Walks(L)]
      /\ walk[0] = [seen |-> <<>>, todo |-> <<id>>]
      /\ \A n \in Nat : walk[n + 1] = NextWalk(c, walk[n])
  BY <1>2, Zenon DEF IsWalk
<1> DEFINE Good(n, w) == Walked(c, w.seen, w.todo, id, L) /\ (w.todo # <<>> => Len(w.seen) = n)
           T == {n \in Nat : Good(n, walk[n])}
<1>4. 0 \in T
  <2> DEFINE w == walk[0]
             t == <<id>>
             s == << >>
  <2>1. w.seen = s /\ w.todo = t
    BY <1>3
  <2>2. s \in Seq(1 .. L) /\ ToSet(s) = {} /\ IsInjective(s) /\ Len(s) = 0
    BY DEF ToSet, IsInjective
  <2>3. t \in Seq(1 .. L) /\ ToSet(t) = {id} /\ IsInjective(t)
    BY <1>1 DEF ToSet, IsInjective
  <2>4. c.entry[id].created >= c.entry[id].created
    BY <1>1 DEF Caches, Entries
  <2> HIDE DEF s, t
  <2>5. Walked(c, s, t, id, L)
    BY <2>2, <2>3, <2>4 DEF Walked
  <2> QED BY <2>1, <2>2, <2>5
<1>5. ASSUME NEW n \in Nat, Good(n, walk[n]) PROVE Good(n + 1, walk[n + 1])
  <2> DEFINE w == walk[n]
             v == walk[n + 1]
  <2>1. v = NextWalk(c, w) /\ w \in Walks(L)
    BY <1>3
  <2>2. Walked(c, w.seen, w.todo, id, L) /\ (w.todo # <<>> => Len(w.seen) = n)
    BY <1>5
  <2> HIDE DEF v, w
  <2>3. CASE w.todo = <<>>
    BY <2>1, <2>2, <2>3 DEF NextWalk, v
  <2>4. CASE w.todo # <<>>
    <3> DEFINE h == Head(w.todo)
               s == <<h>> \o w.seen
               t == Children(c, h) \o Tail(w.todo)
    <3>1. v = [seen |-> s, todo |-> t]
      BY <2>1, <2>4 DEF NextWalk
    <3>2. Walked(c, s, t, id, L)
      BY <2>2, <2>4, WalkedOn, Zenon
    <3>3. Len(s) = n + 1
      <4>1. w.seen \in Seq(1 .. L) /\ w.todo \in Seq(1 .. L)
        BY <2>1 DEF Walks
      <4>2. h \in 1 .. L
        BY <2>4, <4>1, HeadTailType, Zenon
      <4> HIDE DEF h
      <4>3. Len(s) = Len(w.seen) + 1
        BY <4>1, <4>2, ConsIs, Zenon
      <4> QED BY <2>2, <2>4, <4>3
    <3> HIDE DEF s, t
    <3>4. v.seen = s /\ v.todo = t
      BY <3>1
    <3> QED BY <3>2, <3>3, <3>4 DEF v
  <2> QED BY <2>3, <2>4
<1>6. L \in T
  <2>1. T \in SUBSET Nat /\ \A n \in T : n + 1 \in T
    BY <1>5
  <2> HIDE DEF T
  <2>2. T = Nat
    BY <1>4, <2>1, NumberInduction
  <2> QED BY <2>2
<1> DEFINE w == walk[L]
           S == ToSet(w.seen)
<1>7. Walked(c, w.seen, w.todo, id, L) /\ (w.todo # <<>> => Len(w.seen) = L)
  BY <1>6
<1> HIDE DEF w, T
<1>8. /\ w.seen \in Seq(1 .. L) /\ w.todo \in Seq(1 .. L) /\ IsInjective(w.seen)
      /\ ToSet(w.seen) \cap ToSet(w.todo) = {}
      /\ id \in S \cup ToSet(w.todo)
      /\ \A e \in S \cup ToSet(w.todo) :
           /\ e \in Live(c) /\ c.entry[e].created >= c.entry[id].created
           /\ e = id \/ c.entry[e].father \in S
      /\ \A e \in Live(c) : c.entry[e].father \in S => e \in S \cup ToSet(w.todo)
  BY <1>7, Zenon DEF Walked
<1>9. w.todo = <<>>
  <2> SUFFICES ASSUME w.todo # <<>> PROVE FALSE
    OBVIOUS
  <2> DEFINE h == Head(w.todo)
             s == <<h>> \o w.seen
  <2>1. h \in 1 .. L /\ h \in ToSet(w.todo)
    <3>1. w.todo[1] \in ToSet(w.todo) /\ Head(w.todo) = w.todo[1] /\ w.todo[1] \in 1 .. L
      BY <1>8 DEF ToSet
    <3> QED BY <3>1
  <2> HIDE DEF h
  <2>2. h \notin ToSet(w.seen) /\ w.seen \in Seq(1 .. L) /\ IsInjective(w.seen)
    BY <1>8, <2>1
  <2>3. s \in Seq(1 .. L) /\ Len(s) = Len(w.seen) + 1
    BY <2>1, <2>2, ConsIs, Zenon
  <2>4. IsInjective(s)
    BY <2>1, <2>2, ConsIs, Zenon
  <2>5. Len(s) = L + 1
    BY <1>7, <2>3
  <2>6. IsFiniteSet(1 .. L) /\ Cardinality(1 .. L) = L
    BY IntervalFinite
  <2> HIDE DEF s
  <2>7. Len(s) <= L
    BY <2>3, <2>4, <2>6, ListShort
  <2> QED BY <2>5, <2>7
<1>10. ToSet(w.todo) = {}
  BY <1>9 DEF ToSet
<1>11. Subtree(c, id, S)
  BY <1>8, <1>10 DEF Subtree
<1>12. FreeOrder(c, id) = w.seen
  BY <1>2 DEF w
<1> QED BY <1>8, <1>11, <1>12, Zenon

(* d is c without the entries of G.                                        *)
Pruned(c, d, G, L) ==
    /\ \A e \in 1 .. L : e \notin G => OnlyChain(c.entry[e], d.entry[e])
    /\ \A e \in G : d.entry[e].free /\ IsBlank(d.entry[e])
    /\ \A e \in 1 .. L : d.entry[e].created = c.entry[e].created
    /\ d.clock = c.clock /\ Account(d) /\ Tabled(d)

LEMMA PruneOne ==
  ASSUME NEW K, Hashed(K), NEW L \in Nat, NEW c \in Caches(K, L), Account(c), Tabled(c), NEW id \in Live(c)
  PROVE  Pruned(c, FreeEntry(RemoveFromTable(c, id), id), {id}, L)
<1> DEFINE x == RemoveFromTable(c, id)
           d == FreeEntry(x, id)
<1>1. id \in 1 .. L
  BY LiveIs
<1>2. x \in Caches(K, L) /\ d \in Caches(K, L)
  BY <1>1, RemoveFromTableType, FreeEntryType
<1>3. IsUnlinked(c, x, id, L)
  BY <1>1, RemoveFromTableDoes, Zenon
<1>4. IsFreed(x, d, id, L)
  <2> HIDE DEF x
  <2> QED BY <1>1, <1>2, FreeEntryDoes, Zenon
<1> HIDE DEF x, d
<1>5. SameLinks(c, x, 1 .. L) /\ SameUse(c, x, 1 .. L) /\ SameBooks(c, x)
  BY <1>3, Zenon DEF IsUnlinked
<1>6. Account(x)
  BY <1>2, <1>5, SameAccount, Zenon DEF SameBooks
<1>7. id \in Live(x)
  BY <1>2, <1>5, SameUseSets, Zenon
<1>8. Account(d)
  BY <1>2, <1>4, <1>6, <1>7, FreedAccount, Zenon
<1>9. \A e \in 1 .. L : OnlyChain(c.entry[e], x.entry[e])
  BY <1>5 DEF SameLinks, SameUse, OnlyChain
<1>10. Tabled(d)
  BY <1>1, <1>2, <1>3, <1>4, TabledFreed, Zenon
<1>11. \A e \in 1 .. L : d.entry[e].created = c.entry[e].created
  BY <1>4, <1>9 DEF IsFreed, OnlyChain
<1>12. Pruned(c, d, {id}, L)
  BY <1>4, <1>5, <1>8, <1>9, <1>10, <1>11 DEF Pruned, IsFreed, SameBooks
<1> QED BY <1>12 DEF x, d

LEMMA PrunedOn ==
  ASSUME NEW L, NEW c, NEW d, NEW f, NEW G \in SUBSET (1 .. L), NEW H, Pruned(c, d, G, L), Pruned(d, f, H, L)
  PROVE  Pruned(c, f, G \cup H, L)
<1>1. ASSUME NEW e \in 1 .. L, e \notin G \cup H PROVE OnlyChain(c.entry[e], f.entry[e])
  BY <1>1 DEF Pruned, OnlyChain
<1>2. ASSUME NEW e \in G \cup H PROVE f.entry[e].free /\ IsBlank(f.entry[e])
  <2>1. CASE e \in H
    BY <2>1 DEF Pruned
  <2>2. CASE e \notin H
    <3>1. e \in G /\ e \in 1 .. L
      BY <1>2, <2>2
    <3>2. OnlyChain(d.entry[e], f.entry[e]) /\ d.entry[e].free /\ IsBlank(d.entry[e])
      BY <2>2, <3>1 DEF Pruned
    <3> QED BY <3>2 DEF OnlyChain, IsBlank
  <2> QED BY <2>1, <2>2
<1> QED BY <1>1, <1>2 DEF Pruned

LEMMA CleanPollutionsDoes ==
  ASSUME NEW K, Hashed(K), NEW L \in Nat, NEW c \in Caches(K, L), Account(c), Tabled(c), NEW id \in 1 .. L,
         NEW order, order = FreeOrder(c, id), IsInjective(order), ToSet(order) \subseteq Live(c)
  PROVE  Pruned(c, CleanPollutions(c, id), ToSet(order), L)
<1> DEFINE N == Len(order)
           G(n) == {order[i] : i \in 1 .. n}
<1>1. PICK freed : IsFreeing(freed, c, order, K, L) /\ CleanPollutions(c, id) = freed[N]
  BY FreeingSteps, Zenon
<1>2. /\ freed \in [0 .. N -> Caches(K, L)] /\ freed[0] = c
      /\ \A n \in 1 .. N : freed[n] = FreeEntry(RemoveFromTable(freed[n - 1], order[n]), order[n])
  BY <1>1, Zenon DEF IsFreeing
<1>3. order \in Seq(1 .. L) /\ N \in Nat /\ DOMAIN order = 1 .. N
  BY FreeOrderType
<1>4. \A i \in 1 .. N : order[i] \in Live(c) /\ order[i] \in 1 .. L
  <2>1. \A i \in 1 .. N : order[i] \in ToSet(order) /\ order[i] \in 1 .. L
    BY <1>3 DEF ToSet
  <2> QED BY <2>1
<1>5. \A i, j \in 1 .. N : order[i] = order[j] => i = j
  BY <1>3 DEF IsInjective
<1> DEFINE T == {n \in 0 .. N : Pruned(c, freed[n], G(n), L)}
<1>6. 0 \in T
  <2>1. G(0) = {}
    OBVIOUS
  <2>2. Pruned(c, c, {}, L)
    BY DEF Pruned, OnlyChain
  <2>3. Pruned(c, freed[0], G(0), L)
    BY ONLY <1>2, <2>1, <2>2
  <2>4. 0 \in 0 .. N
    BY <1>3
  <2> QED BY <2>3, <2>4
<1>7. ASSUME NEW n \in 1 .. N, n - 1 \in T PROVE n \in T
  <2> DEFINE d == freed[n - 1]
             g == G(n - 1)
             x == order[n]
             f == freed[n]
  <2>1. Pruned(c, d, g, L) /\ n - 1 \in 0 .. N /\ n \in 0 .. N
    BY <1>3, <1>7
  <2>2. d \in Caches(K, L) /\ f = FreeEntry(RemoveFromTable(d, x), x)
    BY <1>2, <2>1
  <2>3. x \in 1 .. L /\ x \in Live(c)
    BY <1>4
  <2>4. \A i \in 1 .. n - 1 : i \in 1 .. N /\ i # n
    BY <1>3
  <2>5. x \notin g
    BY <1>5, <2>4
  <2>6. g \in SUBSET (1 .. L)
    BY <1>4, <2>4
  <2>7. G(n) = g \cup {x}
    <3>1. \A i \in 1 .. n : i \in 1 .. n - 1 \/ i = n
      BY <1>3
    <3>2. n \in 1 .. n /\ \A i \in 1 .. n - 1 : i \in 1 .. n
      BY <1>3
    <3> QED BY <3>1, <3>2
  <2> HIDE DEF d, g, x, f, G
  <2>8. x \in Live(d)
    <3>1. OnlyChain(c.entry[x], d.entry[x])
      BY <2>1, <2>3, <2>5 DEF Pruned
    <3>2. Live(d) = {e \in 1 .. L : ~ d.entry[e].free} /\ Live(c) = {e \in 1 .. L : ~ c.entry[e].free}
      BY <2>2, LiveIs, ZenonT(60)
    <3> QED BY <2>3, <3>1, <3>2 DEF OnlyChain
  <2>9. Account(d) /\ Tabled(d)
    BY <2>1 DEF Pruned
  <2>10. Pruned(d, f, {x}, L)
    BY <2>2, <2>8, <2>9, PruneOne, Zenon
  <2>11. Pruned(c, f, g \cup {x}, L)
    BY <2>1, <2>6, <2>10, PrunedOn, Zenon
  <2> QED BY <2>1, <2>7, <2>11 DEF f
<1>8. N \in T
  <2> HIDE DEF T
  <2>1. \A n \in 0 .. N : n \in T
    BY <1>3, <1>6, <1>7, BoundedSteps, Zenon
  <2> QED BY <1>3, <2>1
<1>9. ToSet(order) = G(N)
  BY <1>3 DEF ToSet
<1> QED BY <1>1, <1>8, <1>9

(* The entries of G are all below x, with everything below them.           *)
Pruning(c, G, O, x) ==
    /\ G \subseteq Live(c) /\ G \cap O = {}
    /\ \A e \in G : c.entry[e].father \in G \cup {x}
    /\ \A e \in Live(c) : c.entry[e].father \in G => e \in G

(* The tree without them.                                                  *)
LEMMA PrunedTree ==
  ASSUME NEW K, NEW L \in Nat, NEW c \in Caches(K, L), NEW O, Rooted(c, O), NEW x, ListedBut(c, x),
         NEW d \in Caches(K, L), NEW G, Pruning(c, G, O, x), Pruned(c, d, G, L)
  PROVE  /\ Live(d) = Live(c) \ G /\ Rooted(d, O) /\ ListedBut(d, x)
         /\ \A g \in Live(d) \ {x} : Children(d, g) = Children(c, g)
         /\ \A e \in Live(d) : OnlyChain(c.entry[e], d.entry[e]) /\ NextOf(d)[e] = NextOf(c)[e]
         /\ Kids(d, x) = Kids(c, x) \ G
<1>1. /\ Live(c) \subseteq 1 .. L /\ Live(c) = {e \in 1 .. L : ~ c.entry[e].free}
      /\ Live(d) = {e \in 1 .. L : ~ d.entry[e].free} /\ Ids(c) = 1 .. L /\ Ids(d) = 1 .. L
  <2>1. Live(c) \subseteq 1 .. L /\ Live(c) = {e \in 1 .. L : ~ c.entry[e].free}
    BY LiveIs, Zenon
  <2>2. Live(d) = {e \in 1 .. L : ~ d.entry[e].free}
    BY LiveIs, Zenon
  <2>3. Ids(c) = 1 .. L /\ Ids(d) = 1 .. L
    BY CacheIds
  <2> QED BY <2>1, <2>2, <2>3
<1>2. /\ G \subseteq Live(c) /\ G \cap O = {}
      /\ \A e \in G : c.entry[e].father \in G \cup {x}
      /\ \A e \in Live(c) : c.entry[e].father \in G => e \in G
  BY DEF Pruning
<1>3. /\ \A e \in 1 .. L : e \notin G => OnlyChain(c.entry[e], d.entry[e])
      /\ \A e \in G : d.entry[e].free
      /\ d.clock = c.clock
  BY DEF Pruned
<1>4. Live(d) = Live(c) \ G
  BY <1>1, <1>2, <1>3 DEF OnlyChain
<1>5. \A e \in Live(d) : OnlyChain(c.entry[e], d.entry[e]) /\ NextOf(d)[e] = NextOf(c)[e]
  BY <1>1, <1>3, <1>4 DEF NextOf, OnlyChain
<1>6. Rooted(d, O)
  <2>1. O \subseteq Live(d) /\ \A e \in O : d.entry[e].father = INVALID_ENTRY
    BY <1>2, <1>4, <1>5 DEF Rooted, OnlyChain
  <2>2. ASSUME NEW e \in Live(d) \ O
        PROVE  d.entry[e].father \in Live(d) /\ d.entry[d.entry[e].father].created < d.entry[e].created
    <3> DEFINE p == c.entry[e].father
    <3>1. e \in Live(c) \ O /\ p \in Live(c) /\ c.entry[p].created < c.entry[e].created /\ d.entry[e].father = p
      BY <1>4, <1>5, <2>2 DEF Rooted, OnlyChain
    <3>2. p \in Live(d)
      BY <1>2, <1>4, <2>2, <3>1
    <3> QED BY <1>5, <2>2, <3>1, <3>2 DEF OnlyChain
  <2>3. \A e \in Live(d) : d.entry[e].created < d.clock
    BY <1>3, <1>4, <1>5 DEF Rooted, OnlyChain
  <2> QED BY <2>1, <2>2, <2>3 DEF Rooted
<1>7. ASSUME NEW g \in Live(d) \ {x}
      PROVE  /\ ListOf(Ids(d), NextOf(d), d.entry[g].first, Children(d, g), Kids(d, g))
             /\ Children(d, g) = Children(c, g)
  <2> DEFINE s == Children(c, g)
  <2>1. g \in Live(c) \ {x} /\ g \notin G /\ g \in 1 .. L /\ d.entry[g].first = c.entry[g].first
    BY <1>1, <1>4, <1>5 DEF OnlyChain
  <2>2. ListOf(1 .. L, NextOf(c), c.entry[g].first, s, Kids(c, g))
    BY <1>1, <2>1, Zenon DEF ListedBut
  <2>3. \A e \in Kids(c, g) : e \in Live(d)
    BY <1>2, <1>4, <2>1 DEF Kids
  <2>4. \A e \in Kids(c, g) : NextOf(d)[e] = NextOf(c)[e]
    BY <1>5, <2>3
  <2>5. Kids(d, g) = Kids(c, g)
    BY <1>4, <1>5, <2>3 DEF Kids, OnlyChain
  <2> HIDE DEF s
  <2>6. ListOf(1 .. L, NextOf(d), d.entry[g].first, s, Kids(d, g))
    BY <2>1, <2>2, <2>4, <2>5, ListFrame
  <2>7. Children(d, g) = s /\ ListOf(Ids(d), NextOf(d), d.entry[g].first, Children(d, g), Kids(d, g))
    BY <2>1, <2>6, ChildrenAre, Zenon
  <2> QED BY <2>7 DEF s
<1>8. Kids(d, x) = Kids(c, x) \ G
  BY <1>4, <1>5 DEF Kids, OnlyChain
<1> QED BY <1>4, <1>5, <1>6, <1>7, <1>8 DEF ListedBut

(* d is c without the first k children of x and what is below them.        *)
Weeded(c, d, x, t, k, O, L, G) ==
    /\ Pruning(c, G, O, x) /\ Pruned(c, d, G, L)
    /\ \A e \in G : c.entry[e].created >= t
    /\ Kids(c, x) \cap G = {Children(c, x)[i] : i \in 1 .. k}

(* One more child is freed with what is below it.                          *)
LEMMA WeededOn ==
  ASSUME NEW K, Hashed(K), NEW L \in Nat, NEW c \in Caches(K, L), NEW O, Woven(c, O),
         NEW t \in Nat, NEW x \in Live(c), c.entry[x].created < t,
         NEW k \in 1 .. Len(Children(c, x)), NEW y, y = Children(c, x)[k], c.entry[y].created >= t,
         NEW d \in Caches(K, L), NEW G, Weeded(c, d, x, t, k - 1, O, L, G)
  PROVE  \E H : Weeded(c, CleanPollutions(d, y), x, t, k, O, L, H)
<1> DEFINE kids == Children(c, x)
           order == FreeOrder(d, y)
           H == ToSet(order)
           f == CleanPollutions(d, y)
<1>1. Pruning(c, G, O, x) /\ Pruned(c, d, G, L) /\ Rooted(c, O) /\ Listed(c) /\ Account(c)
  BY Zenon DEF Weeded, Woven
<1>2. /\ \A e \in G : c.entry[e].created >= t
      /\ Kids(c, x) \cap G = {kids[i] : i \in 1 .. k - 1}
  BY DEF Weeded
<1>3. ListedBut(c, x)
  BY <1>1 DEF Listed, ListedBut
<1>4. /\ Live(d) = Live(c) \ G /\ Rooted(d, O) /\ ListedBut(d, x)
      /\ \A e \in Live(d) : OnlyChain(c.entry[e], d.entry[e])
      /\ Kids(d, x) = Kids(c, x) \ G
  BY ONLY <1>1, <1>3, L \in Nat, c \in Caches(K, L), d \in Caches(K, L), PrunedTree
<1>5. Live(c) \subseteq 1 .. L /\ Ids(c) = 1 .. L
  <2>1. Live(c) \subseteq 1 .. L
    BY LiveIs, Zenon
  <2>2. Ids(c) = 1 .. L
    BY CacheIds, Zenon
  <2> QED BY <2>1, <2>2
<1>6. kids \in Seq(1 .. L) /\ IsInjective(kids) /\ ToSet(kids) = Kids(c, x)
  BY <1>1, <1>5, Zenon DEF Listed, ListOf
<1>7. y \in Kids(c, x) /\ y \notin G
  <2>1. y \in ToSet(kids)
    BY <1>6 DEF ToSet
  <2>2. \A i \in 1 .. k - 1 : kids[i] # y
    BY <1>6 DEF IsInjective
  <2>3. y \in Kids(c, x)
    BY <1>6, <2>1, Zenon
  <2> HIDE DEF kids
  <2> QED BY <1>2, <2>2, <2>3
<1>8. y \in Live(c) /\ y \in Live(d) /\ c.entry[y].father = x /\ y \in 1 .. L
  BY <1>4, <1>5, <1>7 DEF Kids
<1>9. x \in Live(d) /\ d.entry[x].created = c.entry[x].created /\ d.entry[y].created = c.entry[y].created
  <2>1. x \notin G
    <3>1. c.entry[x].created \in Nat
      BY <1>5 DEF Caches, Entries
    <3> QED BY <1>2, <3>1
  <2>2. x \in Live(d)
    BY <1>4, <2>1
  <2> QED BY <1>4, <1>8, <2>2 DEF OnlyChain
<1>10. \A e \in Live(c) : c.entry[e].created \in Nat
  BY <1>5 DEF Caches, Entries
<1>11. d.entry[x].created < d.entry[y].created
  BY <1>8, <1>9, <1>10
<1>12. order \in Seq(1 .. L) /\ IsInjective(order) /\ Subtree(d, y, H)
  BY <1>4, <1>8, <1>11, FreeOrderIs
<1>13. /\ y \in H /\ H \subseteq Live(d)
       /\ \A e \in H : d.entry[e].created >= d.entry[y].created
       /\ \A e \in H : e = y \/ d.entry[e].father \in H
       /\ \A e \in Live(d) : d.entry[e].father \in H => e \in H
  BY <1>12, Zenon DEF Subtree
<1>14. Account(d) /\ Tabled(d)
  BY <1>1, Zenon DEF Pruned
<1>15. Pruned(d, f, H, L)
  BY <1>8, <1>12, <1>13, <1>14, CleanPollutionsDoes, Zenon
<1>16. G \in SUBSET (1 .. L)
  BY <1>1, <1>5 DEF Pruning
<1>17. Pruned(c, f, G \cup H, L)
  BY <1>1, <1>15, <1>16, PrunedOn, Zenon
<1> HIDE DEF order, H, f
<1>18. /\ G \subseteq Live(c) /\ G \cap O = {}
       /\ \A e \in G : c.entry[e].father \in G \cup {x}
       /\ \A e \in Live(c) : c.entry[e].father \in G => e \in G
  BY <1>1, Zenon DEF Pruning
<1>19. ASSUME NEW e \in H
       PROVE  /\ e \in Live(c) /\ c.entry[e].created >= t
              /\ (e = y /\ c.entry[e].father = x) \/ c.entry[e].father \in H
  <2>1. e \in Live(d) /\ e \in Live(c) /\ OnlyChain(c.entry[e], d.entry[e])
    BY <1>4, <1>13
  <2>2. c.entry[e].created >= c.entry[y].created
    BY <1>9, <1>13, <2>1 DEF OnlyChain
  <2>3. c.entry[e].created >= t
    <3>1. ASSUME NEW p \in Nat, NEW q \in Nat, p >= q, q >= t PROVE p >= t
      BY <3>1
    <3>2. c.entry[e].created \in Nat /\ c.entry[y].created \in Nat
      BY <1>8, <1>10, <2>1
    <3> QED BY <2>2, <3>1, <3>2, Zenon
  <2> QED BY <1>8, <1>13, <2>1, <2>3 DEF OnlyChain
<1>20. Pruning(c, G \cup H, O, x)
  <2>1. H \cap O = {}
    <3> SUFFICES ASSUME NEW e \in H, e \in O PROVE FALSE
      OBVIOUS
    <3>1. c.entry[e].father = 0
      BY <1>1 DEF Rooted, INVALID_ENTRY
    <3>2. x \in 1 .. L /\ H \subseteq 1 .. L
      BY <1>5, <1>19
    <3> QED BY <1>19, <3>1, <3>2
  <2>2. ASSUME NEW e \in Live(c), c.entry[e].father \in G \cup H PROVE e \in G \cup H
    <3>1. CASE c.entry[e].father \in G
      BY <1>18, <3>1
    <3>2. CASE e \in G
      BY <3>2
    <3>3. CASE c.entry[e].father \in H /\ e \notin G
      <4>1. e \in Live(d) /\ d.entry[e].father = c.entry[e].father
        BY <1>4, <3>3 DEF OnlyChain
      <4> QED BY <1>13, <3>3, <4>1
    <3> QED BY <2>2, <3>1, <3>2, <3>3
  <2>3. \A e \in G \cup H : c.entry[e].father \in (G \cup H) \cup {x}
    BY <1>18, <1>19
  <2>4. G \cup H \subseteq Live(c) /\ (G \cup H) \cap O = {}
    BY <1>18, <1>19, <2>1
  <2> QED BY <2>2, <2>3, <2>4 DEF Pruning
<1>21. Kids(c, x) \cap (G \cup H) = {kids[i] : i \in 1 .. k}
  <2>1. x \notin H
    BY <1>10, <1>19
  <2>2. \A e \in Kids(c, x) : c.entry[e].father = x
    BY DEF Kids
  <2>3. Kids(c, x) \cap H = {y}
    BY <1>7, <1>13, <1>19, <2>1, <2>2
  <2>4. {kids[i] : i \in 1 .. k} = {kids[i] : i \in 1 .. k - 1} \cup {y}
    <3>1. k \in Nat /\ k >= 1
      BY <1>6
    <3>2. \A i \in 1 .. k : i \in 1 .. k - 1 \/ i = k
      BY <3>1
    <3>3. k \in 1 .. k /\ \A i \in 1 .. k - 1 : i \in 1 .. k
      BY <3>1
    <3> QED BY <3>2, <3>3
  <2> HIDE DEF kids
  <2> QED BY <1>2, <2>3, <2>4
<1>22. \A e \in G \cup H : c.entry[e].created >= t
  BY <1>2, <1>19
<1>23. Weeded(c, f, x, t, k, O, L, G \cup H)
  BY <1>17, <1>20, <1>21, <1>22 DEF Weeded
<1> QED BY <1>23 DEF f

(* CleanDescendants(c, x, t) is d, without the entries of G.               *)
Cleaned(c, d, x, t, O, L, G) ==
    /\ Pruning(c, G, O, x) /\ \A e \in G : c.entry[e].created >= t
    /\ Live(d) = Live(c) \ G /\ d.clock = c.clock /\ Woven(d, O)
    /\ \A e \in Live(d) :
         /\ d.entry[e].father = c.entry[e].father /\ d.entry[e].created = c.entry[e].created
         /\ d.entry[e].comp = c.entry[e].comp /\ d.entry[e].model = c.entry[e].model
         /\ d.entry[e].zero = c.entry[e].zero /\ d.entry[e].delete = c.entry[e].delete
    /\ \A g \in Live(d) \ {x} : Children(d, g) = Children(c, g)
    /\ \E a, b \in Seq(1 .. L) : /\ Children(c, x) = a \o b /\ ToSet(a) \subseteq G
                                 /\ Children(d, x) = b
                                 /\ b # <<>> => c.entry[b[1]].created < t
    /\ \A e \in 1 .. L : d.entry[e].created = c.entry[e].created

(* The first entry of the list of x is another one.                        *)
IsLed(f, d, x, p, L) ==
    /\ SameUse(f, d, 1 .. L) /\ SameBooks(f, d) /\ SameTable(f, d, 1 .. L)
    /\ \A e \in 1 .. L : d.entry[e].father = f.entry[e].father /\ d.entry[e].next = f.entry[e].next
    /\ \A e \in 1 .. L : d.entry[e].first = IF e = x THEN p ELSE f.entry[e].first

LEMMA SetFirstDoes ==
  ASSUME NEW K, NEW L \in Nat, NEW f \in Caches(K, L), NEW x \in 1 .. L, NEW p \in Pointers(L)
  PROVE  IsLed(f, SetFirst(f, x, p), x, p, L)
<1> DEFINE g == [f.entry EXCEPT ![x] = [f.entry[x] EXCEPT !.first = p]]
           d == SetFirst(f, x, p)
<1>1. d = [f EXCEPT !.entry = g] /\ d.entry = g
  BY DEF SetFirst, Caches
<1>2. \A e \in 1 .. L : g[e] = IF e = x THEN [f.entry[x] EXCEPT !.first = p] ELSE f.entry[e]
  BY DEF Caches
<1>3. \A e \in 1 .. L : f.entry[e] \in Entries(K, L)
  BY DEF Caches
<1> HIDE DEF g
<1>4. SameBooks(f, d) /\ d.table = f.table /\ d.confirmed = f.confirmed
  BY <1>1 DEF SameBooks, Caches
<1> HIDE DEF d
<1>5. ASSUME NEW e \in 1 .. L
      PROVE  /\ OnlyLinks(f.entry[e], d.entry[e]) /\ d.entry[e].father = f.entry[e].father
             /\ d.entry[e].next = f.entry[e].next
             /\ d.entry[e].first = IF e = x THEN p ELSE f.entry[e].first
  BY <1>1, <1>2, <1>3 DEF Entries, OnlyLinks
<1>6. SameUse(f, d, 1 .. L) /\ SameTable(f, d, 1 .. L)
  BY <1>4, <1>5 DEF SameUse, SameTable, OnlyLinks
<1>7. IsLed(f, d, x, p, L)
  BY <1>4, <1>5, <1>6 DEF IsLed
<1> QED BY <1>7 DEF d

LEMMA CleanDescendantsDoes ==
  ASSUME NEW K, Hashed(K), NEW L \in Nat, NEW c \in Caches(K, L), NEW O, Woven(c, O),
         NEW t \in Nat, NEW x \in Live(c), c.entry[x].created < t
  PROVE  \E G : Cleaned(c, CleanDescendants(c, x, t), x, t, O, L, G)
<1> DEFINE kids == Children(c, x)
           n == Young(c, x, t)
           p == FirstKept(c, x, n)
           d == CleanDescendants(c, x, t)
<1>1. Live(c) \subseteq 1 .. L /\ Ids(c) = 1 .. L /\ x \in 1 .. L
  <2>1. Live(c) \subseteq 1 .. L
    BY LiveIs, Zenon
  <2>2. Ids(c) = 1 .. L
    BY CacheIds, Zenon
  <2> QED BY <2>1, <2>2
<1>2. /\ n \in 0 .. Len(kids)
      /\ \A k \in 1 .. n : ~ (c.entry[kids[k]].created < t)
      /\ n # Len(kids) => c.entry[kids[n + 1]].created < t
  BY <1>1, CleaningSteps, Zenon
<1>3. PICK cleaned : IsCleaning(cleaned, c, x, n, K, L) /\ d = SetFirst(cleaned[n], x, p)
  BY ONLY <1>1, Hashed(K), L \in Nat, c \in Caches(K, L), CleaningSteps
<1>4. /\ cleaned \in [0 .. n -> Caches(K, L)] /\ cleaned[0] = c
      /\ \A k \in 1 .. n : cleaned[k] = CleanPollutions(cleaned[k - 1], kids[k])
  BY <1>3, Zenon DEF IsCleaning
<1>5. Account(c) /\ Blank(c) /\ Tabled(c) /\ Rooted(c, O) /\ Listed(c)
  BY Zenon DEF Woven
<1>6. ListOf(1 .. L, NextOf(c), c.entry[x].first, kids, Kids(c, x))
  BY <1>1, <1>5, Zenon DEF Listed
<1>7. kids \in Seq(1 .. L) /\ IsInjective(kids) /\ ToSet(kids) = Kids(c, x)
  BY <1>6, Zenon DEF ListOf
<1>8. n \in Nat /\ n <= Len(kids)
  BY <1>2, <1>7
<1>9. p = IF n = Len(kids) THEN INVALID_ENTRY ELSE kids[n + 1]
  BY Zenon DEF FirstKept
<1> HIDE DEF kids, n, p, d
<1> DEFINE T == {k \in 0 .. n : \E G : Weeded(c, cleaned[k], x, t, k, O, L, G)}
<1>10. 0 \in T
  <2>1. Pruning(c, {}, O, x)
    BY DEF Pruning
  <2>2. Pruned(c, c, {}, L)
    BY <1>5 DEF Pruned, OnlyChain
  <2>3. Kids(c, x) \cap {} = {Children(c, x)[i] : i \in 1 .. 0}
    OBVIOUS
  <2>4. Weeded(c, c, x, t, 0, O, L, {})
    BY <2>1, <2>2, <2>3 DEF Weeded
  <2>5. 0 \in 0 .. n
    BY <1>8
  <2>6. Weeded(c, cleaned[0], x, t, 0, O, L, {})
    BY <1>4, <2>4, Zenon
  <2> QED BY <2>5, <2>6
<1>11. ASSUME NEW k \in 1 .. n, k - 1 \in T PROVE k \in T
  <2> DEFINE f == cleaned[k - 1]
             y == kids[k]
  <2>1. PICK G : Weeded(c, f, x, t, k - 1, O, L, G)
    BY <1>11
  <2>2. k \in 1 .. Len(Children(c, x)) /\ k - 1 \in 0 .. n /\ k \in 0 .. n
    BY <1>8 DEF kids
  <2>3. f \in Caches(K, L) /\ cleaned[k] = CleanPollutions(f, y)
    BY <1>4, <2>2
  <2>4. y = Children(c, x)[k] /\ y \in 1 .. L
    BY <1>7, <2>2 DEF kids
  <2>5. c.entry[y].created >= t
    <3>1. c.entry[y].created \in Nat
      BY <2>4 DEF Caches, Entries
    <3> QED BY <1>2, <3>1
  <2> HIDE DEF f, y
  <2>6. \E H : Weeded(c, CleanPollutions(f, y), x, t, k, O, L, H)
    BY <2>1, <2>2, <2>3, <2>4, <2>5, WeededOn, Zenon
  <2> QED BY <2>2, <2>3, <2>6, Zenon
<1>12. n \in T
  <2> HIDE DEF T
  <2>1. \A k \in 0 .. n : k \in T
    BY <1>8, <1>10, <1>11, BoundedSteps, Zenon
  <2>2. n \in 0 .. n
    BY <1>8
  <2> QED BY <2>1, <2>2
<1> DEFINE f == cleaned[n]
<1>13. PICK G : Weeded(c, f, x, t, n, O, L, G)
  BY <1>12
<1>14. f \in Caches(K, L) /\ d = SetFirst(f, x, p)
  <2>1. n \in 0 .. n
    BY <1>8
  <2> QED BY <1>3, <1>4, <2>1, Zenon
<1> HIDE DEF f, T
<1>15. /\ Pruning(c, G, O, x) /\ Pruned(c, f, G, L) /\ \A e \in G : c.entry[e].created >= t
       /\ Kids(c, x) \cap G = {kids[i] : i \in 1 .. n}
  BY <1>13 DEF Weeded, kids
<1>16. ListedBut(c, x)
  BY <1>5 DEF Listed, ListedBut
<1>17. /\ Live(f) = Live(c) \ G /\ Rooted(f, O) /\ ListedBut(f, x)
       /\ \A g \in Live(f) \ {x} : Children(f, g) = Children(c, g)
       /\ \A e \in Live(f) : OnlyChain(c.entry[e], f.entry[e]) /\ NextOf(f)[e] = NextOf(c)[e]
       /\ Kids(f, x) = Kids(c, x) \ G
  BY ONLY <1>5, <1>14, <1>15, <1>16, L \in Nat, c \in Caches(K, L), PrunedTree
<1>18. p \in Pointers(L)
  <2>1. n # Len(kids) => n + 1 \in 1 .. Len(kids)
    BY <1>7, <1>8
  <2> QED BY <1>7, <1>9, <2>1 DEF Pointers
<1>19. d \in Caches(K, L) /\ IsLed(f, d, x, p, L)
  <2>1. SetFirst(f, x, p) \in Caches(K, L)
    BY <1>1, <1>14, <1>18, FirstChanged, Zenon
  <2>2. IsLed(f, SetFirst(f, x, p), x, p, L)
    BY <1>1, <1>14, <1>18, SetFirstDoes, Zenon
  <2> QED BY <1>14, <2>1, <2>2
<1>20. SameUse(f, d, 1 .. L) /\ SameBooks(f, d)
  BY <1>19, Zenon DEF IsLed
<1>21. \A e \in 1 .. L :
         /\ d.entry[e].father = f.entry[e].father /\ d.entry[e].next = f.entry[e].next
         /\ d.entry[e].first = IF e = x THEN p ELSE f.entry[e].first
  BY <1>19, Zenon DEF IsLed
<1>22. Live(d) = Live(f) /\ Live(d) \subseteq 1 .. L /\ Ids(d) = 1 .. L /\ Ids(f) = 1 .. L
  <2>1. Live(d) = Live(f)
    BY <1>14, <1>19, <1>20, SameUseSets, ZenonT(60)
  <2>2. Live(d) \subseteq 1 .. L
    BY <1>19, LiveIs, Zenon
  <2>3. Ids(d) = 1 .. L /\ Ids(f) = 1 .. L
    BY <1>14, <1>19, CacheIds
  <2> QED BY <2>1, <2>2, <2>3
<1>23. ASSUME NEW e \in Live(d)
       PROVE  /\ d.entry[e].father = c.entry[e].father /\ d.entry[e].created = c.entry[e].created
              /\ d.entry[e].comp = c.entry[e].comp /\ d.entry[e].model = c.entry[e].model
              /\ d.entry[e].zero = c.entry[e].zero /\ d.entry[e].delete = c.entry[e].delete
  <2>1. e \in 1 .. L /\ OnlyChain(c.entry[e], f.entry[e])
    BY <1>17, <1>22
  <2> QED BY <1>20, <1>21, <2>1 DEF OnlyChain, SameUse
<1>24. d.clock = c.clock
  BY <1>15, <1>20 DEF Pruned, SameBooks
<1>25. Account(d)
  <2>1. Account(f)
    BY <1>15, Zenon DEF Pruned
  <2>2. d.memory = f.memory /\ d.freeSlots = f.freeSlots
    BY <1>20 DEF SameBooks
  <2> QED BY <1>14, <1>19, <1>20, <2>1, <2>2, SameAccount, Zenon
<1>26. Blank(d)
  <2> SUFFICES ASSUME NEW e \in 1 .. L, d.entry[e].free PROVE IsBlank(d.entry[e])
    BY <1>22 DEF Blank
  <2>1. f.entry[e].free
    BY <1>20 DEF SameUse
  <2>2. e \notin Live(f)
    BY <2>1 DEF Live
  <2>3. e # x
    <3>1. ~ c.entry[x].free /\ x \in Live(c)
      BY DEF Live
    <3>2. x \notin G
      <4>1. c.entry[x].created \in Nat
        BY <1>1 DEF Caches, Entries
      <4> QED BY <1>15, <4>1
    <3> QED BY <1>17, <2>2, <3>2
  <2>4. IsBlank(f.entry[e])
    <3>1. CASE e \in G
      BY <1>15, <3>1 DEF Pruned
    <3>2. CASE e \notin G
      <4>1. OnlyChain(c.entry[e], f.entry[e])
        BY <1>15, <3>2 DEF Pruned
      <4>2. IsBlank(c.entry[e])
        BY <1>1, <1>5, <2>1, <4>1 DEF OnlyChain, Blank
      <4> QED BY <4>1, <4>2 DEF OnlyChain, IsBlank
    <3> QED BY <3>1, <3>2
  <2> QED BY <1>20, <1>21, <2>3, <2>4 DEF IsBlank, SameUse
<1>27. Rooted(d, O)
  <2>1. \A e \in Live(f) : d.entry[e].father = f.entry[e].father /\ d.entry[e].created = f.entry[e].created
    BY <1>20, <1>21, <1>22 DEF SameUse
  <2>2. d.clock = f.clock
    BY <1>20 DEF SameBooks
  <2> QED BY <1>17, <1>22, <2>1, <2>2 DEF Rooted
<1>28. NextOf(d) = NextOf(f)
  BY <1>21, <1>22 DEF NextOf
<1>29. \A g : Kids(d, g) = Kids(f, g)
  BY <1>21, <1>22 DEF Kids
<1>30. ASSUME NEW g \in Live(d) \ {x}
       PROVE  /\ Children(d, g) = Children(c, g)
              /\ ListOf(Ids(d), NextOf(d), d.entry[g].first, Children(d, g), Kids(d, g))
  <2>1. ListOf(1 .. L, NextOf(f), f.entry[g].first, Children(f, g), Kids(f, g))
    BY <1>17, <1>22 DEF ListedBut
  <2>2. g \in 1 .. L /\ d.entry[g].first = f.entry[g].first
    BY <1>21, <1>22
  <2>3. ListOf(1 .. L, NextOf(d), d.entry[g].first, Children(f, g), Kids(d, g))
    BY <1>28, <1>29, <2>1, <2>2, Zenon
  <2>4. /\ Children(d, g) = Children(f, g)
        /\ ListOf(Ids(d), NextOf(d), d.entry[g].first, Children(d, g), Kids(d, g))
    BY <1>19, <2>2, <2>3, ChildrenAre, Zenon
  <2> QED BY <1>17, <1>22, <2>4
<1>31. PICK a, b \in Seq(1 .. L) :
         /\ kids = a \o b
         /\ ToSet(a) = {kids[i] : i \in 1 .. n}
         /\ ListOf(1 .. L, NextOf(c), p, b, Kids(c, x) \ ToSet(a))
  BY <1>2, <1>6, <1>9, ListRest
<1>32. ToSet(a) \subseteq G /\ Kids(c, x) \ ToSet(a) = Kids(d, x)
  <2>1. ToSet(a) = Kids(c, x) \cap G
    BY <1>15, <1>31, Zenon
  <2>2. Kids(d, x) = Kids(c, x) \ G
    BY <1>17, <1>29, Zenon
  <2> QED BY <2>1, <2>2
<1>33. \A e \in Kids(d, x) : NextOf(d)[e] = NextOf(c)[e]
  <2>1. Kids(d, x) \subseteq Live(f)
    BY <1>22 DEF Kids
  <2> QED BY <1>17, <1>28, <2>1
<1>34. /\ Children(d, x) = b
       /\ ListOf(Ids(d), NextOf(d), d.entry[x].first, Children(d, x), Kids(d, x))
  <2>1. ListOf(1 .. L, NextOf(c), p, b, Kids(d, x))
    BY <1>31, <1>32, Zenon
  <2>2. ListOf(1 .. L, NextOf(d), p, b, Kids(d, x))
    BY <1>33, <2>1, ListFrame, Zenon
  <2>3. d.entry[x].first = p
    BY <1>1, <1>21
  <2> QED BY <1>1, <1>19, <2>2, <2>3, ChildrenAre, Zenon
<1>35. Listed(d)
  BY <1>30, <1>34, Zenon DEF Listed
<1>36. b # <<>> => c.entry[b[1]].created < t
  <2> SUFFICES ASSUME b # <<>> PROVE c.entry[b[1]].created < t
    OBVIOUS
  <2>1. p = b[1] /\ b[1] \in 1 .. L
    BY <1>31 DEF ListOf, Piece
  <2>2. p # INVALID_ENTRY
    BY <2>1 DEF INVALID_ENTRY
  <2> QED BY <1>2, <1>9, <2>1, <2>2
<1>37. Woven(d, O)
  <2>1. Tabled(f) /\ SameTable(f, d, 1 .. L)
    BY <1>15, <1>19, Zenon DEF Pruned, IsLed
  <2>2. Tabled(d)
    BY <1>14, <1>19, <1>20, <2>1, TabledUse, Zenon
  <2> QED BY <1>25, <1>26, <1>27, <1>35, <2>2, Zenon DEF Woven
<1>38. Live(d) = Live(c) \ G
  BY <1>17, <1>22
<1>39. \E u, v \in Seq(1 .. L) : /\ Children(c, x) = u \o v /\ ToSet(u) \subseteq G
                                 /\ Children(d, x) = v
                                 /\ v # <<>> => c.entry[v[1]].created < t
  BY <1>31, <1>32, <1>34, <1>36 DEF kids
<1>40. \A e \in 1 .. L : d.entry[e].created = c.entry[e].created
  BY <1>15, <1>20 DEF Pruned, SameUse
<1>41. Cleaned(c, d, x, t, O, L, G)
  BY <1>15, <1>23, <1>24, <1>30, <1>37, <1>38, <1>39, <1>40 DEF Cleaned
<1> QED BY <1>41 DEF d

(* What a branch has created since it began is below the component it      *)
(* splits, in what cleanDescendants() frees.                               *)
LEMMA CleanIsComplete ==
  ASSUME NEW K, NEW L \in Nat, NEW c \in Caches(K, L), NEW O, Woven(c, O), NEW d, NEW x, NEW t \in Nat,
         BranchAt(c, O, x, t), O \cap Since(c, t) = {}, NEW G, Cleaned(c, d, x, t, O, L, G)
  PROVE  Since(d, t) = {}
<1> DEFINE Y == Since(c, t)
           bad == Y \ G
           T == {c.entry[e].created : e \in bad}
<1>1. /\ Live(c) \subseteq 1 .. L /\ Rooted(c, O) /\ Listed(c)
  BY LiveIs DEF Woven
<1>2. /\ x \in Live(c) /\ c.entry[x].created < t
      /\ \A e \in Y \ O : c.entry[e].father = x \/ c.entry[e].father \in Y
      /\ Leads(Children(c, x), Y)
  BY Zenon DEF BranchAt
<1>3. /\ Pruning(c, G, O, x) /\ Live(d) = Live(c) \ G
      /\ \A e \in Live(d) : d.entry[e].created = c.entry[e].created
      /\ \E a, b \in Seq(1 .. L) : /\ Children(c, x) = a \o b /\ ToSet(a) \subseteq G
                                   /\ b # <<>> => c.entry[b[1]].created < t
  BY Zenon DEF Cleaned
<1>4. bad = {}
  <2> SUFFICES ASSUME bad # {} PROVE FALSE
    OBVIOUS
  <2>1. bad \subseteq Live(c) /\ \A e \in Live(c) : c.entry[e].created \in Nat
    BY <1>1 DEF Since, Caches, Entries
  <2>2. T \in SUBSET Nat /\ T # {}
    BY <2>1
  <2> HIDE DEF T
  <2>3. PICK z \in T : \A y \in T : z <= y
    BY <2>2, LeastNumber
  <2> USE DEF T
  <2>4. PICK e \in bad : z = c.entry[e].created
    BY <2>3
  <2>5. \A y \in bad : c.entry[e].created <= c.entry[y].created
    BY <2>3, <2>4
  <2> HIDE DEF T
  <2> DEFINE f == c.entry[e].father
  <2>6. e \in Y /\ e \notin G /\ e \notin O /\ e \in Live(c)
    BY <2>1, <2>4
  <2>7. f \in Live(c) /\ c.entry[f].created < c.entry[e].created
    BY <1>1, <2>6 DEF Rooted
  <2>8. f \notin G
    BY <1>3, <2>6 DEF Pruning
  <2>9. f \notin Y
    <3> SUFFICES ASSUME f \in Y PROVE FALSE
      OBVIOUS
    <3>1. c.entry[e].created <= c.entry[f].created
      BY <2>5, <2>8
    <3>2. c.entry[e].created \in Nat /\ c.entry[f].created \in Nat
      BY <2>1, <2>6, <2>7
    <3> HIDE DEF f, bad, Y
    <3> QED BY <2>7, <3>1, <3>2
  <2>10. f = x
    BY <1>2, <2>6, <2>9
  <2>11. PICK a, b \in Seq(1 .. L) : /\ Children(c, x) = a \o b /\ ToSet(a) \subseteq G
                                     /\ b # <<>> => c.entry[b[1]].created < t
    BY <1>3
  <2>12. e \in ToSet(a \o b)
    <3>1. ToSet(Children(c, x)) = Kids(c, x)
      BY <1>1, <1>2 DEF Listed, ListOf
    <3>2. e \in Kids(c, x)
      BY <2>6, <2>10 DEF Kids
    <3> QED BY <2>11, <3>1, <3>2
  <2>13. e \in ToSet(b)
    <3>1. ToSet(a \o b) = ToSet(a) \cup ToSet(b)
      BY ConcatSet
    <3> QED BY <2>6, <2>11, <2>12, <3>1
  <2>14. PICK j \in 1 .. Len(b) : e = b[j]
    BY <2>13 DEF ToSet
  <2>15. Leads(b, Y)
    <3>1. Leads(a \o b, Y)
      BY <1>2, <2>11
    <3> HIDE DEF Y
    <3> QED BY <3>1, LeadsConcat
  <2>16. b # <<>> /\ 1 \in 1 .. Len(b)
    BY <2>14
  <2>17. b[1] \in Y
    <3>1. CASE j = 1
      BY <2>6, <2>14, <3>1
    <3>2. CASE j # 1
      <4>1. 1 < j
        BY <2>14, <3>2
      <4> QED BY <2>6, <2>14, <2>15, <2>16, <4>1, Zenon DEF Leads
    <3> QED BY <3>1, <3>2
  <2>18. c.entry[b[1]].created \in Nat /\ c.entry[b[1]].created >= t
    BY <2>1, <2>17 DEF Since
  <2>19. c.entry[b[1]].created < t
    BY <2>11, <2>16
  <2> QED BY <2>18, <2>19
<1>5. ASSUME NEW e \in Since(d, t) PROVE FALSE
  <2>1. e \in Live(c) /\ e \notin G /\ c.entry[e].created >= t
    BY <1>3 DEF Since
  <2> QED BY <1>4, <2>1 DEF Since
<1> QED BY <1>5

(* d is what c has kept, without what has been created since t.            *)
Emptied(c, d, t) ==
    /\ Open(d) \subseteq Open(c) /\ Live(d) = Live(c) \ Since(c, t)
    /\ \A e \in Live(d) : d.entry[e].created = c.entry[e].created
    /\ Since(d, t) = {}

(* d has some of the entries of c, for the same components and at the same *)
(* place in the tree.                                                      *)
Lessened(c, d) ==
    /\ Live(d) \subseteq Live(c) /\ Confirmed(d) = Confirmed(c) \cap Live(d)
    /\ \A e \in Live(d) : d.entry[e].comp = c.entry[e].comp /\ d.entry[e].father = c.entry[e].father
    /\ Ids(d) = Ids(c) /\ \A e \in Ids(c) : d.entry[e].created = c.entry[e].created

(* What the branch of the last component on the stack has created leaves.  *)
LEMMA ShapeClean ==
  ASSUME NEW K, Hashed(K), NEW L \in Nat, NEW c \in Caches(K, L),
         NEW R, NEW ts \in Stack(L, R), NEW E, Shape(c, ts, E),
         NEW x, x = ts[Len(ts)].id, NEW t \in Nat, c.entry[x].created < t
  PROVE  LET d == CleanDescendants(c, x, t)
         IN  /\ Shape(d, ts, E) /\ d.clock = c.clock /\ Lessened(c, d)
             /\ <<Len(ts), t>> \in E => Emptied(c, d, t)
<1> DEFINE d == CleanDescendants(c, x, t)
           O == Roots(ts)
           P == OnStack(ts)
           n == Len(ts)
<1>1. /\ n >= 1 /\ Woven(c, O) /\ Guarded(c, P) /\ Climbs(c, ts) /\ Below(c, ts, E)
      /\ \A b \in E : Branching(c, ts, b)
  BY Zenon DEF Shape
<1>2. n \in Nat /\ \A i \in 1 .. n : ts[i].id \in P /\ ts[i].id \in 1 .. L
  BY StackIs
<1>3. n \in 1 .. n /\ 1 \in 1 .. n
  BY <1>1, <1>2
<1>4. P \subseteq Live(c) /\ O \subseteq P
  BY <1>1, <1>2, <1>3 DEF Guarded, Roots
<1>5. x \in Live(c)
  BY <1>2, <1>3, <1>4
<1>6. PICK G : Cleaned(c, d, x, t, O, L, G)
  BY ONLY <1>1, <1>5, Hashed(K), L \in Nat, c \in Caches(K, L), t \in Nat, c.entry[x].created < t, CleanDescendantsDoes
<1>7. /\ Pruning(c, G, O, x) /\ \A e \in G : c.entry[e].created >= t
      /\ Live(d) = Live(c) \ G /\ d.clock = c.clock /\ Woven(d, O)
      /\ \A g \in Live(d) \ {x} : Children(d, g) = Children(c, g)
      /\ \E a, b \in Seq(1 .. L) : Children(c, x) = a \o b /\ Children(d, x) = b
  BY <1>6, Zenon DEF Cleaned
<1>8. \A e \in Live(d) :
         /\ d.entry[e].father = c.entry[e].father /\ d.entry[e].created = c.entry[e].created
         /\ d.entry[e].comp = c.entry[e].comp /\ d.entry[e].model = c.entry[e].model
         /\ d.entry[e].zero = c.entry[e].zero /\ d.entry[e].delete = c.entry[e].delete
  BY <1>6, Zenon DEF Cleaned
<1>9. d \in Caches(K, L)
  <2>1. x \in 1 .. L
    BY <1>2, <1>3
  <2> QED BY <2>1, CleanDescendantsType, Zenon
<1> HIDE DEF d
<1>10. Live(c) \subseteq 1 .. L /\ Live(d) \subseteq 1 .. L /\ Ids(c) = 1 .. L /\ Ids(d) = 1 .. L
  <2>1. Live(c) \subseteq 1 .. L /\ Live(d) \subseteq 1 .. L
    BY <1>9, LiveIs
  <2>2. Ids(c) = 1 .. L /\ Ids(d) = 1 .. L
    BY <1>9, CacheIds
  <2> QED BY <2>1, <2>2
<1>11. \A e \in Live(c) : c.entry[e].created \in Nat
  BY <1>10 DEF Caches, Entries
<1>12. ASSUME NEW i \in 1 .. n PROVE ts[i].id \in Live(d)
  <2> DEFINE e == ts[i].id
  <2>1. e \in Live(c)
    BY <1>2, <1>4
  <2>2. c.entry[e].created < t
    <3>1. CASE i = n
      BY <3>1
    <3>2. CASE i < n
      <4>1. c.entry[e].created < c.entry[x].created
        BY <1>1, <1>3, <3>2 DEF Climbs
      <4>2. ASSUME NEW p \in Nat, NEW q \in Nat, p < q, q < t PROVE p < t
        BY <4>2
      <4>3. c.entry[e].created \in Nat /\ c.entry[x].created \in Nat
        BY <1>5, <1>11, <2>1
      <4> QED BY <4>1, <4>2, <4>3, Zenon
    <3> QED BY <1>2, <3>1, <3>2
  <2>3. e \notin G
    <3>1. ASSUME NEW p \in Nat, p < t PROVE ~ (p >= t)
      BY <3>1
    <3>2. c.entry[e].created \in Nat
      BY <1>11, <2>1
    <3>3. ~ (c.entry[e].created >= t)
      BY <2>2, <3>1, <3>2, Zenon
    <3>4. \A z \in G : c.entry[z].created >= t
      BY <1>7, Zenon
    <3> QED BY <3>3, <3>4, Zenon
  <2> QED BY <1>7, <2>1, <2>3
<1>13. P \subseteq Live(d)
  BY <1>12 DEF OnStack
<1>14. Guarded(d, P)
  BY <1>1, <1>8, <1>13 DEF Guarded
<1>15. Climbs(d, ts)
  BY <1>1, <1>8, <1>12 DEF Climbs
<1>16. Below(d, ts, E)
  <2>1. \A i \in 2 .. n : d.entry[ts[i].id].father = c.entry[ts[i].id].father
    BY <1>8, <1>12
  <2> QED BY <1>1, <2>1 DEF Below
<1>17. ASSUME NEW b \in E PROVE Branching(d, ts, b)
  <2> DEFINE y == ts[b[1]].id
             u == b[2]
             Y == Since(c, u)
             Z == Since(d, u)
  <2>1. /\ b[1] \in 1 .. n /\ u \in Nat /\ (u <= c.clock \/ u = NoSplit)
        /\ BranchAt(c, O, y, u)
        /\ \A i \in b[1] + 1 .. n : c.entry[ts[i].id].created >= u
    BY <1>1 DEF Branching
  <2>2. y \in Live(d)
    BY <1>12, <2>1
  <2>3. \A e \in Live(d) : e \in Z <=> e \in Y
    BY <1>7, <1>8 DEF Since
  <2>4. /\ c.entry[y].created < u
        /\ \A e \in Y \ O : c.entry[e].father = y \/ c.entry[e].father \in Y
        /\ Leads(Children(c, y), Y)
    BY <2>1, Zenon DEF BranchAt
  <2>5. d.entry[y].created < u
    BY <1>8, <2>2, <2>4
  <2>6. ASSUME NEW e \in Z \ O PROVE d.entry[e].father = y \/ d.entry[e].father \in Z
    <3>1. e \in Live(d) /\ e \in Y \ O
      BY <2>3 DEF Since
    <3>2. d.entry[e].father \in Live(d)
      BY <1>7, <3>1 DEF Woven, Rooted
    <3> QED BY <1>8, <2>3, <2>4, <3>1, <3>2
  <2>7. /\ Children(d, y) \in Seq(1 .. L)
        /\ ToSet(Children(d, y)) = Kids(d, y)
    BY <1>7, <1>10, <2>2 DEF Woven, Listed, ListOf
  <2>8. Leads(Children(d, y), Y)
    <3>1. CASE y # x
      <4>1. Children(d, y) = Children(c, y)
        BY <1>7, <2>2, <3>1
      <4> QED BY <2>4, <4>1
    <3>2. CASE y = x
      <4>1. PICK a, r \in Seq(1 .. L) : Children(c, x) = a \o r /\ Children(d, x) = r
        BY <1>7
      <4>2. Leads(a \o r, Y)
        BY <2>4, <3>2, <4>1
      <4> HIDE DEF Y
      <4>3. Leads(r, Y)
        BY <4>2, LeadsConcat
      <4> QED BY <3>2, <4>1, <4>3
    <3> QED BY <3>1, <3>2
  <2>9. \A e \in ToSet(Children(d, y)) : e \in Y <=> e \in Z
    BY <2>3, <2>7 DEF Kids
  <2> HIDE DEF Y, Z, y
  <2>10. Leads(Children(d, y), Z)
    BY <2>7, <2>8, <2>9, LeadsSame, Zenon
  <2>11. BranchAt(d, O, y, u)
    BY <2>2, <2>5, <2>6, <2>10, Zenon DEF BranchAt, Z
  <2>12. \A i \in b[1] + 1 .. n : d.entry[ts[i].id].created >= u
    <3>1. \A i \in b[1] + 1 .. n : i \in 1 .. n
      BY <1>2, <2>1
    <3> QED BY <1>8, <1>12, <2>1, <3>1
  <2> QED BY <1>7, <2>1, <2>11, <2>12 DEF Branching, y
<1>18. Shape(d, ts, E)
  BY <1>1, <1>7, <1>14, <1>15, <1>16, <1>17, Zenon DEF Shape
<1>19. Open(d) \subseteq Open(c)
  BY <1>7, <1>8 DEF Open, Confirmed
<1>20. ASSUME <<Len(ts), t>> \in E PROVE Since(d, t) = {}
  <2> DEFINE b == <<Len(ts), t>>
  <2>1. Branching(c, ts, b) /\ b[1] = n /\ b[2] = t
    BY <1>1, <1>20
  <2> HIDE DEF b
  <2>2. BranchAt(c, O, x, t)
    BY <2>1 DEF Branching
  <2>3. O \cap Since(c, t) = {}
    <3>1. ASSUME NEW e \in O PROVE e \notin Since(c, t)
      <4>1. e \in Live(d)
        BY <1>4, <1>13
      <4>2. e \in Live(c) /\ c.entry[e].created \in Nat
        BY <1>4, <1>11
      <4>3. e = ts[1].id
        BY DEF Roots
      <4>4. c.entry[e].created < t
        <5>1. CASE n = 1
          BY <4>3, <5>1
        <5>2. CASE n # 1
          <6>1. 1 < n
            <7>1. ASSUME NEW q \in Nat, q >= 1, q # 1 PROVE 1 < q
              BY <7>1
            <7> QED BY <1>1, <1>2, <5>2, <7>1, Zenon
          <6>2. c.entry[ts[1].id].created < c.entry[ts[n].id].created
            BY <1>1, <1>3, <6>1 DEF Climbs
          <6>3. c.entry[x].created \in Nat
            BY <1>5, <1>11
          <6>4. ASSUME NEW p \in Nat, NEW q \in Nat, p < q, q < t PROVE p < t
            BY <6>4
          <6>5. c.entry[e].created < c.entry[x].created
            BY <4>3, <6>2
          <6> QED BY <4>2, <6>3, <6>4, <6>5, Zenon
        <5> QED BY <5>1, <5>2
      <4>5. ASSUME NEW p \in Nat, p < t PROVE ~ (p >= t)
        BY <4>5
      <4>6. ~ (c.entry[e].created >= t)
        BY <4>2, <4>4, <4>5, Zenon
      <4> QED BY <4>6 DEF Since
    <3> QED BY <3>1
  <2> HIDE DEF O
  <2>4. L \in Nat /\ c \in Caches(K, L) /\ t \in Nat
    OBVIOUS
  <2> QED BY ONLY <1>1, <1>6, <2>2, <2>3, <2>4, CleanIsComplete
<1>21. <<Len(ts), t>> \in E => Emptied(c, d, t)
  <2>1. ASSUME <<Len(ts), t>> \in E PROVE Live(d) = Live(c) \ Since(c, t)
    <3>1. \A e \in G : e \in Since(c, t)
      BY <1>7 DEF Pruning, Since
    <3>2. \A e \in Live(d) : e \notin Since(c, t)
      BY <1>7, <1>8, <1>20, <2>1 DEF Since
    <3> QED BY <1>7, <3>1, <3>2
  <2> QED BY <1>8, <1>19, <1>20, <2>1 DEF Emptied
<1>22. Lessened(c, d)
  <2>1. \A e \in 1 .. L : d.entry[e].created = c.entry[e].created
    BY <1>6, Zenon DEF Cleaned
  <2> QED BY <1>7, <1>8, <1>10, <2>1 DEF Lessened, Confirmed
<1> QED BY <1>7, <1>18, <1>21, <1>22 DEF d

(* A branch that has not split anything can be added.                      *)
LEMMA AddBranch ==
  ASSUME NEW K, NEW L \in Nat, NEW c \in Caches(K, L), c.clock <= NoSplit,
         NEW R, NEW cs \in Stack(L, R), NEW B, Shape(c, cs, B),
         NEW D, \A b \in D : b \in B \/ b = <<Len(cs), NoSplit>>
  PROVE  Shape(c, cs, D)
<1> DEFINE n == Len(cs)
           O == Roots(cs)
           x == cs[n].id
<1>1. /\ n >= 1 /\ Woven(c, O) /\ Guarded(c, OnStack(cs)) /\ Climbs(c, cs) /\ Below(c, cs, B)
      /\ \A b \in B : Branching(c, cs, b)
  BY Zenon DEF Shape
<1>2. n \in Nat /\ \A i \in 1 .. n : cs[i].id \in OnStack(cs)
  BY StackIs
<1>3. x \in Live(c) /\ n \in 1 .. n
  BY <1>1, <1>2 DEF Guarded
<1>4. c.clock \in Nat /\ NoSplit \in Nat /\ \A e \in 1 .. L : c.entry[e].created \in Nat
  BY BoundsAssumption DEF Caches, Entries
<1>5. ASSUME NEW e \in Live(c) PROVE c.entry[e].created < NoSplit /\ ~ (c.entry[e].created >= NoSplit)
  <2>1. c.entry[e].created < c.clock
    BY <1>1 DEF Woven, Rooted
  <2>2. c.entry[e].created \in Nat
    <3>1. Live(c) \subseteq 1 .. L
      BY LiveIs, Zenon
    <3> QED BY <1>4, <3>1
  <2>3. ASSUME NEW p \in Nat, p < c.clock PROVE p < NoSplit /\ ~ (p >= NoSplit)
    BY <1>4, <2>3
  <2> QED BY <2>1, <2>2, <2>3, Zenon
<1>6. BranchAt(c, O, x, NoSplit)
  <2>1. Since(c, NoSplit) = {}
    BY <1>5 DEF Since
  <2>2. Leads(Children(c, x), {})
    BY DEF Leads
  <2> QED BY <1>3, <1>5, <2>1, <2>2 DEF BranchAt
<1>7. ASSUME NEW b \in D PROVE Branching(c, cs, b)
  <2>1. CASE b = <<n, NoSplit>>
    <3>1. b[1] = n /\ b[2] = NoSplit
      BY <2>1
    <3>2. \A i \in n + 1 .. n : FALSE
      BY <1>2
    <3> QED BY <1>3, <1>4, <1>6, <3>1, <3>2 DEF Branching
  <2> QED BY <1>1, <2>1
<1>8. Below(c, cs, D)
  <2>1. ASSUME NEW i \in 2 .. n, NEW j \in 1 .. i - 1, \A b \in B : b[1] < i => b[1] <= j,
               NEW b \in D, b[1] < i
        PROVE  b[1] <= j
    <3>1. CASE b = <<n, NoSplit>>
      <4>1. b[1] = n
        BY <3>1
      <4> QED BY <1>2, <2>1, <4>1
    <3> QED BY <2>1, <3>1
  <2> QED BY <1>1, <2>1 DEF Below
<1> QED BY <1>1, <1>7, <1>8, Zenon DEF Shape

(* A decision that keeps its base and its split time keeps the branches.   *)
LEMMA TopBranches ==
  ASSUME Control, NEW d \in Decisions, d.base = TopDecision.base, d.split = TopDecision.split
  PROVE  Branches(SetTop(d)) = Branches(decisions)
<1> DEFINE N == Len(decisions)
           D == SetTop(d)
<1>1. decisions \in Seq(Decisions) /\ N \in Nat /\ N >= 1 /\ TopDecision = decisions[N]
  BY TypedFacts DEF Control, Typed
<1>2. Len(D) = N /\ D[N] = d /\ \A k \in 1 .. N - 1 : D[k] = decisions[k]
  BY <1>1, ReplacedTop
<1>3. \A k \in 1 .. N : k = N \/ k \in 1 .. N - 1
  BY <1>1
<1> HIDE DEF D
<1>4. \A k \in 1 .. N : D[k].base = decisions[k].base /\ D[k].split = decisions[k].split
  BY <1>1, <1>2, <1>3, Zenon
<1>5. Branches(D) = Branches(decisions)
  BY <1>2, <1>4 DEF Branches
<1> QED BY <1>5 DEF D

(* No decision splits a component above the one that the last has split,   *)
(* and those below the last split one further down.                        *)
LEMMA BasesBelow ==
  ASSUME Control
  PROVE  /\ \A k \in 1 .. Len(decisions) : decisions[k].base <= TopDecision.base
         /\ \A k \in 1 .. Len(decisions) - 1 : decisions[k].base < TopDecision.base
<1> DEFINE N == Len(decisions)
<1>1. N \in Nat /\ N >= 1 /\ TopDecision = decisions[N] /\ \A k \in 1 .. N : decisions[k] \in Decisions
  BY TypedFacts DEF Control
<1>2. \A k \in 1 .. N : decisions[k].base \in Nat /\ decisions[k].top \in Nat
  BY <1>1, DecisionOps, Zenon
<1>3. ASSUME NEW k \in 1 .. N - 1 PROVE decisions[k].base < TopDecision.base
  <2>1. k \in 1 .. N /\ N \in 1 .. N /\ k < N
    BY <1>1
  <2>2. decisions[k].base < decisions[k].top /\ decisions[k].top <= decisions[N].base
    BY <2>1 DEF Control, Stretches, Owned
  <2>3. ASSUME NEW p \in Nat, NEW q \in Nat, NEW r \in Nat, p < q, q <= r PROVE p < r
    BY <2>3
  <2> QED BY <1>1, <1>2, <2>1, <2>2, <2>3, Zenon
<1>4. ASSUME NEW k \in 1 .. N PROVE decisions[k].base <= TopDecision.base
  <2>1. CASE k = N
    BY <1>1, <1>2, <2>1
  <2>2. CASE k # N
    <3>1. k \in 1 .. N - 1 /\ N \in 1 .. N
      BY <1>1, <2>2
    <3>2. decisions[k].base < TopDecision.base
      BY <1>3, <3>1
    <3> QED BY <1>1, <1>2, <3>1, <3>2
  <2> QED BY <2>1, <2>2
<1> QED BY <1>3, <1>4

LEMMA LeftAtRoot ==
  ASSUME Control, Len(decisions) = 1, ~ HasUnprocessedComp(TopDecision)
  PROVE  Len(comps) = 1
<1>1. /\ TopDecision = decisions[1] /\ TopDecision.top = Len(comps) /\ Len(comps) \in Nat
      /\ TopDecision.base <= Len(comps) /\ TopDecision \in Decisions
  BY TypedFacts DEF Control
<1>2. TopDecision.base = 1
  BY <1>1 DEF Control, Stretches, Owned
<1>3. ~ (1 < Len(comps)) /\ 1 <= Len(comps)
  BY <1>1, <1>2, Zenon DEF HasUnprocessedComp
<1>4. ASSUME NEW n \in Nat, ~ (1 < n), 1 <= n PROVE n = 1
  BY <1>4
<1> QED BY <1>1, <1>3, <1>4, Zenon

LEMMA QuietStructure ==
  ASSUME Structure, cache' = cache, comps' = comps, Branches(decisions') = Branches(decisions),
         pc' = "exit" => Len(comps) = 1
  PROVE  Structure'
<1>1. Shape(cache', comps', Branches(decisions'))
  BY Zenon DEF Structure
<1>2. cache'.clock <= NoSplit
  BY Zenon DEF Structure
<1>3. pc' = "exit" => Len(comps') = 1
  BY Zenon
<1> QED BY <1>1, <1>2, <1>3, Zenon DEF Structure

LEMMA QuietActionsStructure ==
  ASSUME Control, Structure, ConflictAtEntry \/ StartExists \/ ExistsDone \/ BacktrackRoot \/ BacktrackEntry
                             \/ Signal \/ Interrupt \/ Done \/ UNCHANGED vars
  PROVE  Structure'
<1>1. cache' = cache /\ comps' = comps /\ decisions' = decisions
  BY DEF ConflictAtEntry, StartExists, ExistsDone, BacktrackRoot, BacktrackEntry, Signal, Interrupt, Done, vars
<1>2. pc' = "exit" => pc = "exit" \/ BacktrackRoot
  BY DEF ConflictAtEntry, StartExists, ExistsDone, BacktrackEntry, Signal, Interrupt, Done, vars
<1>3. ASSUME BacktrackRoot PROVE Len(comps) = 1
  <2>1. pc = "backtrack" /\ Len(decisions) = 1 /\ ~ AtEntry
    BY <1>3 DEF BacktrackRoot, AtEntry
  <2>2. ~ HasUnprocessedComp(TopDecision)
    BY <2>1 DEF Control, Stretches
  <2> QED BY <2>1, <2>2, LeftAtRoot
<1>4. pc' = "exit" => Len(comps) = 1
  BY <1>2, <1>3 DEF Structure
<1> QED BY <1>1, <1>4, QuietStructure, Zenon

LEMMA TopActionsStructure ==
  ASSUME Control, Structure, Conflict \/ ExistsFalse \/ SimplifyFails
  PROVE  Structure'
<1>1. TopDecision \in Decisions
  BY TypedFacts DEF Control
<1>2. /\ MarkBranchUnsat(TopDecision) \in Decisions
      /\ MarkBranchUnsat(TopDecision).base = TopDecision.base
      /\ MarkBranchUnsat(TopDecision).split = TopDecision.split
  BY <1>1, DecisionOps
<1>3. Branches(SetTop(MarkBranchUnsat(TopDecision))) = Branches(decisions)
  BY <1>2, TopBranches, Zenon
<1>4. cache' = cache /\ comps' = comps
      /\ (decisions' = decisions \/ decisions' = SetTop(MarkBranchUnsat(TopDecision)))
  BY DEF Conflict, ExistsFalse, SimplifyFails
<1>5. Branches(decisions') = Branches(decisions)
  BY <1>3, <1>4, Zenon
<1>6. pc' = "exit" => Len(comps) = 1
  <2> SUFFICES ASSUME pc' = "exit" PROVE Len(comps) = 1
    OBVIOUS
  <2>1. pc = "main" /\ ~ AtEntry /\ Len(decisions) = 1
    BY DEF Conflict, ExistsFalse, SimplifyFails
  <2>2. ~ HasUnprocessedComp(TopDecision)
    BY <2>1 DEF Control, Stretches
  <2> QED BY <2>1, <2>2, LeftAtRoot
<1> QED BY <1>4, <1>5, <1>6, QuietStructure, Zenon

(* A branch begins, of the decision at the top or of a new one.            *)
LEMMA BranchesBegin ==
  ASSUME Control, Structure, FlipBranch \/ Decide
  PROVE  Structure'
<1> DEFINE N == Len(decisions)
           L == Len(cache.entry)
           n == Len(comps)
           B == Branches(decisions)
           D == Branches(decisions')
<1>1. /\ L \in Nat /\ cache \in Caches(KeysOf(input), L) /\ comps \in Stack(L, CompsOf(input))
      /\ N \in Nat /\ N >= 1 /\ TopDecision = decisions[N] /\ TopDecision \in Decisions
      /\ decisions \in Seq(Decisions) /\ TopDecision.top = n /\ TopDecision.base <= n /\ n \in Nat
  BY TypedFacts DEF Control, Typed, Stack
<1>2. cache' = cache /\ comps' = comps /\ pc' = "main"
  BY DEF FlipBranch, Decide
<1>3. cache.clock <= NoSplit /\ Shape(cache, comps, B)
  BY DEF Structure
<1>4. \A b \in D : b \in B \/ b = <<n, NoSplit>>
  <2>1. CASE FlipBranch
    <3>1. PICK weight \in BranchWeights : decisions' = SetTop(ChangeBranch(Weigh(TopDecision, weight)))
      BY <2>1 DEF FlipBranch
    <3> DEFINE w == Weigh(TopDecision, weight)
               d == ChangeBranch(w)
    <3>2. w \in Decisions /\ w.base = TopDecision.base
      BY <1>1, WeighIs
    <3> HIDE DEF w
    <3>3. d \in Decisions /\ d.base = w.base /\ d.split = NoSplit
      <4>1. d \in Decisions /\ d.base = w.base
        BY <3>2, DecisionOps
      <4>2. d.split = NoSplit
        BY <3>2 DEF ChangeBranch, Decisions
      <4> QED BY <4>1, <4>2
    <3>4. TopDecision.base = n
      <4>1. ~ HasUnprocessedComp(TopDecision)
        BY <2>1 DEF FlipBranch, Backtracking, Control, Stretches
      <4> QED BY <1>1, <4>1 DEF HasUnprocessedComp, Decisions
    <3>5. decisions' = SetTop(d)
      BY <3>1 DEF w
    <3> HIDE DEF d
    <3>6. /\ Len(decisions') = N /\ decisions'[N] = d
          /\ \A k \in 1 .. N - 1 : decisions'[k] = decisions[k]
      BY <1>1, <3>3, <3>5, ReplacedTop
    <3>7. \A k \in 1 .. N : k = N \/ k \in 1 .. N - 1
      BY <1>1
    <3>8. \A k \in 1 .. N - 1 : k \in 1 .. N
      BY <1>1
    <3>9. <<decisions'[N].base, decisions'[N].split>> = <<n, NoSplit>>
      BY <3>2, <3>3, <3>4, <3>6
    <3> QED BY <3>6, <3>7, <3>8, <3>9 DEF Branches
  <2>2. CASE Decide
    <3> DEFINE d == NewDecision(n)
    <3>1. decisions' = Append(decisions, d)
      BY <2>2 DEF Decide
    <3>2. d \in Decisions /\ d.base = n /\ d.split = NoSplit
      BY <1>1, NewDecisionType DEF NewDecision
    <3> HIDE DEF d
    <3>3. Len(decisions') = N + 1 /\ decisions'[N + 1] = d /\ \A k \in 1 .. N : decisions'[k] = decisions[k]
      BY <1>1, <3>1, <3>2, AppendIs
    <3>4. \A k \in 1 .. N + 1 : k = N + 1 \/ k \in 1 .. N
      BY <1>1
    <3>5. <<decisions'[N + 1].base, decisions'[N + 1].split>> = <<n, NoSplit>>
      BY <3>2, <3>3
    <3> QED BY <3>3, <3>4, <3>5 DEF Branches
  <2> QED BY <2>1, <2>2
<1> HIDE DEF B, D, n
<1>5. Shape(cache, comps, D)
  BY <1>1, <1>3, <1>4, AddBranch, Zenon DEF n
<1> QED BY <1>2, <1>3, <1>5, Zenon DEF Structure, D

LEMMA SplitStructure ==
  ASSUME Control, Structure, Split
  PROVE  Structure'
<1>1. PICK found \in Left, free \in FreeFactors, polls \in Polls :
       \E order \in Ascending(found) : \E s \in {SplitComponent(order, free, polls)} :
             /\ InBounds(s.cache)
             /\ cache' = s.cache
             /\ comps' = s.comps
             /\ decisions' = SetTop(s.decision)
             /\ pc' # "exit"
  BY DEF Split
<1>2. PICK order \in Ascending(found) : \E s \in {SplitComponent(order, free, polls)} :
             /\ InBounds(s.cache)
             /\ cache' = s.cache
             /\ comps' = s.comps
             /\ decisions' = SetTop(s.decision)
             /\ pc' # "exit"
  BY <1>1
<1> DEFINE s == SplitComponent(order, free, polls)
<1>3. /\ InBounds(s.cache) /\ cache' = s.cache /\ comps' = s.comps /\ decisions' = SetTop(s.decision)
      /\ pc' # "exit"
  BY <1>2
<1>4. Shape(s.cache, s.comps, Branches(SetTop(s.decision)))
  BY SplitShape
<1>5. cache'.clock <= NoSplit
  <2>1. \E L \in Nat : s.cache \in Caches(KeysOf(input), L)
    <3>1. Typed /\ Stretches
      BY DEF Control
    <3> HIDE DEF s
    <3>2. SplitDone(s, found)
      BY <3>1, SplitIs, Zenon DEF s
    <3> QED BY <3>2 DEF SplitDone
  <2>2. s.cache.clock \in Nat /\ NoSplit \in Nat
    BY <2>1, BoundsAssumption DEF Caches
  <2>3. s.cache.clock < NoSplit
    BY <1>3 DEF InBounds
  <2> QED BY <1>3, <2>2, <2>3
<1> HIDE DEF s
<1> QED BY <1>3, <1>4, <1>5, Zenon DEF Structure

(* The component at the top of the stack is done.                          *)
LEMMA PopShape ==
  ASSUME Control, Structure, NEW stored \in {Store(cache, Last(comps).id), StoreZero(cache, Last(comps).id), cache},
         InBounds(stored), cache' = PopComponent(stored), comps' = Front(comps), pc' # "exit",
         Branches(decisions') \subseteq Branches(decisions), Len(comps) > 1,
         \A b \in Branches(decisions') : b[1] < Len(comps)
  PROVE  Structure'
<1> DEFINE K == KeysOf(input)
           R == CompsOf(input)
           L == Len(cache.entry)
           n == Len(comps)
           id == Last(comps).id
           ts == Front(comps)
           B == Branches(decisions)
           E == Branches(decisions')
           d == SetDeletePermitted(stored, id, TRUE)
<1>1. /\ L \in Nat /\ cache \in Caches(K, L) /\ comps \in Seq([id : 1 .. L, comp : R])
      /\ n \in Nat /\ n >= 1 /\ id \in 1 .. L /\ id = comps[n].id /\ input \in DOMAIN Inputs
  BY TypedFacts DEF Control, Typed
<1>2. Hashed(K)
  BY <1>1, InputFacts
<1>3. Shape(cache, comps, B) /\ NoSplit \in Nat
  BY BoundsAssumption DEF Structure
<1>4. E \in SUBSET B /\ \A b \in E : b[1] < n
  OBVIOUS
<1>5. cache' = d
  BY DEF PopComponent
<1>6. stored \in {Store(cache, id), StoreZero(cache, id), cache}
  OBVIOUS
<1> HIDE DEF K, R, L, id, B, E, n, d, ts
<1>7. ts \in Stack(L, R) /\ Len(ts) = n - 1 /\ \A i \in 1 .. n - 1 : ts[i] = comps[i]
  <2>1. comps # <<>>
    BY <1>1 DEF n
  <2> QED BY <1>1, <2>1, FrontIs, Zenon DEF Stack, n, ts
<1>8. comps \in Stack(L, R) /\ 1 <= Len(ts) /\ Len(ts) <= n /\ n \in Len(ts) + 1 .. n
  BY <1>1, <1>7 DEF n, Stack
<1>9. \A b \in E : b[1] <= Len(ts)
  <2>1. \A b \in B : b[1] \in 1 .. n
    BY <1>3 DEF Shape, Branching, n
  <2>2. ASSUME NEW p \in 1 .. n, p < n PROVE p <= n - 1
    BY <1>1, <2>2
  <2>3. \A b \in E : b[1] <= n - 1
    BY <1>4, <2>1, <2>2
  <2> QED BY <1>7, <2>3
<1>10. /\ Shape(cache, ts, E)
       /\ \A i \in Len(ts) + 1 .. Len(comps) : comps[i].id \in Open(cache) \ OnStack(ts)
  <2>1. \A i \in 1 .. Len(ts) : ts[i] = comps[i]
    BY <1>7
  <2>2. Len(ts) <= Len(comps)
    BY <1>8 DEF n
  <2> QED BY ONLY <1>1, <1>3, <1>4, <1>7, <1>8, <1>9, <2>1, <2>2, ShapeCut, ZenonT(60)
<1>11. id \in Open(cache) \ OnStack(ts)
  BY <1>1, <1>8, <1>10, Zenon DEF n
<1>12. ~ cache.entry[id].model
  BY <1>11 DEF Open, Confirmed
<1>13. stored \in Caches(K, L) /\ d \in Caches(K, L)
  <2>1. Store(cache, id) \in Caches(K, L) /\ StoreZero(cache, id) \in Caches(K, L)
    BY <1>1, <1>2, StoreType, Zenon
  <2>2. stored \in Caches(K, L) /\ TRUE \in BOOLEAN
    BY ONLY <1>1, <1>6, <2>1
  <2> QED BY <1>1, <2>2, SetDeleteType, Zenon DEF d
<1>14. Concludes(cache, stored, id, L)
  <2>1. /\ Concludes(cache, Store(cache, id), id, L) /\ Concludes(cache, StoreZero(cache, id), id, L)
        /\ Concludes(cache, cache, id, L)
    BY <1>1, <1>2, <1>12, StoreDoes
  <2> QED BY <1>6, <2>1, Zenon
<1>15. Concludes(cache, d, id, L)
  <2>1. Condemns(cache, stored, d, id, L)
    BY <1>1, <1>13, <1>14, SetDeleteDoes, Zenon DEF d
  <2> QED BY <2>1, Zenon DEF Condemns
<1>16. Shape(d, ts, E)
  <2>1. Tabled(cache) /\ id \in Open(cache)
    BY <1>10, <1>11 DEF Shape, Woven
  <2>2. Tabled(d)
    BY <1>1, <1>2, <1>6, <2>1, StoredTabled, Zenon DEF d
  <2> QED BY <1>1, <1>7, <1>10, <1>11, <1>13, <1>15, <2>2, FinishedShape, Zenon
<1>17. d.clock <= NoSplit
  <2>1. d.clock = stored.clock
    BY <1>13 DEF d, SetDeletePermitted, Caches
  <2>2. stored.clock \in Nat
    BY <1>13 DEF Caches
  <2>3. stored.clock < NoSplit
    BY DEF InBounds
  <2> QED BY <1>3, <2>1, <2>2, <2>3
<1>18. comps' = ts
  BY DEF ts
<1> QED BY <1>5, <1>16, <1>17, <1>18, Zenon DEF Structure, E

LEMMA ExistsTrueStructure ==
  ASSUME Control, Structure, ExistsTrue
  PROVE  Structure'
<1> DEFINE N == Len(decisions)
           d == TopDecision
           m == IncreaseModels(d, "some")
           e == NextComp(m)
<1>1. /\ cache' = PopComponent(Store(cache, Last(comps).id)) /\ comps' = Front(comps)
      /\ InBounds(Store(cache, Last(comps).id))
      /\ decisions' = SetTop(e) /\ pc' = "exists" /\ HasUnprocessedComp(d)
  BY DEF ExistsTrue, Answered, Unprojected
<1>2. /\ d \in Decisions /\ 1 <= d.base /\ d.base <= Len(comps) /\ d.top = Len(comps) /\ Len(comps) \in Nat
      /\ \A k \in 1 .. Len(decisions) : decisions[k] \in Decisions
  BY TypedFacts DEF Control
<1>3. m \in Decisions /\ m.base = d.base /\ m.top = d.top /\ m.split = d.split
  BY <1>2, IncreaseType, IncreaseKeeps, Zenon
<1>4. d.base \in Nat /\ d.top \in Nat /\ d.base < d.top
  BY <1>1, <1>2, DecisionOps DEF HasUnprocessedComp
<1> HIDE DEF m
<1>5. e \in Decisions /\ e.base = d.base /\ e.split = d.split
  <2>1. e \in Decisions /\ e.base = d.base
    BY <1>3, <1>4, NextCompType
  <2>2. e.split = m.split
    BY <1>3 DEF NextComp, Decisions
  <2> QED BY <1>3, <2>1, <2>2
<1> HIDE DEF e
<1>6. Branches(decisions') = Branches(decisions)
  BY <1>1, <1>5, TopBranches, Zenon
<1>7. \A b \in Branches(decisions) : b[1] < Len(comps)
  <2>1. ASSUME NEW k \in 1 .. Len(decisions) PROVE decisions[k].base < Len(comps)
    <3>1. decisions[k].base <= d.base /\ decisions[k].base \in Nat
      BY <1>2, BasesBelow, DecisionOps, Zenon
    <3>2. ASSUME NEW p \in Nat, NEW q \in Nat, NEW r \in Nat, p <= q, q < r PROVE p < r
      BY <3>2
    <3> QED BY <1>2, <1>4, <3>1, <3>2, Zenon
  <2> QED BY <2>1 DEF Branches
<1>8. Len(comps) > 1
  <2>1. ASSUME NEW p \in Nat, NEW q \in Nat, 1 <= p, p < q PROVE q > 1
    BY <2>1
  <2> QED BY <1>2, <1>4, <2>1, Zenon
<1> DEFINE stored == Store(cache, Last(comps).id)
<1>9. stored \in {Store(cache, Last(comps).id), StoreZero(cache, Last(comps).id), cache}
  OBVIOUS
<1>10. InBounds(stored) /\ cache' = PopComponent(stored) /\ pc' # "exit"
  BY <1>1
<1> HIDE DEF stored
<1>11. Branches(decisions') \subseteq Branches(decisions) /\ \A b \in Branches(decisions') : b[1] < Len(comps)
  BY <1>6, <1>7
<1> QED BY <1>1, <1>8, <1>9, <1>10, <1>11, PopShape, Zenon

LEMMA FinishStructure ==
  ASSUME Control, Structure, FinishLevel
  PROVE  Structure'
<1> DEFINE N == Len(decisions)
           C == Len(comps)
           d == decisions[N - 1]
<1>1. /\ N \in Nat /\ N >= 1 /\ decisions \in Seq(Decisions) /\ TopDecision = decisions[N] /\ C \in Nat
      /\ TopDecision.base <= C /\ TopDecision.top = C
      /\ \A k \in 1 .. N : decisions[k] \in Decisions
  BY TypedFacts DEF Control, Typed
<1>2. PICK val \in Counts : Finished(val)
  BY FinishIs
<1>3. pc = "backtrack" /\ N > 1 /\ ~ AtEntry
  BY FinishIs DEF Backtracking
<1>4. ~ HasUnprocessedComp(TopDecision) /\ Owned(decisions, comps)
  BY <1>3 DEF Control, Stretches
<1>5. N - 1 \in 1 .. N /\ N \in 1 .. N /\ N - 1 \in 1 .. N - 1 /\ d \in Decisions
  BY <1>1, <1>3
<1>6. d.base \in Nat /\ d.top \in Nat /\ d.top # 0 /\ 1 <= d.base /\ d.base < C /\ TopDecision.base = C
  <2>1. d.base \in Nat /\ d.top \in Nat /\ TopDecision.base \in Nat /\ TopDecision.top \in Nat
    BY <1>1, <1>5, DecisionOps
  <2>2. d.base < d.top /\ decisions[(N - 1) + 1].base = d.top /\ 1 <= d.base
    BY <1>4, <1>5, Zenon DEF Owned
  <2>3. (N - 1) + 1 = N
    BY <1>1
  <2>4. TopDecision.base = d.top
    BY <1>1, <2>2, <2>3
  <2>5. TopDecision.base = C
    <3>1. ~ (TopDecision.base < C)
      BY <1>1, <1>4, Zenon DEF HasUnprocessedComp
    <3>2. ASSUME NEW p \in Nat, p <= C, ~ (p < C) PROVE p = C
      BY <1>1, <3>2
    <3> QED BY <1>1, <2>1, <3>1, <3>2, Zenon
  <2>6. d.top = C
    BY <2>4, <2>5
  <2>7. ASSUME NEW p \in Nat, NEW q \in Nat, p < q PROVE q # 0
    BY <2>7
  <2> QED BY <2>1, <2>2, <2>5, <2>6, <2>7
<1> DEFINE t == Told(val)
           e == NextComp(t)
<1>7. t \in Decisions /\ t.base = d.base /\ t.top = d.top /\ t.split = d.split
  BY <1>5, ToldIs
<1> HIDE DEF t, d
<1>8. e \in Decisions /\ e.base = d.base /\ e.split = d.split
  <2>1. e \in Decisions /\ e.base = d.base
    BY <1>6, <1>7, NextCompType
  <2>2. e.split = t.split
    BY <1>7 DEF NextComp, Decisions
  <2> QED BY <1>7, <2>1, <2>2
<1> HIDE DEF e
<1>9. decisions' = Append(SubSeq(decisions, 1, N - 2), e) /\ comps' = Front(comps)
  BY <1>2, Zenon DEF Finished, e, t
<1>10. pc' # "exit"
  BY <1>2 DEF Finished
<1>11. PICK stored \in {Store(cache, Last(comps).id), StoreZero(cache, Last(comps).id), cache} :
         InBounds(stored) /\ cache' = PopComponent(stored)
  BY <1>2, Zenon DEF Finished
<1>12. /\ Len(decisions') = N - 1 /\ decisions'[N - 1] = e
       /\ \A k \in 1 .. N - 2 : decisions'[k] = decisions[k]
  <2> DEFINE p == SubSeq(decisions, 1, N - 2)
  <2>1. N - 2 \in 0 .. N
    BY <1>1, <1>3
  <2>2. p \in Seq(Decisions) /\ Len(p) = N - 2 /\ \A i \in 1 .. N - 2 : p[i] = decisions[i]
    BY <1>1, <2>1, PrefixIs, Zenon
  <2> HIDE DEF p
  <2>3. Len(decisions') = Len(p) + 1 /\ decisions'[Len(p) + 1] = e /\ \A k \in 1 .. Len(p) : decisions'[k] = p[k]
    BY <1>8, <1>9, <2>2, AppendIs DEF p
  <2>4. (N - 2) + 1 = N - 1
    BY <1>1
  <2> QED BY <2>2, <2>3, <2>4
<1>13. \A k \in 1 .. N - 1 : /\ k \in 1 .. N
                             /\ decisions'[k].base = decisions[k].base /\ decisions'[k].split = decisions[k].split
  <2>1. \A k \in 1 .. N - 1 : k \in 1 .. N /\ (k = N - 1 \/ k \in 1 .. N - 2)
    BY <1>1
  <2> QED BY <1>8, <1>12, <2>1, Zenon DEF d
<1>14. Branches(decisions') \subseteq Branches(decisions)
  BY <1>12, <1>13 DEF Branches
<1>15. \A b \in Branches(decisions') : b[1] < C
  <2>1. \A k \in 1 .. N - 1 : decisions[k].base < C
    BY <1>6, BasesBelow, Zenon
  <2> SUFFICES ASSUME NEW b \in Branches(decisions') PROVE b[1] < C
    OBVIOUS
  <2>2. PICK k \in 1 .. N - 1 : b = <<decisions'[k].base, decisions'[k].split>>
    BY <1>12 DEF Branches
  <2>3. b[1] = decisions[k].base
    BY <1>13, <2>2
  <2> QED BY <2>1, <2>3
<1>16. C > 1
  BY <1>1, <1>6
<1> QED BY <1>9, <1>10, <1>11, <1>14, <1>15, <1>16, PopShape, Zenon

(* Entries that left the stack may be evicted.                             *)
Permitted(c, popped) ==
    [c EXCEPT !.entry = [id \in Ids(c) |->
       IF id \in popped THEN [c.entry[id] EXCEPT !.delete = TRUE] ELSE c.entry[id]]]

LEMMA PermitShape ==
  ASSUME NEW K, NEW L \in Nat, NEW c \in Caches(K, L), NEW R, NEW cs \in Stack(L, R), NEW B, Shape(c, cs, B),
         NEW popped, popped \cap OnStack(cs) = {}
  PROVE  LET d == Permitted(c, popped)
         IN  /\ d \in Caches(K, L) /\ Shape(d, cs, B) /\ d.clock = c.clock
             /\ \A e \in 1 .. L : d.entry[e].created = c.entry[e].created
             /\ Open(d) = Open(c) /\ Live(d) = Live(c) /\ Lessened(c, d)
<1> DEFINE f == [e \in 1 .. L |-> IF e \in popped THEN [c.entry[e] EXCEPT !.delete = TRUE] ELSE c.entry[e]]
           d == Permitted(c, popped)
           P == OnStack(cs)
<1>1. Ids(c) = 1 .. L
  BY CacheIds, Zenon
<1>2. d = [c EXCEPT !.entry = f]
  BY <1>1 DEF Permitted
<1>3. \A e \in 1 .. L : c.entry[e] \in Entries(K, L)
  BY DEF Caches
<1>4. ASSUME NEW r \in Entries(K, L), NEW s, s = r \/ s = [r EXCEPT !.delete = TRUE]
      PROVE  /\ s \in Entries(K, L) /\ s.father = r.father /\ s.first = r.first /\ s.next = r.next
             /\ s.comp = r.comp /\ s.created = r.created /\ s.model = r.model /\ s.zero = r.zero
             /\ s.free = r.free /\ s.chain = r.chain
  BY <1>4 DEF Entries
<1>5. ASSUME NEW e \in 1 .. L
      PROVE  /\ f[e] \in Entries(K, L) /\ f[e].father = c.entry[e].father
             /\ f[e].first = c.entry[e].first /\ f[e].next = c.entry[e].next
             /\ f[e].comp = c.entry[e].comp /\ f[e].created = c.entry[e].created
             /\ f[e].model = c.entry[e].model /\ f[e].zero = c.entry[e].zero /\ f[e].free = c.entry[e].free
             /\ f[e].chain = c.entry[e].chain
             /\ e \notin popped => f[e] = c.entry[e]
  <2>1. f[e] = IF e \in popped THEN [c.entry[e] EXCEPT !.delete = TRUE] ELSE c.entry[e]
    OBVIOUS
  <2> HIDE DEF f
  <2> QED BY <1>3, <1>4, <2>1
<1>6. f \in [1 .. L -> Entries(K, L)]
  <2>1. f = [e \in 1 .. L |-> f[e]]
    OBVIOUS
  <2> HIDE DEF f
  <2> QED BY <1>5, <2>1
<1> HIDE DEF f
<1>7. /\ d \in Caches(K, L) /\ d.entry = f /\ d.clock = c.clock /\ d.memory = c.memory
      /\ d.freeSlots = c.freeSlots /\ d.table = c.table /\ d.confirmed = c.confirmed
  <2> HIDE DEF d
  <2> QED BY <1>2, <1>6 DEF Caches
<1> HIDE DEF d
<1>8. SameTree(c, d, 1 .. L)
  <2>1. c.clock <= d.clock
    BY <1>7 DEF Caches
  <2> QED BY <1>5, <1>7, <2>1 DEF SameTree, SameLinks
<1>9. Shape(c, cs, B) => Woven(c, Roots(cs)) /\ Guarded(c, P)
  BY Zenon DEF Shape
<1>10. Account(d)
  <2>1. Live(d) = Live(c) /\ Ids(d) = Ids(c) /\ Live(c) \subseteq 1 .. L
    <3>1. Live(c) \subseteq 1 .. L
      BY LiveIs, Zenon
    <3> QED BY <1>7, <1>8, <3>1, SameTreeSets
  <2>2. WithModel(d) = WithModel(c)
    BY <1>5, <1>7, <2>1 DEF WithModel
  <2>3. Account(c)
    BY <1>9 DEF Woven
  <2> QED BY <1>7, <2>1, <2>2, <2>3 DEF Account
<1>11. Blank(d)
  <2>1. Ids(d) = 1 .. L
    BY <1>7, CacheIds, Zenon
  <2>2. Blank(c)
    BY <1>9 DEF Woven
  <2> QED BY <1>1, <1>5, <1>7, <2>1, <2>2 DEF Blank, IsBlank
<1>12. Guarded(d, P)
  <2>1. Guarded(c, P) /\ P \subseteq 1 .. L
    BY <1>9, StackIs
  <2>2. Live(d) = Live(c)
    BY <1>7, <1>8, SameTreeSets, ZenonT(60)
  <2>3. \A e \in P : d.entry[e] = c.entry[e]
    BY <1>5, <1>7, <2>1
  <2> QED BY <2>1, <2>2, <2>3 DEF Guarded
<1>13. Live(d) = Live(c) /\ Confirmed(d) = Confirmed(c)
  <2>1. Live(d) = Live(c) /\ Live(c) \subseteq 1 .. L
    BY <1>7, <1>8, SameTreeSets, LiveIs
  <2> QED BY <1>5, <1>7, <2>1 DEF Confirmed
<1>14. Tabled(d)
  <2>1. Tabled(c) /\ Confirmed(c) \subseteq 1 .. L
    BY <1>9, ConfirmedIs DEF Woven
  <2>2. /\ \A e \in Confirmed(c) : d.entry[e].chain = c.entry[e].chain /\ d.entry[e].comp = c.entry[e].comp
        /\ \A e \in (1 .. L) \ Confirmed(c) : d.entry[e].chain = INVALID_ENTRY
    BY <1>1, <1>5, <1>7, <2>1 DEF Tabled
  <2> QED BY ONLY <1>7, <1>13, <2>1, <2>2, L \in Nat, c \in Caches(K, L), TabledSame
<1>15. Shape(d, cs, B)
  BY <1>7, <1>8, <1>10, <1>11, <1>12, <1>14, ShapeSame, Zenon
<1>16. Open(d) = Open(c)
  BY <1>13 DEF Open
<1>17. Lessened(c, d)
  <2>1. Live(c) \subseteq 1 .. L /\ Confirmed(c) \subseteq Live(c)
    BY LiveIs DEF Confirmed
  <2>2. Ids(d) = 1 .. L
    BY <1>7, CacheIds, Zenon
  <2> QED BY <1>1, <1>5, <1>7, <1>13, <2>1, <2>2 DEF Lessened
<1> QED BY <1>5, <1>7, <1>13, <1>15, <1>16, <1>17 DEF d

(* The loose entries are of the branch that is to be cleaned.              *)
Late == \A e \in Loose(cache, comps) : cache.entry[e].created >= TopDecision.split

LEMMA CleanStructure ==
  ASSUME Control, Structure, Clean
  PROVE  /\ Structure' /\ (Late => Loose(cache', comps') = {}) /\ Lessened(cache, cache')
         /\ cache'.clock = cache.clock /\ Emptied(cache, cache', TopDecision.split)
<1> DEFINE K == KeysOf(input)
           R == CompsOf(input)
           L == Len(cache.entry)
           B == Branches(decisions)
           d == TopDecision
           e == [d EXCEPT !.top = d.base]
           popped == {comps[i].id : i \in d.base + 1 .. d.top}
           c == Permitted(cache, popped)
           x == comps[d.base].id
           ts == SubSeq(comps, 1, d.base)
<1>1. /\ L \in Nat /\ cache \in Caches(K, L) /\ comps \in Seq([id : 1 .. L, comp : R])
      /\ Len(comps) \in Nat /\ input \in DOMAIN Inputs
      /\ 1 <= d.base /\ d.base <= Len(comps) /\ d.top = Len(comps) /\ d \in Decisions
      /\ Len(decisions) \in Nat /\ Len(decisions) >= 1 /\ d = decisions[Len(decisions)]
      /\ \A k \in 1 .. Len(decisions) : decisions[k] \in Decisions
  BY TypedFacts DEF Control, Typed
<1>2. Hashed(K)
  BY <1>1, InputFacts
<1>3. /\ cache' = CleanDescendants(c, x, d.split) /\ comps' = ts /\ decisions' = SetTop(e)
      /\ pc' = "backtrack"
  BY DEF Clean, Permitted
<1>4. e \in Decisions /\ e.base = d.base /\ e.split = d.split /\ d.base \in Nat /\ d.split \in Nat
  BY <1>1 DEF Decisions, Times
<1>5. Branches(decisions') = B
  <2> HIDE DEF e
  <2> QED BY <1>3, <1>4, TopBranches, Zenon
<1>6. Shape(cache, comps, B) /\ cache.clock <= NoSplit
  BY DEF Structure
<1> HIDE DEF K, R, L, e, B, ts, c, popped, d
<1>7. ts \in Stack(L, R) /\ Len(ts) = d.base /\ \A i \in 1 .. d.base : ts[i] = comps[i]
  <2>1. d.base \in 0 .. Len(comps)
    BY <1>1, <1>4
  <2> QED BY <1>1, <2>1, PrefixIs, Zenon DEF Stack, ts
<1>8. \A b \in B : b[1] <= Len(ts)
  <2> SUFFICES ASSUME NEW b \in B PROVE b[1] <= Len(ts)
    OBVIOUS
  <2>1. PICK k \in 1 .. Len(decisions) : b = <<decisions[k].base, decisions[k].split>>
    BY DEF Branches, B
  <2>2. decisions[k].base <= d.base
    BY BasesBelow, Zenon DEF d
  <2> QED BY <1>7, <2>1, <2>2
<1>9. /\ Shape(cache, ts, B)
      /\ \A i \in Len(ts) + 1 .. Len(comps) : comps[i].id \in Open(cache) \ OnStack(ts)
  <2>1. 1 <= Len(ts) /\ Len(ts) <= Len(comps) /\ \A i \in 1 .. Len(ts) : ts[i] = comps[i]
    BY <1>1, <1>7
  <2>2. comps \in Stack(L, R) /\ B \in SUBSET B
    BY <1>1 DEF Stack
  <2> QED BY ONLY <1>1, <1>6, <1>7, <1>8, <2>1, <2>2, ShapeCut
<1>10. popped \cap OnStack(ts) = {}
  BY <1>1, <1>7, <1>9 DEF popped
<1>11. /\ c \in Caches(K, L) /\ Shape(c, ts, B) /\ c.clock = cache.clock
       /\ \A y \in 1 .. L : c.entry[y].created = cache.entry[y].created
       /\ Open(c) = Open(cache) /\ Live(c) = Live(cache) /\ Lessened(cache, c)
  BY ONLY <1>1, <1>7, <1>9, <1>10, PermitShape DEF c
<1>12. x = ts[Len(ts)].id /\ x \in 1 .. L
  <2>1. d.base \in 1 .. d.base /\ d.base \in 1 .. Len(comps)
    BY <1>1, <1>4
  <2>2. ts[d.base] = comps[d.base]
    BY <1>7, <2>1
  <2>3. comps[d.base].id \in 1 .. L
    BY <1>1, <2>1, StackElements, Zenon
  <2> QED BY <1>7, <2>2, <2>3
<1> DEFINE b == <<d.base, d.split>>
<1>13. /\ c.entry[x].created < d.split /\ b \in B
       /\ \A i \in d.base + 1 .. Len(comps) : cache.entry[comps[i].id].created >= d.split
  <2>1. b \in B
    <3>1. Len(decisions) \in 1 .. Len(decisions)
      BY <1>1
    <3> QED BY <1>1, <3>1 DEF B, Branches
  <2>2. b[1] = d.base /\ b[2] = d.split
    OBVIOUS
  <2> HIDE DEF b
  <2>3. Branching(cache, comps, b)
    BY <1>6, <2>1 DEF Shape
  <2>4. cache.entry[x].created < d.split
    BY <2>2, <2>3 DEF Branching, BranchAt
  <2>5. \A i \in d.base + 1 .. Len(comps) : cache.entry[comps[i].id].created >= d.split
    BY <2>2, <2>3 DEF Branching
  <2> QED BY <1>11, <1>12, <2>1, <2>4, <2>5
<1> HIDE DEF x, b
<1>14. /\ Shape(CleanDescendants(c, x, d.split), ts, B) /\ CleanDescendants(c, x, d.split).clock = c.clock
       /\ Lessened(c, CleanDescendants(c, x, d.split))
       /\ <<Len(ts), d.split>> \in B => Emptied(c, CleanDescendants(c, x, d.split), d.split)
  <2>1. L \in Nat /\ c \in Caches(K, L) /\ ts \in Stack(L, R) /\ Shape(c, ts, B)
    BY <1>1, <1>7, <1>11
  <2>2. d.split \in Nat
    BY <1>4
  <2> QED BY ONLY <1>2, <1>12, <1>13, <2>1, <2>2, ShapeClean
<1>15. cache'.clock <= NoSplit
  BY <1>3, <1>6, <1>11, <1>14
<1>16. Shape(cache', comps', Branches(decisions')) /\ pc' # "exit"
  BY <1>3, <1>5, <1>14
<1>17. Structure'
  BY <1>15, <1>16, Zenon DEF Structure
<1>18. Emptied(c, cache', d.split)
  <2>1. <<Len(ts), d.split>> \in B
    BY <1>7, <1>13 DEF b
  <2> QED BY <1>3, <1>14, <2>1
<1>19. ASSUME Late, NEW y \in Loose(cache', comps') PROVE FALSE
  <2>1. y \in Open(cache) /\ y \in 1 .. L /\ y \in Live(cache') /\ y \notin OnStack(ts)
    <3>1. y \in Open(cache') /\ y \notin OnStack(ts)
      BY <1>3, <1>19 DEF Loose
    <3>2. y \in Open(cache) /\ y \in Live(cache')
      BY <1>11, <1>18, <3>1 DEF Emptied, Open
    <3>3. Live(cache) \subseteq 1 .. L
      BY <1>1, LiveIs, Zenon
    <3> QED BY <3>1, <3>2, <3>3 DEF Open
  <2>2. cache'.entry[y].created = cache.entry[y].created
    BY <1>11, <1>18, <2>1 DEF Emptied
  <2>3. cache.entry[y].created >= d.split
    <3>1. CASE y \in OnStack(comps)
      <4>1. PICK i \in 1 .. Len(comps) : y = comps[i].id
        BY <3>1 DEF OnStack
      <4>2. i \notin 1 .. d.base
        <5>1. \A j \in 1 .. d.base : ts[j] = comps[j] /\ j \in 1 .. Len(ts)
          BY <1>7
        <5> QED BY <2>1, <4>1, <5>1 DEF OnStack
      <4>3. i \in d.base + 1 .. Len(comps)
        <5>1. ASSUME NEW p \in Nat, NEW q \in Nat, NEW j \in 1 .. q, j \notin 1 .. p PROVE j \in p + 1 .. q
          BY <5>1
        <5> QED BY <1>1, <1>4, <4>2, <5>1, Zenon
      <4> QED BY <1>13, <4>1, <4>3
    <3>2. CASE y \notin OnStack(comps)
      <4>1. y \in Loose(cache, comps)
        BY <2>1, <3>2 DEF Loose
      <4> QED BY <1>19, <4>1 DEF Late, d
    <3> QED BY <3>1, <3>2
  <2>4. y \in Since(cache', d.split)
    BY <2>1, <2>2, <2>3 DEF Since
  <2> QED BY <1>18, <2>4 DEF Emptied
<1>20. Lessened(cache, cache')
  BY <1>3, <1>11, <1>14 DEF Lessened
<1>21. Emptied(cache, cache', d.split)
  <2>1. Live(cache) \subseteq 1 .. L
    BY <1>1, LiveIs, Zenon
  <2>2. Since(c, d.split) = Since(cache, d.split)
    BY <1>11, <2>1 DEF Since
  <2>3. \A y \in Live(cache') : y \in 1 .. L
    BY <1>11, <1>18, <2>1 DEF Emptied
  <2> QED BY <1>11, <1>18, <2>2, <2>3 DEF Emptied
<1>22. cache'.clock = cache.clock
  BY <1>3, <1>11, <1>14
<1> QED BY <1>17, <1>19, <1>20, <1>21, <1>22 DEF d

(* The entry of the root, alone in the cache.                              *)
IsRootEntry(c) ==
    /\ c.clock = 1 /\ c.memory = 1 /\ c.freeSlots = <<>>
    /\ c.entry[1].father = INVALID_ENTRY /\ c.entry[1].first = INVALID_ENTRY
    /\ ~ c.entry[1].model /\ ~ c.entry[1].zero /\ ~ c.entry[1].delete /\ ~ c.entry[1].free
    /\ c.entry[1].created = 0 /\ c.entry[1].comp = NoComp /\ c.entry[1].chain = INVALID_ENTRY
    /\ c.confirmed = 0 /\ \A slot \in DOMAIN c.table : c.table[slot] = INVALID_ENTRY

LEMMA RootEntryIs ==
  ASSUME NEW K, Hashed(K), NEW max \in Nat
  PROVE  IsRootEntry(NewRootEntry(EmptyCache(max)))
<1> DEFINE c == EmptyCache(max)
           d == AllocEntry(c)
<1>1. c \in Caches(K, 0) /\ AllocId(c) = 1
  BY RootType
<1>2. /\ c.freeSlots = <<>> /\ c.clock = 1 /\ c.memory = 0 /\ 0 \in Nat /\ c.confirmed = 0
      /\ \A slot \in DOMAIN c.table : c.table[slot] = INVALID_ENTRY
  BY DEF EmptyCache
<1> HIDE DEF c
<1>3. Grown(c, 0) = 1
  BY <1>2 DEF Grown
<1>4. d \in Caches(K, 1) /\ IsAlloc(c, d, 1, 0)
  <2>1. d \in Caches(K, Grown(c, 0)) /\ IsAlloc(c, d, AllocId(c), 0)
    BY <1>1, <1>2, AllocType, Zenon
  <2> QED BY <1>1, <1>3, <2>1, Zenon
<1> HIDE DEF d
<1>5. /\ d.entry[1] = FreshEntry /\ d.freeSlots = <<>> /\ d.clock = 1 /\ d.memory = 0
      /\ d.confirmed = 0 /\ \A slot \in DOMAIN d.table : d.table[slot] = INVALID_ENTRY
  <2>1. d.entry[0 + 1] = FreshEntry /\ d.freeSlots = <<>>
    BY <1>2, <1>4 DEF IsAlloc
  <2>2. d.clock = c.clock /\ d.memory = c.memory /\ d.table = c.table /\ d.confirmed = c.confirmed
    BY <1>1, <1>4 DEF IsAlloc, Caches
  <2> QED BY <1>2, <2>1, <2>2
<1> DEFINE e == [d.entry[1] EXCEPT !.free = FALSE]
           f == [d.entry EXCEPT ![1] = e]
           m == d.memory + 1
           n == [d EXCEPT !.entry = f, !.memory = m]
<1>6. /\ e.father = INVALID_ENTRY /\ e.first = INVALID_ENTRY /\ e.created = 0
      /\ ~ e.model /\ ~ e.zero /\ ~ e.delete /\ ~ e.free /\ e.comp = NoComp /\ e.chain = INVALID_ENTRY
  BY <1>5 DEF FreshEntry
<1> HIDE DEF e
<1>7. f[1] = e /\ m = 1
  BY <1>4, <1>5 DEF Caches
<1>8. NewRootEntry(c) = n
  BY <1>1, <1>4 DEF NewRootEntry, Caches, d, e
<1> HIDE DEF f, m
<1>9. /\ n.entry = f /\ n.clock = 1 /\ n.memory = m /\ n.freeSlots = <<>>
      /\ n.table = d.table /\ n.confirmed = d.confirmed
  BY <1>4, <1>5 DEF Caches
<1> HIDE DEF n
<1> QED BY <1>5, <1>6, <1>7, <1>8, <1>9 DEF IsRootEntry, c

LEMMA RootShape ==
  ASSUME NEW K, NEW c \in Caches(K, 1), IsRootEntry(c), NEW R, NEW cs \in Stack(1, R), Len(cs) = 1
  PROVE  Shape(c, cs, {})
<1>1. 1 \in Nat /\ 1 \in 1 .. 1 /\ 1 .. 1 = {1}
  OBVIOUS
<1>2. cs[1].id = 1 /\ \A i \in 1 .. Len(cs) : i = 1
  <2>1. cs[1].id \in 1 .. 1
    BY StackIs, <1>1
  <2> QED BY <2>1
<1>3. Ids(c) = {1} /\ Live(c) = {1}
  <2>1. Ids(c) = 1 .. 1 /\ Live(c) = {e \in 1 .. 1 : ~ c.entry[e].free}
    BY <1>1, CacheIds, LiveIs, Zenon
  <2> QED BY <1>1, <2>1 DEF IsRootEntry
<1>4. Roots(cs) = {1} /\ OnStack(cs) = {1}
  BY <1>2 DEF Roots, OnStack
<1>5. Account(c)
  <2>1. WithModel(c) = {}
    BY <1>3 DEF WithModel, IsRootEntry
  <2>2. Cardinality({}) = 0 /\ Cardinality({1}) = 1
    BY FS_EmptySet, FS_Singleton
  <2>3. ToSet(c.freeSlots) = {} /\ IsInjective(c.freeSlots)
    BY DEF IsRootEntry, ToSet, IsInjective
  <2> QED BY <1>3, <2>1, <2>2, <2>3 DEF Account, IsRootEntry
<1>6. Blank(c)
  BY <1>3 DEF Blank, IsRootEntry
<1>7. Rooted(c, {1})
  BY <1>3 DEF Rooted, IsRootEntry
<1>8. Listed(c)
  <2>1. Kids(c, 1) = {}
    BY <1>3 DEF Kids, IsRootEntry, INVALID_ENTRY
  <2>2. ListOf(1 .. 1, NextOf(c), c.entry[1].first, <<>>, {})
    BY DEF ListOf, Piece, ToSet, IsInjective, IsRootEntry
  <2>3. ListOf(Ids(c), NextOf(c), c.entry[1].first, Children(c, 1), {})
    BY <1>1, <2>2, ChildrenAre, Zenon
  <2> QED BY <1>3, <2>1, <2>3 DEF Listed
<1>9. Guarded(c, {1})
  BY <1>3 DEF Guarded, IsRootEntry
<1>10. Climbs(c, cs) /\ Below(c, cs, {})
  BY DEF Climbs, Below
<1>11. Tabled(c)
  <2>1. Confirmed(c) = {} /\ Cardinality({}) = 0
    BY <1>3, FS_EmptySet DEF Confirmed, IsRootEntry
  <2>2. ASSUME NEW slot \in DOMAIN c.table
        PROVE  ListOf(Ids(c), ChainOf(c), c.table[slot], Bucket(c, slot), InSlot(c, slot))
    <3>1. ListOf(1 .. 1, ChainOf(c), c.table[slot], <<>>, InSlot(c, slot))
      <4>1. c.table[slot] = INVALID_ENTRY /\ InSlot(c, slot) = {}
        BY <2>1 DEF IsRootEntry, InSlot
      <4> QED BY <4>1 DEF ListOf, Piece, ToSet, IsInjective
    <3> QED BY <1>1, <3>1, BucketIs, Zenon
  <2> QED BY <1>3, <2>1, <2>2 DEF Tabled, IsRootEntry
<1> QED BY <1>4, <1>5, <1>6, <1>7, <1>8, <1>9, <1>10, <1>11 DEF Shape, Woven

LEMMA InitStructure ==
  ASSUME Init
  PROVE  Structure
<1> DEFINE K == KeysOf(input)
           R == CompsOf(input)
           max == Inputs[input].maxMemory
           d == ChangeBranch(NewDecision(1))
           x == [id |-> 1, comp |-> RootComp]
<1>1. Hashed(K) /\ RootComp \in R /\ max \in Nat
  BY InputFacts DEF Init
<1>2. /\ cache = NewRootEntry(EmptyCache(max)) /\ comps = <<x>> /\ decisions = <<d>> /\ pc = "main"
  <2>1. AllocId(EmptyCache(0)) = 1
    BY <1>1, RootType
  <2> QED BY <2>1 DEF Init
<1>3. cache \in Caches(K, 1) /\ IsRootEntry(cache)
  BY ONLY <1>1, <1>2, RootType, RootEntryIs
<1>4. comps \in Stack(1, R) /\ Len(comps) = 1
  BY <1>1, <1>2 DEF Stack
<1>5. d.base = 1 /\ d.split = NoSplit
  BY DEF ChangeBranch, NewDecision
<1>6. Branches(decisions) = {<<Len(comps), NoSplit>>}
  <2> HIDE DEF d
  <2> QED BY <1>2, <1>4, <1>5 DEF Branches
<1> HIDE DEF K, R
<1>7. cache.clock <= NoSplit
  BY <1>3, BoundsAssumption DEF IsRootEntry
<1>8. Shape(cache, comps, {})
  BY <1>3, <1>4, RootShape, Zenon
<1>9. Shape(cache, comps, Branches(decisions))
  <2>1. 1 \in Nat /\ \A b \in Branches(decisions) : b \in {} \/ b = <<Len(comps), NoSplit>>
    BY <1>6
  <2> QED BY <1>3, <1>4, <1>7, <1>8, <2>1, AddBranch, Zenon
<1> QED BY <1>2, <1>4, <1>7, <1>9 DEF Structure

LEMMA NextStructure ==
  ASSUME Control, Structure, [Next]_vars
  PROVE  Structure'
<1>1. CASE \/ ConflictAtEntry \/ StartExists \/ ExistsDone \/ BacktrackRoot \/ BacktrackEntry
           \/ Signal \/ Interrupt \/ Done \/ UNCHANGED vars
  BY <1>1, QuietActionsStructure
<1>2. CASE Conflict \/ ExistsFalse \/ SimplifyFails
  BY <1>2, TopActionsStructure
<1>3. CASE FlipBranch \/ Decide
  BY <1>3, BranchesBegin
<1>4. CASE Split
  BY <1>4, SplitStructure
<1>5. CASE ExistsTrue
  BY <1>5, ExistsTrueStructure
<1>6. CASE FinishLevel
  BY <1>6, FinishStructure
<1>7. CASE Clean
  BY <1>7, CleanStructure
<1> QED BY <1>1, <1>2, <1>3, <1>4, <1>5, <1>6, <1>7, Zenon DEF Next, Search

(***************************************************************************)
(* The tree of the cached components, the lists of the descendants, the    *)
(* account of the memory and the component stack stay in step through      *)
(* every insertion, eviction, cleaning, split and return, for every input  *)
(* and with no bound on the entries, the levels or the components.         *)
(***************************************************************************)
THEOREM TreeInvariant == Spec => [](Control /\ Structure)
<1>1. Init => Control /\ Structure
  BY InitControl, InitStructure
<1>2. (Control /\ Structure) /\ [Next]_vars => (Control /\ Structure)'
  BY NextKeeps, NextStructure
<1> QED BY <1>1, <1>2, PTL DEF Spec

(* The stretches of the component stack that the decisions own are those   *)
(* between base_ and top_, every component on it is part of the one it was *)
(* split from, which is on the stack below it and is the father of its     *)
(* entry, and no entry on the stack has been freed, counted or condemned.  *)
THEOREM StacksAreOwned == Spec => []StacksOK
<1>1. Control /\ Structure => StacksOK
  <2> SUFFICES ASSUME Control, Structure PROVE StacksOK
    OBVIOUS
  <2> DEFINE L == Len(cache.entry)
             N == Len(decisions)
             C == Len(comps)
             R == CompsOf(input)
  <2>1. /\ L \in Nat /\ comps \in Stack(L, R) /\ C \in Nat /\ N \in Nat /\ N >= 1
        /\ TopDecision = decisions[N]
        /\ \A k \in 1 .. N : decisions[k] \in Decisions
    BY TypedFacts DEF Control, Stack
  <2>2. Owned(decisions, comps)
    BY Zenon DEF Control, Stretches
  <2>3. /\ Guarded(cache, OnStack(comps)) /\ Below(cache, comps, Branches(decisions))
        /\ pc = "exit" => C = 1
    BY Zenon DEF Structure, Shape
  <2>4. TopDecision.top = C
    BY <2>1, <2>2, Zenon DEF Owned
  <2>5. \A k \in 1 .. N : decisions[k].base \in Nat /\ decisions[k].top \in Nat
    BY <2>1, DecisionOps, Zenon
  <2>6. ASSUME NEW k \in 1 .. N
        PROVE  /\ decisions[k].base <= decisions[k].top /\ 1 <= decisions[k].base /\ decisions[k].top <= C
               /\ decisions[k].base = IF k = 1 THEN 1 ELSE decisions[k - 1].top
    <3>1. decisions[k].base <= decisions[k].top /\ 1 <= decisions[k].base
      BY <2>2, Zenon DEF Owned
    <3>2. decisions[k].base = IF k = 1 THEN 1 ELSE decisions[k - 1].top
      <4>1. k = 1 \/ (k - 1 \in 1 .. N - 1 /\ (k - 1) + 1 = k)
        BY <2>1
      <4>2. CASE k = 1
        BY <2>2, <4>2 DEF Owned
      <4>3. CASE k # 1
        <5>1. k - 1 \in 1 .. N - 1 /\ (k - 1) + 1 = k
          BY <4>1, <4>3
        <5> HIDE DEF N
        <5>2. decisions[(k - 1) + 1].base = decisions[k - 1].top
          BY <2>2, <5>1, Zenon DEF Owned, N
        <5> QED BY <4>3, <5>1, <5>2
      <4> QED BY <4>2, <4>3
    <3>3. decisions[k].top <= C
      <4>1. CASE k = N
        BY <2>1, <2>4, <2>5, <4>1
      <4>2. CASE k # N
        <5>1. k < N /\ N \in 1 .. N
          BY <2>1, <4>2
        <5>2. decisions[k].top <= decisions[N].base /\ decisions[N].base <= decisions[N].top
          BY <2>2, <5>1 DEF Owned
        <5>3. ASSUME NEW p \in Nat, NEW q \in Nat, NEW r \in Nat, p <= q, q <= r PROVE p <= r
          BY <5>3
        <5> QED BY <2>1, <2>4, <2>5, <5>1, <5>2, <5>3, Zenon
      <4> QED BY <4>1, <4>2
    <3> QED BY <3>1, <3>2, <3>3, Zenon
  <2>7. ASSUME NEW k \in 1 .. N, NEW i \in decisions[k].base + 1 .. decisions[k].top
        PROVE  \E j \in decisions[k].base .. i - 1 : /\ comps[i].comp.vars \subseteq comps[j].comp.vars
                                                     /\ cache.entry[comps[i].id].father = comps[j].id
    <3> DEFINE b == <<decisions[k].base, decisions[k].split>>
    <3>1. i \in 2 .. C /\ decisions[k].base < i /\ i \in Nat /\ decisions[k].base \in Nat
      BY <2>1, <2>5, <2>6
    <3>2. PICK j \in 1 .. i - 1 : /\ comps[i].comp.vars \subseteq comps[j].comp.vars
                                  /\ cache.entry[comps[i].id].father = comps[j].id
                                  /\ \A u \in Branches(decisions) : u[1] < i => u[1] <= j
      BY <2>3, <3>1 DEF Below
    <3>3. b \in Branches(decisions)
      BY DEF Branches
    <3>4. b[1] = decisions[k].base
      OBVIOUS
    <3> HIDE DEF b
    <3>5. decisions[k].base <= j
      BY <3>1, <3>2, <3>3, <3>4
    <3>6. j \in decisions[k].base .. i - 1
      BY <3>1, <3>5
    <3> QED BY <3>2, <3>6
  <2>8. ASSUME NEW i \in 1 .. C
        PROVE  LET e == cache.entry[comps[i].id] IN ~ e.free /\ ~ e.delete /\ ~ e.model /\ ~ e.zero
    <3>1. comps[i].id \in OnStack(comps)
      BY DEF OnStack
    <3> QED BY <2>3, <3>1 DEF Guarded, Live
  <2> QED BY ONLY <2>3, <2>4, <2>6, <2>7, <2>8, Zenon DEF StacksOK
<1> QED BY <1>1, TreeInvariant, PTL

(* memoryUsage_ is the size of what the cache holds: every entry counts    *)
(* for itself and a stored count for one more, and freeEntrySlots_ lists   *)
(* every free slot once.                                                   *)
THEOREM AccountsBalance == Spec => []AccountsOK
<1>1. Structure => AccountsOK
  BY DEF Structure, Shape, Woven, Account, WithModel, AccountsOK
<1> QED BY <1>1, TreeInvariant, PTL

(* Every entry but the root's has a father that is alive and older, and is *)
(* in the father's list of descendants, which holds nothing else; and what *)
(* a branch has created comes first in the list of the component it has    *)
(* split, which is what cleanDescendants() relies on where it stops.       *)
THEOREM ListsAreSound == Spec => []ListsOK
<1>1. Control /\ Structure => ListsOK
  <2> SUFFICES ASSUME Control, Structure PROVE ListsOK
    OBVIOUS
  <2> DEFINE L == Len(cache.entry)
             K == KeysOf(input)
             N == Len(decisions)
  <2>1. /\ L \in Nat /\ cache \in Caches(K, L) /\ N \in Nat /\ DOMAIN decisions = 1 .. N
    BY TypedFacts DEF Control, Typed
  <2>2. /\ Rooted(cache, {comps[1].id}) /\ Listed(cache)
        /\ \A b \in Branches(decisions) : Branching(cache, comps, b)
    BY Zenon DEF Structure, Shape, Woven, Roots
  <2>3. \A g \in Live(cache) : ToSet(Children(cache, g)) = Kids(cache, g)
    BY <2>2, Zenon DEF Listed, ListOf
  <2>4. ASSUME NEW id \in Live(cache) \ {comps[1].id}
        PROVE  LET father == cache.entry[id].father
               IN  /\ father \in Live(cache)
                   /\ cache.entry[father].created < cache.entry[id].created
                   /\ id \in ToSet(Children(cache, father))
    <3>1. /\ cache.entry[id].father \in Live(cache)
          /\ cache.entry[cache.entry[id].father].created < cache.entry[id].created
      BY <2>2, Zenon DEF Rooted
    <3>2. id \in Kids(cache, cache.entry[id].father)
      BY DEF Kids
    <3> QED BY <2>3, <3>1, <3>2, Zenon
  <2>5. ASSUME NEW id \in Live(cache), NEW kid \in ToSet(Children(cache, id))
        PROVE  kid \in Live(cache) /\ cache.entry[kid].father = id
    BY <2>3 DEF Kids
  <2>6. ASSUME NEW d \in Range(decisions)
        PROVE  LET kids == Children(cache, comps[d.base].id)
                   New(i) == cache.entry[kids[i]].created >= d.split
               IN  \A i, j \in 1 .. Len(kids) : i < j /\ New(j) => New(i)
    <3> DEFINE x == comps[d.base].id
               kids == Children(cache, x)
    <3>1. PICK k \in 1 .. N : d = decisions[k]
      BY <2>1 DEF Range
    <3> DEFINE b == <<decisions[k].base, decisions[k].split>>
    <3>2. b \in Branches(decisions)
      BY DEF Branches
    <3>3. b[1] = d.base /\ b[2] = d.split
      BY <3>1
    <3> HIDE DEF b
    <3>4. BranchAt(cache, Roots(comps), x, d.split)
      BY <2>2, <3>2, <3>3 DEF Branching
    <3>5. x \in Live(cache) /\ Leads(kids, Since(cache, d.split))
      BY <3>4, Zenon DEF BranchAt
    <3>6. kids \in Seq(Ids(cache)) /\ ToSet(kids) = Kids(cache, x)
      BY <2>2, <3>5, Zenon DEF Listed, ListOf
    <3> HIDE DEF kids, x
    <3>7. \A i \in 1 .. Len(kids) : kids[i] \in Live(cache)
      <4>1. \A i \in 1 .. Len(kids) : kids[i] \in ToSet(kids)
        BY <3>6 DEF ToSet
      <4> QED BY <3>6, <4>1 DEF Kids
    <3>8. \A i \in 1 .. Len(kids) : kids[i] \in Since(cache, d.split) <=> cache.entry[kids[i]].created >= d.split
      BY <3>7 DEF Since
    <3>9. \A i, j \in 1 .. Len(kids) : i < j /\ cache.entry[kids[j]].created >= d.split
                                         => cache.entry[kids[i]].created >= d.split
      BY <3>5, <3>8, Zenon DEF Leads
    <3> QED BY <3>9, Zenon DEF kids, x
  <2> QED BY <2>4, <2>5, <2>6, Zenon DEF ListsOK
<1> QED BY <1>1, TreeInvariant, PTL

(***************************************************************************)
(* Nothing dead stays in the cache.                                        *)
(***************************************************************************)

(* Neither branch has the count zero: counts are added and multiplied      *)
(* without weights.                                                        *)
Nonzero(d) == d.models[1] # "zero" /\ d.models[2] # "zero"

NoZeros == \A k \in 1 .. Len(decisions) : Nonzero(decisions[k])

LEMMA NonzeroOps ==
  ASSUME NEW d \in Decisions, Nonzero(d)
  PROVE  /\ Nonzero(MarkBranchUnsat(d)) /\ Nonzero(ChangeBranch(d)) /\ Nonzero(NextComp(d))
         /\ Nonzero(IncreaseModels(d, "some"))
         /\ \A n : Nonzero([d EXCEPT !.top = n]) /\ Nonzero([d EXCEPT !.split = n])
<1> DEFINE b == Branch(d)
           Marked(v) == [d EXCEPT !.models[b] = v]
<1>1. b \in {1, 2}
  BY DEF Branch
<1> HIDE DEF b
<1>2. ASSUME NEW v, v # "zero" PROVE Nonzero(Marked(v))
  <2>1. d.models \in Counts \X Counts
    BY DEF Decisions
  <2>2. Marked(v).models = [d.models EXCEPT ![b] = v]
    BY DEF Decisions
  <2>3. [d.models EXCEPT ![b] = v][1] # "zero" /\ [d.models EXCEPT ![b] = v][2] # "zero"
    BY <1>1, <1>2, <2>1 DEF Nonzero
  <2> QED BY <2>2, <2>3 DEF Nonzero
<1>3. Nonzero(MarkBranchUnsat(d))
  <2>1. MarkBranchUnsat(d) = Marked("none")
    BY DEF MarkBranchUnsat, b
  <2> HIDE DEF Marked
  <2> QED BY <1>2, <2>1
<1>4. Nonzero(IncreaseModels(d, "some"))
  <2>1. d.models[b] # "zero"
    BY <1>1 DEF Nonzero
  <2>2. Increase(d.models[b], "some") # "zero"
    BY <2>1 DEF Increase
  <2>3. IncreaseModels(d, "some") = Marked(Increase(d.models[b], "some"))
    BY DEF IncreaseModels, Decisions, b
  <2> HIDE DEF Marked
  <2> QED BY <1>2, <2>2, <2>3
<1>5. Nonzero(ChangeBranch(d)) /\ Nonzero(NextComp(d))
  BY DEF ChangeBranch, NextComp, Nonzero, Decisions
<1>6. \A n : Nonzero([d EXCEPT !.top = n]) /\ Nonzero([d EXCEPT !.split = n])
  BY DEF Nonzero, Decisions
<1> QED BY <1>3, <1>4, <1>5, <1>6

LEMMA TopNonzero ==
  ASSUME decisions \in Seq(Decisions), Len(decisions) >= 1, NoZeros,
         NEW d \in Decisions, Nonzero(d), decisions' = SetTop(d)
  PROVE  NoZeros'
<1> DEFINE N == Len(decisions)
<1>1. /\ Len(decisions') = N /\ decisions'[N] = d
      /\ \A k \in 1 .. N - 1 : decisions'[k] = decisions[k]
  BY ReplacedTop
<1>2. \A k \in 1 .. N : k = N \/ k \in 1 .. N - 1
  OBVIOUS
<1>3. \A k \in 1 .. N : Nonzero(decisions[k])
  BY DEF NoZeros
<1> HIDE DEF N
<1>4. \A k \in 1 .. N : Nonzero(decisions'[k])
  BY <1>1, <1>2, <1>3, Zenon
<1> QED BY <1>1, <1>4 DEF NoZeros

(* splitComponent() without weights.                                       *)
LEMMA ExploreNonzero ==
  ASSUME NEW K, NEW R, NEW parent, NEW s \in States(K, R, parent), Nonzero(s.decision), NEW comp
  PROVE  Nonzero(ExploreBelow(parent, s, comp).decision)
<1>1. PICK L \in Nat : s \in StatesWith(K, R, L)
  BY DEF States
<1> DEFINE more == IncreaseModels(s.decision, "some")
           enter == Entered(s, comp, parent)
           longer == Append(s.comps, [id |-> AllocId(s.cache), comp |-> comp])
           left == PollsLeft(s.cache, s.polls)
           look == Lookup(s.cache, comp)
           id == Find(s.cache, comp)
<1>2. Nonzero(more)
  BY <1>1, NonzeroOps DEF StatesWith
<1>3. ExploreBelow(parent, s, comp) =
        IF s.dead THEN s
        ELSE IF id = INVALID_ENTRY THEN [s EXCEPT !.cache = enter, !.comps = longer, !.polls = left]
        ELSE IF s.cache.entry[id].zero THEN [s EXCEPT !.cache = look, !.dead = TRUE]
        ELSE [s EXCEPT !.cache = look, !.decision = more]
  BY DEF ExploreBelow
<1> HIDE DEF more, enter, longer, left, look, id
<1>4. /\ [s EXCEPT !.cache = enter, !.comps = longer, !.polls = left].decision = s.decision
      /\ [s EXCEPT !.cache = look, !.dead = TRUE].decision = s.decision
      /\ [s EXCEPT !.cache = look, !.decision = more].decision = more
  BY <1>1 DEF StatesWith
<1> QED BY <1>2, <1>3, <1>4

LEMMA SplitNonzero ==
  ASSUME Control, NoZeros, ~ Weighted, NEW found \in Left, NEW order \in Ascending(found),
         NEW free \in FreeFactors, NEW polls \in Polls
  PROVE  Nonzero(SplitComponent(order, free, polls).decision)
<1> DEFINE K == KeysOf(input)
           R == CompsOf(input)
           parent == Last(comps).id
           b == Begun(free, polls)
           N == Len(order)
           time == IF TopDecision.split = NoSplit THEN cache.clock ELSE TopDecision.split
           top == [TopDecision EXCEPT !.split = time]
<1>1. Hashed(K) /\ R \in SUBSET K
  BY InputFacts DEF Typed, Control
<1>2. Typed /\ Stretches
  BY DEF Control
<1>3. b \in States(K, R, parent)
  BY <1>2, BegunType, Zenon
<1>4. order \in Seq(R) /\ N \in Nat
  BY <1>2, FoundComps
<1>5. TopDecision \in Decisions /\ Nonzero(TopDecision)
  <2>1. /\ TopDecision \in Decisions /\ TopDecision = decisions[Len(decisions)]
        /\ Len(decisions) \in Nat /\ Len(decisions) >= 1
    BY <1>2, TypedFacts
  <2> QED BY <2>1 DEF NoZeros
<1>6. free \in {"none", "some"}
  BY DEF FreeFactors, Weights
<1>7. Nonzero(b.decision)
  <2>1. b.decision = IF free = "none" THEN top ELSE IncreaseModels(top, free)
    BY DEF Begun
  <2>2. Nonzero(top)
    BY <1>5, NonzeroOps
  <2>3. top \in Decisions
    <3>1. PICK L \in Nat : cache \in Caches(K, L)
      BY <1>2, TypedFacts
    <3>2. time \in Times
      BY <1>5, <3>1 DEF Caches, Decisions, Times
    <3> HIDE DEF time
    <3> QED BY <1>5, <3>2 DEF Decisions
  <2>4. Nonzero(IncreaseModels(top, "some"))
    BY <2>2, <2>3, NonzeroOps
  <2> HIDE DEF top, b
  <2> QED BY <1>6, <2>1, <2>2, <2>4
<1> HIDE DEF K, R, b, N, parent
<1>8. PICK upTo : /\ IsSplit(upTo, b, order, parent, K, R)
                  /\ SplitComponent(order, free, polls) = SetDecision(upTo[N], SplitResult(upTo[N]))
  <2>1. Begun(free, polls) \in States(K, R, Last(comps).id)
    BY <1>3, Zenon DEF b, parent
  <2>2. \E upTo : /\ IsSplit(upTo, Begun(free, polls), order, Last(comps).id, K, R)
                  /\ SplitComponent(order, free, polls) =
                       SetDecision(upTo[Len(order)], SplitResult(upTo[Len(order)]))
    BY <1>1, <1>4, <2>1, SplitSteps
  <2> QED BY <2>2, Zenon DEF b, N, parent
<1>9. /\ upTo \in [0 .. N -> States(K, R, parent)] /\ upTo[0] = b
      /\ \A k \in 1 .. N : upTo[k] = ExploreBelow(parent, upTo[k - 1], order[k])
  BY <1>8, Zenon DEF IsSplit, N
<1> DEFINE T == {k \in 0 .. N : Nonzero(upTo[k].decision)}
<1>10. 0 \in T
  BY <1>4, <1>7, <1>9
<1>11. ASSUME NEW k \in 1 .. N, k - 1 \in T PROVE k \in T
  <2>1. Nonzero(upTo[k - 1].decision) /\ k \in 0 .. N /\ upTo[k - 1] \in States(K, R, parent)
    BY <1>4, <1>9, <1>11
  <2>2. Nonzero(ExploreBelow(parent, upTo[k - 1], order[k]).decision)
    BY <2>1, ExploreNonzero, Zenon
  <2> QED BY <1>9, <2>1, <2>2
<1>12. N \in T
  <2> HIDE DEF T
  <2>1. \A k \in 0 .. N : k \in T
    BY <1>4, <1>10, <1>11, BoundedSteps, Zenon
  <2> QED BY <1>4, <2>1
<1> DEFINE u == upTo[N]
           d == [u.decision EXCEPT !.top = Len(u.comps)]
<1>13. Nonzero(u.decision) /\ \E M \in Nat : u \in StatesWith(K, R, M)
  <2>1. u \in States(K, R, parent)
    BY <1>4, <1>9
  <2> QED BY <1>12, <2>1 DEF States
<1> HIDE DEF u
<1>14. d \in Decisions /\ Nonzero(d)
  <2>1. u.decision \in Decisions /\ Len(u.comps) \in Nat
    BY <1>13 DEF StatesWith
  <2> QED BY <1>13, <2>1, NonzeroOps DEF Decisions
<1>15. Nonzero(SplitResult(u))
  <2>1. SplitResult(u) = IF u.dead THEN MarkBranchUnsat(d)
                         ELSE IF Len(u.comps) = Len(comps) THEN IncreaseModels(d, "some") ELSE d
    BY DEF SplitResult
  <2> HIDE DEF d
  <2>2. Nonzero(MarkBranchUnsat(d)) /\ Nonzero(IncreaseModels(d, "some"))
    BY <1>14, NonzeroOps
  <2> QED BY <1>14, <2>1, <2>2
<1>16. SetDecision(u, SplitResult(u)).decision = SplitResult(u)
  BY <1>13 DEF SetDecision, StatesWith
<1> QED BY <1>8, <1>15, <1>16 DEF u

(* How the end of a level depends on the count val of its component, and   *)
(* what is stored of it.                                                   *)
EndsWith(val, stored) ==
    /\ stored \in {Store(cache, Last(comps).id), StoreZero(cache, Last(comps).id), cache}
    /\ val = "some" \/ CacheUnsat => stored \in {Store(cache, Last(comps).id), StoreZero(cache, Last(comps).id)}
    /\ cache' = PopComponent(stored)
    /\ decisions' = Append(SubSeq(decisions, 1, Len(decisions) - 2), NextComp(Told(val)))
    /\ val = "none" => pc' \in {"clean", "refuted"}
    /\ val = "zero" => Weighted \/ ~ NoZeros

LEMMA NoneIsUnsat ==
  ASSUME NEW d \in Decisions
  PROVE  IsUnsat(NextComp(MarkBranchUnsat(d)))
<1> DEFINE b == Branch(d)
           m == [d.models EXCEPT ![b] = "none"]
<1>1. d.models \in Counts \X Counts /\ b \in {1, 2}
  BY DEF Decisions, Branch
<1>2. m[b] = "none"
  BY <1>1
<1> HIDE DEF m
<1>3. NextComp(MarkBranchUnsat(d)).models = m /\ NextComp(MarkBranchUnsat(d)).second = d.second
  BY DEF NextComp, MarkBranchUnsat, Decisions, m, b
<1>4. Branch(NextComp(MarkBranchUnsat(d))) = b
  BY <1>3 DEF Branch, b
<1> QED BY <1>2, <1>3, <1>4 DEF IsUnsat

LEMMA FinishesAs ==
  ASSUME Control, FinishLevel
  PROVE  \E val \in Counts : \E stored : EndsWith(val, stored)
<1>1. PICK weight \in BranchWeights : \E v \in Totals(Weigh(TopDecision, weight).models) :
         LET id == Last(comps).id
             prev == decisions[Len(decisions) - 1]
             told == IF v = "none" THEN MarkBranchUnsat(prev) ELSE IncreaseModels(prev, v)
             below == NextComp(told)
             stored == CASE v = "some" -> Store(cache, id)
                         [] v # "some" /\ CacheUnsat -> StoreZero(cache, id)
                         [] OTHER -> cache
             toEntry == InExists /\ Len(decisions) - 2 = preLevel
         IN  /\ cache' = PopComponent(stored)
             /\ decisions' = Append(SubSeq(decisions, 1, Len(decisions) - 2), below)
             /\ pc' = CASE toEntry -> IF v = "some" THEN "found" ELSE "refuted"
                        [] ~ toEntry /\ IsUnsat(below) -> "clean"
                        [] ~ toEntry /\ ~ IsUnsat(below) /\ HasUnprocessedComp(below) -> "decide"
                        [] OTHER -> "backtrack"
  BY DEF FinishLevel
<1>2. PICK val \in Totals(Weigh(TopDecision, weight).models) :
         LET id == Last(comps).id
             below == NextComp(Told(val))
             stored == CASE val = "some" -> Store(cache, id)
                         [] val # "some" /\ CacheUnsat -> StoreZero(cache, id)
                         [] OTHER -> cache
             toEntry == InExists /\ Len(decisions) - 2 = preLevel
         IN  /\ cache' = PopComponent(stored)
             /\ decisions' = Append(SubSeq(decisions, 1, Len(decisions) - 2), below)
             /\ pc' = CASE toEntry -> IF val = "some" THEN "found" ELSE "refuted"
                        [] ~ toEntry /\ IsUnsat(below) -> "clean"
                        [] ~ toEntry /\ ~ IsUnsat(below) /\ HasUnprocessedComp(below) -> "decide"
                        [] OTHER -> "backtrack"
  BY <1>1, Zenon DEF Told
<1> DEFINE id == Last(comps).id
           below == NextComp(Told(val))
           stored == CASE val = "some" -> Store(cache, id)
                       [] val # "some" /\ CacheUnsat -> StoreZero(cache, id)
                       [] OTHER -> cache
           toEntry == InExists /\ Len(decisions) - 2 = preLevel
           w == Weigh(TopDecision, weight)
           N == Len(decisions)
<1>3. /\ N \in Nat /\ N > 1 /\ TopDecision \in Decisions /\ TopDecision = decisions[N]
      /\ decisions[N - 1] \in Decisions
  <2>1. N \in Nat /\ N > 1 /\ TopDecision \in Decisions /\ TopDecision = decisions[N]
        /\ \A k \in 1 .. N : decisions[k] \in Decisions
    BY TypedFacts DEF Control, FinishLevel, Backtracking
  <2>2. N - 1 \in 1 .. N
    BY <2>1
  <2> QED BY <2>1, <2>2
<1>4. w \in Decisions
  BY <1>3, WeighIs, Zenon
<1>5. val \in Counts
  BY <1>4, TotalsIn
<1>6. stored \in {Store(cache, id), StoreZero(cache, id), cache}
  BY Zenon
<1>7. val = "some" \/ CacheUnsat => stored \in {Store(cache, id), StoreZero(cache, id)}
  BY Zenon
<1> HIDE DEF below, toEntry, stored, w
<1>8. /\ cache' = PopComponent(stored) /\ decisions' = Append(SubSeq(decisions, 1, N - 2), below)
      /\ pc' = CASE toEntry -> IF val = "some" THEN "found" ELSE "refuted"
                 [] ~ toEntry /\ IsUnsat(below) -> "clean"
                 [] ~ toEntry /\ ~ IsUnsat(below) /\ HasUnprocessedComp(below) -> "decide"
                 [] OTHER -> "backtrack"
  BY <1>2, Zenon DEF below, stored, toEntry
<1>9. val = "none" => pc' \in {"clean", "refuted"}
  <2> SUFFICES ASSUME val = "none" PROVE pc' \in {"clean", "refuted"}
    OBVIOUS
  <2>1. below = NextComp(MarkBranchUnsat(decisions[N - 1]))
    BY DEF below, Told
  <2>2. IsUnsat(below)
    BY <1>3, <2>1, NoneIsUnsat
  <2>3. val # "some"
    OBVIOUS
  <2> QED BY <1>8, <2>2, <2>3, Zenon
<1>10. ASSUME ~ Weighted, NoZeros PROVE val # "zero"
  <2>1. weight = "some" /\ Weights = {"some"}
    BY <1>10 DEF BranchWeights, Weights
  <2>2. Nonzero(TopDecision)
    <3>1. N \in 1 .. N
      BY <1>3
    <3> QED BY <1>3, <1>10, <3>1 DEF NoZeros
  <2>3. Nonzero(IncreaseModels(TopDecision, "some"))
    BY <1>3, <2>2, NonzeroOps
  <2>4. Nonzero(w)
    BY <2>1, <2>2, <2>3 DEF w, Weigh
  <2>5. val \in Totals(w.models)
    BY DEF w
  <2>6. val \in {w.models[1], w.models[2], "some"}
    BY <2>1, <2>4, <2>5 DEF Totals, Nonzero
  <2> QED BY <2>4, <2>6 DEF Nonzero
<1> QED BY <1>5, <1>6, <1>7, <1>8, <1>9, <1>10 DEF EndsWith, below

(* What is left when the component at the top of the stack leaves it.      *)
LEMMA PopLoose ==
  ASSUME Control, Structure, Loose(cache, comps) = {},
         NEW stored \in {Store(cache, Last(comps).id), StoreZero(cache, Last(comps).id), cache},
         cache' = PopComponent(stored), comps' = Front(comps)
  PROVE  /\ Loose(cache', comps') \subseteq {comps[Len(comps)].id}
         /\ cache'.entry[comps[Len(comps)].id].created = cache.entry[comps[Len(comps)].id].created
         /\ stored \in {Store(cache, Last(comps).id), StoreZero(cache, Last(comps).id)}
              => Loose(cache', comps') = {}
<1> DEFINE L == Len(cache.entry)
           K == KeysOf(input)
           R == CompsOf(input)
           n == Len(comps)
           id == comps[n].id
<1>1. /\ L \in Nat /\ cache \in Caches(K, L) /\ comps \in Stack(L, R) /\ input \in DOMAIN Inputs
      /\ n \in Nat /\ n >= 1 /\ Last(comps) = comps[n]
  BY TypedFacts DEF Control, Typed, Stack
<1>2. Hashed(K)
  BY <1>1, InputFacts
<1>3. Guarded(cache, OnStack(comps))
  BY Zenon DEF Structure, Shape
<1>4. id \in Open(cache)
  <2>1. n \in 1 .. n
    BY <1>1
  <2>2. id \in OnStack(comps)
    BY <2>1 DEF OnStack
  <2> QED BY <1>3, <2>2 DEF Guarded, Open, Confirmed
<1>5. /\ Open(cache') \subseteq Open(cache) /\ cache'.entry[id].created = cache.entry[id].created
      /\ stored \in {Store(cache, id), StoreZero(cache, id)} => id \notin Open(cache')
  <2>1. cache' = SetDeletePermitted(stored, id, TRUE) /\ stored \in {Store(cache, id), StoreZero(cache, id), cache}
    BY <1>1 DEF PopComponent
  <2> HIDE DEF id, K, L, n
  <2>2. stored \in {Store(cache, id), StoreZero(cache, id), cache}
    BY <2>1
  <2>3. LeavesOpen(cache, stored, id)
    BY ONLY <1>1, <1>2, <1>4, <2>2, FinishedOpen, Zenon
  <2> QED BY <1>4, <2>1, <2>3 DEF LeavesOpen
<1>6. OnStack(comps) \subseteq OnStack(comps') \cup {id}
  <2>1. comps # <<>> /\ comps \in Seq([id : 1 .. L, comp : R])
    BY <1>1 DEF Stack
  <2>2. Len(comps') = n - 1 /\ \A i \in 1 .. n - 1 : comps'[i] = comps[i]
    BY <2>1, FrontIs, Zenon
  <2>3. \A i \in 1 .. n : i = n \/ i \in 1 .. n - 1
    BY <1>1
  <2> QED BY <2>2, <2>3 DEF OnStack
<1> HIDE DEF id
<1>7. Loose(cache', comps') \subseteq {id}
  BY <1>5, <1>6 DEF Loose
<1>8. stored \in {Store(cache, id), StoreZero(cache, id)} => Loose(cache', comps') = {}
  BY <1>5, <1>7 DEF Loose
<1> QED BY <1>1, <1>5, <1>7, <1>8 DEF id

(* Without weights no count is zero: only those of the branches can be     *)
(* absent, as long as they have found no model.                            *)
LEMMA SplitNoZeros ==
  ASSUME Control, NoZeros, ~ Weighted, Split
  PROVE  NoZeros'
<1>1. PICK found \in Left, free \in FreeFactors, polls \in Polls :
       \E order \in Ascending(found) : \E s \in {SplitComponent(order, free, polls)} :
             decisions' = SetTop(s.decision)
  BY DEF Split
<1>2. PICK order \in Ascending(found) : \E s \in {SplitComponent(order, free, polls)} :
             decisions' = SetTop(s.decision)
  BY <1>1
<1> DEFINE s == SplitComponent(order, free, polls)
<1>3. decisions' = SetTop(s.decision)
  BY <1>2
<1>4. Nonzero(s.decision)
  BY SplitNonzero
<1>5. s.decision \in Decisions
  <2>1. Typed /\ Stretches
    BY DEF Control
  <2> HIDE DEF s
  <2>2. SplitDone(s, found)
    BY <2>1, SplitIs, Zenon DEF s
  <2> QED BY <2>2 DEF SplitDone
<1> HIDE DEF s
<1>6. decisions \in Seq(Decisions) /\ Len(decisions) >= 1
  BY TypedFacts DEF Control, Typed
<1> QED BY <1>3, <1>4, <1>5, <1>6, TopNonzero, Zenon

LEMMA TopNoZeros ==
  ASSUME Control, NoZeros, ~ Weighted,
         Conflict \/ ExistsFalse \/ SimplifyFails \/ ExistsTrue \/ Clean \/ FlipBranch
  PROVE  NoZeros'
<1> DEFINE d == TopDecision
           m == IncreaseModels(d, "some")
           e == [d EXCEPT !.top = d.base]
<1>1. /\ decisions \in Seq(Decisions) /\ Len(decisions) \in Nat /\ Len(decisions) >= 1
      /\ d \in Decisions /\ d = decisions[Len(decisions)] /\ 1 <= d.base /\ d.base \in Nat
  BY TypedFacts, DecisionOps DEF Control, Typed
<1>2. Nonzero(d)
  <2>1. Len(decisions) \in 1 .. Len(decisions)
    BY <1>1
  <2> QED BY <1>1, <2>1 DEF NoZeros
<1>3. CASE decisions' = decisions
  BY <1>3 DEF NoZeros
<1>4. CASE decisions' = SetTop(MarkBranchUnsat(d))
  <2>1. MarkBranchUnsat(d) \in Decisions /\ Nonzero(MarkBranchUnsat(d))
    BY <1>1, <1>2, DecisionOps, NonzeroOps
  <2> QED BY <1>1, <1>4, <2>1, TopNonzero, Zenon
<1>5. CASE ExistsTrue
  <2>1. m \in Decisions /\ Nonzero(m) /\ m.top = d.top
    BY <1>1, <1>2, DecisionOps, NonzeroOps
  <2>2. decisions' = SetTop(NextComp(m)) /\ d.base < d.top
    BY <1>5 DEF ExistsTrue, Answered, Unprojected, HasUnprocessedComp
  <2>3. d.top # 0
    <3>1. d.top \in Nat
      BY <1>1, DecisionOps, Zenon
    <3>2. ASSUME NEW p \in Nat, NEW q \in Nat, p < q PROVE q # 0
      BY <3>2
    <3> QED BY <1>1, <2>2, <3>1, <3>2, Zenon
  <2> HIDE DEF m, d
  <2>4. NextComp(m) \in Decisions /\ Nonzero(NextComp(m))
    BY <2>1, <2>3, NextCompType, NonzeroOps
  <2> QED BY <1>1, <2>2, <2>4, TopNonzero, Zenon
<1>6. CASE Clean
  <2>1. decisions' = SetTop(e)
    BY <1>6 DEF Clean
  <2>2. e \in Decisions /\ Nonzero(e)
    <3> HIDE DEF d
    <3> QED BY <1>1, <1>2, NonzeroOps DEF Decisions
  <2> HIDE DEF e, d
  <2> QED BY <1>1, <2>1, <2>2, TopNonzero, Zenon
<1>7. CASE FlipBranch
  <2>1. PICK weight \in BranchWeights : decisions' = SetTop(ChangeBranch(Weigh(d, weight)))
    BY <1>7 DEF FlipBranch
  <2> DEFINE w == Weigh(d, weight)
  <2>2. w \in Decisions
    BY <1>1, WeighIs, Zenon
  <2>3. Nonzero(w)
    <3>1. weight = "some"
      BY DEF BranchWeights, Weights
    <3>2. Nonzero(IncreaseModels(d, "some"))
      BY <1>1, <1>2, NonzeroOps
    <3> QED BY <1>2, <3>1, <3>2 DEF Weigh
  <2>4. decisions' = SetTop(ChangeBranch(w))
    BY <2>1
  <2> HIDE DEF w, d
  <2>5. ChangeBranch(w) \in Decisions /\ Nonzero(ChangeBranch(w))
    BY <2>2, <2>3, DecisionOps, NonzeroOps
  <2> QED BY <1>1, <2>4, <2>5, TopNonzero, Zenon
<1>8. \/ decisions' = decisions \/ decisions' = SetTop(MarkBranchUnsat(d))
      \/ ExistsTrue \/ Clean \/ FlipBranch
  BY DEF Conflict, ExistsFalse, SimplifyFails
<1> QED BY <1>3, <1>4, <1>5, <1>6, <1>7, <1>8, Zenon

LEMMA ShorterNoZeros ==
  ASSUME Control, NoZeros, ~ Weighted, Decide \/ FinishLevel
  PROVE  NoZeros'
<1> DEFINE N == Len(decisions)
<1>1. /\ decisions \in Seq(Decisions) /\ N \in Nat /\ N >= 1 /\ Len(comps) \in Nat
      /\ \A k \in 1 .. N : decisions[k] \in Decisions /\ Nonzero(decisions[k])
  BY TypedFacts DEF Control, Typed, NoZeros
<1>2. CASE Decide
  <2> DEFINE d == NewDecision(Len(comps))
  <2>1. decisions' = Append(decisions, d)
    BY <1>2 DEF Decide
  <2>2. d \in Decisions /\ Nonzero(d)
    BY <1>1, NewDecisionType DEF NewDecision, Nonzero
  <2> HIDE DEF d
  <2>3. Len(decisions') = N + 1 /\ decisions'[N + 1] = d /\ \A k \in 1 .. N : decisions'[k] = decisions[k]
    BY <1>1, <2>1, <2>2, AppendIs
  <2>4. \A k \in 1 .. N + 1 : k = N + 1 \/ k \in 1 .. N
    BY <1>1
  <2>5. \A k \in 1 .. N + 1 : Nonzero(decisions'[k])
    BY <1>1, <2>2, <2>3, <2>4
  <2> QED BY <2>3, <2>5 DEF NoZeros
<1>3. CASE FinishLevel
  <2>1. PICK val \in Counts : \E stored : EndsWith(val, stored)
    BY <1>3, FinishesAs
  <2> DEFINE e == NextComp(Told(val))
             p == SubSeq(decisions, 1, N - 2)
             prev == decisions[N - 1]
  <2>2. decisions' = Append(p, e) /\ val \in {"none", "some"}
    <3>1. PICK stored : EndsWith(val, stored)
      BY <2>1
    <3> QED BY <3>1 DEF EndsWith, Counts
  <2>3. N > 1 /\ Owned(decisions, comps)
    BY <1>3 DEF FinishLevel, Backtracking, Control, Stretches
  <2>4. N - 1 \in 1 .. N /\ N - 2 \in 0 .. N /\ N - 1 \in 1 .. N - 1 /\ (N - 2) + 1 = N - 1
    BY <1>1, <2>3
  <2>5. prev \in Decisions /\ Nonzero(prev) /\ prev.top # 0
    <3>1. prev \in Decisions /\ Nonzero(prev)
      BY <1>1, <2>4
    <3>2. prev.base < prev.top
      BY <2>3, <2>4 DEF Owned
    <3>3. prev.base \in Nat /\ prev.top \in Nat
      BY <3>1, DecisionOps, Zenon
    <3>4. ASSUME NEW i \in Nat, NEW j \in Nat, i < j PROVE j # 0
      BY <3>4
    <3> QED BY <3>1, <3>2, <3>3, <3>4, Zenon
  <2>6. Told(val) \in Decisions /\ Told(val).top = prev.top
    BY <2>5, ToldIs
  <2>7. Nonzero(Told(val))
    <3>1. Nonzero(MarkBranchUnsat(prev)) /\ Nonzero(IncreaseModels(prev, "some"))
      BY <2>5, NonzeroOps
    <3>2. Told(val) = IF val = "none" THEN MarkBranchUnsat(prev) ELSE IncreaseModels(prev, val)
      BY DEF Told
    <3> QED BY <2>2, <3>1, <3>2
  <2> HIDE DEF prev
  <2>8. e \in Decisions /\ Nonzero(e)
    BY <2>5, <2>6, <2>7, NextCompType, NonzeroOps
  <2>9. p \in Seq(Decisions) /\ Len(p) = N - 2 /\ \A i \in 1 .. N - 2 : p[i] = decisions[i]
    BY <1>1, <2>4, PrefixIs, Zenon
  <2> HIDE DEF p, e
  <2>10. Len(decisions') = Len(p) + 1 /\ decisions'[Len(p) + 1] = e /\ \A k \in 1 .. Len(p) : decisions'[k] = p[k]
    BY <2>2, <2>8, <2>9, AppendIs
  <2>11. \A k \in 1 .. N - 1 : k \in 1 .. N /\ (k = N - 1 \/ k \in 1 .. N - 2)
    BY <1>1, SMTT(30)
  <2>12. \A k \in 1 .. N - 1 : Nonzero(decisions'[k])
    BY <1>1, <2>4, <2>8, <2>9, <2>10, <2>11
  <2>13. Len(decisions') = N - 1
    BY <2>4, <2>9, <2>10
  <2> QED BY <2>12, <2>13 DEF NoZeros
<1> QED BY <1>2, <1>3

LEMMA NextNoZeros ==
  ASSUME Control, ~ Weighted => NoZeros, [Next]_vars
  PROVE  (~ Weighted => NoZeros)'
<1>1. input' = input
  BY DEF Next, Search, Split, Conflict, ConflictAtEntry, StartExists, ExistsTrue, ExistsFalse, ExistsDone,
         Clean, BacktrackRoot, BacktrackEntry, FlipBranch, FinishLevel, Decide, SimplifyFails, Interrupt,
         Signal, Done, vars
<1>2. Weighted' = Weighted
  BY <1>1 DEF Weighted
<1> SUFFICES ASSUME ~ Weighted PROVE NoZeros'
  BY <1>2
<1>3. NoZeros
  OBVIOUS
<1>4. CASE \/ ConflictAtEntry \/ StartExists \/ ExistsDone \/ BacktrackRoot \/ BacktrackEntry
           \/ Signal \/ Interrupt \/ Done \/ UNCHANGED vars
  <2>1. decisions' = decisions
    BY <1>4 DEF ConflictAtEntry, StartExists, ExistsDone, BacktrackRoot, BacktrackEntry, Signal, Interrupt, Done, vars
  <2> QED BY <1>3, <2>1 DEF NoZeros
<1>5. CASE Conflict \/ ExistsFalse \/ SimplifyFails \/ ExistsTrue \/ Clean \/ FlipBranch
  BY <1>3, <1>5, TopNoZeros, Zenon
<1>6. CASE Decide \/ FinishLevel
  BY <1>3, <1>6, ShorterNoZeros, Zenon
<1>7. CASE Split
  BY <1>3, <1>7, SplitNoZeros, Zenon
<1> QED BY <1>4, <1>5, <1>6, <1>7, Zenon DEF Next, Search

(* The inductive invariant: nothing is loose but where a branch is about   *)
(* to be cleaned, and what is loose then is of that branch.                *)
Settled == (pc \notin {"clean", "refuted"} => Loose(cache, comps) = {}) /\ Late

LEMMA TopSplit ==
  ASSUME Control, NEW d \in Decisions, decisions' = SetTop(d)
  PROVE  TopDecision' = d
<1>1. decisions \in Seq(Decisions) /\ Len(decisions) >= 1
  BY TypedFacts DEF Control, Typed
<1> QED BY <1>1, ReplacedTop DEF TopDecision

(* Steps that leave the stack and the cache as they are.                   *)
LEMMA StillSettled ==
  ASSUME Control, Settled, cache' = cache, comps' = comps,
         \/ pc' = pc /\ decisions' = decisions
         \/ pc \notin {"clean", "refuted"}
         \/ ExistsFalse
  PROVE  Settled'
<1>1. Loose(cache', comps') = Loose(cache, comps)
  OBVIOUS
<1>2. CASE pc' = pc /\ decisions' = decisions
  BY <1>2 DEF Settled, Late, Loose, TopDecision
<1>3. CASE pc \notin {"clean", "refuted"}
  BY <1>3 DEF Settled, Late
<1>4. CASE ExistsFalse
  <2>1. decisions' = SetTop(MarkBranchUnsat(TopDecision)) /\ pc' = "clean"
    BY <1>4 DEF ExistsFalse
  <2>2. TopDecision \in Decisions
    BY TypedFacts DEF Control
  <2>3. MarkBranchUnsat(TopDecision) \in Decisions /\ MarkBranchUnsat(TopDecision).split = TopDecision.split
    BY <2>2, DecisionOps
  <2>4. TopDecision' = MarkBranchUnsat(TopDecision)
    BY <2>1, <2>3, TopSplit, Zenon
  <2>5. TopDecision'.split = TopDecision.split
    BY <2>3, <2>4
  <2> QED BY <2>1, <2>5 DEF Settled, Late
<1> QED BY <1>2, <1>3, <1>4

LEMMA EmptySettled ==
  ASSUME Loose(cache', comps') = {}
  PROVE  Settled'
BY DEF Settled, Late

LEMMA SplitSettled ==
  ASSUME Control, Structure, Settled, Split
  PROVE  Settled'
<1>1. PICK found \in Left, free \in FreeFactors, polls \in Polls :
       \E order \in Ascending(found) : \E s \in {SplitComponent(order, free, polls)} :
             cache' = s.cache /\ comps' = s.comps
  BY DEF Split
<1>2. PICK order \in Ascending(found) : \E s \in {SplitComponent(order, free, polls)} :
             cache' = s.cache /\ comps' = s.comps
  BY <1>1
<1> DEFINE s == SplitComponent(order, free, polls)
<1>3. cache' = s.cache /\ comps' = s.comps
  BY <1>2
<1>4. Loose(s.cache, s.comps) \subseteq Loose(cache, comps)
  BY SplitShape
<1>5. Loose(cache, comps) = {}
  BY DEF Settled, Split
<1> HIDE DEF s
<1> QED BY <1>3, <1>4, <1>5, EmptySettled

(* The end of a level leaves the entry of its component behind only where  *)
(* the count is none and no zero is stored, and then the branch of the     *)
(* decision below is cleaned.                                              *)
LEMMA FinishSettled ==
  ASSUME Control, Structure, Weighted => CacheUnsat, ~ Weighted => NoZeros, Settled, FinishLevel
  PROVE  Settled'
<1> DEFINE N == Len(decisions)
           C == Len(comps)
           prev == decisions[N - 1]
<1>1. /\ N \in Nat /\ N > 1 /\ C \in Nat /\ C >= 1 /\ decisions \in Seq(Decisions)
      /\ pc = "backtrack" /\ comps' = Front(comps) /\ TopDecision.base \in Nat /\ TopDecision.base <= C
      /\ Owned(decisions, comps) /\ \A k \in 1 .. N : decisions[k] \in Decisions
  BY TypedFacts, DecisionOps DEF Control, Typed, FinishLevel, Backtracking, Stretches
<1>2. PICK val \in Counts : \E stored : EndsWith(val, stored)
  BY FinishesAs
<1>0. PICK stored : EndsWith(val, stored)
  BY <1>2
<1>3. Loose(cache, comps) = {}
  BY <1>1 DEF Settled
<1>4. /\ stored \in {Store(cache, Last(comps).id), StoreZero(cache, Last(comps).id), cache}
      /\ cache' = PopComponent(stored)
      /\ decisions' = Append(SubSeq(decisions, 1, N - 2), NextComp(Told(val)))
      /\ val = "none" => pc' \in {"clean", "refuted"}
      /\ val \notin {"none"} =>
           stored \in {Store(cache, Last(comps).id), StoreZero(cache, Last(comps).id)}
  BY <1>0 DEF EndsWith, Counts
<1>5. /\ Loose(cache', comps') \subseteq {comps[C].id}
      /\ cache'.entry[comps[C].id].created = cache.entry[comps[C].id].created
      /\ stored \in {Store(cache, Last(comps).id), StoreZero(cache, Last(comps).id)}
           => Loose(cache', comps') = {}
  BY <1>1, <1>3, <1>4, PopLoose
<1>6. CASE val # "none"
  BY <1>4, <1>5, <1>6, EmptySettled
<1>7. CASE val = "none"
  <2>1. N - 1 \in 1 .. N /\ N - 2 \in 0 .. N /\ N - 1 \in 1 .. N - 1 /\ (N - 2) + 1 = N - 1
    BY <1>1
  <2>2. prev \in Decisions /\ prev.base < prev.top /\ prev.base < TopDecision.base
    BY <1>1, <2>1, BasesBelow DEF Owned
  <2>3. prev.base \in Nat /\ prev.top \in Nat /\ prev.split \in Nat /\ prev.top # 0
    <3>1. prev.base \in Nat /\ prev.top \in Nat /\ prev.split \in Nat
      BY <2>2 DEF Decisions, Times
    <3>2. ASSUME NEW i \in Nat, NEW j \in Nat, i < j PROVE j # 0
      BY <3>2
    <3> QED BY <2>2, <3>1, <3>2, Zenon
  <2> DEFINE e == NextComp(Told(val))
             p == SubSeq(decisions, 1, N - 2)
  <2>4. Told(val) \in Decisions /\ Told(val).top = prev.top /\ Told(val).split = prev.split
    BY <2>2, ToldIs
  <2>5. e \in Decisions /\ e.split = prev.split
    <3> HIDE DEF prev
    <3> QED BY <2>3, <2>4, NextCompType
  <2>6. p \in Seq(Decisions) /\ Len(p) = N - 2
    BY <1>1, <2>1, PrefixIs, Zenon
  <2> HIDE DEF p, e
  <2>7. decisions' = Append(p, e)
    BY <1>4 DEF p, e
  <2>8. TopDecision' = e
    <3>1. Len(decisions') = Len(p) + 1 /\ decisions'[Len(p) + 1] = e
      BY <2>5, <2>6, <2>7, AppendIs
    <3> QED BY <3>1 DEF TopDecision, Last
  <2> DEFINE b == <<prev.base, prev.split>>
  <2>9. cache.entry[comps[C].id].created >= prev.split
    <3>1. b \in Branches(decisions)
      BY <2>1 DEF Branches
    <3>2. b[1] = prev.base /\ b[2] = prev.split
      OBVIOUS
    <3> HIDE DEF b
    <3>3. \A i \in prev.base + 1 .. C : cache.entry[comps[i].id].created >= prev.split
      BY <3>1, <3>2 DEF Structure, Shape, Branching
    <3>4. C \in prev.base + 1 .. C
      <4>1. ASSUME NEW i \in Nat, NEW j \in Nat, i < j, j <= C PROVE C \in i + 1 .. C
        BY <1>1, <4>1
      <4> QED BY <1>1, <2>2, <2>3, <4>1, Zenon
    <3> QED BY <3>3, <3>4
  <2>10. Late'
    <3>1. TopDecision'.split = prev.split
      BY <2>5, <2>8
    <3> QED BY <1>5, <2>9, <3>1 DEF Late
  <2> QED BY <1>4, <1>7, <2>10 DEF Settled
<1> QED BY <1>6, <1>7

LEMMA ExistsTrueSettled ==
  ASSUME Control, Structure, Settled, ExistsTrue
  PROVE  Settled'
<1>1. pc \notin {"clean", "refuted"} /\ cache' = PopComponent(Store(cache, Last(comps).id)) /\ comps' = Front(comps)
  BY DEF ExistsTrue, Answered
<1>2. Loose(cache, comps) = {}
  BY <1>1 DEF Settled
<1> DEFINE stored == Store(cache, Last(comps).id)
<1>3. stored \in {Store(cache, Last(comps).id), StoreZero(cache, Last(comps).id)}
      /\ stored \in {Store(cache, Last(comps).id), StoreZero(cache, Last(comps).id), cache}
  OBVIOUS
<1>4. cache' = PopComponent(stored)
  BY <1>1
<1> HIDE DEF stored
<1>5. Loose(cache', comps') = {}
  BY <1>1, <1>2, <1>3, <1>4, PopLoose
<1> QED BY <1>5, EmptySettled

LEMMA NextSettled ==
  ASSUME Control, Structure, Weighted => CacheUnsat, ~ Weighted => NoZeros, Settled, [Next]_vars
  PROVE  Settled'
<1>1. CASE Signal \/ Done \/ UNCHANGED vars
  <2>1. cache' = cache /\ comps' = comps /\ pc' = pc /\ decisions' = decisions
    BY <1>1 DEF Signal, Done, vars
  <2> QED BY <2>1, StillSettled, Zenon
<1>2. CASE \/ Conflict \/ ConflictAtEntry \/ StartExists \/ ExistsDone \/ BacktrackRoot \/ BacktrackEntry
           \/ FlipBranch \/ Decide \/ SimplifyFails \/ Interrupt
  <2>1. cache' = cache /\ comps' = comps /\ pc \notin {"clean", "refuted"}
    BY <1>2 DEF Conflict, ConflictAtEntry, StartExists, ExistsDone, BacktrackRoot, BacktrackEntry,
                FlipBranch, Backtracking, Decide, SimplifyFails, Interrupt
  <2> QED BY <2>1, StillSettled, Zenon
<1>3. CASE ExistsFalse
  <2>1. cache' = cache /\ comps' = comps
    BY <1>3 DEF ExistsFalse
  <2> QED BY <1>3, <2>1, StillSettled, Zenon
<1>4. CASE Split
  BY <1>4, SplitSettled, Zenon
<1>5. CASE ExistsTrue
  BY <1>5, ExistsTrueSettled, Zenon
<1>6. CASE FinishLevel
  BY <1>6, FinishSettled, Zenon
<1>7. CASE Clean
  <2>1. Late
    BY DEF Settled
  <2>2. Loose(cache', comps') = {}
    BY <1>7, <2>1, CleanStructure
  <2> QED BY <2>2, EmptySettled
<1> QED BY <1>1, <1>2, <1>3, <1>4, <1>5, <1>6, <1>7, Zenon DEF Next, Search

LEMMA InitSettled ==
  ASSUME Init
  PROVE  (~ Weighted => NoZeros) /\ Settled
<1> DEFINE K == KeysOf(input)
           max == Inputs[input].maxMemory
           d == ChangeBranch(NewDecision(1))
<1>1. Hashed(K) /\ max \in Nat
  BY InputFacts DEF Init
<1>2. cache = NewRootEntry(EmptyCache(max)) /\ comps = <<[id |-> 1, comp |-> RootComp]>> /\ decisions = <<d>>
  <2>1. AllocId(EmptyCache(0)) = 1
    BY <1>1, RootType
  <2> QED BY <2>1 DEF Init
<1>3. cache \in Caches(K, 1)
  BY ONLY <1>1, <1>2, RootType
<1>4. Live(cache) \subseteq 1 .. 1
  <2>1. 1 \in Nat
    OBVIOUS
  <2> HIDE DEF K
  <2> QED BY <1>3, <2>1, LiveIs, Zenon
<1>5. OnStack(comps) = {1}
  BY <1>2 DEF OnStack
<1>6. Loose(cache, comps) = {}
  BY <1>4, <1>5 DEF Loose, Open
<1>7. NoZeros
  <2>1. Nonzero(d)
    BY DEF Nonzero, ChangeBranch, NewDecision
  <2> HIDE DEF d
  <2> QED BY <1>2, <2>1 DEF NoZeros
<1> QED BY <1>6, <1>7 DEF Settled, Late

(***************************************************************************)
(* Where counts of zero are cached or cannot be, every entry in the cache  *)
(* is of a component on the stack or holds a result, except between the    *)
(* refutation of a branch and its cleaning: no memory is lost to entries   *)
(* that can be neither found nor evicted.                                  *)
(***************************************************************************)
THEOREM NothingIsLeft == Spec => []((Weighted => CacheUnsat) => NothingDead)
<1> DEFINE Inv == (~ Weighted => NoZeros) /\ ((Weighted => CacheUnsat) => Settled)
<1>1. Init => Inv
  BY InitSettled
<1>2. Control /\ Structure /\ Inv /\ [Next]_vars => Inv'
  <2> SUFFICES ASSUME Control, Structure, Inv, [Next]_vars PROVE Inv'
    OBVIOUS
  <2>1. (~ Weighted => NoZeros)'
    BY NextNoZeros
  <2>2. input' = input
    BY DEF Next, Search, Split, Conflict, ConflictAtEntry, StartExists, ExistsTrue, ExistsFalse, ExistsDone,
           Clean, BacktrackRoot, BacktrackEntry, FlipBranch, FinishLevel, Decide, SimplifyFails, Interrupt,
           Signal, Done, vars
  <2>3. (Weighted' => CacheUnsat') => (Weighted => CacheUnsat)
    BY <2>2 DEF Weighted, CacheUnsat
  <2>4. ASSUME Weighted => CacheUnsat PROVE Settled'
    BY <2>4, NextSettled
  <2> QED BY <2>1, <2>3, <2>4
<1>3. Control /\ Inv => ((Weighted => CacheUnsat) => NothingDead)
  <2> SUFFICES ASSUME Control, Settled, pc \notin {"clean", "refuted"}
               PROVE  Live(cache) \subseteq Confirmed(cache) \cup {x.id : x \in Range(comps)}
    BY DEF NothingDead
  <2>1. Loose(cache, comps) = {}
    BY DEF Settled
  <2>2. DOMAIN comps = 1 .. Len(comps)
    BY TypedFacts DEF Control
  <2>3. OnStack(comps) \subseteq {x.id : x \in Range(comps)}
    BY <2>2 DEF OnStack, Range
  <2> QED BY <2>1, <2>3 DEF Loose, Open
<1> HIDE DEF Inv
<1> QED BY <1>1, <1>2, <1>3, TreeInvariant, PTL DEF Spec

(***************************************************************************)
(* Which results are for one component.                                    *)
(***************************************************************************)
(* The entries that have a result or may get one: the root never does.     *)
Kept(c, cs) == Confirmed(c) \cup {cs[i].id : i \in 2 .. Len(cs)}

Named(c, cs) == \A i \in 2 .. Len(cs) : c.entry[cs[i].id].comp = cs[i].comp

(* Two of them are for one component only if one is the father.            *)
Sole(c, cs) ==
    \A i, j \in Kept(c, cs) : c.entry[i].comp = c.entry[j].comp =>
        i = j \/ c.entry[i].father = j \/ c.entry[j].father = i

(* The entries of d have their components from c, and their fathers where  *)
(* these are still there.                                                  *)
Inherits(c, d, E) ==
    \A e \in E : /\ d.entry[e].comp = c.entry[e].comp
                 /\ c.entry[e].father \in Live(d) => d.entry[e].father = c.entry[e].father

LEMMA SoleLess ==
  ASSUME NEW c, NEW cs, NEW d, NEW ds, Sole(c, cs), Kept(d, ds) \subseteq Kept(c, cs),
         Kept(d, ds) \subseteq Live(d), Inherits(c, d, Kept(d, ds))
  PROVE  Sole(d, ds)
<1> SUFFICES ASSUME NEW i \in Kept(d, ds), NEW j \in Kept(d, ds), d.entry[i].comp = d.entry[j].comp
             PROVE  i = j \/ d.entry[i].father = j \/ d.entry[j].father = i
  BY DEF Sole
<1>1. c.entry[i].comp = c.entry[j].comp /\ i \in Kept(c, cs) /\ j \in Kept(c, cs)
  BY Zenon DEF Inherits
<1>2. i = j \/ c.entry[i].father = j \/ c.entry[j].father = i
  BY <1>1, Zenon DEF Sole
<1>3. i \in Live(d) /\ j \in Live(d)
  OBVIOUS
<1> QED BY <1>2, <1>3, Zenon DEF Inherits

(* Where nothing is found, no entry with a result is for the component.    *)
LEMMA FindsNone ==
  ASSUME NEW K, Hashed(K), NEW L \in Nat, NEW c \in Caches(K, L), Tabled(c), NEW comp \in K,
         Find(c, comp) = INVALID_ENTRY
  PROVE  \A e \in Confirmed(c) : c.entry[e].comp # comp
<1> DEFINE slot == Hash[comp] % Cardinality(DOMAIN c.table)
<1>1. slot \in DOMAIN c.table
  BY SlotType
<1>2. \A e \in ToSet(Bucket(c, slot)) : c.entry[e].comp # comp
  BY FindIs
<1>3. ToSet(Bucket(c, slot)) = InSlot(c, slot)
  BY <1>1, Zenon DEF Tabled, ListOf
<1> QED BY <1>2, <1>3 DEF InSlot, Slot

(* The component comp goes on the stack with the new entry id, and has no  *)
(* other but that of the component at m.                                   *)
Enters(c, cs, d, ds, id, comp, m) ==
    /\ Joined(c, d, id, comp, cs[m].id) /\ Len(cs) \in Nat
    /\ Confirmed(c) \subseteq Live(c) /\ Confirmed(d) \subseteq Live(d)
    /\ \A i \in 1 .. Len(cs) : cs[i].id \in Live(c) /\ cs[i].id \in Live(d)
    /\ \A e \in Confirmed(c) : c.entry[e].comp # comp
    /\ \A i \in 2 .. Len(cs) : cs[i].comp = comp => cs[i].id = cs[m].id
    /\ Len(ds) = Len(cs) + 1 /\ \A i \in 1 .. Len(cs) : ds[i] = cs[i]
    /\ ds[Len(cs) + 1].id = id /\ ds[Len(cs) + 1].comp = comp

LEMMA JoinedSole ==
  ASSUME NEW c, NEW cs, NEW d, NEW ds, NEW id, NEW comp, NEW m,
         Sole(c, cs), Named(c, cs), Enters(c, cs, d, ds, id, comp, m)
  PROVE  Sole(d, ds) /\ Named(d, ds)
<1>0. /\ Joined(c, d, id, comp, cs[m].id) /\ Len(cs) \in Nat
      /\ Confirmed(c) \subseteq Live(c) /\ Confirmed(d) \subseteq Live(d)
      /\ \A i \in 1 .. Len(cs) : cs[i].id \in Live(c) /\ cs[i].id \in Live(d)
      /\ \A e \in Confirmed(c) : c.entry[e].comp # comp
      /\ \A i \in 2 .. Len(cs) : cs[i].comp = comp => cs[i].id = cs[m].id
      /\ Len(ds) = Len(cs) + 1 /\ \A i \in 1 .. Len(cs) : ds[i] = cs[i]
      /\ ds[Len(cs) + 1].id = id /\ ds[Len(cs) + 1].comp = comp
  BY Zenon DEF Enters
<1> USE <1>0
<1>1. \A i \in 2 .. Len(ds) : i = Len(cs) + 1 \/ (i \in 2 .. Len(cs) /\ i \in 1 .. Len(cs))
  OBVIOUS
<1>2. Kept(d, ds) \subseteq Kept(c, cs) \cup {id}
  <2> SUFFICES ASSUME NEW e \in Kept(d, ds) PROVE e \in Kept(c, cs) \cup {id}
    OBVIOUS
  <2>1. CASE e \in Confirmed(d)
    BY <2>1 DEF Kept, Joined
  <2>2. CASE \E i \in 2 .. Len(ds) : e = ds[i].id
    <3>1. PICK i \in 2 .. Len(ds) : e = ds[i].id
      BY <2>2
    <3> QED BY <1>1, <3>1 DEF Kept
  <2> QED BY <2>1, <2>2 DEF Kept
<1>3. \A e \in Kept(d, ds) \ {id} :
        /\ e \in Live(d) /\ d.entry[e].comp = c.entry[e].comp
        /\ c.entry[e].father \in Live(d) => d.entry[e].father = c.entry[e].father
  <2> SUFFICES ASSUME NEW e \in Kept(d, ds), e # id
               PROVE  /\ e \in Live(d) /\ d.entry[e].comp = c.entry[e].comp
                      /\ c.entry[e].father \in Live(d) => d.entry[e].father = c.entry[e].father
    OBVIOUS
  <2>1. e \in Live(d)
    <3>1. CASE e \in Confirmed(d)
      BY <3>1
    <3>2. CASE \E i \in 2 .. Len(ds) : e = ds[i].id
      <4>1. PICK i \in 2 .. Len(ds) : e = ds[i].id
        BY <3>2
      <4> QED BY <1>1, <4>1
    <3> QED BY <3>1, <3>2 DEF Kept
  <2> QED BY <2>1 DEF Joined
<1>4. d.entry[id].comp = comp /\ d.entry[id].father = cs[m].id
  BY DEF Joined
<1>5. ASSUME NEW e \in Kept(d, ds), e # id, d.entry[e].comp = comp
      PROVE  d.entry[id].father = e
  <2>1. e \in Kept(c, cs) /\ c.entry[e].comp = comp
    BY <1>2, <1>3, <1>5
  <2>2. PICK i \in 2 .. Len(cs) : e = cs[i].id
    BY <2>1 DEF Kept
  <2>3. cs[i].comp = comp
    BY <2>1, <2>2 DEF Named
  <2> QED BY <1>4, <2>2, <2>3
<1>6. Sole(d, ds)
  <2> SUFFICES ASSUME NEW i \in Kept(d, ds), NEW j \in Kept(d, ds), d.entry[i].comp = d.entry[j].comp
               PROVE  i = j \/ d.entry[i].father = j \/ d.entry[j].father = i
    BY DEF Sole
  <2>1. CASE i = id
    BY <1>4, <1>5, <2>1
  <2>2. CASE j = id
    BY <1>4, <1>5, <2>2
  <2>3. CASE i # id /\ j # id
    <3>1. c.entry[i].comp = c.entry[j].comp /\ i \in Kept(c, cs) /\ j \in Kept(c, cs)
      BY <1>2, <1>3, <2>3
    <3>2. i = j \/ c.entry[i].father = j \/ c.entry[j].father = i
      BY <3>1, Zenon DEF Sole
    <3> QED BY <1>3, <2>3, <3>2
  <2> QED BY <2>1, <2>2, <2>3
<1>7. Named(d, ds)
  <2> SUFFICES ASSUME NEW i \in 2 .. Len(ds) PROVE d.entry[ds[i].id].comp = ds[i].comp
    BY DEF Named
  <2>1. CASE i = Len(cs) + 1
    BY <1>4, <2>1
  <2>2. CASE i \in 2 .. Len(cs)
    <3>1. ds[i] = cs[i] /\ cs[i].id \in Live(c) /\ cs[i].id \in Live(d)
      BY <2>2
    <3>2. d.entry[cs[i].id].comp = c.entry[cs[i].id].comp
      BY <3>1 DEF Joined
    <3> QED BY <2>2, <3>1, <3>2 DEF Named
  <2> QED BY <1>1, <2>1, <2>2
<1> QED BY <1>6, <1>7

(* How far the loop of splitComponent() is after k components: above the   *)
(* component at m, where it began, are some of those.                      *)
Reached(cs, ts, order, k) ==
    /\ Len(ts) >= Len(cs) /\ \A i \in 1 .. Len(cs) : ts[i] = cs[i]
    /\ \A i \in Len(cs) + 1 .. Len(ts) : \E q \in 1 .. k : ts[i].comp = order[q]

Single(s, cs, order, k) ==
    Sole(s.cache, s.comps) /\ Named(s.cache, s.comps) /\ Reached(cs, s.comps, order, k)

LEMMA ExploreSole ==
  ASSUME NEW K, Hashed(K), NEW R \in SUBSET K, NEW s, NEW B, NEW Z, NEW m, NEW parent, NEW vs,
         Looping(s, B, Z, m, parent, vs, K, R), NEW L \in Nat, NEW cs \in Stack(L, R), Len(cs) = m,
         NEW order, NEW k \in Nat, k >= 1, Single(s, cs, order, k - 1), order[k] \in R, order[k].vars \subseteq vs,
         \A q \in 1 .. k - 1 : order[q] # order[k],
         \A i \in 2 .. m : cs[i].comp = order[k] => i = m
  PROVE  Single(ExploreBelow(parent, s, order[k]), cs, order, k)
<1> DEFINE comp == order[k]
           c == s.cache
           ts == s.comps
           id == Find(c, comp)
           new == AllocId(c)
           x == [id |-> new, comp |-> comp]
           look == Lookup(c, comp)
           d == AddDescendant(NewEntry(c, comp, s.polls), ts[m].id, new)
           longer == Append(ts, x)
           left == PollsLeft(c, s.polls)
           more == IncreaseModels(s.decision, "some")
<1>1. PICK M \in Nat :
        /\ s \in StatesWith(K, R, M) /\ Shape(c, ts, B)
        /\ \A b \in B : b[1] <= m /\ b[2] <= c.clock
        /\ m \in 1 .. Len(ts) /\ ts[m].id = parent /\ ts[m].comp.vars = vs
  BY DEF Looping
<1>2. /\ c \in Caches(K, M) /\ ts \in Stack(M, R) /\ comp \in K /\ comp \in R /\ m \in Nat /\ Len(ts) \in Nat
  BY <1>1, StackIs DEF StatesWith, Stack
<1>3. Sole(c, ts) /\ Named(c, ts) /\ Reached(cs, ts, order, k - 1)
  BY DEF Single
<1>4. Woven(c, Roots(ts)) /\ Guarded(c, OnStack(ts))
  BY <1>1, Zenon DEF Shape
<1>5. Reached(cs, ts, order, k)
  <2>1. \A q \in 1 .. k - 1 : q \in 1 .. k
    OBVIOUS
  <2> QED BY <1>3, <2>1 DEF Reached
<1>6. Sole(look, ts) /\ Named(look, ts)
  <2>1. look \in Caches(K, M)
    BY <1>2, LookupType
  <2>2. SameUse(c, look, 1 .. M) /\ SameLinks(c, look, 1 .. M)
    BY <1>2, LookupDoes, Zenon
  <2> HIDE DEF look, c, ts
  <2>3. Confirmed(look) = Confirmed(c) /\ Live(look) = Live(c)
    BY ONLY <1>2, <2>1, <2>2, M \in Nat, SameUseSets
  <2>4. Kept(look, ts) = Kept(c, ts) /\ Kept(c, ts) \subseteq 1 .. M /\ Kept(c, ts) \subseteq Live(c)
    <3>1. Confirmed(c) \subseteq Live(c) /\ Confirmed(c) \subseteq 1 .. M
      BY <1>2, ConfirmedIs, Zenon
    <3>2. \A i \in 2 .. Len(ts) : ts[i].id \in 1 .. M /\ ts[i].id \in Live(c)
      <4>1. \A i \in 1 .. Len(ts) : ts[i].id \in 1 .. M /\ ts[i].id \in OnStack(ts)
        BY <1>2, StackIs
      <4>2. \A i \in 2 .. Len(ts) : i \in 1 .. Len(ts)
        BY <1>2
      <4> QED BY <1>4, <4>1, <4>2 DEF Guarded
    <3> QED BY <2>3, <3>1, <3>2 DEF Kept
  <2>5. Inherits(c, look, Kept(look, ts))
    BY <2>2, <2>4 DEF Inherits, SameUse, SameLinks
  <2>6. Sole(look, ts)
    BY <1>3, <2>3, <2>4, <2>5, SoleLess
  <2>7. Named(look, ts)
    <3>1. \A i \in 2 .. Len(ts) : ts[i].id \in Kept(look, ts)
      BY DEF Kept
    <3> QED BY <1>3, <2>5, <3>1 DEF Named, Inherits
  <2> QED BY <2>6, <2>7
<1>7. /\ longer \in Seq([id : {new} \cup 1 .. M, comp : R]) /\ Len(longer) = Len(ts) + 1
      /\ longer[Len(ts) + 1] = x /\ \A i \in 1 .. Len(ts) : longer[i] = ts[i]
  <2> DEFINE S == [id : {new} \cup 1 .. M, comp : R]
             T == [id : 1 .. M, comp : R]
  <2>1. ts \in Seq(T) /\ T \subseteq S /\ x \in S
    BY <1>2 DEF Stack
  <2> HIDE DEF S, T, x, ts
  <2>2. ts \in Seq(S)
    BY <2>1, SeqMonotonic
  <2>3. longer \in Seq(S) /\ Len(longer) = Len(ts) + 1 /\ longer[Len(ts) + 1] = x
        /\ \A i \in 1 .. Len(ts) : longer[i] = ts[i]
    BY ONLY <2>1, <2>2, AppendIs
  <2> QED BY <2>3 DEF S
<1>8. ASSUME id = INVALID_ENTRY PROVE Sole(d, longer) /\ Named(d, longer)
  <2>1. Shape(d, longer, B) /\ Joined(c, d, new, comp, ts[m].id)
    <3>1. (\A b \in B : b[1] <= m) /\ (\A b \in B : b[2] <= c.clock)
      BY <1>1
    <3>2. Shape(c, ts, B) /\ m \in 1 .. Len(ts) /\ comp.vars \subseteq ts[m].comp.vars
      BY <1>1
    <3> HIDE DEF c, ts, comp
    <3> QED BY ONLY <1>2, <3>1, <3>2, Hashed(K), M \in Nat, R \in SUBSET K, EnteredShape
  <2>2. Confirmed(c) \subseteq Live(c)
    BY <1>2, ConfirmedIs, Zenon
  <2>3. Confirmed(d) \subseteq Live(d)
    BY DEF Confirmed
  <2>4. \A i \in 1 .. Len(ts) : ts[i].id \in Live(c) /\ ts[i].id \in Live(d)
    <3>1. Guarded(d, OnStack(longer))
      BY <2>1, Zenon DEF Shape
    <3>2. \A i \in 1 .. Len(ts) : ts[i].id \in OnStack(ts)
      BY <1>2, StackIs
    <3>3. \A i \in 1 .. Len(ts) : ts[i].id \in OnStack(longer)
      <4> SUFFICES ASSUME NEW i \in 1 .. Len(ts) PROVE ts[i].id \in OnStack(longer)
        OBVIOUS
      <4>1. i \in 1 .. Len(longer) /\ longer[i] = ts[i]
        BY <1>2, <1>7
      <4> HIDE DEF longer
      <4> QED BY <4>1 DEF OnStack
    <3> HIDE DEF d, c, ts, longer
    <3> QED BY <1>4, <3>1, <3>2, <3>3 DEF Guarded
  <2>5. \A e \in Confirmed(c) : c.entry[e].comp # comp
    <3>1. Tabled(c)
      BY <1>4 DEF Woven
    <3> QED BY <1>2, <1>8, <3>1, FindsNone
  <2>6. \A i \in 2 .. Len(ts) : ts[i].comp = comp => ts[i].id = ts[m].id
    <3> SUFFICES ASSUME NEW i \in 2 .. Len(ts), ts[i].comp = comp PROVE ts[i].id = ts[m].id
      OBVIOUS
    <3>1. CASE i <= m
      <4>1. i \in 2 .. m /\ i \in 1 .. m
        BY <1>2, <3>1
      <4>2. ts[i] = cs[i]
        BY <1>3, <4>1 DEF Reached
      <4> QED BY <4>1, <4>2
    <3>2. CASE i > m
      <4>1. i \in m + 1 .. Len(ts)
        BY <1>2, <3>2
      <4>2. PICK q \in 1 .. k - 1 : ts[i].comp = order[q]
        BY <1>3, <4>1 DEF Reached
      <4> QED BY <4>2
    <3> QED BY <1>2, <3>1, <3>2
  <2>7. longer[Len(ts) + 1].id = new /\ longer[Len(ts) + 1].comp = comp
    BY <1>7
  <2>8. Len(longer) = Len(ts) + 1 /\ Len(ts) \in Nat /\ \A i \in 1 .. Len(ts) : longer[i] = ts[i]
    BY <1>2, <1>7
  <2> HIDE DEF d, c, ts, longer, new, comp
  <2>9. Enters(c, ts, d, longer, new, comp, m)
    BY ONLY <2>1, <2>2, <2>3, <2>4, <2>5, <2>6, <2>7, <2>8 DEF Enters
  <2> QED BY <1>3, <2>9, JoinedSole, Zenon
<1>9. Reached(cs, longer, order, k)
  <2>1. \A i \in Len(cs) + 1 .. Len(ts) + 1 : i = Len(ts) + 1 \/ (i \in Len(cs) + 1 .. Len(ts) /\ i \in 1 .. Len(ts))
    BY <1>2
  <2>2. k \in 1 .. k /\ \A i \in 1 .. Len(cs) : i \in 1 .. Len(ts)
    BY <1>2, <1>5 DEF Reached
  <2>3. longer[Len(ts) + 1].comp = order[k]
    BY <1>7
  <2>4. Len(longer) >= Len(cs)
    BY <1>1, <1>2, <1>7
  <2>5. \A i \in 1 .. Len(cs) : longer[i] = cs[i]
    BY <1>5, <1>7, <2>2 DEF Reached
  <2> HIDE DEF longer, ts
  <2>6. \A i \in Len(cs) + 1 .. Len(longer) : \E q \in 1 .. k : longer[i].comp = order[q]
    <3> SUFFICES ASSUME NEW i \in Len(cs) + 1 .. Len(longer) PROVE \E q \in 1 .. k : longer[i].comp = order[q]
      OBVIOUS
    <3>1. i = Len(ts) + 1 \/ (i \in Len(cs) + 1 .. Len(ts) /\ longer[i] = ts[i])
      BY <1>7, <2>1
    <3> QED BY <1>5, <2>2, <2>3, <3>1 DEF Reached
  <2> QED BY <2>4, <2>5, <2>6 DEF Reached
<1>10. Entered(s, comp, parent) = d
  BY <1>1 DEF Entered
<1> HIDE DEF look, d, longer, more, left, id
<1>11. ExploreBelow(parent, s, comp) =
        IF s.dead THEN s
        ELSE IF id = INVALID_ENTRY THEN [s EXCEPT !.cache = d, !.comps = longer, !.polls = left]
        ELSE IF s.cache.entry[id].zero THEN [s EXCEPT !.cache = look, !.dead = TRUE]
        ELSE [s EXCEPT !.cache = look, !.decision = more]
  BY <1>10 DEF ExploreBelow, id, x, look, left, more, longer, new
<1>12. Single(s, cs, order, k)
  BY <1>3, <1>5 DEF Single
<1>13. ASSUME id = INVALID_ENTRY
       PROVE  Single([s EXCEPT !.cache = d, !.comps = longer, !.polls = left], cs, order, k)
  <2> DEFINE t == [s EXCEPT !.cache = d, !.comps = longer, !.polls = left]
  <2>1. t.cache = d /\ t.comps = longer
    BY <1>1 DEF StatesWith
  <2> HIDE DEF t
  <2>2. Single(t, cs, order, k)
    BY <1>8, <1>9, <1>13, <2>1, Zenon DEF Single
  <2> QED BY <2>2 DEF t
<1>14. Single([s EXCEPT !.cache = look, !.dead = TRUE], cs, order, k)
  <2> DEFINE t == [s EXCEPT !.cache = look, !.dead = TRUE]
  <2>1. t.cache = look /\ t.comps = ts
    BY <1>1 DEF StatesWith
  <2> HIDE DEF t
  <2>2. Single(t, cs, order, k)
    BY <1>5, <1>6, <2>1 DEF Single
  <2> QED BY <2>2 DEF t
<1>15. Single([s EXCEPT !.cache = look, !.decision = more], cs, order, k)
  <2> DEFINE t == [s EXCEPT !.cache = look, !.decision = more]
  <2>1. t.cache = look /\ t.comps = ts
    BY <1>1 DEF StatesWith
  <2> HIDE DEF t
  <2>2. Single(t, cs, order, k)
    BY <1>5, <1>6, <2>1 DEF Single
  <2> QED BY <2>2 DEF t
<1> QED BY <1>11, <1>12, <1>13, <1>14, <1>15, Zenon

LEMMA NotBefore ==
  ASSUME NEW a, a.vars \subseteq Nat, a.vars # {}
  PROVE  ~ Precedes(a, a)
<1>1. Min(a.vars) \in Nat
  BY MinIs
<1> QED BY <1>1 DEF Precedes

(* What is found is not empty, but for the component itself.               *)
LEMMA FoundVars ==
  ASSUME Typed, Stretches, NEW found \in Left
  PROVE  \A a \in found : a.vars \subseteq Nat /\ (found # {Super} => a.vars # {})
<1>1. Super \in CompsOf(input)
  BY TypedFacts
<1>2. found \subseteq CompsOf(input)
  BY <1>1, InputFacts DEF Left, Typed
<1>3. \A a \in found : a.vars \subseteq Nat
  BY <1>2, InputFacts DEF Typed
<1>4. found # {Super} => \A a \in found : a.vars # {}
  BY <1>1, InputFacts DEF Left, Typed
<1> QED BY <1>3, <1>4

LEMMA OrderDistinct ==
  ASSUME Typed, Stretches, NEW found \in Left, NEW order \in Ascending(found)
  PROVE  \A i, j \in 1 .. Len(order) : i < j => order[i] # order[j]
<1>1. /\ Len(order) \in Nat /\ \A n \in 1 .. Len(order) : order[n] \in found
      /\ \A i, j \in 1 .. Len(order) : i < j => Precedes(order[i], order[j])
  BY FoundComps
<1>2. CASE found = {Super}
  <2>1. Cardinality(found) = 1
    BY <1>2, FS_Singleton
  <2>2. order \in [1 .. 1 -> found]
    BY <2>1 DEF Ascending
  <2>3. Len(order) = 1
    BY <2>2, LenIs
  <2> QED BY <2>3
<1>3. CASE found # {Super}
  <2> SUFFICES ASSUME NEW i \in 1 .. Len(order), NEW j \in 1 .. Len(order), i < j, order[i] = order[j]
               PROVE  FALSE
    OBVIOUS
  <2>1. Precedes(order[i], order[i]) /\ order[i] \in found
    BY <1>1
  <2>2. order[i].vars \subseteq Nat /\ order[i].vars # {}
    BY <1>3, <2>1, FoundVars
  <2> QED BY <2>1, <2>2, NotBefore
<1> QED BY <1>2, <1>3

LEMMA SplitSole ==
  ASSUME Control, Structure, Sole(cache, comps), Named(cache, comps), NEW found \in Left,
         NEW order \in Ascending(found), NEW free \in FreeFactors, NEW polls \in Polls,
         \A i \in 2 .. Len(comps) : comps[i].comp \in found => i = Len(comps)
  PROVE  LET s == SplitComponent(order, free, polls)
         IN  Sole(s.cache, s.comps) /\ Named(s.cache, s.comps)
<1> DEFINE K == KeysOf(input)
           R == CompsOf(input)
           L == Len(cache.entry)
           m == Len(comps)
           N == Len(order)
           Z == Loose(cache, comps)
           B == Branches(SetTop(Begun(free, polls).decision))
           parent == Last(comps).id
           vs == Super.vars
<1>1. Typed /\ Stretches
  BY DEF Control
<1>2. Hashed(K) /\ R \in SUBSET K
  BY <1>1, InputFacts DEF Typed
<1>3. /\ N \in Nat /\ \A k \in 1 .. N : order[k] \in found /\ order[k] \in R
      /\ \A i, j \in 1 .. N : i < j => order[i] # order[j]
  BY <1>1, FoundComps, OrderDistinct
<1>4. L \in Nat /\ comps \in Stack(L, R) /\ m \in Nat /\ Super \in R
  BY <1>1, TypedFacts DEF Stack
<1>5. \A k \in 1 .. N : order[k].vars \subseteq vs
  <2>1. \A a \in found : a.vars \subseteq vs
    BY <1>1, <1>4, InputFacts DEF Left, Typed
  <2> QED BY <1>3, <2>1
<1>6. PICK upTo : SplitLoop(upTo, order, free, polls)
  BY SplitLoops, Zenon
<1>7. /\ upTo[0] = Begun(free, polls)
      /\ \A k \in 1 .. N : upTo[k] = ExploreBelow(parent, upTo[k - 1], order[k])
      /\ SplitComponent(order, free, polls) = SetDecision(upTo[N], SplitResult(upTo[N]))
      /\ \A k \in 0 .. N : Looping(upTo[k], B, Z, m, parent, vs, K, R)
  BY <1>6, Zenon DEF SplitLoop
<1> HIDE DEF K, R, L, m, N, Z, B, parent, vs
<1> DEFINE T == {k \in 0 .. N : Single(upTo[k], comps, order, k)}
<1>8. 0 \in T
  <2>1. upTo[0].cache = cache /\ upTo[0].comps = comps
    BY <1>7 DEF Begun
  <2>2. Reached(comps, comps, order, 0)
    BY <1>4 DEF Reached, m
  <2> QED BY <1>3, <2>1, <2>2 DEF Single
<1>9. ASSUME NEW k \in 1 .. N, k - 1 \in T PROVE k \in T
  <2>1. Single(upTo[k - 1], comps, order, k - 1) /\ k \in 0 .. N /\ k - 1 \in 0 .. N /\ k \in Nat /\ k >= 1
    BY <1>3, <1>9
  <2>2. Looping(upTo[k - 1], B, Z, m, parent, vs, K, R)
    BY <1>7, <2>1
  <2>3. \A q \in 1 .. k - 1 : order[q] # order[k]
    <3>1. \A q \in 1 .. k - 1 : q \in 1 .. N /\ q < k
      BY <1>3
    <3> QED BY <1>3, <3>1
  <2>4. \A i \in 2 .. m : comps[i].comp = order[k] => i = m
    BY <1>3 DEF m
  <2>5. order[k] \in R /\ order[k].vars \subseteq vs /\ Len(comps) = m
    BY <1>3, <1>5 DEF m
  <2>6. Single(ExploreBelow(parent, upTo[k - 1], order[k]), comps, order, k)
    BY ONLY <1>2, <1>4, <2>1, <2>2, <2>3, <2>4, <2>5, ExploreSole
  <2> QED BY <1>7, <2>1, <2>6
<1>10. Single(upTo[N], comps, order, N)
  <2> HIDE DEF T
  <2>1. \A k \in 0 .. N : k \in T
    BY <1>3, <1>8, <1>9, BoundedSteps, Zenon
  <2>2. N \in T
    BY <1>3, <2>1
  <2> QED BY <2>2 DEF T
<1> DEFINE u == upTo[N]
           s == SplitComponent(order, free, polls)
<1>11. s.cache = u.cache /\ s.comps = u.comps
  <2>1. \E M \in Nat : u \in StatesWith(K, R, M)
    <3>1. N \in 0 .. N
      BY <1>3
    <3> QED BY <1>7, <3>1 DEF Looping
  <2>2. s = SetDecision(u, SplitResult(u))
    BY <1>7
  <2> HIDE DEF u, s
  <2> QED BY <2>1, <2>2 DEF SetDecision, StatesWith
<1> QED BY <1>10, <1>11 DEF Single

(* ds is how cs begins.                                                    *)
Starts(ds, cs) ==
    Len(ds) \in Nat /\ Len(cs) \in Nat /\ Len(ds) <= Len(cs) /\ \A i \in 1 .. Len(ds) : ds[i] = cs[i]

LEMMA KeptLive ==
  ASSUME NEW c, NEW cs, Len(cs) \in Nat, Guarded(c, OnStack(cs))
  PROVE  Kept(c, cs) \subseteq Live(c)
<1>1. \A i \in 2 .. Len(cs) : i \in 1 .. Len(cs)
  OBVIOUS
<1>2. Confirmed(c) \subseteq Live(c)
  BY DEF Confirmed
<1>3. \A i \in 1 .. Len(cs) : cs[i].id \in Live(c)
  BY DEF Guarded, OnStack
<1> QED BY <1>1, <1>2, <1>3 DEF Kept

(* The stack gets shorter, and what gets a result was on it.               *)
LEMMA ShorterSole ==
  ASSUME NEW c, NEW cs, NEW d, NEW ds, Sole(c, cs), Named(c, cs), Starts(ds, cs),
         Confirmed(d) \subseteq Kept(c, cs), Guarded(d, OnStack(ds)),
         \A e \in Live(d) : d.entry[e].comp = c.entry[e].comp /\ d.entry[e].father = c.entry[e].father
  PROVE  Sole(d, ds) /\ Named(d, ds)
<1>1. \A i \in 2 .. Len(ds) : i \in 2 .. Len(cs) /\ ds[i] = cs[i]
  BY DEF Starts
<1>2. Kept(d, ds) \subseteq Live(d)
  BY KeptLive DEF Starts
<1>3. Kept(d, ds) \subseteq Kept(c, cs)
  <2>1. \A i \in 2 .. Len(ds) : ds[i].id \in Kept(c, cs)
    BY <1>1 DEF Kept
  <2> QED BY <2>1 DEF Kept
<1>4. Inherits(c, d, Kept(d, ds))
  BY <1>2 DEF Inherits
<1>5. Sole(d, ds)
  BY <1>2, <1>3, <1>4, SoleLess
<1>6. Named(d, ds)
  <2>1. \A i \in 2 .. Len(ds) : ds[i].id \in Live(d)
    BY <1>2 DEF Kept
  <2> QED BY <1>1, <2>1 DEF Named
<1> QED BY <1>5, <1>6

LEMMA PopSole ==
  ASSUME Control, Structure, Sole(cache, comps), Named(cache, comps),
         NEW stored \in {Store(cache, Last(comps).id), StoreZero(cache, Last(comps).id), cache},
         cache' = PopComponent(stored), comps' = Front(comps), Len(comps) > 1,
         Guarded(cache', OnStack(comps'))
  PROVE  Sole(cache', comps') /\ Named(cache', comps')
<1> DEFINE L == Len(cache.entry)
           K == KeysOf(input)
           R == CompsOf(input)
           n == Len(comps)
           id == comps[n].id
<1>1. /\ L \in Nat /\ cache \in Caches(K, L) /\ comps \in Stack(L, R) /\ input \in DOMAIN Inputs
      /\ n \in Nat /\ n >= 1 /\ Last(comps) = comps[n]
  BY TypedFacts DEF Control, Typed, Stack
<1>2. Hashed(K)
  BY <1>1, InputFacts
<1>3. Guarded(cache, OnStack(comps))
  BY Zenon DEF Structure, Shape
<1>4. id \in Open(cache)
  <2>1. n \in 1 .. n
    BY <1>1
  <2>2. id \in OnStack(comps)
    BY <2>1 DEF OnStack
  <2> QED BY <1>3, <2>2 DEF Guarded, Open, Confirmed
<1>5. /\ Live(cache') = Live(cache) /\ Confirmed(cache') \subseteq Confirmed(cache) \cup {id}
      /\ \A e \in Live(cache') : /\ cache'.entry[e].comp = cache.entry[e].comp
                                 /\ cache'.entry[e].father = cache.entry[e].father
  <2>1. cache' = SetDeletePermitted(stored, id, TRUE) /\ stored \in {Store(cache, id), StoreZero(cache, id), cache}
    BY <1>1 DEF PopComponent
  <2> HIDE DEF id, K, L, n
  <2>2. stored \in {Store(cache, id), StoreZero(cache, id), cache}
    BY <2>1
  <2>3. LeavesOpen(cache, stored, id)
    BY ONLY <1>1, <1>2, <1>4, <2>2, FinishedOpen, Zenon
  <2> QED BY <2>1, <2>3 DEF LeavesOpen
<1>6. Starts(comps', comps)
  <2>1. comps # <<>> /\ comps \in Seq([id : 1 .. L, comp : R])
    BY <1>1 DEF Stack
  <2>2. Len(comps') = n - 1 /\ \A i \in 1 .. n - 1 : comps'[i] = comps[i]
    BY <2>1, FrontIs, Zenon
  <2> QED BY <1>1, <2>2 DEF Starts
<1>7. Confirmed(cache') \subseteq Kept(cache, comps)
  <2>1. n \in 2 .. n
    BY <1>1
  <2>2. id \in Kept(cache, comps)
    BY <2>1 DEF Kept
  <2> QED BY <1>5, <2>2 DEF Kept
<1> QED BY <1>5, <1>6, <1>7, ShorterSole

LEMMA CleanSole ==
  ASSUME Control, Structure, Sole(cache, comps), Named(cache, comps), Clean
  PROVE  Sole(cache', comps') /\ Named(cache', comps') /\ Starts(comps', comps) /\ Len(comps') = TopDecision.base
<1>1. Structure' /\ Lessened(cache, cache')
  BY CleanStructure
<1>2. Guarded(cache', OnStack(comps'))
  BY <1>1, Zenon DEF Structure, Shape
<1>3. Starts(comps', comps) /\ Len(comps') = TopDecision.base
  <2> DEFINE L == Len(cache.entry)
             R == CompsOf(input)
             k == TopDecision.base
  <2>1. /\ comps \in Seq([id : 1 .. L, comp : R]) /\ Len(comps) \in Nat
        /\ TopDecision \in Decisions /\ 1 <= k /\ k <= Len(comps)
    BY TypedFacts DEF Control, Typed
  <2>2. k \in Nat
    BY <2>1 DEF Decisions
  <2>3. comps' = SubSeq(comps, 1, k)
    BY DEF Clean
  <2>4. k \in 0 .. Len(comps)
    BY <2>1, <2>2
  <2> HIDE DEF L, R, k
  <2>5. Len(comps') = k /\ \A i \in 1 .. k : comps'[i] = comps[i]
    BY <2>1, <2>3, <2>4, PrefixIs, Zenon
  <2> QED BY <2>1, <2>2, <2>5 DEF Starts, k
<1>4. Confirmed(cache') \subseteq Kept(cache, comps)
  BY <1>1 DEF Lessened, Kept
<1>5. Sole(cache', comps') /\ Named(cache', comps')
  BY <1>1, <1>2, <1>3, <1>4, ShorterSole DEF Lessened
<1> QED BY <1>3, <1>5

(***************************************************************************)
(* Which component is on the stack twice.                                  *)
(***************************************************************************)
(* Components on the stack have variables, and of two that share some the  *)
(* upper one is a part of the lower.                                       *)
Nests(cs, root) ==
    /\ \A i \in 2 .. Len(cs) : cs[i].comp # root /\ cs[i].comp.vars # {}
    /\ \A i, j \in 1 .. Len(cs) : i < j =>
         cs[j].comp.vars \subseteq cs[i].comp.vars \/ cs[j].comp.vars \cap cs[i].comp.vars = {}

(* Only the component that countExists() began with is there twice, as the *)
(* one it has been split into; it decides on that before it comes back.    *)
Twins ==
    \A i, j \in 2 .. Len(comps) : i < j /\ comps[i].comp = comps[j].comp =>
        /\ InExists /\ j = decisions[preLevel + 1].top /\ decisions[preLevel + 1].base < j
        /\ AtEntry => pc \in {"decide", "clean"}

Unmatched(cs) == \A i, j \in 2 .. Len(cs) : i < j => cs[i].comp # cs[j].comp

LEMMA ResidualFacts ==
  ASSUME input \in DOMAIN Inputs, NEW comp \in CompsOf(input), NEW found \in Residuals[comp]
  PROVE  /\ \A a \in found : /\ a # RootComp /\ a.vars # {} /\ a.vars \subseteq comp.vars
                             /\ comp # RootComp => a.vars # comp.vars
         /\ \A a, b \in found : a # b => a.vars \cap b.vars = {}
<1>1. LET in == Inputs[input]
          all == DOMAIN in.residuals
      IN  \A c \in all : \A f \in in.residuals[c] :
            /\ f \subseteq all \ {in.root}
            /\ \A a \in f : /\ a.vars # {} /\ a.vars \subseteq c.vars
                            /\ c # in.root => a.vars # c.vars
            /\ \A a, b \in f : a # b => a.vars \cap b.vars = {}
  BY InputsAssumption, Zenon
<1> QED BY <1>1 DEF CompsOf, Residuals, RootComp

(* What is left of the component at the top of the stack is not below it.  *)
LEMMA FoundNew ==
  ASSUME Control, Nests(comps, RootComp), NEW found \in Residuals[Super], NEW i \in 2 .. Len(comps)
  PROVE  comps[i].comp \notin found
<1> DEFINE n == Len(comps)
           a == comps[i].comp
<1>1. /\ n \in Nat /\ n >= 1 /\ Super = comps[n].comp /\ Super \in CompsOf(input) /\ input \in DOMAIN Inputs
  BY TypedFacts DEF Control, Typed
<1>2. SUFFICES ASSUME a \in found PROVE FALSE
  OBVIOUS
<1>3. i \in 1 .. n /\ n \in 1 .. n /\ n \in 2 .. n /\ (i = n \/ i < n)
  BY <1>1
<1>4. Super # RootComp
  BY <1>1, <1>3 DEF Nests
<1>5. a.vars # {} /\ a.vars \subseteq Super.vars /\ a.vars # Super.vars
  BY <1>1, <1>2, <1>4, ResidualFacts
<1>6. CASE i = n
  BY <1>1, <1>5, <1>6
<1>7. CASE i < n
  <2>1. Super.vars \subseteq a.vars \/ Super.vars \cap a.vars = {}
    BY <1>1, <1>3, <1>7 DEF Nests
  <2> QED BY <1>5, <2>1
<1> QED BY <1>3, <1>6, <1>7

(* countExists() begins with a component that is on the stack once.        *)
LEMMA EntryFacts ==
  ASSUME Control, Nests(comps, RootComp), pc = "main", AtEntry
  PROVE  /\ Len(comps) >= 2 /\ Super # RootComp /\ Super.vars # {} /\ Super.vars \subseteq Nat
         /\ preLevel + 1 = Len(decisions)
<1> DEFINE n == Len(comps)
<1>1. /\ n \in Nat /\ n >= 1 /\ Super = comps[n].comp /\ Super \in CompsOf(input) /\ input \in DOMAIN Inputs
      /\ Len(decisions) \in Nat /\ TopDecision.top = n /\ 1 <= TopDecision.base /\ TopDecision \in Decisions
      /\ preLevel \in Int
  BY TypedFacts DEF Control, Typed
<1>2. TopDecision.base < n
  BY <1>1 DEF Control, Stretches, HasUnprocessedComp
<1>3. n >= 2 /\ n \in 2 .. n
  BY <1>1, <1>2 DEF Decisions
<1>4. Super # RootComp /\ Super.vars # {}
  BY <1>1, <1>3 DEF Nests
<1>5. Super.vars \subseteq Nat
  BY <1>1, InputFacts
<1>6. preLevel + 1 = Len(decisions)
  BY <1>1 DEF AtEntry
<1> QED BY <1>3, <1>4, <1>5, <1>6

LEMMA FoundOnce ==
  ASSUME Control, Nests(comps, RootComp), Twins, pc = "main", NEW found \in Left
  PROVE  \A i \in 2 .. Len(comps) : comps[i].comp \in found => i = Len(comps)
<1>1. CASE found \in Residuals[Super]
  BY <1>1, FoundNew
<1>2. CASE AtEntry /\ found = {Super}
  <2> SUFFICES ASSUME NEW i \in 2 .. Len(comps), comps[i].comp = Super, i # Len(comps) PROVE FALSE
    BY <1>2
  <2>1. Len(comps) \in Nat /\ Super = comps[Len(comps)].comp
    BY TypedFacts DEF Control
  <2>2. Len(comps) \in 2 .. Len(comps) /\ i < Len(comps)
    BY <2>1
  <2> QED BY <1>2, <2>1, <2>2 DEF Twins
<1> QED BY <1>1, <1>2 DEF Left

(* What is split is a part of the component at the top of the stack.       *)
LEMMA SplitNests ==
  ASSUME Control, Nests(comps, RootComp), pc = "main", NEW found \in Left, NEW s, SplitDone(s, found)
  PROVE  Nests(s.comps, RootComp)
<1> DEFINE n == Len(comps)
           ts == s.comps
           top == Super
<1>1. /\ n \in Nat /\ n >= 1 /\ top = comps[n].comp /\ top \in CompsOf(input) /\ input \in DOMAIN Inputs
  BY TypedFacts DEF Control, Typed
<1>2. /\ Len(ts) \in Nat /\ n <= Len(ts) /\ \A i \in 1 .. n : ts[i] = comps[i]
      /\ \A i \in n + 1 .. Len(ts) : ts[i].comp \in found
  BY SMTT(30) DEF SplitDone
<1>3. /\ \A a \in found : a # RootComp /\ a.vars # {} /\ a.vars \subseteq top.vars
      /\ \A a, b \in found : a # b => a.vars \cap b.vars = {}
  <2>1. CASE found \in Residuals[top]
    BY <1>1, <2>1, ResidualFacts
  <2>2. CASE AtEntry /\ found = {top}
    BY <2>2, EntryFacts
  <2> QED BY <2>1, <2>2 DEF Left
<1> HIDE DEF ts, top, n
<1>4. \A i \in 1 .. Len(ts) : i \in 1 .. n \/ i \in n + 1 .. Len(ts)
  BY <1>1, <1>2
<1>5. ASSUME NEW i \in 2 .. Len(ts) PROVE ts[i].comp # RootComp /\ ts[i].comp.vars # {}
  <2>1. i \in 2 .. n \/ i \in n + 1 .. Len(ts)
    BY <1>1, <1>2
  <2>2. i \in 2 .. n => ts[i] = comps[i] /\ comps[i].comp # RootComp /\ comps[i].comp.vars # {}
    BY <1>2 DEF Nests, n
  <2> QED BY <1>2, <1>3, <2>1, <2>2
<1>6. ASSUME NEW i \in 1 .. Len(ts), NEW j \in 1 .. Len(ts), i < j
      PROVE  ts[j].comp.vars \subseteq ts[i].comp.vars \/ ts[j].comp.vars \cap ts[i].comp.vars = {}
  <2>1. CASE j \in 1 .. n
    <3>1. i \in 1 .. n /\ ts[i] = comps[i] /\ ts[j] = comps[j]
      BY <1>1, <1>2, <1>6, <2>1
    <3> QED BY <1>6, <2>1, <3>1 DEF Nests, n
  <2>2. CASE j \in n + 1 .. Len(ts) /\ i \in n + 1 .. Len(ts)
    <3>1. ts[i].comp \in found /\ ts[j].comp \in found
      BY <1>2, <2>2
    <3> QED BY <1>3, <3>1
  <2>3. CASE j \in n + 1 .. Len(ts) /\ i \in 1 .. n
    <3>1. ts[j].comp.vars \subseteq top.vars /\ ts[i] = comps[i]
      BY <1>2, <1>3, <2>3
    <3>2. i = n \/ (i < n /\ n \in 1 .. n)
      BY <1>1, <2>3
    <3>3. top.vars \subseteq comps[i].comp.vars \/ top.vars \cap comps[i].comp.vars = {}
      BY <1>1, <2>3, <3>2 DEF Nests, n
    <3> QED BY <3>1, <3>3
  <2> QED BY <1>4, <2>1, <2>2, <2>3
<1> QED BY <1>5, <1>6 DEF Nests, ts

LEMMA StartsNests ==
  ASSUME NEW cs, NEW ds, NEW root, Nests(cs, root), Starts(ds, cs)
  PROVE  Nests(ds, root)
<1>1. \A i \in 1 .. Len(ds) : i \in 1 .. Len(cs) /\ ds[i] = cs[i]
  BY DEF Starts
<1>2. \A i \in 2 .. Len(ds) : i \in 2 .. Len(cs) /\ ds[i] = cs[i]
  BY DEF Starts
<1> QED BY <1>1, <1>2 DEF Nests

LEMMA UnmatchedTwins ==
  ASSUME Twins, InExists => AtEntry /\ pc \notin {"decide", "clean"}
  PROVE  Unmatched(comps)
BY DEF Twins, Unmatched

LEMMA StartsUnmatched ==
  ASSUME NEW cs, NEW ds, Unmatched(cs), Starts(ds, cs)
  PROVE  Unmatched(ds)
<1>1. \A i \in 2 .. Len(ds) : i \in 2 .. Len(cs) /\ ds[i] = cs[i]
  BY DEF Starts
<1> QED BY <1>1 DEF Unmatched

(* While countExists() is above the level where it began, its twins stay.  *)
LEMMA TwinsAbove ==
  ASSUME Control, Twins, Starts(comps', comps), preLevel' = preLevel, Len(decisions') \in Nat,
         InExists => /\ ~ AtEntry \/ Decide
                     /\ preLevel + 1 < Len(decisions')
                     /\ decisions'[preLevel + 1].top = decisions[preLevel + 1].top
                     /\ decisions'[preLevel + 1].base = decisions[preLevel + 1].base
  PROVE  Twins'
<1>1. \A i \in 2 .. Len(comps') : i \in 2 .. Len(comps) /\ comps'[i] = comps[i]
  BY DEF Starts
<1>2. InExists' <=> InExists
  BY DEF InExists
<1>3. InExists => ~ AtEntry'
  <2>1. preLevel \in Int
    BY DEF Control, Typed
  <2> QED BY <2>1 DEF AtEntry
<1> SUFFICES ASSUME NEW i \in 2 .. Len(comps'), NEW j \in 2 .. Len(comps'), i < j, comps'[i].comp = comps'[j].comp
             PROVE  /\ InExists' /\ j = decisions'[preLevel' + 1].top /\ decisions'[preLevel' + 1].base < j
                    /\ AtEntry' => pc' \in {"decide", "clean"}
  BY DEF Twins
<1>4. InExists /\ j = decisions[preLevel + 1].top /\ decisions[preLevel + 1].base < j
  BY <1>1 DEF Twins
<1> QED BY <1>2, <1>3, <1>4

LEMMA SplitTwins ==
  ASSUME Control, Nests(comps, RootComp), Twins, pc = "main", NEW found \in Left, NEW s, SplitDone(s, found),
         comps' = s.comps, decisions' = SetTop(s.decision), preLevel' = preLevel,
         InExists /\ Len(comps') # Len(comps) => pc' \in {"decide", "clean"}
  PROVE  Twins'
<1> DEFINE n == Len(comps)
           N == Len(decisions)
           ts == s.comps
           e == s.decision
<1>1. /\ n \in Nat /\ n >= 1 /\ Super = comps[n].comp /\ decisions \in Seq(Decisions) /\ N \in Nat /\ N >= 1
      /\ TopDecision.base <= n /\ TopDecision.base \in Nat /\ preLevel \in -1 .. N - 1
  BY TypedFacts DEF Control, Typed, Decisions
<1>2. /\ Len(ts) \in Nat /\ n <= Len(ts) /\ \A i \in 1 .. n : ts[i] = comps[i]
      /\ \A i \in n + 1 .. Len(ts) : ts[i].comp \in found
      /\ \A i, j \in n + 1 .. Len(ts) : i < j => Precedes(ts[i].comp, ts[j].comp)
      /\ e \in Decisions /\ e.base = TopDecision.base /\ e.top = Len(ts)
  BY DEF SplitDone
<1>3. Len(decisions') = N /\ decisions'[N] = e /\ \A k \in 1 .. N - 1 : decisions'[k] = decisions[k]
  BY <1>1, <1>2, ReplacedTop
<1>4. comps' = ts
  OBVIOUS
<1> HIDE DEF ts, e, n, N
<1>5. \A a \in found : a.vars \subseteq Nat /\ a.vars # {}
  <2>1. \A a \in found : a.vars \subseteq Nat /\ (found # {Super} => a.vars # {})
    BY FoundVars DEF Control
  <2>2. found \in Residuals[Super] => \A a \in found : a.vars # {}
    <3>1. Super \in CompsOf(input) /\ input \in DOMAIN Inputs
      BY TypedFacts DEF Control, Typed
    <3> QED BY <3>1, ResidualFacts
  <2>3. AtEntry => Super.vars # {}
    BY EntryFacts
  <2> QED BY <2>1, <2>2, <2>3 DEF Left
<1>6. \A i, j \in n + 1 .. Len(ts) : i < j => ts[i].comp # ts[j].comp
  BY <1>2, <1>5, NotBefore
<1> SUFFICES ASSUME NEW i \in 2 .. Len(ts), NEW j \in 2 .. Len(ts), i < j, ts[i].comp = ts[j].comp
             PROVE  /\ InExists' /\ j = decisions'[preLevel' + 1].top /\ decisions'[preLevel' + 1].base < j
                    /\ AtEntry' => pc' \in {"decide", "clean"}
  BY <1>4 DEF Twins
<1>7. InExists' <=> InExists
  BY DEF InExists
<1>8. AtEntry' <=> AtEntry
  BY <1>3, <1>7 DEF AtEntry, N
<1>9. CASE j <= n
  <2>1. i \in 2 .. n /\ j \in 2 .. n /\ i \in 1 .. n /\ j \in 1 .. n
    BY <1>1, <1>9
  <2>2. comps[i].comp = comps[j].comp
    BY <1>2, <2>1
  <2>3. InExists /\ j = decisions[preLevel + 1].top /\ decisions[preLevel + 1].base < j /\ ~ AtEntry
    BY <2>1, <2>2 DEF Twins, n
  <2>4. preLevel + 1 \in 1 .. N - 1
    BY <1>1, <2>3 DEF InExists, AtEntry, N
  <2>5. decisions'[preLevel' + 1] = decisions[preLevel + 1]
    BY <1>3, <2>4
  <2> QED BY <1>7, <1>8, <2>3, <2>5
<1>10. CASE j > n
  <2>1. j \in n + 1 .. Len(ts) /\ ts[j].comp \in found
    BY <1>1, <1>2, <1>10
  <2>2. i \in 2 .. n /\ i \in 1 .. n
    <3>1. i \notin n + 1 .. Len(ts)
      BY <1>6, <2>1
    <3> QED BY <1>1, <1>2, <3>1
  <2>3. comps[i].comp \in found
    BY <1>2, <2>1, <2>2
  <2>4. AtEntry /\ found = {Super}
    <3>1. found \notin Residuals[Super]
      BY <2>2, <2>3, FoundNew DEF n
    <3> QED BY <3>1 DEF Left
  <2>5. j = Len(ts)
    <3> SUFFICES ASSUME j # Len(ts) PROVE FALSE
      OBVIOUS
    <3>1. Len(ts) \in n + 1 .. Len(ts) /\ j < Len(ts)
      BY <1>1, <1>2, <2>1
    <3>2. ts[Len(ts)].comp = Super /\ ts[j].comp = Super
      BY <1>2, <2>1, <2>4, <3>1
    <3> QED BY <1>6, <2>1, <3>1, <3>2
  <2>6. preLevel + 1 = N
    BY <2>4, EntryFacts DEF N
  <2>7. decisions'[preLevel' + 1] = e
    BY <1>3, <2>6
  <2>8. Len(comps') # Len(comps)
    BY <1>1, <1>2, <1>4, <1>10, <2>1 DEF n
  <2>9. InExists
    BY <2>4 DEF AtEntry
  <2>10. e.top = j /\ e.base < j
    BY <1>1, <1>2, <1>10, <2>5
  <2> QED BY <1>7, <2>7, <2>8, <2>9, <2>10
<1> QED BY <1>1, <1>9, <1>10

LEMMA NoTwins ==
  ASSUME Unmatched(comps')
  PROVE  Twins'
BY DEF Unmatched, Twins

LEMMA TopTwins ==
  ASSUME Control, Twins, NEW d \in Decisions, decisions' = SetTop(d), ~ AtEntry, preLevel' = preLevel,
         Starts(comps', comps)
  PROVE  Twins'
<1>1. /\ decisions \in Seq(Decisions) /\ Len(decisions) \in Nat /\ Len(decisions) >= 1
      /\ preLevel \in -1 .. Len(decisions) - 1
  BY TypedFacts DEF Control, Typed
<1>2. Len(decisions') = Len(decisions) /\ \A k \in 1 .. Len(decisions) - 1 : decisions'[k] = decisions[k]
  BY <1>1, ReplacedTop
<1>3. InExists => preLevel + 1 \in 1 .. Len(decisions) - 1 /\ preLevel + 1 < Len(decisions)
  BY <1>1 DEF InExists, AtEntry
<1>4. InExists => decisions'[preLevel + 1] = decisions[preLevel + 1]
  BY <1>2, <1>3
<1>5. Len(decisions') \in Nat /\ (InExists => preLevel + 1 < Len(decisions'))
  BY <1>1, <1>2, <1>3
<1> QED BY <1>4, <1>5, TwinsAbove

(* The steps that leave the stack and the cache.                           *)
LEMMA StillTwins ==
  ASSUME Control, Twins,
         \/ Conflict \/ ConflictAtEntry \/ StartExists \/ ExistsFalse \/ ExistsDone \/ BacktrackRoot
         \/ BacktrackEntry \/ FlipBranch \/ Decide \/ SimplifyFails \/ Interrupt \/ Signal \/ Done \/ UNCHANGED vars
  PROVE  Twins' /\ cache' = cache /\ comps' = comps /\ input' = input
<1>1. cache' = cache /\ comps' = comps /\ input' = input
  BY DEF Conflict, ConflictAtEntry, StartExists, ExistsFalse, ExistsDone, BacktrackRoot, BacktrackEntry,
         FlipBranch, Decide, SimplifyFails, Interrupt, Signal, Done, vars
<1> SUFFICES Twins'
  BY <1>1
<1>2. /\ decisions \in Seq(Decisions) /\ Len(decisions) \in Nat /\ Len(decisions) >= 1
      /\ preLevel \in -1 .. Len(decisions) - 1 /\ TopDecision \in Decisions /\ Len(comps) \in Nat
  BY TypedFacts DEF Control, Typed
<1>3. Starts(comps', comps)
  BY <1>1, <1>2 DEF Starts
<1>4. ASSUME InExists => AtEntry /\ pc \notin {"decide", "clean"} PROVE Twins'
  BY <1>1, <1>4, UnmatchedTwins, NoTwins
<1>5. CASE Signal \/ Done \/ UNCHANGED vars
  <2>1. decisions' = decisions /\ preLevel' = preLevel /\ pc' = pc
    BY <1>5 DEF Signal, Done, vars
  <2>2. (InExists' <=> InExists) /\ (AtEntry' <=> AtEntry)
    BY <2>1 DEF InExists, AtEntry
  <2> QED BY <1>1, <2>1, <2>2 DEF Twins
<1>6. CASE ConflictAtEntry \/ BacktrackEntry
  BY <1>4, <1>6 DEF ConflictAtEntry, BacktrackEntry
<1>7. CASE StartExists \/ ExistsDone \/ ExistsFalse \/ BacktrackRoot \/ SimplifyFails
  <2>1. ~ InExists
    BY <1>7 DEF StartExists, ExistsDone, ExistsFalse, Answered, BacktrackRoot, SimplifyFails, Control, Stretches
  <2> QED BY <1>4, <2>1
<1>8. CASE Interrupt
  <2>1. pc = "main" \/ pc = "exists"
    BY <1>8 DEF Interrupt
  <2>2. CASE InExists /\ ~ AtEntry
    <3>1. decisions' = decisions /\ preLevel' = preLevel
      BY <1>8 DEF Interrupt
    <3>2. preLevel + 1 < Len(decisions)
      BY <1>2, <2>2 DEF AtEntry
    <3> QED BY <1>2, <1>3, <2>2, <3>1, <3>2, TwinsAbove
  <2>3. CASE ~ InExists
    BY <1>4, <2>3
  <2>4. CASE AtEntry
    <3>1. pc # "exists"
      BY <2>4 DEF AtEntry, Control, Stretches
    <3> QED BY <1>4, <2>1, <2>4, <3>1
  <2> QED BY <2>2, <2>3, <2>4
<1>9. CASE Conflict
  <2>1. preLevel' = preLevel /\ ~ AtEntry
        /\ (decisions' = decisions \/ decisions' = SetTop(MarkBranchUnsat(TopDecision)))
    BY <1>9 DEF Conflict
  <2>2. CASE decisions' = decisions
    <3>1. InExists => preLevel + 1 < Len(decisions)
      BY <1>2, <2>1 DEF AtEntry
    <3> QED BY <1>2, <1>3, <2>1, <2>2, <3>1, TwinsAbove
  <2>3. CASE decisions' = SetTop(MarkBranchUnsat(TopDecision))
    <3>1. MarkBranchUnsat(TopDecision) \in Decisions
      BY <1>2, DecisionOps
    <3> QED BY <1>3, <2>1, <2>3, <3>1, TopTwins, Zenon
  <2> QED BY <2>1, <2>2, <2>3
<1>10. CASE FlipBranch
  <2>1. PICK weight \in BranchWeights : decisions' = SetTop(ChangeBranch(Weigh(TopDecision, weight)))
    BY <1>10 DEF FlipBranch
  <2>2. ~ AtEntry /\ preLevel' = preLevel
    BY <1>10 DEF FlipBranch, Backtracking
  <2>3. Weigh(TopDecision, weight) \in Decisions
    BY <1>2, WeighIs
  <2>4. ChangeBranch(Weigh(TopDecision, weight)) \in Decisions
    BY <2>3, DecisionOps
  <2> QED BY <1>3, <2>1, <2>2, <2>4, TopTwins, Zenon
<1>11. CASE Decide
  <2> DEFINE d == NewDecision(Len(comps))
  <2>1. decisions' = Append(decisions, d) /\ preLevel' = preLevel
    BY <1>11 DEF Decide
  <2>2. d \in Decisions
    BY <1>2, TypedFacts, NewDecisionType DEF Control
  <2> HIDE DEF d
  <2>3. Len(decisions') = Len(decisions) + 1 /\ \A k \in 1 .. Len(decisions) : decisions'[k] = decisions[k]
    BY <1>2, <2>1, <2>2, AppendIs
  <2>4. InExists => preLevel + 1 \in 1 .. Len(decisions) /\ preLevel + 1 < Len(decisions')
    BY <1>2, <2>3 DEF InExists
  <2>5. Len(decisions') \in Nat
    BY <1>2, <2>3
  <2> QED BY <1>3, <1>11, <2>1, <2>3, <2>4, <2>5, TwinsAbove
<1> QED BY <1>5, <1>6, <1>7, <1>8, <1>9, <1>10, <1>11

(* The inductive invariant of who has an entry.                            *)
Singular == Sole(cache, comps) /\ Named(cache, comps) /\ Nests(comps, RootComp) /\ Twins

LEMMA SplitSingular ==
  ASSUME Control, Structure, Singular, Split
  PROVE  Singular'
<1>1. PICK found \in Left, free \in FreeFactors, polls \in Polls :
       \E order \in Ascending(found) : \E s \in {SplitComponent(order, free, polls)} :
             /\ cache' = s.cache /\ comps' = s.comps /\ decisions' = SetTop(s.decision)
             /\ InExists /\ Len(s.comps) # Len(comps) => pc' \in {"decide", "clean"}
  BY DEF Split
<1>2. PICK order \in Ascending(found) : \E s \in {SplitComponent(order, free, polls)} :
             /\ cache' = s.cache /\ comps' = s.comps /\ decisions' = SetTop(s.decision)
             /\ InExists /\ Len(s.comps) # Len(comps) => pc' \in {"decide", "clean"}
  BY <1>1
<1> DEFINE s == SplitComponent(order, free, polls)
<1>3. /\ cache' = s.cache /\ comps' = s.comps /\ decisions' = SetTop(s.decision)
      /\ InExists /\ Len(comps') # Len(comps) => pc' \in {"decide", "clean"}
  BY <1>2
<1>4. pc = "main" /\ preLevel' = preLevel /\ input' = input
  BY DEF Split
<1>5. Sole(s.cache, s.comps) /\ Named(s.cache, s.comps)
  <2>1. \A i \in 2 .. Len(comps) : comps[i].comp \in found => i = Len(comps)
    BY <1>4, FoundOnce DEF Singular
  <2> QED BY <2>1, SplitSole DEF Singular
<1>6. SplitDone(s, found)
  BY SplitIs, Zenon DEF Control
<1> HIDE DEF s
<1>7. Nests(comps', RootComp)
  BY <1>3, <1>4, <1>6, SplitNests DEF Singular
<1>8. Twins'
  BY <1>3, <1>4, <1>6, SplitTwins DEF Singular
<1>9. RootComp' = RootComp
  BY <1>4 DEF RootComp
<1> QED BY <1>3, <1>5, <1>7, <1>8, <1>9 DEF Singular

LEMMA CleanSingular ==
  ASSUME Control, Structure, Singular, Clean
  PROVE  Singular'
<1>1. /\ Sole(cache', comps') /\ Named(cache', comps') /\ Starts(comps', comps)
      /\ Len(comps') = TopDecision.base
  BY CleanSole DEF Singular
<1>2. Nests(comps', RootComp') /\ Twins
  <2>1. RootComp' = RootComp
    BY DEF Clean, RootComp
  <2> QED BY <1>1, <2>1, StartsNests DEF Singular
<1>3. TopDecision \in Decisions /\ TopDecision = decisions[Len(decisions)]
  BY TypedFacts DEF Control
<1>4. Twins'
  <2>1. CASE ~ AtEntry
    <3> DEFINE d == [TopDecision EXCEPT !.top = TopDecision.base]
    <3>1. d \in Decisions
      BY <1>3 DEF Decisions
    <3>2. decisions' = SetTop(d) /\ preLevel' = preLevel
      BY DEF Clean
    <3> HIDE DEF d
    <3> QED BY <1>1, <1>2, <2>1, <3>1, <3>2, TopTwins
  <2>2. CASE AtEntry
    <3>1. preLevel + 1 = Len(decisions)
      <4>1. preLevel \in Int /\ Len(decisions) \in Nat
        BY TypedFacts DEF Control, Typed
      <4> QED BY <2>2, <4>1 DEF AtEntry
    <3>2. Unmatched(comps')
      <4> SUFFICES ASSUME NEW i \in 2 .. Len(comps'), NEW j \in 2 .. Len(comps'), i < j,
                          comps'[i].comp = comps'[j].comp
                   PROVE  FALSE
        BY DEF Unmatched
      <4>1. /\ i \in 2 .. Len(comps) /\ j \in 2 .. Len(comps)
            /\ comps'[i] = comps[i] /\ comps'[j] = comps[j] /\ j <= TopDecision.base
        BY <1>1 DEF Starts
      <4>2. TopDecision.base < j
        BY <1>2, <1>3, <3>1, <4>1 DEF Twins
      <4> QED BY <1>1, <4>1, <4>2 DEF Starts
    <3> QED BY <3>2, NoTwins
  <2> QED BY <2>1, <2>2
<1> QED BY <1>1, <1>2, <1>4 DEF Singular

LEMMA ExistsTrueSingular ==
  ASSUME Control, Structure, Singular, ExistsTrue
  PROVE  Singular'
<1> DEFINE stored == Store(cache, Last(comps).id)
           n == Len(comps)
<1>1. /\ cache' = PopComponent(stored) /\ comps' = Front(comps) /\ input' = input
      /\ pc \in {"found", "exists"} /\ HasUnprocessedComp(TopDecision)
  BY DEF ExistsTrue, Answered, Unprojected
<1>2. stored \in {Store(cache, Last(comps).id), StoreZero(cache, Last(comps).id), cache}
  OBVIOUS
<1>3. Guarded(cache', OnStack(comps'))
  <2>1. Structure'
    BY ExistsTrueStructure
  <2> QED BY <2>1, Zenon DEF Structure, Shape
<1>4. /\ n \in Nat /\ n > 1 /\ \E L \in Nat : comps \in Seq([id : 1 .. L, comp : CompsOf(input)])
  <2>1. /\ TopDecision \in Decisions /\ 1 <= TopDecision.base /\ TopDecision.top = n /\ n \in Nat
        /\ \E L \in Nat : comps \in Seq([id : 1 .. L, comp : CompsOf(input)])
    BY TypedFacts DEF Control
  <2>2. TopDecision.base < n
    BY <1>1, <2>1 DEF HasUnprocessedComp
  <2>3. TopDecision.base \in Nat
    BY <2>1 DEF Decisions
  <2>4. ASSUME NEW p \in Nat, NEW q \in Nat, 1 <= p, p < q PROVE q > 1
    BY <2>4
  <2>5. n > 1
    BY <2>1, <2>2, <2>3, <2>4, Zenon
  <2> HIDE DEF n
  <2> QED BY <2>1, <2>5, Zenon
<1>5. Starts(comps', comps)
  <2>1. PICK L \in Nat : comps \in Seq([id : 1 .. L, comp : CompsOf(input)])
    BY <1>4
  <2>2. comps # <<>>
    BY <1>4
  <2>3. Len(comps') = n - 1 /\ \A i \in 1 .. n - 1 : comps'[i] = comps[i]
    BY <1>1, <2>1, <2>2, FrontIs, Zenon
  <2> QED BY <1>4, <2>3 DEF Starts
<1> HIDE DEF stored
<1>6. Sole(cache', comps') /\ Named(cache', comps')
  BY <1>1, <1>2, <1>3, <1>4, PopSole DEF Singular
<1>7. Nests(comps', RootComp')
  <2>1. RootComp' = RootComp
    BY <1>1 DEF RootComp
  <2> QED BY <1>5, <2>1, StartsNests DEF Singular
<1>8. Twins'
  <2>1. ~ InExists
    BY <1>1 DEF Control, Stretches
  <2>2. Unmatched(comps)
    BY <2>1, UnmatchedTwins DEF Singular
  <2> QED BY <1>5, <2>2, StartsUnmatched, NoTwins
<1> QED BY <1>6, <1>7, <1>8 DEF Singular

LEMMA FinishSingular ==
  ASSUME Control, Structure, Singular, FinishLevel
  PROVE  Singular'
<1> DEFINE n == Len(comps)
           N == Len(decisions)
<1>1. /\ comps' = Front(comps) /\ input' = input /\ pc = "backtrack" /\ N > 1 /\ ~ AtEntry
      /\ preLevel' = IF InExists /\ N - 2 = preLevel THEN -1 ELSE preLevel
  BY DEF FinishLevel, Backtracking
<1>2. PICK val \in Counts : \E stored : EndsWith(val, stored)
  BY FinishesAs
<1>3. PICK stored : EndsWith(val, stored)
  BY <1>2
<1>4. /\ stored \in {Store(cache, Last(comps).id), StoreZero(cache, Last(comps).id), cache}
      /\ cache' = PopComponent(stored)
      /\ decisions' = Append(SubSeq(decisions, 1, N - 2), NextComp(Told(val)))
  BY <1>3, Zenon DEF EndsWith
<1>5. Guarded(cache', OnStack(comps'))
  <2>1. Structure'
    BY FinishStructure
  <2> QED BY <2>1, Zenon DEF Structure, Shape
<1>6. /\ N \in Nat /\ n \in Nat /\ decisions \in Seq(Decisions) /\ TopDecision = decisions[N]
      /\ \A k \in 1 .. N : decisions[k] \in Decisions
      /\ preLevel \in -1 .. N - 1 /\ TopDecision.top = n /\ TopDecision.base <= n
      /\ \E L \in Nat : comps \in Seq([id : 1 .. L, comp : CompsOf(input)])
  BY TypedFacts DEF Control, Typed
<1>7. N - 1 \in 1 .. N /\ N - 1 \in 1 .. N - 1 /\ N - 2 \in 0 .. N /\ (N - 1) + 1 = N /\ N \in 1 .. N
  BY <1>1, <1>6
<1>8. TopDecision.base = n /\ decisions[N - 1].top = n /\ decisions[N - 1].base < n /\ n > 1
  <2>1. ~ HasUnprocessedComp(TopDecision) /\ Owned(decisions, comps)
    BY <1>1 DEF Control, Stretches
  <2>2. TopDecision.base = n
    BY <1>6, <1>7, <2>1, SMTT(30) DEF HasUnprocessedComp, Decisions
  <2>3. /\ decisions[N - 1].base < decisions[N - 1].top /\ TopDecision.base = decisions[N - 1].top
        /\ 1 <= decisions[N - 1].base
    BY <1>6, <1>7, <2>1 DEF Owned
  <2>4. decisions[N - 1].base \in Nat
    BY <1>6, <1>7 DEF Decisions
  <2> QED BY <1>6, <2>2, <2>3, <2>4
<1>9. Starts(comps', comps) /\ Len(comps') = n - 1
  <2>1. PICK L \in Nat : comps \in Seq([id : 1 .. L, comp : CompsOf(input)])
    BY <1>6
  <2>2. comps # <<>>
    BY <1>8
  <2>3. Len(comps') = n - 1 /\ \A i \in 1 .. n - 1 : comps'[i] = comps[i]
    BY <1>1, <2>1, <2>2, FrontIs, Zenon
  <2> QED BY <1>6, <1>8, <2>3 DEF Starts
<1>10. Sole(cache', comps') /\ Named(cache', comps')
  BY <1>1, <1>4, <1>5, <1>8, PopSole DEF Singular
<1>11. Nests(comps', RootComp')
  <2>1. RootComp' = RootComp
    BY <1>1 DEF RootComp
  <2> QED BY <1>9, <2>1, StartsNests DEF Singular
<1>12. CASE InExists /\ N - 2 = preLevel
  <2> SUFFICES ASSUME NEW i \in 2 .. Len(comps'), NEW j \in 2 .. Len(comps'), i < j,
                      comps'[i].comp = comps'[j].comp
               PROVE  FALSE
    BY <1>10, <1>11, NoTwins DEF Unmatched, Singular
  <2>1. i \in 2 .. n /\ j \in 2 .. n /\ comps'[i] = comps[i] /\ comps'[j] = comps[j] /\ j < n
    BY <1>6, <1>9, SMTT(30) DEF Starts
  <2>2. j = decisions[preLevel + 1].top
    BY <2>1 DEF Singular, Twins
  <2>3. preLevel + 1 = N - 1
    BY <1>6, <1>12
  <2> QED BY <1>8, <2>1, <2>2, <2>3
<1>13. CASE ~ (InExists /\ N - 2 = preLevel)
  <2> DEFINE e == NextComp(Told(val))
             p == SubSeq(decisions, 1, N - 2)
  <2>1. e \in Decisions
    <3>1. Told(val) \in Decisions /\ Told(val).top = decisions[N - 1].top
      BY <1>6, <1>7, ToldIs
    <3>2. Told(val).top # 0
      BY <1>6, <1>8, <3>1
    <3> QED BY <3>1, <3>2, NextCompType
  <2>2. p \in Seq(Decisions) /\ Len(p) = N - 2 /\ \A k \in 1 .. N - 2 : p[k] = decisions[k]
    BY <1>6, <1>7, PrefixIs, Zenon
  <2> HIDE DEF p, e
  <2>3. decisions' = Append(p, e)
    BY <1>4 DEF p, e
  <2>4. Len(decisions') = N - 1 /\ \A k \in 1 .. N - 2 : decisions'[k] = decisions[k]
    <3>1. Len(decisions') = Len(p) + 1 /\ \A k \in 1 .. Len(p) : decisions'[k] = p[k]
      BY <2>1, <2>2, <2>3, AppendIs
    <3> QED BY <1>6, <2>2, <3>1
  <2>5. InExists => preLevel + 1 \in 1 .. N - 2 /\ preLevel + 1 < N - 1
    BY <1>1, <1>6, <1>13 DEF InExists, AtEntry
  <2>6. InExists => decisions'[preLevel + 1] = decisions[preLevel + 1]
    BY <2>4, <2>5
  <2>7. Len(decisions') \in Nat
    BY <1>1, <1>6, <2>4
  <2>8. preLevel' = preLevel
    BY <1>1, <1>13
  <2>9. Twins'
    BY <1>1, <1>9, <2>4, <2>5, <2>6, <2>7, <2>8, TwinsAbove DEF Singular
  <2> QED BY <1>10, <1>11, <2>9 DEF Singular
<1> QED BY <1>12, <1>13

LEMMA InitSingular ==
  ASSUME Init
  PROVE  Singular
<1> DEFINE K == KeysOf(input)
           max == Inputs[input].maxMemory
<1>1. Hashed(K) /\ max \in Nat
  BY InputFacts DEF Init
<1>2. cache = NewRootEntry(EmptyCache(max)) /\ Len(comps) = 1
  <2>1. AllocId(EmptyCache(0)) = 1
    BY <1>1, RootType
  <2> QED BY <2>1 DEF Init
<1>3. cache \in Caches(K, 1) /\ IsRootEntry(cache)
  BY ONLY <1>1, <1>2, RootType, RootEntryIs
<1> HIDE DEF K, max
<1>4. Confirmed(cache) = {}
  BY <1>3, LiveIs DEF IsRootEntry
<1>5. 2 .. Len(comps) = {}
  BY <1>2
<1>6. Kept(cache, comps) = {}
  BY <1>4, <1>5 DEF Kept
<1>7. Sole(cache, comps) /\ Named(cache, comps) /\ Twins
  BY <1>5, <1>6 DEF Sole, Named, Twins
<1>8. Nests(comps, RootComp)
  BY <1>2, <1>5 DEF Nests
<1> QED BY <1>7, <1>8 DEF Singular

LEMMA NextSingular ==
  ASSUME Control, Structure, Singular, [Next]_vars
  PROVE  Singular'
<1>1. CASE Split
  BY <1>1, SplitSingular
<1>2. CASE Clean
  BY <1>2, CleanSingular
<1>3. CASE ExistsTrue
  BY <1>3, ExistsTrueSingular
<1>4. CASE FinishLevel
  BY <1>4, FinishSingular
<1>5. CASE \/ Conflict \/ ConflictAtEntry \/ StartExists \/ ExistsFalse \/ ExistsDone \/ BacktrackRoot
           \/ BacktrackEntry \/ FlipBranch \/ Decide \/ SimplifyFails \/ Interrupt \/ Signal \/ Done \/ UNCHANGED vars
  <2>1. Twins' /\ cache' = cache /\ comps' = comps /\ input' = input
    BY <1>5, StillTwins, Zenon DEF Singular
  <2>2. Nests(comps', RootComp')
    BY <2>1 DEF Singular, RootComp
  <2>3. Sole(cache', comps') /\ Named(cache', comps')
    BY <2>1 DEF Singular
  <2> QED BY <2>1, <2>2, <2>3 DEF Singular
<1> QED BY <1>1, <1>2, <1>3, <1>4, <1>5, Zenon DEF Next, Search

(***************************************************************************)
(* Through every insertion, eviction, cleaning and growth of the table,    *)
(* the bucket of each slot holds the entries with a result whose hash      *)
(* leads there, each once, and no other entry is chained, so that lookup() *)
(* finds every result there is; the number of results the table grows by   *)
(* is right; and no component has two of them, unless countExists() has    *)
(* split it again, below its own entry.                                    *)
(***************************************************************************)
THEOREM TableIsSound == Spec => []TableOK
<1>1. Control /\ Structure /\ Singular => TableOK
  <2> SUFFICES ASSUME Control, Structure, Singular PROVE TableOK
    OBVIOUS
  <2> DEFINE L == Len(cache.entry)
             K == KeysOf(input)
  <2>1. L \in Nat /\ cache \in Caches(K, L)
    BY TypedFacts DEF Control, Typed
  <2>2. Tabled(cache)
    BY Zenon DEF Structure, Shape, Woven
  <2> HIDE DEF L, K
  <2>3. ASSUME NEW slot \in DOMAIN cache.table
        PROVE  /\ ToSet(Bucket(cache, slot)) = {id \in Confirmed(cache) : Slot(cache, id) = slot}
               /\ IsInjective(Bucket(cache, slot))
    <3>1. ListOf(Ids(cache), ChainOf(cache), cache.table[slot], Bucket(cache, slot), InSlot(cache, slot))
      BY <2>2, Zenon DEF Tabled
    <3> QED BY <3>1, Zenon DEF ListOf, InSlot
  <2>4. \A id \in Live(cache) \ Confirmed(cache) : cache.entry[id].chain = INVALID_ENTRY
    <3>1. Live(cache) \subseteq Ids(cache)
      BY DEF Live
    <3> QED BY <2>2, <3>1 DEF Tabled
  <2>5. cache.confirmed = Cardinality(Confirmed(cache))
    BY <2>2, Zenon DEF Tabled
  <2>6. \A i, j \in Confirmed(cache) :
          cache.entry[i].comp = cache.entry[j].comp =>
              i = j \/ cache.entry[i].father = j \/ cache.entry[j].father = i
    BY DEF Singular, Sole, Kept
  <2> QED BY ONLY <2>3, <2>4, <2>5, <2>6, Zenon DEF TableOK
<1>2. Init => Control /\ Structure /\ Singular
  BY InitControl, InitStructure, InitSingular
<1>3. (Control /\ Structure /\ Singular) /\ [Next]_vars => (Control /\ Structure /\ Singular)'
  BY NextKeeps, NextStructure, NextSingular
<1> QED BY <1>1, <1>2, <1>3, PTL DEF Spec

(***************************************************************************)
(* The pointers implement the tree of descendants.                         *)
(***************************************************************************)

(* The entries of the stack above its first m components.                  *)
OnTop(cs, m) == {cs[i].id : i \in m + 1 .. Len(cs)}

(* d is c with the new entries S below p.  (An entry of S may have the id  *)
(* of one that has been evicted.)                                          *)
Regrown(c, d, S, p) ==
    LET old == Live(d) \ S
    IN  /\ S \subseteq Live(d) /\ old \subseteq Live(c) /\ p \in old
        /\ Live(c) \ old \subseteq Confirmed(c) /\ Confirmed(d) = Confirmed(c) \cap old
        /\ \A e \in old : Ancestors(d, e) = Ancestors(c, e) \cap old
        /\ \A e \in S : Ancestors(d, e) = (Ancestors(c, p) \cup {p}) \cap old
        /\ c.clock <= d.clock /\ \A e \in S : d.entry[e].created >= c.clock
        /\ Ids(d) = Ids(c) \cup S /\ \A e \in Ids(c) \ S : d.entry[e].created = c.entry[e].created

LEMMA RegrownFirst ==
  ASSUME NEW K, NEW L \in Nat, NEW c \in Caches(K, L), NEW O, Rooted(c, O), NEW p \in Live(c)
  PROVE  Regrown(c, c, {}, p)
<1>1. Fathers(c, O)
  BY AncestorsAre
<1>2. \A e \in Live(c) : Ancestors(c, e) = Ancestors(c, e) \cap Live(c)
  BY <1>1 DEF Fathers
<1>3. Live(c) \ {} = Live(c) /\ Confirmed(c) \subseteq Live(c) /\ c.clock <= c.clock
  BY DEF Confirmed, Caches
<1> QED BY <1>2, <1>3 DEF Regrown

LEMMA GraftedOn ==
  ASSUME NEW c, NEW d, NEW S, NEW p, Regrown(c, d, S, p), NEW x, NEW id, Grafted(d, x, id, p),
         p \in Open(c), c.clock \in Nat, d.clock \in Nat
  PROVE  Regrown(c, x, S \cup {id}, p)
<1> DEFINE old == Live(d) \ S
           left == Live(x) \ (S \cup {id})
<1>1. /\ S \subseteq Live(d) /\ old \subseteq Live(c) /\ p \in old
      /\ Live(c) \ old \subseteq Confirmed(c) /\ Confirmed(d) = Confirmed(c) \cap old
      /\ \A e \in old : Ancestors(d, e) = Ancestors(c, e) \cap old
      /\ \A e \in S : Ancestors(d, e) = (Ancestors(c, p) \cup {p}) \cap old
      /\ c.clock <= d.clock /\ \A e \in S : d.entry[e].created >= c.clock
      /\ Ids(d) = Ids(c) \cup S /\ \A e \in Ids(c) \ S : d.entry[e].created = c.entry[e].created
  BY Zenon DEF Regrown
<1>2. /\ Ids(x) = Ids(d) \cup {id} /\ id \in Live(x) /\ id \notin Live(d) /\ Live(x) \ {id} \subseteq Live(d)
      /\ Live(d) \ Live(x) \subseteq Confirmed(d) /\ Confirmed(x) = Confirmed(d) \cap Live(x)
      /\ x.entry[id].created = d.clock /\ x.clock = d.clock + 1
      /\ \A e \in Ids(d) \ {id} : x.entry[e].created = d.entry[e].created
      /\ \A e \in Live(x) \ {id} : Ancestors(x, e) = Ancestors(d, e) \cap Live(x)
      /\ Ancestors(x, id) = (Ancestors(d, p) \cup {p}) \cap Live(x)
  BY Zenon DEF Grafted
<1>3. left = old \cap Live(x) /\ S \subseteq Live(x) /\ id \notin S
  BY <1>1, <1>2
<1>4. p \in left
  BY <1>1, <1>2, <1>3 DEF Open
<1> HIDE DEF left
<1>5. S \cup {id} \subseteq Live(x) /\ left \subseteq Live(c)
  BY <1>1, <1>2, <1>3
<1>6. Live(c) \ left \subseteq Confirmed(c) /\ Confirmed(x) = Confirmed(c) \cap left
  BY <1>1, <1>2, <1>3
<1>7. \A e \in left : Ancestors(x, e) = Ancestors(c, e) \cap left
  BY <1>1, <1>2, <1>3
<1>8. ASSUME NEW e \in S PROVE Ancestors(x, e) = (Ancestors(c, p) \cup {p}) \cap left
  <2>1. e \in Live(x) \ {id}
    BY <1>3
  <2>2. Ancestors(x, e) = Ancestors(d, e) \cap Live(x) /\ Ancestors(d, e) = (Ancestors(c, p) \cup {p}) \cap old
    BY <1>1, <1>2, <2>1
  <2> HIDE DEF old
  <2> QED BY <1>3, <2>2
<1>9. Ancestors(x, id) = (Ancestors(c, p) \cup {p}) \cap left
  <2>1. Ancestors(d, p) = Ancestors(c, p) \cap old /\ p \in old /\ p \in left
    BY <1>1, <1>4
  <2> HIDE DEF old
  <2> QED BY <1>2, <1>3, <2>1
<1>10. c.clock <= x.clock /\ \A e \in S \cup {id} : x.entry[e].created >= c.clock
  <2>1. \A e \in S : e \in Ids(d) \ {id}
    BY <1>1, <1>3
  <2> QED BY <1>1, <1>2, <2>1
<1>11. /\ Ids(x) = Ids(c) \cup (S \cup {id})
       /\ \A e \in Ids(c) \ (S \cup {id}) : x.entry[e].created = c.entry[e].created
  BY <1>1, <1>2
<1> QED BY <1>4, <1>5, <1>6, <1>7, <1>8, <1>9, <1>10, <1>11 DEF Regrown, left

(* A cache hit leaves the tree as it is.                                   *)
LEMMA RegrownSame ==
  ASSUME NEW c, NEW K, NEW L \in Nat, NEW d \in Caches(K, L), NEW S, NEW p, Regrown(c, d, S, p),
         NEW x \in Caches(K, L), NEW O, Rooted(d, O), Rooted(x, O), c.clock \in Nat,
         SameUse(d, x, 1 .. L), SameLinks(d, x, 1 .. L), d.clock <= x.clock
  PROVE  Regrown(c, x, S, p)
<1>1. Live(x) = Live(d) /\ Confirmed(x) = Confirmed(d)
  BY SameUseSets
<1>2. Ids(x) = 1 .. L /\ Ids(d) = 1 .. L /\ Live(d) \subseteq 1 .. L
  BY CacheIds, LiveIs
<1>3. \A e \in 1 .. L : x.entry[e].created = d.entry[e].created /\ x.entry[e].father = d.entry[e].father
  BY DEF SameUse, SameLinks
<1>4. \A e \in Live(d) : Ancestors(x, e) = Ancestors(d, e)
  <2>1. Live(d) \subseteq Live(x) /\ \A e \in Live(d) : x.entry[e].father = d.entry[e].father
    BY <1>1, <1>2, <1>3
  <2> QED BY <2>1, AncestorsKept
<1>5. c.clock <= x.clock
  BY DEF Regrown, Caches
<1>6. /\ S \subseteq Live(d) /\ S \subseteq Ids(d) /\ Ids(d) = Ids(c) \cup S
  BY <1>2 DEF Regrown
<1> QED BY <1>1, <1>2, <1>3, <1>4, <1>5, <1>6 DEF Regrown

LEMMA OnTopAppend ==
  ASSUME NEW X, NEW cs \in Seq(X), NEW x \in X, NEW m \in 1 .. Len(cs)
  PROVE  OnTop(Append(cs, x), m) = OnTop(cs, m) \cup {x.id}
<1> DEFINE ds == Append(cs, x)
<1>1. /\ Len(ds) = Len(cs) + 1 /\ ds[Len(cs) + 1] = x /\ Len(cs) \in Nat
      /\ \A i \in 1 .. Len(cs) : ds[i] = cs[i]
  BY AppendIs
<1>2. \A i \in m + 1 .. Len(cs) : i \in m + 1 .. Len(ds) /\ ds[i] = cs[i]
  BY <1>1
<1>3. Len(cs) + 1 \in m + 1 .. Len(ds)
  BY <1>1
<1>4. \A i \in m + 1 .. Len(ds) : i = Len(cs) + 1 \/ (i \in m + 1 .. Len(cs) /\ ds[i] = cs[i])
  BY <1>1
<1> HIDE DEF ds
<1>5. OnTop(ds, m) = OnTop(cs, m) \cup {x.id}
  BY <1>1, <1>2, <1>3, <1>4 DEF OnTop
<1> QED BY <1>5 DEF ds

LEMMA ExploreGrown ==
  ASSUME NEW K, Hashed(K), NEW R \in SUBSET K, NEW s, NEW B, NEW Z, NEW m, NEW parent, NEW vs,
         Looping(s, B, Z, m, parent, vs, K, R), NEW comp \in R, comp.vars \subseteq vs,
         NEW c0, c0.clock \in Nat, parent \in Open(c0),
         Regrown(c0, s.cache, OnTop(s.comps, m), parent)
  PROVE  LET t == ExploreBelow(parent, s, comp)
         IN  Regrown(c0, t.cache, OnTop(t.comps, m), parent)
<1> DEFINE c == s.cache
           ts == s.comps
           id == Find(c, comp)
           new == AllocId(c)
           x == [id |-> new, comp |-> comp]
           look == Lookup(c, comp)
           d == AddDescendant(NewEntry(c, comp, s.polls), ts[m].id, new)
           longer == Append(ts, x)
           left == PollsLeft(c, s.polls)
           more == IncreaseModels(s.decision, "some")
<1>1. PICK M \in Nat :
        /\ s \in StatesWith(K, R, M) /\ Shape(c, ts, B)
        /\ \A b \in B : b[1] <= m /\ b[2] <= c.clock
        /\ m \in 1 .. Len(ts) /\ ts[m].id = parent /\ ts[m].comp.vars = vs
  BY DEF Looping
<1>2. /\ c \in Caches(K, M) /\ ts \in Stack(M, R) /\ comp \in K /\ comp \in R /\ m \in Nat /\ Len(ts) \in Nat
  BY <1>1, StackIs DEF StatesWith, Stack
<1>3. Woven(c, Roots(ts)) /\ c.clock \in Nat
  BY <1>1, <1>2, Zenon DEF Shape, Caches
<1>4. Regrown(c0, look, OnTop(ts, m), parent)
  <2>1. look \in Caches(K, M)
    BY <1>2, LookupType
  <2>2. /\ SameUse(c, look, 1 .. M) /\ SameLinks(c, look, 1 .. M) /\ SameTable(c, look, 1 .. M)
        /\ look.memory = c.memory /\ look.freeSlots = c.freeSlots /\ c.clock <= look.clock
    BY <1>2, LookupDoes, Zenon
  <2> HIDE DEF look, c, ts
  <2>3. Shape(look, ts, B)
    BY <1>1, <1>2, <2>1, <2>2, ShapeUse, Zenon
  <2>4. Rooted(look, Roots(ts)) /\ Rooted(c, Roots(ts))
    BY <1>3, <2>3 DEF Shape, Woven
  <2>5. Regrown(c0, c, OnTop(ts, m), parent)
    BY DEF c, ts
  <2> QED BY ONLY <1>2, <2>1, <2>2, <2>4, <2>5, M \in Nat, c0.clock \in Nat, RegrownSame
<1>5. Grafted(c, d, new, parent)
  <2>1. (\A b \in B : b[1] <= m) /\ (\A b \in B : b[2] <= c.clock)
    BY <1>1
  <2>2. Shape(c, ts, B) /\ m \in 1 .. Len(ts) /\ comp.vars \subseteq ts[m].comp.vars
    BY <1>1
  <2> HIDE DEF c, ts
  <2>3. Grafted(c, d, new, ts[m].id)
    BY ONLY <1>2, <2>1, <2>2, Hashed(K), M \in Nat, R \in SUBSET K, EnteredShape
  <2> QED BY <1>1, <2>3
<1>6. OnTop(longer, m) = OnTop(ts, m) \cup {new}
  <2> DEFINE S == [id : {new} \cup 1 .. M, comp : R]
             T == [id : 1 .. M, comp : R]
  <2>1. ts \in Seq(T) /\ T \subseteq S /\ x \in S /\ x.id = new
    BY <1>2 DEF Stack
  <2> HIDE DEF S, T, x, ts
  <2>2. ts \in Seq(S)
    BY <2>1, SeqMonotonic
  <2> QED BY <1>1, <2>1, <2>2, OnTopAppend
<1>7. Regrown(c0, d, OnTop(longer, m), parent)
  <2> HIDE DEF d, longer, new, c, ts
  <2>1. Regrown(c0, c, OnTop(ts, m), parent)
    BY DEF c, ts
  <2>2. Regrown(c0, d, OnTop(ts, m) \cup {new}, parent)
    BY <1>3, <1>5, <2>1, GraftedOn
  <2> QED BY <1>6, <2>2
<1>8. Entered(s, comp, parent) = d
  BY <1>1 DEF Entered
<1> HIDE DEF look, d, longer, more, left, id
<1>9. ExploreBelow(parent, s, comp) =
        IF s.dead THEN s
        ELSE IF id = INVALID_ENTRY THEN [s EXCEPT !.cache = d, !.comps = longer, !.polls = left]
        ELSE IF s.cache.entry[id].zero THEN [s EXCEPT !.cache = look, !.dead = TRUE]
        ELSE [s EXCEPT !.cache = look, !.decision = more]
  BY <1>8 DEF ExploreBelow, id, x, look, left, more, longer, new
<1> DEFINE t == ExploreBelow(parent, s, comp)
<1>10. \/ t = s
       \/ t.cache = d /\ t.comps = longer
       \/ t.cache = look /\ t.comps = ts
  <2>1. /\ [s EXCEPT !.cache = d, !.comps = longer, !.polls = left].cache = d
        /\ [s EXCEPT !.cache = d, !.comps = longer, !.polls = left].comps = longer
        /\ [s EXCEPT !.cache = look, !.dead = TRUE].cache = look
        /\ [s EXCEPT !.cache = look, !.dead = TRUE].comps = ts
        /\ [s EXCEPT !.cache = look, !.decision = more].cache = look
        /\ [s EXCEPT !.cache = look, !.decision = more].comps = ts
    BY <1>1 DEF StatesWith
  <2> QED BY <1>9, <2>1, Zenon
<1> HIDE DEF t
<1>11. Regrown(c0, t.cache, OnTop(t.comps, m), parent)
  BY <1>4, <1>7, <1>10
<1> QED BY <1>11 DEF t

LEMMA SplitGrown ==
  ASSUME Control, Structure, NEW found \in Left, NEW order \in Ascending(found),
         NEW free \in FreeFactors, NEW polls \in Polls
  PROVE  LET s == SplitComponent(order, free, polls)
         IN  Regrown(cache, s.cache, OnTop(s.comps, Len(comps)), Last(comps).id)
<1> DEFINE K == KeysOf(input)
           R == CompsOf(input)
           L == Len(cache.entry)
           m == Len(comps)
           N == Len(order)
           Z == Loose(cache, comps)
           B == Branches(SetTop(Begun(free, polls).decision))
           parent == Last(comps).id
           vs == Super.vars
<1>1. Typed /\ Stretches
  BY DEF Control
<1>2. Hashed(K) /\ R \in SUBSET K
  BY <1>1, InputFacts DEF Typed
<1>3. /\ N \in Nat /\ \A k \in 1 .. N : order[k] \in found /\ order[k] \in R
  BY <1>1, FoundComps
<1>4. /\ L \in Nat /\ cache \in Caches(K, L) /\ comps \in Stack(L, R) /\ m \in Nat /\ m >= 1 /\ Super \in R
      /\ Last(comps) = comps[m]
  BY <1>1, TypedFacts DEF Stack
<1>5. \A k \in 1 .. N : order[k].vars \subseteq vs
  <2>1. \A a \in found : a.vars \subseteq vs
    BY <1>1, <1>4, InputFacts DEF Left, Typed
  <2> QED BY <1>3, <2>1
<1>6. PICK upTo : SplitLoop(upTo, order, free, polls)
  BY SplitLoops, Zenon
<1>7. /\ upTo[0] = Begun(free, polls)
      /\ \A k \in 1 .. N : upTo[k] = ExploreBelow(parent, upTo[k - 1], order[k])
      /\ SplitComponent(order, free, polls) = SetDecision(upTo[N], SplitResult(upTo[N]))
      /\ \A k \in 0 .. N : Looping(upTo[k], B, Z, m, parent, vs, K, R)
  BY <1>6, Zenon DEF SplitLoop
<1>8. /\ Rooted(cache, Roots(comps)) /\ Guarded(cache, OnStack(comps)) /\ cache.clock \in Nat
  BY <1>4, Zenon DEF Structure, Shape, Woven, Caches
<1>9. parent \in Open(cache) /\ parent \in Live(cache)
  <2>1. parent \in OnStack(comps)
    BY <1>4 DEF OnStack
  <2> QED BY <1>8, <2>1 DEF Guarded, Open, Confirmed
<1> HIDE DEF K, R, L, m, N, Z, B, parent, vs
<1> DEFINE T == {k \in 0 .. N : Regrown(cache, upTo[k].cache, OnTop(upTo[k].comps, m), parent)}
<1>10. 0 \in T
  <2>1. upTo[0].cache = cache /\ upTo[0].comps = comps
    BY <1>7 DEF Begun
  <2>2. OnTop(comps, m) = {}
    BY <1>4 DEF OnTop, m
  <2>3. Regrown(cache, cache, {}, parent)
    BY ONLY <1>4, <1>8, <1>9, RegrownFirst
  <2> QED BY <1>3, <2>1, <2>2, <2>3
<1>11. ASSUME NEW k \in 1 .. N, k - 1 \in T PROVE k \in T
  <2>1. Regrown(cache, upTo[k - 1].cache, OnTop(upTo[k - 1].comps, m), parent) /\ k \in 0 .. N /\ k - 1 \in 0 .. N
    BY <1>3, <1>11
  <2>2. Looping(upTo[k - 1], B, Z, m, parent, vs, K, R)
    BY <1>7, <2>1
  <2>3. order[k] \in R /\ order[k].vars \subseteq vs
    BY <1>3, <1>5
  <2> DEFINE t == ExploreBelow(parent, upTo[k - 1], order[k])
  <2>4. Regrown(cache, t.cache, OnTop(t.comps, m), parent)
    BY ONLY <1>2, <1>8, <1>9, <2>1, <2>2, <2>3, ExploreGrown
  <2>5. upTo[k] = t
    BY <1>7
  <2> HIDE DEF t
  <2> QED BY <2>1, <2>4, <2>5
<1>12. Regrown(cache, upTo[N].cache, OnTop(upTo[N].comps, m), parent)
  <2> HIDE DEF T
  <2>1. \A k \in 0 .. N : k \in T
    BY <1>3, <1>10, <1>11, BoundedSteps, Zenon
  <2>2. N \in T
    BY <1>3, <2>1
  <2> QED BY <2>2 DEF T
<1> DEFINE u == upTo[N]
           s == SplitComponent(order, free, polls)
<1>13. s.cache = u.cache /\ s.comps = u.comps
  <2>1. \E M \in Nat : u \in StatesWith(K, R, M)
    <3>1. N \in 0 .. N
      BY <1>3
    <3> QED BY <1>7, <3>1 DEF Looping
  <2>2. s = SetDecision(u, SplitResult(u))
    BY <1>7
  <2> HIDE DEF u, s
  <2> QED BY <2>1, <2>2 DEF SetDecision, StatesWith
<1> QED BY <1>12, <1>13 DEF parent, m

(* The list of p holds e: no entry lies between them.                      *)
ChildIn(c, p, e) == p \in Ancestors(c, e) /\ ~ \E b \in Ancestors(c, e) : p \in Ancestors(c, b)

(* e hangs below, or is, a child of x that has been created since t.       *)
Hangs(c, x, t, e) == \E k \in Ancestors(c, e) \cup {e} : ChildIn(c, x, k) /\ c.entry[k].created >= t

(* What a branch has created is what hangs below its new children.         *)
LEMMA BranchHangs ==
  ASSUME NEW K, NEW L \in Nat, NEW c \in Caches(K, L), NEW O, Rooted(c, O), NEW x, NEW t \in Nat,
         BranchAt(c, O, x, t), O \cap Since(c, t) = {}
  PROVE  Since(c, t) = {e \in Live(c) : Hangs(c, x, t, e)}
<1>1. Fathers(c, O)
  BY AncestorsAre
<1>2. /\ \A e \in Live(c) \ O : Ancestors(c, e) = {c.entry[e].father} \cup Ancestors(c, c.entry[e].father)
      /\ \A e \in Live(c) : \A a \in Ancestors(c, e) : a \in Live(c) /\ c.entry[a].created < c.entry[e].created
  BY <1>1, Zenon DEF Fathers
<1>3. c.clock \in Nat /\ \A e \in Live(c) : c.entry[e].created \in Nat /\ c.entry[e].created < c.clock
  <2>1. Live(c) \subseteq 1 .. L
    BY LiveIs, Zenon
  <2> QED BY <2>1 DEF Rooted, Caches, Entries
<1>4. x \in Live(c) /\ \A e \in Since(c, t) : c.entry[e].father = x \/ c.entry[e].father \in Since(c, t)
  BY DEF BranchAt
<1>5. ASSUME NEW e \in Live(c), Hangs(c, x, t, e) PROVE e \in Since(c, t)
  <2>1. PICK k \in Ancestors(c, e) \cup {e} : c.entry[k].created >= t
    BY <1>5 DEF Hangs
  <2>2. k \in Live(c) /\ (k = e \/ c.entry[k].created < c.entry[e].created)
    BY <1>2
  <2>3. c.entry[k].created \in Nat /\ c.entry[e].created \in Nat
    BY <1>3, <2>2
  <2> QED BY <2>1, <2>2, <2>3 DEF Since
<1> DEFINE T == {n \in 0 .. c.clock : \A e \in Since(c, t) : c.entry[e].created < n => Hangs(c, x, t, e)}
<1>6. 0 \in T
  BY <1>3 DEF Since
<1>7. ASSUME NEW n \in 1 .. c.clock, n - 1 \in T PROVE n \in T
  <2> SUFFICES ASSUME NEW e \in Since(c, t), c.entry[e].created < n PROVE Hangs(c, x, t, e)
    BY <1>3
  <2> DEFINE f == c.entry[e].father
  <2>1. e \in Live(c) \ O /\ c.entry[e].created >= t
    BY DEF Since
  <2>2. f \in Live(c) /\ c.entry[f].created < c.entry[e].created
    BY <2>1 DEF Rooted
  <2>3. Ancestors(c, e) = {f} \cup Ancestors(c, f)
    BY <1>2, <2>1
  <2>4. CASE f = x
    <3>1. x \in Ancestors(c, e)
      BY <2>3, <2>4
    <3>2. ASSUME NEW b \in Ancestors(c, e), x \in Ancestors(c, b) PROVE FALSE
      <4>1. b \in Live(c) /\ c.entry[x].created < c.entry[b].created
        BY <1>2, <2>1, <3>2
      <4>2. b = x \/ c.entry[b].created < c.entry[x].created
        BY <1>2, <1>4, <2>3, <2>4
      <4>3. c.entry[x].created \in Nat /\ c.entry[b].created \in Nat
        BY <1>3, <1>4, <4>1
      <4> QED BY <4>1, <4>2, <4>3
    <3>3. ChildIn(c, x, e)
      BY <3>1, <3>2 DEF ChildIn
    <3> QED BY <2>1, <3>3 DEF Hangs
  <2>5. CASE f \in Since(c, t)
    <3>1. c.entry[f].created < n - 1
      BY <1>3, <2>1, <2>2
    <3>2. Hangs(c, x, t, f)
      BY <1>7, <2>5, <3>1
    <3>3. PICK k \in Ancestors(c, f) \cup {f} : ChildIn(c, x, k) /\ c.entry[k].created >= t
      BY <3>2 DEF Hangs
    <3>4. k \in Ancestors(c, e)
      BY <2>3
    <3> QED BY <3>3, <3>4 DEF Hangs
  <2> QED BY <1>4, <2>4, <2>5
<1> HIDE DEF T
<1>8. \A n \in 0 .. c.clock : n \in T
  BY <1>3, <1>6, <1>7, BoundedSteps, Zenon
<1>9. c.clock \in T
  BY <1>3, <1>8
<1>10. \A e \in Since(c, t) : e \in Live(c) /\ Hangs(c, x, t, e)
  BY <1>3, <1>9 DEF T, Since
<1> QED BY <1>5, <1>10 DEF Since

(* d is c without what hangs below the children of x created since t.      *)
Cleared(c, d, x, t) ==
    LET gone == {e \in Live(c) : Hangs(c, x, t, e)}
    IN  /\ Live(d) = Live(c) \ gone /\ Confirmed(d) = Confirmed(c) \ gone /\ d.clock = c.clock
        /\ \A e \in Live(d) : Ancestors(d, e) = Ancestors(c, e)
        /\ Ids(d) = Ids(c) /\ \A e \in Ids(c) : d.entry[e].created = c.entry[e].created

LEMMA CleanClears ==
  ASSUME Control, Structure, Structure', Clean
  PROVE  Cleared(cache, cache', comps[TopDecision.base].id, TopDecision.split)
<1> DEFINE K == KeysOf(input)
           L == Len(cache.entry)
           d == TopDecision
           O == Roots(comps)
           x == comps[d.base].id
           t == d.split
           b == <<d.base, t>>
<1>1. /\ L \in Nat /\ cache \in Caches(K, L) /\ Len(comps) \in Nat
      /\ 1 <= d.base /\ d.base <= Len(comps) /\ d \in Decisions
      /\ Len(decisions) \in Nat /\ Len(decisions) >= 1 /\ d = decisions[Len(decisions)]
  BY TypedFacts DEF Control, Typed
<1>2. Rooted(cache, O) /\ Climbs(cache, comps)
  BY DEF Structure, Shape, Woven
<1>3. t \in Nat /\ d.base \in 1 .. Len(comps) /\ 1 \in 1 .. Len(comps)
  BY <1>1 DEF Decisions, Times
<1>4. BranchAt(cache, O, x, t)
  <2>1. b \in Branches(decisions)
    <3>1. Len(decisions) \in 1 .. Len(decisions)
      BY <1>1
    <3> QED BY <1>1, <3>1 DEF Branches
  <2>2. Branching(cache, comps, b)
    BY <2>1 DEF Structure, Shape
  <2>3. b[1] = d.base /\ b[2] = t
    OBVIOUS
  <2> HIDE DEF b
  <2> QED BY <2>2, <2>3 DEF Branching
<1>5. O \cap Since(cache, t) = {}
  <2>1. x \in Live(cache) /\ cache.entry[x].created < t
    BY <1>4 DEF BranchAt
  <2>2. Live(cache) \subseteq 1 .. L
    BY <1>1, LiveIs, Zenon
  <2>3. \A e \in 1 .. L : cache.entry[e].created \in Nat
    BY <1>1 DEF Caches, Entries
  <2> HIDE DEF x, t
  <2>4. ASSUME NEW e \in O PROVE e \notin Since(cache, t)
    <3>1. e = comps[1].id /\ e \in Live(cache)
      BY <1>2 DEF Rooted, Roots
    <3>2. e = x \/ cache.entry[e].created < cache.entry[x].created
      <4>1. d.base = 1 \/ 1 < d.base
        BY <1>3
      <4> QED BY <1>2, <1>3, <3>1, <4>1 DEF Climbs, x
    <3>3. ASSUME NEW p \in Nat, NEW q \in Nat, p = q \/ p < q, q < t PROVE ~ (p >= t)
      BY <1>3, <3>3
    <3>4. ~ (cache.entry[e].created >= t)
      BY <2>1, <2>2, <2>3, <3>1, <3>2, <3>3
    <3> QED BY <3>4 DEF Since
  <2> QED BY <2>4
<1> HIDE DEF O, x, t, b, K, L
<1>6. Since(cache, t) = {e \in Live(cache) : Hangs(cache, x, t, e)}
  BY ONLY <1>1, <1>2, <1>3, <1>4, <1>5, BranchHangs
<1>7. Lessened(cache, cache') /\ cache'.clock = cache.clock /\ Emptied(cache, cache', t)
  BY CleanStructure DEF t, d
<1>8. Rooted(cache', Roots(comps')) /\ \E M \in Nat : cache' \in Caches(K, M)
  <2>1. Rooted(cache', Roots(comps'))
    BY DEF Structure, Shape, Woven
  <2>2. \E M \in Nat : cache' \in Caches(K, M)
    <3>1. Typed' /\ input' = input
      BY NextKeeps DEF Next, Search, Control, Clean
    <3> QED BY <3>1 DEF Typed, AnyCaches, K
  <2> QED BY <2>1, <2>2
<1>9. \A e \in Live(cache') : Ancestors(cache', e) = Ancestors(cache, e)
  <2>1. Live(cache') \subseteq Live(cache) /\ \A e \in Live(cache') : cache.entry[e].father = cache'.entry[e].father
    BY <1>7 DEF Lessened
  <2>2. PICK M \in Nat : cache' \in Caches(K, M)
    BY <1>8
  <2> QED BY ONLY <1>1, <1>2, <1>8, <2>1, <2>2, AncestorsKept
<1>10. Confirmed(cache') = Confirmed(cache) \ Since(cache, t) /\ Live(cache') = Live(cache) \ Since(cache, t)
  BY <1>7 DEF Lessened, Emptied, Confirmed
<1>11. Ids(cache') = Ids(cache) /\ \A e \in Ids(cache) : cache'.entry[e].created = cache.entry[e].created
  BY <1>7 DEF Lessened
<1> QED BY <1>6, <1>7, <1>9, <1>10, <1>11, Zenon DEF Cleared, x, t, d

(* d is c with a result for id, if one has been stored.                    *)
Resulted(c, d, id, stored) ==
    /\ Live(d) = Live(c)
    /\ IF stored \in {Store(c, id), StoreZero(c, id)}
       THEN Confirmed(d) = Confirmed(c) \cup {id} /\ d.clock = c.clock + 1
       ELSE Confirmed(d) = Confirmed(c) /\ d.clock = c.clock
    /\ \A e \in Live(d) : Ancestors(d, e) = Ancestors(c, e)
    /\ Ids(d) = Ids(c) /\ \A e \in Ids(c) : d.entry[e].created = c.entry[e].created

LEMMA FinishResults ==
  ASSUME NEW K, Hashed(K), NEW L \in Nat, NEW c \in Caches(K, L), NEW O, Rooted(c, O), NEW id \in Open(c),
         NEW stored \in {Store(c, id), StoreZero(c, id), c}
  PROVE  /\ Resulted(c, SetDeletePermitted(stored, id, TRUE), id, stored)
         /\ SetDeletePermitted(stored, id, TRUE).clock = stored.clock
<1> DEFINE d == SetDeletePermitted(stored, id, TRUE)
           b == stored \in {Store(c, id), StoreZero(c, id)}
<1>1. /\ Live(c) \subseteq 1 .. L /\ Live(c) = {e \in 1 .. L : ~ c.entry[e].free}
      /\ id \in Live(c) /\ id \in 1 .. L /\ ~ c.entry[id].model /\ ~ c.entry[id].zero
  <2>1. Live(c) \subseteq 1 .. L /\ Live(c) = {e \in 1 .. L : ~ c.entry[e].free}
    BY LiveIs, ZenonT(60)
  <2> QED BY <2>1 DEF Open, Confirmed
<1>2. /\ Concludes(c, Store(c, id), id, L) /\ Concludes(c, StoreZero(c, id), id, L) /\ Concludes(c, c, id, L)
      /\ Store(c, id).entry[id].model /\ StoreZero(c, id).entry[id].zero
      /\ Store(c, id).clock = c.clock + 1 /\ StoreZero(c, id).clock = c.clock + 1
  BY <1>1, StoreDoes
<1>3. stored \in Caches(K, L) /\ d \in Caches(K, L)
  <2>1. Store(c, id) \in Caches(K, L) /\ StoreZero(c, id) \in Caches(K, L)
    BY <1>1, StoreType, Zenon
  <2>2. stored \in Caches(K, L) /\ TRUE \in BOOLEAN
    BY <2>1
  <2> QED BY <1>1, <2>2, SetDeleteType, Zenon
<1>4. /\ Concludes(c, stored, id, L) /\ stored.clock = IF b THEN c.clock + 1 ELSE c.clock
      /\ (stored.entry[id].model \/ stored.entry[id].zero) <=> b
  BY <1>1, <1>2
<1>5. /\ Concludes(c, d, id, L)
      /\ d.entry[id].model = stored.entry[id].model /\ d.entry[id].zero = stored.entry[id].zero
  <2>1. Concludes(c, stored, id, L) /\ id \in 1 .. L
    BY <1>1, <1>4
  <2>2. Condemns(c, stored, d, id, L)
    BY <1>3, <2>1, SetDeleteDoes, Zenon
  <2> QED BY <2>2, Zenon DEF Condemns
<1>6. d.clock = stored.clock
  BY <1>3 DEF SetDeletePermitted, Caches
<1> HIDE DEF d, b
<1>7. Live(d) = {e \in 1 .. L : ~ d.entry[e].free} /\ Ids(d) = 1 .. L /\ Ids(c) = 1 .. L
  BY <1>3, LiveIs, CacheIds, ZenonT(60)
<1>8. /\ \A e \in 1 .. L : /\ d.entry[e].free = c.entry[e].free /\ d.entry[e].created = c.entry[e].created
                           /\ d.entry[e].father = c.entry[e].father
      /\ \A e \in 1 .. L : e # id => d.entry[e].model = c.entry[e].model /\ d.entry[e].zero = c.entry[e].zero
      /\ c.clock <= d.clock
  BY <1>5 DEF Concludes, SameUse, SameLinks
<1>9. Live(d) = Live(c)
  BY <1>1, <1>7, <1>8
<1>10. Confirmed(d) = IF b THEN Confirmed(c) \cup {id} ELSE Confirmed(c)
  BY <1>1, <1>4, <1>5, <1>8, <1>9 DEF Confirmed
<1>11. Rooted(d, O)
  <2>1. \A e \in Live(c) : c.entry[e].created \in Nat /\ e \in 1 .. L
    BY <1>1 DEF Caches, Entries
  <2>2. c.clock \in Nat /\ d.clock \in Nat
    BY <1>3 DEF Caches
  <2> QED BY <1>8, <1>9, <2>1, <2>2 DEF Rooted
<1>12. \A e \in Live(d) : Ancestors(d, e) = Ancestors(c, e)
  <2>1. Live(c) \subseteq Live(d) /\ \A e \in Live(c) : d.entry[e].father = c.entry[e].father
    BY <1>1, <1>8, <1>9
  <2>2. \A e \in Live(c) : Ancestors(d, e) = Ancestors(c, e)
    BY ONLY <1>3, <1>11, <2>1, L \in Nat, c \in Caches(K, L), Rooted(c, O), AncestorsKept
  <2> QED BY <1>9, <2>2
<1> QED BY <1>4, <1>6, <1>7, <1>8, <1>9, <1>10, <1>12 DEF Resulted, d, b

(* The levels as the tree of descendants sees them, up to MaxLevel.        *)
SuperMap(ds, cs) == [k \in 0 .. MaxLevel |-> IF k <= Len(ds) - 1 THEN cs[ds[k + 1].base].id ELSE 1]
SplitMap(ds) == [k \in 0 .. MaxLevel |-> IF k <= Len(ds) - 1 THEN ds[k + 1].split ELSE NoSplit]
SecondMap(ds) == [k \in 0 .. MaxLevel |-> k <= Len(ds) - 1 /\ ds[k + 1].second]
PendingMap(ds, cs) ==
    [k \in 0 .. MaxLevel |->
       IF k > Len(ds) - 1 THEN {} ELSE {cs[i].id : i \in ds[k + 1].base + 1 .. ds[k + 1].top}]

(* And the entries, up to MaxIds.                                          *)
AncMap(c) == [e \in AllIds |-> Ancestors(c, e)]
CreatedMap(c) == [e \in AllIds |-> IF e \in Ids(c) THEN c.entry[e].created ELSE 0]

LEMMA TreeFlip ==
  ASSUME Depth > 0, ~ SecondMap(decisions)[Depth], PendingMap(decisions, comps)[Depth] = {},
         Len(decisions') = Len(decisions), cache' = cache,
         SecondMap(decisions') = [SecondMap(decisions) EXCEPT ![Depth] = TRUE],
         SplitMap(decisions') = [SplitMap(decisions) EXCEPT ![Depth] = NoSplit],
         SuperMap(decisions', comps') = SuperMap(decisions, comps),
         PendingMap(decisions', comps') = PendingMap(decisions, comps)
  PROVE Tree!ChangeBranch
BY Zenon DEF Tree!ChangeBranch, Tree!treeVars, Level, Depth, SuperMap, SplitMap, SecondMap, PendingMap

LEMMA TreePop ==
  ASSUME Depth > 0, PendingMap(decisions, comps)[Depth] = {},
         Len(decisions') = Len(decisions) - 1,
         Live(cache') = Live(cache), AncMap(cache') = AncMap(cache), CreatedMap(cache') = CreatedMap(cache),
         \/ Confirmed(cache') = Confirmed(cache) \cup {SuperMap(decisions, comps)[Depth]} /\ cache'.clock = cache.clock + 1
         \/ Confirmed(cache') = Confirmed(cache) /\ cache'.clock = cache.clock,
         cache'.clock <= NoSplit,
         SuperMap(decisions', comps') = [SuperMap(decisions, comps) EXCEPT ![Depth] = 1],
         SplitMap(decisions') = [SplitMap(decisions) EXCEPT ![Depth] = NoSplit],
         SecondMap(decisions') = [SecondMap(decisions) EXCEPT ![Depth] = FALSE],
         PendingMap(decisions', comps') = [PendingMap(decisions, comps) EXCEPT ![Depth - 1] = @ \ {SuperMap(decisions, comps)[Depth]}]
  PROVE  \E stored \in BOOLEAN : Tree!PopDecision(stored)
<1>1. CASE Confirmed(cache') = Confirmed(cache) \cup {SuperMap(decisions, comps)[Depth]} /\ cache'.clock = cache.clock + 1
  <2>1. Tree!PopDecision(TRUE)
    BY <1>1 DEF Tree!PopDecision, Tree!treeVars, Level, Depth, SuperMap, SplitMap, SecondMap, PendingMap, AncMap, CreatedMap
  <2> QED BY <2>1, Zenon
<1>2. CASE Confirmed(cache') = Confirmed(cache) /\ cache'.clock = cache.clock
  <2>1. Tree!PopDecision(FALSE)
    BY <1>2 DEF Tree!PopDecision, Tree!treeVars, Level, Depth, SuperMap, SplitMap, SecondMap, PendingMap, AncMap, CreatedMap
  <2> QED BY <2>1, Zenon
<1> QED BY <1>1, <1>2

LEMMA TreeQuiet ==
  ASSUME cache' = cache, Len(decisions') = Len(decisions),
         SuperMap(decisions', comps') = SuperMap(decisions, comps), SplitMap(decisions') = SplitMap(decisions),
         SecondMap(decisions') = SecondMap(decisions), PendingMap(decisions', comps') = PendingMap(decisions, comps)
  PROVE  UNCHANGED Tree!vars
BY Zenon DEF Tree!vars, Level, Depth, SuperMap, SplitMap, SecondMap, PendingMap

LEMMA TreePush ==
  ASSUME Depth < MaxLevel, Last(comps).id \in PendingMap(decisions, comps)[Depth], cache' = cache,
         Len(decisions') - 1 = Len(decisions) - 1 + 1,
         SuperMap(decisions', comps') = [SuperMap(decisions, comps) EXCEPT ![Depth + 1] = Last(comps).id],
         SplitMap(decisions') = SplitMap(decisions), SecondMap(decisions') = SecondMap(decisions),
         PendingMap(decisions', comps') = PendingMap(decisions, comps)
  PROVE  Tree!PushDecision(Last(comps).id)
BY Zenon DEF Tree!PushDecision, Tree!treeVars, Level, Depth, SuperMap, SplitMap, SecondMap, PendingMap

LEMMA TreeConfirm ==
  ASSUME Last(comps).id \in PendingMap(decisions, comps)[Depth], cache.clock < NoSplit,
         Len(decisions') = Len(decisions),
         Live(cache') = Live(cache), AncMap(cache') = AncMap(cache), CreatedMap(cache') = CreatedMap(cache),
         Confirmed(cache') = Confirmed(cache) \cup {Last(comps).id}, cache'.clock = cache.clock + 1,
         SuperMap(decisions', comps') = SuperMap(decisions, comps), SplitMap(decisions') = SplitMap(decisions),
         SecondMap(decisions') = SecondMap(decisions),
         PendingMap(decisions', comps') = [PendingMap(decisions, comps) EXCEPT ![Depth] = @ \ {Last(comps).id}]
  PROVE  Tree!ConfirmSatisfiable(Last(comps).id)
BY DEF Tree!ConfirmSatisfiable, Tree!treeVars, Level, Depth, SuperMap, SplitMap, SecondMap, PendingMap, AncMap, CreatedMap

(* What the tree calls the descendants.                                    *)
HangsIn(anc, created, x, t, e) ==
    \E k \in anc[e] \cup {e} :
        (x \in anc[k] /\ ~ \E b \in anc[k] : x \in anc[b]) /\ created[k] >= t
Gone(c, x, t) == {e \in Live(c) : HangsIn(AncMap(c), CreatedMap(c), x, t, e)}

LostNow == Gone(cache, SuperMap(decisions, comps)[Depth], SplitMap(decisions)[Depth])

LEMMA TreeClean ==
  ASSUME Len(decisions') = Len(decisions), cache'.clock = cache.clock,
         Live(cache') = Live(cache) \ LostNow, Confirmed(cache') = Confirmed(cache) \ LostNow,
         AncMap(cache') = [e \in AllIds |-> IF e \in LostNow THEN {} ELSE AncMap(cache)[e]],
         CreatedMap(cache') = CreatedMap(cache),
         SuperMap(decisions', comps') = SuperMap(decisions, comps), SplitMap(decisions') = SplitMap(decisions),
         SecondMap(decisions') = SecondMap(decisions),
         PendingMap(decisions', comps') = [PendingMap(decisions, comps) EXCEPT ![Depth] = {}]
  PROVE  Tree!CleanBranch
<1>1. LostNow = Tree!Descendants(SuperMap(decisions, comps)[Depth], SplitMap(decisions)[Depth])
  BY Zenon DEF LostNow, Gone, HangsIn, Tree!Descendants, Tree!ChildOf, Tree!Path, AncMap, CreatedMap
<1> QED BY <1>1, Zenon DEF Tree!CleanBranch, Level, Depth, SuperMap, SplitMap, SecondMap, PendingMap, AncMap, CreatedMap

LEMMA TreeInit ==
  ASSUME Len(decisions) - 1 = 0, Live(cache) = {1}, Confirmed(cache) = {}, cache.clock = 1,
         AncMap(cache) = [e \in AllIds |-> {}], CreatedMap(cache) = [e \in AllIds |-> 0],
         SuperMap(decisions, comps) = [k \in 0 .. MaxLevel |-> 1], SplitMap(decisions) = [k \in 0 .. MaxLevel |-> NoSplit],
         SecondMap(decisions) = [k \in 0 .. MaxLevel |-> k = 0],
         PendingMap(decisions, comps) = [k \in 0 .. MaxLevel |-> {}]
  PROVE  Tree!Init
BY Zenon DEF Tree!Init, Tree!Levels, Level, Depth, SuperMap, SplitMap, SecondMap, PendingMap, AncMap, CreatedMap

(* What splitComponent() enters and evicts.                                *)
Entering == {e \in Live(cache)' : cache'.entry[e].created >= cache.clock}
Leaving == Confirmed(cache) \ (Live(cache)' \ Entering)
Stamps == [e \in Entering |-> cache'.entry[e].created]

LEMMA TreeSplit ==
  ASSUME cache.clock < NoSplit,
         \/ Last(comps).id = SuperMap(decisions, comps)[Depth] /\ PendingMap(decisions, comps)[Depth] = {}
         \/ Last(comps).id \in PendingMap(decisions, comps)[Depth],
         \A e \in Leaving : e # 1 /\ \A k \in 0 .. MaxLevel : e \notin PendingMap(decisions, comps)[k],
         Entering \cap (Live(cache) \ Leaving) = {},
         Len(decisions') = Len(decisions),
         Live(cache') = (Live(cache) \ Leaving) \cup Entering,
         AncMap(cache') = [e \in AllIds |-> IF e \in Entering THEN (AncMap(cache)[Last(comps).id] \cup {Last(comps).id}) \ Leaving
                                            ELSE IF e \in Leaving THEN {} ELSE AncMap(cache)[e] \ Leaving],
         CreatedMap(cache') = [e \in AllIds |-> IF e \in Entering THEN cache'.entry[e].created ELSE CreatedMap(cache)[e]],
         Confirmed(cache') = Confirmed(cache) \ Leaving,
         SplitMap(decisions') = [SplitMap(decisions) EXCEPT ![Depth] =
             IF SplitMap(decisions)[Depth] = NoSplit THEN cache.clock ELSE SplitMap(decisions)[Depth]],
         PendingMap(decisions', comps') = [PendingMap(decisions, comps) EXCEPT ![Depth] = @ \cup Entering],
         SuperMap(decisions', comps') = SuperMap(decisions, comps), SecondMap(decisions') = SecondMap(decisions)
  PROVE  Tree!Split(Last(comps).id, Entering, Leaving, cache'.clock, Stamps)
<1>1. Leaving \subseteq Confirmed(cache) \ Tree!Pinned
  BY DEF Tree!Pinned, Tree!Levels, Level, Depth, PendingMap, Leaving
<1>2. Tree!Splittable(Last(comps).id)
  BY DEF Tree!Splittable, Level, Depth, PendingMap, SuperMap
<1>3. Tree!SplitTime = IF SplitMap(decisions)[Depth] = NoSplit THEN cache.clock ELSE SplitMap(decisions)[Depth]
  BY DEF Tree!SplitTime, Level, Depth, SplitMap
<1>4. CreatedMap(cache') = [e \in AllIds |-> IF e \in Entering THEN Stamps[e] ELSE CreatedMap(cache)[e]]
  BY DEF Stamps
<1> QED
  BY <1>1, <1>2, <1>3, <1>4, Zenon
  DEF Tree!Split, Level, Depth, SuperMap, SplitMap, SecondMap, PendingMap, AncMap, CreatedMap

(* The entries of the components a decision has left.                      *)
OnLevel(d, cs) == {cs[i].id : i \in d.base + 1 .. d.top}

(* The decision at the top as the maps have it.                            *)
LEMMA MapsAt ==
  ASSUME NEW ds \in Seq(Decisions), NEW cs, Len(ds) \in 1 .. MaxLevel + 1
  PROVE  LET n == Len(ds) - 1
         IN  /\ n \in 0 .. MaxLevel /\ SuperMap(ds, cs)[n] = cs[ds[Len(ds)].base].id
             /\ SplitMap(ds)[n] = ds[Len(ds)].split /\ SecondMap(ds)[n] = ds[Len(ds)].second
             /\ PendingMap(ds, cs)[n] = OnLevel(ds[Len(ds)], cs)
<1> DEFINE n == Len(ds) - 1
<1>1. n \in 0 .. MaxLevel /\ n + 1 = Len(ds) /\ n <= Len(ds) - 1 /\ ~ (n > Len(ds) - 1)
  BY BoundsAssumption
<1>2. ds[Len(ds)].second \in BOOLEAN
  <2>1. ds[Len(ds)] \in Decisions
    OBVIOUS
  <2> QED BY <2>1 DEF Decisions
<1> HIDE DEF n
<1>3. SuperMap(ds, cs)[n] = cs[ds[Len(ds)].base].id /\ SplitMap(ds)[n] = ds[Len(ds)].split
  BY <1>1 DEF SuperMap, SplitMap
<1>4. SecondMap(ds)[n] = ds[Len(ds)].second
  BY <1>1, <1>2 DEF SecondMap
<1>5. PendingMap(ds, cs)[n] = OnLevel(ds[Len(ds)], cs)
  BY <1>1 DEF PendingMap, OnLevel
<1> QED BY <1>1, <1>3, <1>4, <1>5 DEF n

LEMMA LevelsBelow ==
  ASSUME NEW ds \in Seq(Decisions), NEW cs, Owned(ds, cs), NEW k \in 1 .. Len(ds) - 1
  PROVE  /\ k \in 1 .. Len(ds) /\ ds[k] \in Decisions /\ ds[k].base \in Nat /\ ds[k].top \in Nat
         /\ 1 <= ds[k].base /\ ds[k].base < ds[k].top /\ ds[k].top <= ds[Len(ds)].base
<1>1. Len(ds) \in Nat /\ Len(ds) \in 1 .. Len(ds) /\ k \in 1 .. Len(ds) /\ k < Len(ds)
  OBVIOUS
<1>2. ds[k] \in Decisions
  BY <1>1
<1>3. ds[k].base \in Nat /\ ds[k].top \in Nat
  BY <1>2, DecisionOps
<1> QED BY <1>1, <1>2, <1>3 DEF Owned

LEMMA FunctionChanged ==
  ASSUME NEW D, NEW f, NEW g, f = [k \in D |-> f[k]], g = [k \in D |-> g[k]], NEW n, NEW v,
         \A k \in D : f[k] = IF k = n THEN v ELSE g[k]
  PROVE  f = [g EXCEPT ![n] = v]
OBVIOUS

(* Only the decision at the top changes, and the stack only above its base. *)
TopMaps(ds, cs, es, ts) ==
    LET n == Len(ds) - 1
        e == es[Len(ds)]
    IN  /\ SuperMap(es, ts) = SuperMap(ds, cs)
        /\ SplitMap(es) = [SplitMap(ds) EXCEPT ![n] = e.split]
        /\ SecondMap(es) = [SecondMap(ds) EXCEPT ![n] = e.second]
        /\ PendingMap(es, ts) = [PendingMap(ds, cs) EXCEPT ![n] = OnLevel(e, ts)]

LEMMA MapsTop ==
  ASSUME NEW ds \in Seq(Decisions), NEW cs, Owned(ds, cs), Len(ds) \in 1 .. MaxLevel + 1,
         NEW es \in Seq(Decisions), NEW ts, Len(es) = Len(ds), \A k \in 1 .. Len(ds) - 1 : es[k] = ds[k],
         es[Len(ds)].base = ds[Len(ds)].base, \A i \in 1 .. ds[Len(ds)].base : ts[i] = cs[i]
  PROVE  TopMaps(ds, cs, es, ts)
<1> DEFINE N == Len(ds)
           n == N - 1
           e == es[N]
           base == ds[N].base
<1>1. N \in Nat /\ N >= 1 /\ N \in 1 .. N /\ n \in 0 .. MaxLevel /\ n + 1 = N /\ base \in Nat /\ 1 <= base
  <2>1. N \in Nat /\ N >= 1 /\ N \in 1 .. N /\ n \in 0 .. MaxLevel /\ n + 1 = N
    BY BoundsAssumption
  <2>2. ds[N] \in Decisions /\ 1 <= base
    BY <2>1 DEF Owned
  <2> QED BY <2>1, <2>2, DecisionOps
<1>2. e \in Decisions /\ e.second \in BOOLEAN
  <2>1. e \in Decisions
    BY <1>1
  <2> QED BY <2>1 DEF Decisions
<1>3. ASSUME NEW k \in 1 .. N - 1
      PROVE  /\ es[k] = ds[k] /\ ts[ds[k].base] = cs[ds[k].base]
             /\ \A i \in ds[k].base + 1 .. ds[k].top : ts[i] = cs[i]
  <2>1. /\ k \in 1 .. Len(ds) /\ ds[k].base \in Nat /\ ds[k].top \in Nat
        /\ 1 <= ds[k].base /\ ds[k].base < ds[k].top /\ ds[k].top <= base
    BY LevelsBelow
  <2>2. ASSUME NEW p \in Nat, NEW q \in Nat, 1 <= p, p < q, q <= base
        PROVE  p \in 1 .. base /\ \A i \in p + 1 .. q : i \in 1 .. base
    BY <1>1, <2>2
  <2>3. ds[k].base \in 1 .. base /\ \A i \in ds[k].base + 1 .. ds[k].top : i \in 1 .. base
    BY <2>1, <2>2
  <2> QED BY <2>3
<1>4. \A k \in 0 .. MaxLevel : k > n \/ k = n \/ (k <= n /\ k # n /\ k + 1 \in 1 .. N - 1)
  BY <1>1
<1>5. base \in 1 .. base /\ ts[base] = cs[base]
  BY <1>1
<1> HIDE DEF e
<1>6. SuperMap(es, ts) = SuperMap(ds, cs)
  <2>1. ASSUME NEW k \in 0 .. MaxLevel
        PROVE  (IF k <= N - 1 THEN ts[es[k + 1].base].id ELSE 1) = IF k <= N - 1 THEN cs[ds[k + 1].base].id ELSE 1
    <3>1. CASE k > n
      BY <1>1, <3>1
    <3>2. CASE k = n
      BY <1>1, <1>5, <3>2
    <3>3. CASE k + 1 \in 1 .. N - 1
      BY <1>3, <3>3
    <3> QED BY <1>4, <3>1, <3>2, <3>3
  <2> QED BY <2>1 DEF SuperMap
<1>7. SplitMap(es) = [SplitMap(ds) EXCEPT ![n] = e.split]
  <2>1. ASSUME NEW k \in 0 .. MaxLevel
        PROVE  (IF k <= N - 1 THEN es[k + 1].split ELSE NoSplit) =
                 IF k = n THEN e.split ELSE IF k <= N - 1 THEN ds[k + 1].split ELSE NoSplit
    <3>1. CASE k > n
      BY <1>1, <3>1
    <3>2. CASE k = n
      BY <1>1, <3>2 DEF e
    <3>3. CASE k # n /\ k + 1 \in 1 .. N - 1
      BY <1>3, <3>3
    <3> QED BY <1>4, <3>1, <3>2, <3>3
  <2> QED BY <1>1, <2>1 DEF SplitMap
<1>8. SecondMap(es) = [SecondMap(ds) EXCEPT ![n] = e.second]
  <2>1. ASSUME NEW k \in 0 .. MaxLevel
        PROVE  (k <= N - 1 /\ es[k + 1].second) =
                 IF k = n THEN e.second ELSE (k <= N - 1 /\ ds[k + 1].second)
    <3>1. CASE k > n
      BY <1>1, <3>1
    <3>2. CASE k = n
      BY <1>1, <1>2, <3>2 DEF e
    <3>3. CASE k # n /\ k + 1 \in 1 .. N - 1
      BY <1>3, <3>3
    <3> QED BY <1>4, <3>1, <3>2, <3>3
  <2> QED BY <1>1, <2>1 DEF SecondMap
<1>9. PendingMap(es, ts) = [PendingMap(ds, cs) EXCEPT ![n] = OnLevel(e, ts)]
  <2>1. ASSUME NEW k \in 0 .. MaxLevel
        PROVE  (IF k > N - 1 THEN {} ELSE OnLevel(es[k + 1], ts)) =
                 IF k = n THEN OnLevel(e, ts) ELSE IF k > N - 1 THEN {} ELSE OnLevel(ds[k + 1], cs)
    <3>1. CASE k > n
      BY <1>1, <3>1
    <3>2. CASE k = n
      BY <1>1, <3>2 DEF e
    <3>3. CASE k # n /\ k + 1 \in 1 .. N - 1
      <4>1. es[k + 1] = ds[k + 1] /\ \A i \in ds[k + 1].base + 1 .. ds[k + 1].top : ts[i] = cs[i]
        BY <1>3, <3>3
      <4>2. OnLevel(ds[k + 1], ts) = OnLevel(ds[k + 1], cs)
        BY <4>1 DEF OnLevel
      <4> QED BY <3>3, <4>1, <4>2
    <3> QED BY <1>4, <3>1, <3>2, <3>3
  <2>2. \A k \in 0 .. MaxLevel :
          /\ PendingMap(es, ts)[k] = (IF k > N - 1 THEN {} ELSE OnLevel(es[k + 1], ts))
          /\ PendingMap(ds, cs)[k] = (IF k > N - 1 THEN {} ELSE OnLevel(ds[k + 1], cs))
    BY DEF PendingMap, OnLevel
  <2>3. /\ PendingMap(es, ts) = [k \in 0 .. MaxLevel |-> PendingMap(es, ts)[k]]
        /\ PendingMap(ds, cs) = [k \in 0 .. MaxLevel |-> PendingMap(ds, cs)[k]]
    BY DEF PendingMap
  <2>4. \A k \in 0 .. MaxLevel :
          PendingMap(es, ts)[k] = IF k = n THEN OnLevel(e, ts) ELSE PendingMap(ds, cs)[k]
    BY <2>1, <2>2
  <2> HIDE DEF n
  <2> QED BY <2>3, <2>4, FunctionChanged
<1> QED BY <1>6, <1>7, <1>8, <1>9, Zenon DEF TopMaps, e, n, N

(* A decision is pushed.                                                   *)
LEMMA MapsPush ==
  ASSUME NEW ds \in Seq(Decisions), NEW cs, Owned(ds, cs), Len(ds) \in 1 .. MaxLevel, NEW es,
         Len(es) = Len(ds) + 1, es[Len(ds) + 1] = NewDecision(Len(cs)), \A k \in 1 .. Len(ds) : es[k] = ds[k],
         Len(cs) \in Nat
  PROVE  LET n == Len(ds) - 1
         IN  /\ SuperMap(es, cs) = [SuperMap(ds, cs) EXCEPT ![n + 1] = cs[Len(cs)].id]
             /\ SplitMap(es) = SplitMap(ds) /\ SecondMap(es) = SecondMap(ds)
             /\ PendingMap(es, cs) = PendingMap(ds, cs)
<1> DEFINE N == Len(ds)
           C == Len(cs)
           e == NewDecision(C)
<1>1. /\ N \in Nat /\ N >= 1 /\ N <= MaxLevel /\ N \in 0 .. MaxLevel /\ Len(es) - 1 = N /\ (N - 1) + 1 = N
      /\ MaxLevel \in Nat
  BY BoundsAssumption
<1>2. e.base = C /\ e.split = NoSplit /\ e.second = FALSE /\ OnLevel(e, cs) = {}
  <2>1. e.base = C /\ e.top = C /\ e.split = NoSplit /\ e.second = FALSE
    BY DEF NewDecision
  <2> HIDE DEF e
  <2> QED BY <2>1 DEF OnLevel
<1> HIDE DEF e, N
<1>3. \A k \in 0 .. MaxLevel : k > N \/ k = N \/ (k < N /\ k # N /\ k <= N - 1 /\ k + 1 \in 1 .. N)
  BY <1>1
<1>4. \A k \in 0 .. MaxLevel : k > N => ~ (k <= N) /\ ~ (k <= N - 1) /\ k > N - 1 /\ k # N
  BY <1>1
<1>5. N <= N /\ ~ (N <= N - 1) /\ ~ (N > N) /\ N > N - 1 /\ es[N + 1] = e /\ \A k \in 1 .. N : es[k] = ds[k]
  BY <1>1 DEF N, e
<1>6. \A k \in 0 .. MaxLevel : k <= N - 1 => ~ (k > N) /\ ~ (k > N - 1) /\ k <= N
  BY <1>1
<1>7. SuperMap(es, cs) = [SuperMap(ds, cs) EXCEPT ![N] = cs[C].id]
  <2>1. ASSUME NEW k \in 0 .. MaxLevel
        PROVE  (IF k <= N THEN cs[es[k + 1].base].id ELSE 1) =
                 IF k = N THEN cs[C].id ELSE IF k <= N - 1 THEN cs[ds[k + 1].base].id ELSE 1
    BY <1>2, <1>3, <1>4, <1>5, <1>6
  <2>2. \A k \in 0 .. MaxLevel :
          /\ SuperMap(es, cs)[k] = (IF k <= N THEN cs[es[k + 1].base].id ELSE 1)
          /\ SuperMap(ds, cs)[k] = (IF k <= N - 1 THEN cs[ds[k + 1].base].id ELSE 1)
    BY <1>1 DEF SuperMap, N
  <2>3. /\ SuperMap(es, cs) = [k \in 0 .. MaxLevel |-> SuperMap(es, cs)[k]]
        /\ SuperMap(ds, cs) = [k \in 0 .. MaxLevel |-> SuperMap(ds, cs)[k]]
    BY DEF SuperMap
  <2>4. \A k \in 0 .. MaxLevel : SuperMap(es, cs)[k] = IF k = N THEN cs[C].id ELSE SuperMap(ds, cs)[k]
    BY <2>1, <2>2
  <2> QED BY <2>3, <2>4, FunctionChanged
<1>8. SplitMap(es) = SplitMap(ds)
  <2>1. \A k \in 0 .. MaxLevel :
          (IF k <= N THEN es[k + 1].split ELSE NoSplit) = IF k <= N - 1 THEN ds[k + 1].split ELSE NoSplit
    BY <1>2, <1>3, <1>4, <1>5, <1>6
  <2> QED BY <1>1, <2>1 DEF SplitMap, N
<1>9. SecondMap(es) = SecondMap(ds)
  <2>1. \A k \in 0 .. MaxLevel : (k <= N /\ es[k + 1].second) = (k <= N - 1 /\ ds[k + 1].second)
    BY <1>2, <1>3, <1>4, <1>5, <1>6
  <2> QED BY <1>1, <2>1 DEF SecondMap, N
<1>10. PendingMap(es, cs) = PendingMap(ds, cs)
  <2>1. \A k \in 0 .. MaxLevel :
          (IF k > N THEN {} ELSE OnLevel(es[k + 1], cs)) = IF k > N - 1 THEN {} ELSE OnLevel(ds[k + 1], cs)
    BY <1>2, <1>3, <1>4, <1>5, <1>6
  <2> QED BY <1>1, <2>1 DEF PendingMap, OnLevel, N
<1> QED BY <1>1, <1>7, <1>8, <1>9, <1>10 DEF N

(* A decision leaves, and the component of it, the last of the decision    *)
(* below.                                                                  *)
PoppedMaps(ds, cs, es, ts) ==
    LET n == Len(ds) - 1
        id == cs[Len(cs)].id
    IN  /\ SuperMap(es, ts) = [SuperMap(ds, cs) EXCEPT ![n] = 1]
        /\ SplitMap(es) = [SplitMap(ds) EXCEPT ![n] = NoSplit]
        /\ SecondMap(es) = [SecondMap(ds) EXCEPT ![n] = FALSE]
        /\ PendingMap(es, ts) = [PendingMap(ds, cs) EXCEPT ![n - 1] = @ \ {id}]

LEMMA MapsPop ==
  ASSUME NEW ds \in Seq(Decisions), NEW cs, Owned(ds, cs), Len(ds) \in 2 .. MaxLevel + 1, Len(cs) \in Nat,
         ds[Len(ds)].base = Len(cs), NEW es, NEW ts, Len(es) = Len(ds) - 1,
         \A k \in 1 .. Len(ds) - 2 : es[k] = ds[k],
         NEW e, e = es[Len(ds) - 1], e.base = ds[Len(ds) - 1].base, e.split = ds[Len(ds) - 1].split,
         e.second = ds[Len(ds) - 1].second, e.top = Len(cs) - 1,
         \A i \in 1 .. Len(cs) - 1 : ts[i] = cs[i] /\ cs[i].id # cs[Len(cs)].id
  PROVE  PoppedMaps(ds, cs, es, ts)
<1> DEFINE N == Len(ds)
           n == N - 1
           C == Len(cs)
           id == cs[C].id
           d == ds[n]
<1>1. /\ N \in Nat /\ n \in Nat /\ n - 1 \in Nat /\ n \in 0 .. MaxLevel /\ n - 1 \in 0 .. MaxLevel /\ n + 1 = N
      /\ (n - 1) + 1 = n /\ Len(es) - 1 = n - 1 /\ n \in 1 .. N - 1 /\ n \in 1 .. N /\ N \in 1 .. N /\ n - 1 # n
  BY BoundsAssumption
<1>2. /\ d.base \in Nat /\ d.top = C /\ d.base < C /\ ds[N].top = C /\ ds[N].base = C
  <2>1. d.base \in Nat /\ d.base < d.top
    BY <1>1, LevelsBelow
  <2>2. ds[n + 1].base = ds[n].top /\ ds[N].top = C
    BY <1>1 DEF Owned
  <2> QED BY <1>1, <2>1, <2>2
<1>3. ASSUME NEW k \in 1 .. N - 2
      PROVE  es[k] = ds[k] /\ ts[ds[k].base] = cs[ds[k].base] /\ \A i \in ds[k].base + 1 .. ds[k].top : ts[i] = cs[i]
  <2>1. k \in 1 .. Len(ds) - 1 /\ k \in 1 .. Len(ds) /\ k < n
    BY <1>1
  <2>2. ds[k].base \in Nat /\ ds[k].top \in Nat /\ 1 <= ds[k].base /\ ds[k].base < ds[k].top
    BY <2>1, LevelsBelow
  <2>3. ds[k].top <= d.base
    BY <1>1, <2>1 DEF Owned
  <2>4. ASSUME NEW p \in Nat, NEW q \in Nat, NEW r \in Nat, 1 <= p, p < q, q <= r, r < C
        PROVE  p \in 1 .. C - 1 /\ \A i \in p + 1 .. q : i \in 1 .. C - 1
    BY <2>4
  <2>5. ds[k].base \in 1 .. C - 1 /\ \A i \in ds[k].base + 1 .. ds[k].top : i \in 1 .. C - 1
    BY <1>2, <2>2, <2>3, <2>4
  <2> QED BY <2>5
<1>4. \A k \in 0 .. MaxLevel : \/ k > n \/ k = n \/ k = n - 1
                               \/ k < n - 1 /\ k + 1 \in 1 .. N - 2
  BY <1>1
<1>5. /\ \A k \in 0 .. MaxLevel : k > n => ~ (k <= n - 1) /\ ~ (k <= n) /\ k # n /\ k # n - 1 /\ k > n - 1
      /\ \A k \in 0 .. MaxLevel : k < n - 1 => k <= n - 1 /\ k <= n /\ k # n /\ k # n - 1 /\ ~ (k > n - 1) /\ ~ (k > n)
      /\ n <= n /\ ~ (n <= n - 1) /\ n > n - 1 /\ ~ (n > n) /\ n - 1 <= n /\ n - 1 <= n - 1 /\ ~ (n - 1 > n - 1) /\ ~ (n - 1 > n)
  BY <1>1
<1>6. ts[e.base] = cs[d.base]
  <2>1. 1 <= d.base
    BY <1>1 DEF Owned
  <2>2. d.base \in 1 .. C - 1
    BY <1>2, <2>1
  <2> QED BY <2>2
<1>7. OnLevel(e, ts) = OnLevel(d, cs) \ {id} /\ OnLevel(ds[N], cs) = {}
  <2>1. d.base + 1 .. C = (d.base + 1 .. C - 1) \cup {C} /\ \A i \in d.base + 1 .. C - 1 : i \in 1 .. C - 1
    BY <1>2
  <2>2. OnLevel(e, ts) = {ts[i].id : i \in d.base + 1 .. C - 1}
    BY DEF OnLevel
  <2>3. OnLevel(d, cs) = {cs[i].id : i \in d.base + 1 .. C}
    BY <1>2 DEF OnLevel
  <2>4. OnLevel(ds[N], cs) = {}
    BY <1>2 DEF OnLevel
  <2>5. \A i \in d.base + 1 .. C - 1 : ts[i].id = cs[i].id /\ cs[i].id # id
    BY <2>1
  <2> HIDE DEF d, C, id, N
  <2>6. id = cs[C].id
    BY DEF id
  <2>7. OnLevel(e, ts) \subseteq OnLevel(d, cs) \ {id}
    BY <2>1, <2>2, <2>3, <2>5
  <2>8. OnLevel(d, cs) \ {id} \subseteq OnLevel(e, ts)
    BY <2>1, <2>2, <2>3, <2>5, <2>6
  <2> QED BY <2>4, <2>7, <2>8
<1>8. e.base = d.base /\ e.split = d.split /\ e.second = d.second /\ es[n] = e
  OBVIOUS
<1>9. d.second \in BOOLEAN
  <2>1. d \in Decisions
    BY <1>1
  <2> QED BY <2>1 DEF Decisions
<1> HIDE DEF n, N, d, id
<1>10. SuperMap(es, ts) = [SuperMap(ds, cs) EXCEPT ![n] = 1]
  <2>1. ASSUME NEW k \in 0 .. MaxLevel
        PROVE  (IF k <= n - 1 THEN ts[es[k + 1].base].id ELSE 1) =
                 IF k = n THEN 1 ELSE IF k <= n THEN cs[ds[k + 1].base].id ELSE 1
    BY <1>1, <1>3, <1>4, <1>5, <1>6, <1>8, SMTT(30) DEF d
  <2>2. \A k \in 0 .. MaxLevel :
          /\ SuperMap(es, ts)[k] = (IF k <= n - 1 THEN ts[es[k + 1].base].id ELSE 1)
          /\ SuperMap(ds, cs)[k] = (IF k <= n THEN cs[ds[k + 1].base].id ELSE 1)
    BY <1>1 DEF SuperMap, N, n
  <2>3. /\ SuperMap(es, ts) = [k \in 0 .. MaxLevel |-> SuperMap(es, ts)[k]]
        /\ SuperMap(ds, cs) = [k \in 0 .. MaxLevel |-> SuperMap(ds, cs)[k]]
    BY DEF SuperMap
  <2>4. \A k \in 0 .. MaxLevel : SuperMap(es, ts)[k] = IF k = n THEN 1 ELSE SuperMap(ds, cs)[k]
    BY <2>1, <2>2
  <2> QED BY <2>3, <2>4, FunctionChanged
<1>11. SplitMap(es) = [SplitMap(ds) EXCEPT ![n] = NoSplit]
  <2>1. ASSUME NEW k \in 0 .. MaxLevel
        PROVE  (IF k <= n - 1 THEN es[k + 1].split ELSE NoSplit) =
                 IF k = n THEN NoSplit ELSE IF k <= n THEN ds[k + 1].split ELSE NoSplit
    BY <1>1, <1>3, <1>4, <1>5, <1>8 DEF d
  <2>2. \A k \in 0 .. MaxLevel :
          /\ SplitMap(es)[k] = (IF k <= n - 1 THEN es[k + 1].split ELSE NoSplit)
          /\ SplitMap(ds)[k] = (IF k <= n THEN ds[k + 1].split ELSE NoSplit)
    BY <1>1 DEF SplitMap, N, n
  <2>3. /\ SplitMap(es) = [k \in 0 .. MaxLevel |-> SplitMap(es)[k]]
        /\ SplitMap(ds) = [k \in 0 .. MaxLevel |-> SplitMap(ds)[k]]
    BY DEF SplitMap
  <2>4. \A k \in 0 .. MaxLevel : SplitMap(es)[k] = IF k = n THEN NoSplit ELSE SplitMap(ds)[k]
    BY <2>1, <2>2
  <2> QED BY <2>3, <2>4, FunctionChanged
<1>12. SecondMap(es) = [SecondMap(ds) EXCEPT ![n] = FALSE]
  <2>1. ASSUME NEW k \in 0 .. MaxLevel
        PROVE  (k <= n - 1 /\ es[k + 1].second) = IF k = n THEN FALSE ELSE (k <= n /\ ds[k + 1].second)
    BY <1>1, <1>3, <1>4, <1>5, <1>8, <1>9 DEF d
  <2>2. \A k \in 0 .. MaxLevel :
          /\ SecondMap(es)[k] = (k <= n - 1 /\ es[k + 1].second)
          /\ SecondMap(ds)[k] = (k <= n /\ ds[k + 1].second)
    BY <1>1 DEF SecondMap, N, n
  <2>3. /\ SecondMap(es) = [k \in 0 .. MaxLevel |-> SecondMap(es)[k]]
        /\ SecondMap(ds) = [k \in 0 .. MaxLevel |-> SecondMap(ds)[k]]
    BY DEF SecondMap
  <2>4. \A k \in 0 .. MaxLevel : SecondMap(es)[k] = IF k = n THEN FALSE ELSE SecondMap(ds)[k]
    BY <2>1, <2>2
  <2> QED BY <2>3, <2>4, FunctionChanged
<1>13. PendingMap(es, ts) = [PendingMap(ds, cs) EXCEPT ![n - 1] = @ \ {id}]
  <2>1. ASSUME NEW k \in 0 .. MaxLevel
        PROVE  (IF k > n - 1 THEN {} ELSE OnLevel(es[k + 1], ts)) =
                 IF k = n - 1 THEN OnLevel(d, cs) \ {id} ELSE IF k > n THEN {} ELSE OnLevel(ds[k + 1], cs)
    <3>1. CASE k > n
      BY <1>5, <3>1
    <3>2. CASE k = n
      BY <1>1, <1>5, <1>7, <3>2
    <3>3. CASE k = n - 1
      BY <1>1, <1>5, <1>7, <1>8, <3>3
    <3>4. CASE k < n - 1 /\ k + 1 \in 1 .. N - 2
      <4>1. es[k + 1] = ds[k + 1] /\ \A i \in ds[k + 1].base + 1 .. ds[k + 1].top : ts[i] = cs[i]
        BY <1>3, <3>4
      <4>2. OnLevel(ds[k + 1], ts) = OnLevel(ds[k + 1], cs)
        BY <4>1, SMTT(30) DEF OnLevel
      <4> QED BY <1>5, <3>4, <4>1, <4>2
    <3> QED BY <1>4, <3>1, <3>2, <3>3, <3>4
  <2>2. \A k \in 0 .. MaxLevel :
          /\ PendingMap(es, ts)[k] = (IF k > n - 1 THEN {} ELSE OnLevel(es[k + 1], ts))
          /\ PendingMap(ds, cs)[k] = (IF k > n THEN {} ELSE OnLevel(ds[k + 1], cs))
    BY <1>1 DEF PendingMap, OnLevel, N, n
  <2>3. /\ PendingMap(es, ts) = [k \in 0 .. MaxLevel |-> PendingMap(es, ts)[k]]
        /\ PendingMap(ds, cs) = [k \in 0 .. MaxLevel |-> PendingMap(ds, cs)[k]]
    BY DEF PendingMap
  <2>4. PendingMap(ds, cs)[n - 1] = OnLevel(d, cs)
    BY <1>1, <1>5, <2>2 DEF d
  <2>5. \A k \in 0 .. MaxLevel :
          PendingMap(es, ts)[k] = IF k = n - 1 THEN PendingMap(ds, cs)[n - 1] \ {id} ELSE PendingMap(ds, cs)[k]
    BY ONLY <2>1, <2>2, <2>4, Zenon
  <2> QED BY <2>3, <2>5, FunctionChanged
<1> QED BY <1>10, <1>11, <1>12, <1>13, Zenon DEF PoppedMaps, n, id, N, C

LEMMA MapsResulted ==
  ASSUME NEW c, NEW d, NEW id, NEW stored, Resulted(c, d, id, stored)
  PROVE  AncMap(d) = AncMap(c) /\ CreatedMap(d) = CreatedMap(c)
<1>1. \A e : Ancestors(d, e) = Ancestors(c, e)
  BY DEF Resulted, Ancestors
<1>2. \A e \in AllIds : (IF e \in Ids(d) THEN d.entry[e].created ELSE 0) = IF e \in Ids(c) THEN c.entry[e].created ELSE 0
  BY DEF Resulted
<1> QED BY <1>1, <1>2, Zenon DEF AncMap, CreatedMap

LEMMA MapsCleared ==
  ASSUME NEW K, NEW L \in Nat, NEW c \in Caches(K, L), L <= MaxIds, NEW O, Rooted(c, O),
         NEW d, NEW x, NEW t, Cleared(c, d, x, t)
  PROVE  LET gone == Gone(c, x, t)
         IN  /\ Live(d) = Live(c) \ gone /\ Confirmed(d) = Confirmed(c) \ gone /\ d.clock = c.clock
             /\ AncMap(d) = [e \in AllIds |-> IF e \in gone THEN {} ELSE AncMap(c)[e]]
             /\ CreatedMap(d) = CreatedMap(c)
<1>1. Fathers(c, O)
  BY AncestorsAre
<1>2. \A e \in Live(c) : \A a \in Ancestors(c, e) : a \in Live(c)
  BY <1>1, Zenon DEF Fathers
<1>3. Live(c) \subseteq Ids(c) /\ Live(c) \subseteq AllIds
  <2>1. Live(c) \subseteq 1 .. L /\ Ids(c) = 1 .. L
    BY LiveIs, CacheIds, Zenon
  <2> QED BY <2>1, BoundsAssumption DEF AllIds
<1>4. \A e \in Live(c) : AncMap(c)[e] = Ancestors(c, e) /\ CreatedMap(c)[e] = c.entry[e].created
  BY <1>3 DEF AncMap, CreatedMap
<1>5. ASSUME NEW e \in Live(c) PROVE HangsIn(AncMap(c), CreatedMap(c), x, t, e) <=> Hangs(c, x, t, e)
  <2>1. AncMap(c)[e] \cup {e} = Ancestors(c, e) \cup {e} /\ \A k \in Ancestors(c, e) \cup {e} : k \in Live(c)
    BY <1>2, <1>4
  <2>2. ASSUME NEW k \in Ancestors(c, e) \cup {e}
        PROVE  /\ CreatedMap(c)[k] = c.entry[k].created
               /\ (x \in AncMap(c)[k] /\ ~ \E b \in AncMap(c)[k] : x \in AncMap(c)[b]) <=> ChildIn(c, x, k)
    <3>1. k \in Live(c) /\ AncMap(c)[k] = Ancestors(c, k) /\ \A b \in Ancestors(c, k) : AncMap(c)[b] = Ancestors(c, b)
      BY <1>2, <1>4, <2>1
    <3> QED BY <1>4, <3>1 DEF ChildIn
  <2> QED BY <2>1, <2>2, Zenon DEF HangsIn, Hangs
<1>6. Gone(c, x, t) = {e \in Live(c) : Hangs(c, x, t, e)}
  BY <1>5 DEF Gone
<1>7. /\ Live(d) = Live(c) \ Gone(c, x, t) /\ Confirmed(d) = Confirmed(c) \ Gone(c, x, t) /\ d.clock = c.clock
      /\ \A e \in Live(d) : Ancestors(d, e) = Ancestors(c, e)
      /\ Ids(d) = Ids(c) /\ \A e \in Ids(c) : d.entry[e].created = c.entry[e].created
  BY <1>6, Zenon DEF Cleared
<1>8. \A e : Ancestors(d, e) = IF e \in Gone(c, x, t) THEN {} ELSE Ancestors(c, e)
  BY <1>7 DEF Ancestors
<1>9. AncMap(d) = [e \in AllIds |-> IF e \in Gone(c, x, t) THEN {} ELSE AncMap(c)[e]]
  BY <1>8 DEF AncMap
<1>10. CreatedMap(d) = CreatedMap(c)
  BY <1>7 DEF CreatedMap
<1> QED BY <1>7, <1>9, <1>10

LEMMA MapsRegrown ==
  ASSUME NEW K, NEW L \in Nat, NEW c \in Caches(K, L), L <= MaxIds, NEW O, Rooted(c, O),
         NEW M \in Nat, NEW d \in Caches(K, M), M <= MaxIds, NEW S, NEW p, Regrown(c, d, S, p)
  PROVE  LET E == Confirmed(c) \ (Live(d) \ S)
         IN  /\ S = {e \in Live(d) : d.entry[e].created >= c.clock}
             /\ S \cap (Live(c) \ E) = {} /\ Live(d) = (Live(c) \ E) \cup S
             /\ Confirmed(d) = Confirmed(c) \ E
             /\ AncMap(d) = [e \in AllIds |-> IF e \in S THEN (AncMap(c)[p] \cup {p}) \ E
                                              ELSE IF e \in E THEN {} ELSE AncMap(c)[e] \ E]
             /\ CreatedMap(d) = [e \in AllIds |-> IF e \in S THEN d.entry[e].created ELSE CreatedMap(c)[e]]
<1> DEFINE old == Live(d) \ S
           E == Confirmed(c) \ old
<1>1. /\ S \subseteq Live(d) /\ old \subseteq Live(c) /\ p \in old
      /\ Live(c) \ old \subseteq Confirmed(c) /\ Confirmed(d) = Confirmed(c) \cap old
      /\ \A e \in old : Ancestors(d, e) = Ancestors(c, e) \cap old
      /\ \A e \in S : Ancestors(d, e) = (Ancestors(c, p) \cup {p}) \cap old
      /\ \A e \in S : d.entry[e].created >= c.clock
      /\ Ids(d) = Ids(c) \cup S /\ \A e \in Ids(c) \ S : d.entry[e].created = c.entry[e].created
  BY Zenon DEF Regrown
<1>2. Live(d) = old \cup S /\ S \cap old = {} /\ Confirmed(c) \subseteq Live(c) /\ old \subseteq Live(d)
  BY <1>1 DEF Confirmed
<1>3. /\ Live(c) \subseteq Ids(c) /\ Live(c) \subseteq AllIds /\ Live(d) \subseteq AllIds
      /\ Ids(c) \subseteq AllIds /\ Ids(d) \subseteq AllIds
  <2>1. Live(c) \subseteq 1 .. L /\ Ids(c) = 1 .. L /\ Live(d) \subseteq 1 .. M /\ Ids(d) = 1 .. M
    BY LiveIs, CacheIds, Zenon
  <2> QED BY <2>1, BoundsAssumption DEF AllIds
<1>4. Fathers(c, O)
  BY AncestorsAre
<1>5. \A e \in Live(c) : Ancestors(c, e) \subseteq Live(c)
  BY <1>4 DEF Fathers
<1>6. \A e \in old : ~ (d.entry[e].created >= c.clock)
  <2>1. \A e \in Live(c) : c.entry[e].created < c.clock /\ c.entry[e].created \in Nat
    <3>1. Live(c) \subseteq 1 .. L
      BY LiveIs, Zenon
    <3>2. \A e \in Live(c) : c.entry[e].created \in Nat
      BY <3>1 DEF Caches, Entries
    <3>3. \A e \in Live(c) : c.entry[e].created < c.clock
      BY DEF Rooted
    <3> QED BY <3>2, <3>3
  <2>2. \A e \in old : e \in Ids(c) \ S /\ e \in Live(c)
    BY <1>1, <1>2, <1>3
  <2>3. c.clock \in Nat
    BY DEF Caches
  <2>4. ASSUME NEW q \in Nat, q < c.clock PROVE ~ (q >= c.clock)
    BY <2>3, <2>4
  <2> HIDE DEF old
  <2>5. \A e \in old : d.entry[e].created = c.entry[e].created
    BY <1>1, <2>2
  <2> QED BY <2>1, <2>2, <2>4, <2>5
<1> HIDE DEF old
<1>7. S = {e \in Live(d) : d.entry[e].created >= c.clock}
  BY <1>1, <1>2, <1>6
<1>8. S \cap (Live(c) \ E) = {} /\ Live(d) = (Live(c) \ E) \cup S /\ Confirmed(d) = Confirmed(c) \ E
  BY <1>1, <1>2
<1>9. ASSUME NEW e \in AllIds
      PROVE  Ancestors(d, e) = IF e \in S THEN (Ancestors(c, p) \cup {p}) \ E
                               ELSE IF e \in E THEN {} ELSE Ancestors(c, e) \ E
  <2>1. CASE e \in S
    <3>1. (Ancestors(c, p) \cup {p}) \subseteq Live(c)
      BY <1>1, <1>5
    <3> QED BY <1>1, <2>1, <3>1
  <2>2. CASE e \in old
    <3>1. e \notin S /\ e \notin E /\ Ancestors(c, e) \subseteq Live(c)
      BY <1>1, <1>2, <1>5, <2>2
    <3> QED BY <1>1, <2>2, <3>1
  <2>3. CASE e \notin Live(d)
    <3>1. Ancestors(d, e) = {} /\ e \notin S
      BY <1>1, <2>3 DEF Ancestors
    <3>2. e \notin E => e \notin Live(c)
      BY <1>1, <1>2, <2>3
    <3>3. e \notin Live(c) => Ancestors(c, e) = {}
      BY DEF Ancestors
    <3> QED BY <3>1, <3>2, <3>3
  <2> QED BY <1>2, <2>1, <2>2, <2>3
<1> HIDE DEF E
<1>10. AncMap(d) = [e \in AllIds |-> IF e \in S THEN (AncMap(c)[p] \cup {p}) \ E
                                     ELSE IF e \in E THEN {} ELSE AncMap(c)[e] \ E]
  <2>1. p \in AllIds
    BY <1>1, <1>3
  <2> QED BY <1>9, <2>1 DEF AncMap
<1>11. CreatedMap(d) = [e \in AllIds |-> IF e \in S THEN d.entry[e].created ELSE CreatedMap(c)[e]]
  <2>1. \A e \in AllIds : (IF e \in Ids(d) THEN d.entry[e].created ELSE 0) =
                            IF e \in S THEN d.entry[e].created ELSE IF e \in Ids(c) THEN c.entry[e].created ELSE 0
    BY <1>1
  <2> QED BY <2>1 DEF CreatedMap
<1> QED BY <1>7, <1>8, <1>10, <1>11 DEF E, old

(* The bounds of the model, which the tree has as its constants.           *)
Confined == comps[1].id = 1 /\ Len(decisions) <= MaxLevel + 1 /\ Len(cache.entry) <= MaxIds

LEMMA LevelFacts ==
  ASSUME Control, Confined
  PROVE  /\ decisions \in Seq(Decisions) /\ Owned(decisions, comps) /\ Len(decisions) \in 1 .. MaxLevel + 1
         /\ Depth = Len(decisions) - 1 /\ Depth \in 0 .. MaxLevel /\ MaxLevel \in Nat
<1>1. decisions \in Seq(Decisions) /\ Len(decisions) \in Nat /\ Len(decisions) >= 1
  BY TypedFacts DEF Control, Typed
<1>2. Owned(decisions, comps)
  BY DEF Control, Stretches
<1>3. MaxLevel \in Nat
  BY BoundsAssumption
<1> QED BY <1>1, <1>2, <1>3 DEF Confined, Depth

(* Only the decision at the top changes, and what the tree sees of it does *)
(* not.                                                                    *)
LEMMA StillTree ==
  ASSUME Control, Confined, cache' = cache, comps' = comps, NEW d \in Decisions, decisions' = SetTop(d),
         d.base = TopDecision.base, d.top = TopDecision.top, d.split = TopDecision.split,
         d.second = TopDecision.second
  PROVE  UNCHANGED Tree!vars /\ Confined'
<1> DEFINE N == Len(decisions)
           n == N - 1
<1>1. /\ decisions \in Seq(Decisions) /\ Owned(decisions, comps) /\ N \in 1 .. MaxLevel + 1
  BY LevelFacts
<1>2. N >= 1 /\ TopDecision = decisions[N] /\ N \in Nat
  BY TypedFacts DEF Control
<1>3. /\ decisions' \in Seq(Decisions) /\ Len(decisions') = N /\ decisions'[N] = d
      /\ \A k \in 1 .. N - 1 : decisions'[k] = decisions[k]
  BY <1>1, <1>2, ReplacedTop
<1>4. decisions'[N].base = decisions[N].base /\ \A i \in 1 .. decisions[N].base : comps[i] = comps[i]
  BY <1>2, <1>3
<1>5. /\ SuperMap(decisions', comps) = SuperMap(decisions, comps)
      /\ SplitMap(decisions') = [SplitMap(decisions) EXCEPT ![n] = d.split]
      /\ SecondMap(decisions') = [SecondMap(decisions) EXCEPT ![n] = d.second]
      /\ PendingMap(decisions', comps) = [PendingMap(decisions, comps) EXCEPT ![n] = OnLevel(d, comps)]
  <2>1. /\ SuperMap(decisions', comps) = SuperMap(decisions, comps)
        /\ SplitMap(decisions') = [SplitMap(decisions) EXCEPT ![n] = decisions'[N].split]
        /\ SecondMap(decisions') = [SecondMap(decisions) EXCEPT ![n] = decisions'[N].second]
        /\ PendingMap(decisions', comps) = [PendingMap(decisions, comps) EXCEPT ![n] = OnLevel(decisions'[N], comps)]
    <3>1. TopMaps(decisions, comps, decisions', comps)
      BY ONLY <1>1, <1>3, <1>4, MapsTop
    <3> QED BY <3>1, Zenon DEF TopMaps
  <2> QED BY ONLY <1>3, <2>1, Zenon
<1>6. /\ n \in 0 .. MaxLevel /\ SplitMap(decisions)[n] = d.split /\ SecondMap(decisions)[n] = d.second
      /\ PendingMap(decisions, comps)[n] = OnLevel(TopDecision, comps)
  BY <1>1, <1>2, MapsAt
<1>7. OnLevel(d, comps) = OnLevel(TopDecision, comps)
  BY DEF OnLevel
<1>8. /\ [SplitMap(decisions) EXCEPT ![n] = d.split] = SplitMap(decisions)
      /\ [SecondMap(decisions) EXCEPT ![n] = d.second] = SecondMap(decisions)
  BY <1>6 DEF SplitMap, SecondMap
<1>9. [PendingMap(decisions, comps) EXCEPT ![n] = OnLevel(d, comps)] = PendingMap(decisions, comps)
  BY <1>6, <1>7 DEF PendingMap
<1>10. UNCHANGED Tree!vars
  BY <1>3, <1>5, <1>8, <1>9, TreeQuiet, Zenon
<1>11. Confined'
  BY <1>3 DEF Confined
<1> QED BY <1>10, <1>11

LEMMA QuietTree ==
  ASSUME Control, Confined,
         \/ ConflictAtEntry \/ StartExists \/ ExistsDone \/ BacktrackRoot \/ BacktrackEntry
         \/ Signal \/ Interrupt \/ Done \/ UNCHANGED vars \/ Conflict \/ ExistsFalse \/ SimplifyFails
  PROVE  UNCHANGED Tree!vars /\ Confined'
<1>1. cache' = cache /\ comps' = comps
      /\ (decisions' = decisions \/ decisions' = SetTop(MarkBranchUnsat(TopDecision)))
  BY DEF ConflictAtEntry, StartExists, ExistsDone, BacktrackRoot, BacktrackEntry, Signal, Interrupt, Done, vars,
         Conflict, ExistsFalse, SimplifyFails
<1>2. CASE decisions' = decisions
  <2>1. UNCHANGED Tree!vars
    BY <1>1, <1>2, TreeQuiet, Zenon
  <2> QED BY <1>1, <1>2, <2>1 DEF Confined
<1>3. CASE decisions' = SetTop(MarkBranchUnsat(TopDecision))
  <2>1. TopDecision \in Decisions
    BY TypedFacts DEF Control
  <2>2. /\ MarkBranchUnsat(TopDecision) \in Decisions
        /\ MarkBranchUnsat(TopDecision).base = TopDecision.base
        /\ MarkBranchUnsat(TopDecision).top = TopDecision.top
        /\ MarkBranchUnsat(TopDecision).split = TopDecision.split
        /\ MarkBranchUnsat(TopDecision).second = TopDecision.second
    BY <2>1, DecisionOps
  <2> QED BY <1>1, <1>3, <2>2, StillTree, Zenon
<1> QED BY <1>1, <1>2, <1>3

LEMMA FlipTree ==
  ASSUME Control, Confined, FlipBranch
  PROVE  Tree!ChangeBranch /\ Confined'
<1> DEFINE N == Len(decisions)
           n == N - 1
<1>1. /\ decisions \in Seq(Decisions) /\ Owned(decisions, comps) /\ N \in 1 .. MaxLevel + 1 /\ Depth = n
  BY LevelFacts
<1>2. N >= 1 /\ TopDecision = decisions[N] /\ N \in Nat /\ TopDecision \in Decisions
  BY TypedFacts DEF Control
<1>3. PICK weight \in BranchWeights : decisions' = SetTop(ChangeBranch(Weigh(TopDecision, weight)))
  BY DEF FlipBranch
<1>4. /\ cache' = cache /\ comps' = comps /\ N > 1 /\ ~ TopDecision.second /\ ~ HasUnprocessedComp(TopDecision)
  BY DEF FlipBranch, Backtracking, ToFlip, Control, Stretches
<1> DEFINE w == Weigh(TopDecision, weight)
           d == ChangeBranch(w)
<1>5. w \in Decisions /\ w.base = TopDecision.base /\ w.top = TopDecision.top
  BY <1>2, WeighIs
<1> HIDE DEF w
<1>6. d \in Decisions /\ d.base = w.base /\ d.top = w.top /\ d.second = TRUE /\ d.split = NoSplit
  BY <1>5, DecisionOps DEF ChangeBranch, Decisions
<1>7. decisions' = SetTop(d)
  BY <1>3 DEF w
<1> HIDE DEF d
<1>8. /\ decisions' \in Seq(Decisions) /\ Len(decisions') = N /\ decisions'[N] = d
      /\ \A k \in 1 .. N - 1 : decisions'[k] = decisions[k]
  BY <1>1, <1>2, <1>6, <1>7, ReplacedTop
<1>9. decisions'[N].base = decisions[N].base /\ \A i \in 1 .. decisions[N].base : comps[i] = comps[i]
  BY <1>2, <1>5, <1>6, <1>8
<1>10. /\ SuperMap(decisions', comps) = SuperMap(decisions, comps)
       /\ SplitMap(decisions') = [SplitMap(decisions) EXCEPT ![n] = decisions'[N].split]
       /\ SecondMap(decisions') = [SecondMap(decisions) EXCEPT ![n] = decisions'[N].second]
       /\ PendingMap(decisions', comps) = [PendingMap(decisions, comps) EXCEPT ![n] = OnLevel(decisions'[N], comps)]
  <2>1. TopMaps(decisions, comps, decisions', comps)
    BY ONLY <1>1, <1>8, <1>9, MapsTop
  <2> QED BY <2>1, Zenon DEF TopMaps
<1>11. /\ n \in 0 .. MaxLevel /\ SecondMap(decisions)[n] = TopDecision.second
       /\ PendingMap(decisions, comps)[n] = OnLevel(TopDecision, comps)
  BY <1>1, <1>2, MapsAt
<1>12. OnLevel(TopDecision, comps) = {} /\ OnLevel(d, comps) = {}
  <2>1. TopDecision.base \in Nat /\ TopDecision.top \in Nat /\ ~ (TopDecision.base < TopDecision.top)
    BY <1>2, <1>4, DecisionOps DEF HasUnprocessedComp
  <2>2. TopDecision.base + 1 .. TopDecision.top = {}
    BY <2>1
  <2> QED BY <1>5, <1>6, <2>2 DEF OnLevel
<1>13. PendingMap(decisions', comps) = PendingMap(decisions, comps)
  <2>1. PendingMap(decisions', comps) = [PendingMap(decisions, comps) EXCEPT ![n] = {}]
    BY <1>8, <1>10, <1>12
  <2>2. [PendingMap(decisions, comps) EXCEPT ![n] = {}] = PendingMap(decisions, comps)
    BY <1>11, <1>12 DEF PendingMap
  <2> QED BY <2>1, <2>2
<1>14. Depth > 0 /\ ~ SecondMap(decisions)[Depth] /\ PendingMap(decisions, comps)[Depth] = {}
  BY <1>1, <1>2, <1>4, <1>11, <1>12
<1>15. /\ SecondMap(decisions') = [SecondMap(decisions) EXCEPT ![Depth] = TRUE]
       /\ SplitMap(decisions') = [SplitMap(decisions) EXCEPT ![Depth] = NoSplit]
  BY <1>1, <1>6, <1>8, <1>10
<1>16. Tree!ChangeBranch
  BY <1>4, <1>8, <1>10, <1>13, <1>14, <1>15, TreeFlip, Zenon
<1>17. Confined'
  BY <1>4, <1>8 DEF Confined
<1> QED BY <1>16, <1>17

LEMMA DecideTree ==
  ASSUME Control, Confined, Decide
  PROVE  Tree!PushDecision(Last(comps).id) /\ Confined'
<1> DEFINE N == Len(decisions)
           C == Len(comps)
           d == NewDecision(C)
<1>1. /\ decisions \in Seq(Decisions) /\ Owned(decisions, comps) /\ N \in 1 .. MaxLevel + 1 /\ Depth = N - 1
      /\ MaxLevel \in Nat
  BY LevelFacts
<1>2. /\ N >= 1 /\ TopDecision = decisions[N] /\ N \in Nat /\ TopDecision \in Decisions /\ C \in Nat
      /\ Last(comps) = comps[C] /\ TopDecision.top = C
  BY TypedFacts DEF Control
<1>3. /\ decisions' = Append(decisions, d) /\ cache' = cache /\ comps' = comps /\ N <= MaxLevel
      /\ HasUnprocessedComp(TopDecision)
  BY DEF Decide, Control, Stretches
<1>4. d \in Decisions
  BY <1>2, NewDecisionType
<1> HIDE DEF d
<1>5. Len(decisions') = N + 1 /\ decisions'[N + 1] = d /\ \A k \in 1 .. N : decisions'[k] = decisions[k]
  BY <1>1, <1>3, <1>4, AppendIs
<1>6. N \in 1 .. MaxLevel
  BY <1>1, <1>3
<1>7. /\ SuperMap(decisions', comps) = [SuperMap(decisions, comps) EXCEPT ![N - 1 + 1] = comps[C].id]
      /\ SplitMap(decisions') = SplitMap(decisions) /\ SecondMap(decisions') = SecondMap(decisions)
      /\ PendingMap(decisions', comps) = PendingMap(decisions, comps)
  BY ONLY <1>1, <1>2, <1>5, <1>6, MapsPush DEF d
<1>8. comps[C].id \in PendingMap(decisions, comps)[Depth]
  <2>1. PendingMap(decisions, comps)[N - 1] = OnLevel(TopDecision, comps)
    BY <1>1, <1>2, MapsAt
  <2>2. TopDecision.base \in Nat /\ TopDecision.base < C
    BY <1>2, <1>3, DecisionOps DEF HasUnprocessedComp
  <2>3. C \in TopDecision.base + 1 .. TopDecision.top
    BY <1>2, <2>2
  <2> QED BY <1>1, <2>1, <2>3 DEF OnLevel
<1>9. Depth < MaxLevel /\ Len(decisions') - 1 = Len(decisions) - 1 + 1
  BY <1>1, <1>6, <1>5
<1>10. /\ SuperMap(decisions', comps') = [SuperMap(decisions, comps) EXCEPT ![Depth + 1] = Last(comps).id]
       /\ Last(comps).id \in PendingMap(decisions, comps)[Depth]
       /\ PendingMap(decisions', comps') = PendingMap(decisions, comps)
  BY <1>1, <1>2, <1>3, <1>7, <1>8, Zenon
<1>11. Tree!PushDecision(Last(comps).id)
  BY ONLY <1>3, <1>7, <1>9, <1>10, TreePush
<1>12. Confined'
  BY <1>1, <1>2, <1>3, <1>5, <1>6 DEF Confined
<1> QED BY <1>11, <1>12

(* The component at the top of the stack leaves it.                        *)
LEMMA PopResults ==
  ASSUME Control, Structure,
         NEW stored \in {Store(cache, Last(comps).id), StoreZero(cache, Last(comps).id), cache}, InBounds(stored), cache' = PopComponent(stored)
  PROVE  /\ Resulted(cache, cache', Last(comps).id, stored) /\ cache'.clock < NoSplit
         /\ Len(cache'.entry) = Len(cache.entry) /\ Last(comps).id \in Open(cache)
<1> DEFINE K == KeysOf(input)
           L == Len(cache.entry)
           n == Len(comps)
           id == Last(comps).id
           O == Roots(comps)
           d == SetDeletePermitted(stored, id, TRUE)
<1>1. /\ L \in Nat /\ cache \in Caches(K, L) /\ n \in Nat /\ n >= 1 /\ id \in 1 .. L /\ id = comps[n].id
      /\ input \in DOMAIN Inputs
  BY TypedFacts DEF Control, Typed
<1>2. Hashed(K)
  BY <1>1, InputFacts
<1>3. Rooted(cache, O) /\ Guarded(cache, OnStack(comps))
  BY DEF Structure, Shape, Woven
<1>4. id \in Open(cache)
  <2>1. id \in OnStack(comps)
    BY <1>1 DEF OnStack
  <2> HIDE DEF id
  <2> QED BY <1>3, <2>1 DEF Guarded, Open, Confirmed
<1>5. cache' = d
  BY DEF PopComponent
<1> HIDE DEF K, L, n, O
<1>6. Resulted(cache, d, id, stored) /\ d.clock = stored.clock
  BY ONLY <1>1, <1>2, <1>3, <1>4, stored \in {Store(cache, id), StoreZero(cache, id), cache}, FinishResults
<1>7. stored \in Caches(K, L) /\ d \in Caches(K, L)
  <2>1. Store(cache, id) \in Caches(K, L) /\ StoreZero(cache, id) \in Caches(K, L)
    BY <1>1, <1>2, StoreType, Zenon
  <2>2. stored \in Caches(K, L) /\ TRUE \in BOOLEAN
    BY <1>1, <2>1
  <2> QED BY <1>1, <2>2, SetDeleteType, Zenon
<1> HIDE DEF d
<1>8. Len(d.entry) = L
  BY <1>1, <1>7, CacheIds, Zenon
<1> QED BY <1>4, <1>5, <1>6, <1>8 DEF L, id, InBounds

(* Every component on the stack has an entry of its own.                   *)
LEMMA TopApart ==
  ASSUME Control, Structure
  PROVE  \A i \in 1 .. Len(comps) - 1 : comps[i].id # comps[Len(comps)].id
<1> DEFINE L == Len(cache.entry)
           n == Len(comps)
<1>1. /\ L \in Nat /\ cache \in Caches(KeysOf(input), L) /\ n \in Nat /\ n >= 1
      /\ \A i \in 1 .. n : comps[i].id \in 1 .. L
  BY TypedFacts DEF Control
<1>2. Climbs(cache, comps)
  BY DEF Structure, Shape
<1>3. \A e \in 1 .. L : cache.entry[e].created \in Nat
  BY <1>1 DEF Caches, Entries
<1>4. ASSUME NEW i \in 1 .. n - 1, comps[i].id = comps[n].id PROVE FALSE
  <2>1. i \in 1 .. n /\ n \in 1 .. n /\ i < n
    BY <1>1
  <2>2. cache.entry[comps[i].id].created < cache.entry[comps[n].id].created
    BY <1>2, <2>1 DEF Climbs
  <2>3. cache.entry[comps[n].id].created \in Nat
    BY <1>1, <1>3, <2>1
  <2>4. ASSUME NEW q \in Nat PROVE ~ (q < q)
    OBVIOUS
  <2> QED BY <1>4, <2>2, <2>3, <2>4
<1> QED BY <1>4

LEMMA LevelPopped ==
  ASSUME NEW cs, NEW ts, Len(cs) \in Nat, NEW b \in Nat, b < Len(cs), NEW d, NEW e,
         d.base = b, d.top = Len(cs), e.base = b, e.top = Len(cs) - 1,
         \A i \in 1 .. Len(cs) - 1 : ts[i] = cs[i] /\ cs[i].id # cs[Len(cs)].id
  PROVE  OnLevel(e, ts) = OnLevel(d, cs) \ {cs[Len(cs)].id}
<1> DEFINE C == Len(cs)
<1>1. \A i \in b + 1 .. C : i = C \/ i \in b + 1 .. C - 1
  OBVIOUS
<1>2. \A i \in b + 1 .. C - 1 : i \in b + 1 .. C /\ i \in 1 .. C - 1
  OBVIOUS
<1>3. OnLevel(e, ts) = {cs[i].id : i \in b + 1 .. C - 1}
  BY <1>2 DEF OnLevel
<1>4. OnLevel(d, cs) = {cs[i].id : i \in b + 1 .. C}
  BY DEF OnLevel
<1> HIDE DEF C
<1> QED BY <1>1, <1>2, <1>3, <1>4, SMTT(30) DEF C

LEMMA ExistsTrueTree ==
  ASSUME Control, Structure, Confined, ExistsTrue
  PROVE  Tree!ConfirmSatisfiable(Last(comps).id) /\ Confined'
<1> DEFINE N == Len(decisions)
           C == Len(comps)
           n == N - 1
           id == Last(comps).id
           d == TopDecision
           m == IncreaseModels(d, "some")
           e == NextComp(m)
           stored == Store(cache, id)
<1>1. /\ decisions \in Seq(Decisions) /\ Owned(decisions, comps) /\ N \in 1 .. MaxLevel + 1 /\ Depth = n
      /\ n \in 0 .. MaxLevel
  BY LevelFacts
<1>2. /\ N >= 1 /\ d = decisions[N] /\ N \in Nat /\ d \in Decisions /\ C \in Nat /\ C >= 1
      /\ Last(comps) = comps[C] /\ d.top = C /\ comps # <<>> /\ 1 <= d.base
  BY TypedFacts DEF Control
<1>3. /\ cache' = PopComponent(stored) /\ comps' = Front(comps) /\ InBounds(stored)
      /\ decisions' = SetTop(e) /\ HasUnprocessedComp(d)
  BY DEF ExistsTrue, Answered, Unprojected
<1>4. m \in Decisions /\ m.base = d.base /\ m.top = d.top /\ m.split = d.split /\ m.second = d.second
  BY <1>2, IncreaseType, IncreaseKeeps, Zenon
<1>5. d.base \in Nat /\ d.base < C /\ m.top # 0 /\ C > 1
  BY <1>2, <1>3, <1>4, DecisionOps DEF HasUnprocessedComp
<1> HIDE DEF m
<1>6. e \in Decisions /\ e.base = d.base /\ e.split = d.split /\ e.second = d.second /\ e.top = C - 1
  BY <1>2, <1>4, <1>5, NextCompType
<1> HIDE DEF e
<1>7. /\ decisions' \in Seq(Decisions) /\ Len(decisions') = N /\ decisions'[N] = e
      /\ \A k \in 1 .. N - 1 : decisions'[k] = decisions[k]
  BY <1>1, <1>2, <1>3, <1>6, ReplacedTop
<1>8. \A i \in 1 .. C - 1 : comps'[i] = comps[i]
  <2>1. comps \in Seq([id : Ids(cache), comp : CompsOf(input)])
    BY DEF Control, Typed
  <2>2. \A i \in 1 .. C - 1 : Front(comps)[i] = comps[i]
    BY <1>2, <2>1, FrontIs, Zenon
  <2> QED BY <1>3, <2>2
<1>9. Resulted(cache, cache', id, stored) /\ cache'.clock < NoSplit /\ Len(cache'.entry) = Len(cache.entry)
  <2>1. stored \in {Store(cache, id), StoreZero(cache, id), cache}
    OBVIOUS
  <2> QED BY ONLY <1>3, <2>1, PopResults, Control, Structure
<1>10. TopMaps(decisions, comps, decisions', comps')
  <2>1. \A i \in 1 .. decisions[N].base : comps'[i] = comps[i]
    BY <1>2, <1>5, <1>8
  <2>2. decisions'[N].base = decisions[N].base
    BY <1>2, <1>6, <1>7
  <2> QED BY ONLY <1>1, <1>7, <2>1, <2>2, MapsTop
<1>11. /\ SuperMap(decisions', comps') = SuperMap(decisions, comps)
       /\ SplitMap(decisions') = [SplitMap(decisions) EXCEPT ![n] = e.split]
       /\ SecondMap(decisions') = [SecondMap(decisions) EXCEPT ![n] = e.second]
       /\ PendingMap(decisions', comps') = [PendingMap(decisions, comps) EXCEPT ![n] = OnLevel(e, comps')]
  BY <1>7, <1>10 DEF TopMaps
<1>12. /\ SplitMap(decisions)[n] = e.split /\ SecondMap(decisions)[n] = e.second
       /\ PendingMap(decisions, comps)[n] = OnLevel(d, comps)
  BY <1>1, <1>2, <1>6, MapsAt
<1>13. /\ SplitMap(decisions') = SplitMap(decisions) /\ SecondMap(decisions') = SecondMap(decisions)
  BY <1>1, <1>11, <1>12 DEF SplitMap, SecondMap
<1>14. OnLevel(e, comps') = PendingMap(decisions, comps)[n] \ {id}
  <2>1. OnLevel(e, comps') = OnLevel(d, comps) \ {comps[C].id}
    <3>1. \A i \in 1 .. C - 1 : comps'[i] = comps[i] /\ comps[i].id # comps[C].id
      BY <1>8, TopApart
    <3> QED BY ONLY <1>2, <1>5, <1>6, <3>1, LevelPopped, SMTT(30)
  <2> QED BY <1>2, <1>12, <2>1
<1>15. PendingMap(decisions', comps') = [PendingMap(decisions, comps) EXCEPT ![n] = @ \ {id}]
  BY <1>11, <1>14
<1>16. id \in PendingMap(decisions, comps)[Depth]
  <2>1. C \in d.base + 1 .. d.top
    BY <1>2, <1>5
  <2> QED BY <1>1, <1>2, <1>12, <2>1 DEF OnLevel
<1>17. /\ Live(cache') = Live(cache) /\ Confirmed(cache') = Confirmed(cache) \cup {id}
       /\ cache'.clock = cache.clock + 1 /\ AncMap(cache') = AncMap(cache) /\ CreatedMap(cache') = CreatedMap(cache)
  BY <1>9, MapsResulted DEF Resulted
<1>18. cache.clock < NoSplit
  <2>1. cache.clock \in Nat /\ NoSplit \in Nat
    BY TypedFacts, BoundsAssumption DEF Control, Caches
  <2> QED BY <1>9, <1>17, <2>1
<1>19. Tree!ConfirmSatisfiable(id)
  BY <1>1, <1>7, <1>11, <1>13, <1>15, <1>16, <1>17, <1>18, TreeConfirm, Zenon
<1>20. Confined'
  <2>1. comps'[1] = comps[1]
    BY <1>2, <1>5, <1>8
  <2> QED BY <1>7, <1>9, <2>1 DEF Confined
<1> QED BY <1>19, <1>20

LEMMA FinishTree ==
  ASSUME Control, Structure, Confined, FinishLevel
  PROVE  (\E stored \in BOOLEAN : Tree!PopDecision(stored)) /\ Confined'
<1> DEFINE N == Len(decisions)
           C == Len(comps)
           n == N - 1
           d == decisions[N - 1]
           id == Last(comps).id
<1>1. /\ decisions \in Seq(Decisions) /\ Owned(decisions, comps) /\ N \in 1 .. MaxLevel + 1 /\ Depth = n
      /\ n \in 0 .. MaxLevel /\ MaxLevel \in Nat
  BY LevelFacts
<1>2. /\ N \in Nat /\ N >= 1 /\ TopDecision = decisions[N] /\ TopDecision \in Decisions /\ C \in Nat /\ C >= 1
      /\ TopDecision.base <= C /\ TopDecision.top = C /\ Last(comps) = comps[C] /\ comps # <<>>
      /\ \A k \in 1 .. N : decisions[k] \in Decisions
  BY TypedFacts DEF Control
<1>3. PICK val \in Counts : Finished(val)
  BY FinishIs
<1>4. pc = "backtrack" /\ N > 1 /\ ~ AtEntry
  BY FinishIs DEF Backtracking
<1>5. ~ HasUnprocessedComp(TopDecision)
  BY <1>4 DEF Control, Stretches
<1>6. N - 1 \in 1 .. N /\ N \in 1 .. N /\ N - 1 \in 1 .. N - 1 /\ d \in Decisions /\ N \in 2 .. MaxLevel + 1
  BY <1>1, <1>2, <1>4
<1>7. TopDecision.base = C /\ d.top = C /\ d.base \in Nat /\ d.base < C /\ 1 <= d.base
  <2>1. d.base \in Nat /\ d.top \in Nat /\ TopDecision.base \in Nat
    BY <1>2, <1>6, DecisionOps
  <2>2. d.base < d.top /\ decisions[(N - 1) + 1].base = d.top /\ 1 <= d.base
    BY <1>1, <1>6, Zenon DEF Owned
  <2>3. (N - 1) + 1 = N
    BY <1>2
  <2>4. TopDecision.base = C
    <3>1. ~ (TopDecision.base < C)
      BY <1>2, <1>5, Zenon DEF HasUnprocessedComp
    <3>2. ASSUME NEW p \in Nat, p <= C, ~ (p < C) PROVE p = C
      BY <1>2, <3>2
    <3> QED BY <1>2, <2>1, <3>1, <3>2, Zenon
  <2> QED BY <1>2, <2>1, <2>2, <2>3, <2>4
<1> DEFINE t == Told(val)
           e == NextComp(t)
<1>8. t \in Decisions /\ t.base = d.base /\ t.top = d.top /\ t.split = d.split /\ t.second = d.second
  BY <1>6, ToldIs
<1> HIDE DEF t, d
<1>9. e \in Decisions /\ e.base = d.base /\ e.split = d.split /\ e.second = d.second /\ e.top = C - 1
  <2>1. t.top # 0
    BY <1>2, <1>7, <1>8
  <2> QED BY <1>7, <1>8, <2>1, NextCompType
<1> HIDE DEF e
<1>10. decisions' = Append(SubSeq(decisions, 1, N - 2), e) /\ comps' = Front(comps)
  BY <1>3, Zenon DEF Finished, e, t
<1>11. PICK stored \in {Store(cache, id), StoreZero(cache, id), cache} :
         InBounds(stored) /\ cache' = PopComponent(stored)
  BY <1>3, Zenon DEF Finished
<1>12. Resulted(cache, cache', id, stored) /\ cache'.clock < NoSplit /\ Len(cache'.entry) = Len(cache.entry)
  BY ONLY <1>11, PopResults, Control, Structure
<1>13. /\ Len(decisions') = N - 1 /\ decisions'[N - 1] = e
       /\ \A k \in 1 .. N - 2 : decisions'[k] = decisions[k]
  <2> DEFINE p == SubSeq(decisions, 1, N - 2)
  <2>1. N - 2 \in 0 .. N
    BY <1>2, <1>4
  <2>2. p \in Seq(Decisions) /\ Len(p) = N - 2 /\ \A i \in 1 .. N - 2 : p[i] = decisions[i]
    BY <1>1, <2>1, PrefixIs, Zenon
  <2> HIDE DEF p
  <2>3. Len(decisions') = Len(p) + 1 /\ decisions'[Len(p) + 1] = e /\ \A k \in 1 .. Len(p) : decisions'[k] = p[k]
    BY <1>9, <1>10, <2>2, AppendIs DEF p
  <2>4. (N - 2) + 1 = N - 1
    BY <1>2
  <2> QED BY <2>2, <2>3, <2>4
<1>14. \A i \in 1 .. C - 1 : comps'[i] = comps[i]
  <2>1. comps \in Seq([id : Ids(cache), comp : CompsOf(input)])
    BY DEF Control, Typed
  <2>2. \A i \in 1 .. C - 1 : Front(comps)[i] = comps[i]
    BY <1>2, <2>1, FrontIs, Zenon
  <2> QED BY <1>10, <2>2
<1>15. /\ SuperMap(decisions', comps') = [SuperMap(decisions, comps) EXCEPT ![n] = 1]
       /\ SplitMap(decisions') = [SplitMap(decisions) EXCEPT ![n] = NoSplit]
       /\ SecondMap(decisions') = [SecondMap(decisions) EXCEPT ![n] = FALSE]
       /\ PendingMap(decisions', comps') = [PendingMap(decisions, comps) EXCEPT ![n - 1] = @ \ {comps[C].id}]
  <2>1. \A i \in 1 .. C - 1 : comps'[i] = comps[i] /\ comps[i].id # comps[C].id
    BY <1>14, TopApart
  <2>2. decisions[N].base = C
    BY <1>2, <1>7
  <2>3. PoppedMaps(decisions, comps, decisions', comps')
    BY ONLY <1>1, <1>2, <1>6, <1>9, <1>13, <2>1, <2>2, MapsPop DEF d
  <2> QED BY <2>3, Zenon DEF PoppedMaps
<1>16. SuperMap(decisions, comps)[n] = id /\ PendingMap(decisions, comps)[n] = {}
  <2>1. /\ SuperMap(decisions, comps)[n] = comps[TopDecision.base].id
        /\ PendingMap(decisions, comps)[n] = OnLevel(TopDecision, comps)
    BY <1>1, <1>2, MapsAt
  <2>2. C + 1 .. C = {}
    BY <1>2
  <2> QED BY <1>2, <1>7, <2>1, <2>2 DEF OnLevel
<1>17. /\ Live(cache') = Live(cache) /\ AncMap(cache') = AncMap(cache) /\ CreatedMap(cache') = CreatedMap(cache)
       /\ \/ Confirmed(cache') = Confirmed(cache) \cup {id} /\ cache'.clock = cache.clock + 1
          \/ Confirmed(cache') = Confirmed(cache) /\ cache'.clock = cache.clock
  BY <1>12, MapsResulted DEF Resulted
<1>18. cache'.clock <= NoSplit
  <2>1. cache.clock \in Nat /\ NoSplit \in Nat
    BY TypedFacts, BoundsAssumption DEF Control, Caches
  <2>2. cache'.clock \in Nat
    BY <1>17, <2>1
  <2> QED BY <1>12, <2>1, <2>2
<1>19. \E b \in BOOLEAN : Tree!PopDecision(b)
  <2>1. Depth > 0
    BY <1>1, <1>4
  <2> QED BY <1>1, <1>2, <1>13, <1>15, <1>16, <1>17, <1>18, <2>1, TreePop, Zenon
<1>20. Confined'
  <2>1. comps'[1] = comps[1]
    BY <1>2, <1>7, <1>14
  <2> QED BY <1>1, <1>2, <1>12, <1>13, <2>1 DEF Confined
<1> QED BY <1>19, <1>20

LEMMA CleanTree ==
  ASSUME Control, Structure, Structure', Confined, Clean
  PROVE  Tree!CleanBranch /\ Confined'
<1> DEFINE N == Len(decisions)
           n == N - 1
           d == TopDecision
           e == [d EXCEPT !.top = d.base]
           x == comps[d.base].id
           L == Len(cache.entry)
           G == LostNow
<1>1. /\ decisions \in Seq(Decisions) /\ Owned(decisions, comps) /\ N \in 1 .. MaxLevel + 1 /\ Depth = n
      /\ n \in 0 .. MaxLevel /\ MaxLevel \in Nat
  BY LevelFacts
<1>2. /\ N >= 1 /\ d = decisions[N] /\ N \in Nat /\ d \in Decisions /\ d.top = Len(comps)
      /\ L \in Nat /\ cache \in Caches(KeysOf(input), L) /\ 1 <= d.base /\ d.base <= Len(comps) /\ Len(comps) \in Nat
  BY TypedFacts DEF Control
<1>3. /\ comps' = SubSeq(comps, 1, d.base) /\ decisions' = SetTop(e)
  BY DEF Clean
<1>4. /\ e \in Decisions /\ e.base = d.base /\ e.split = d.split /\ e.second = d.second /\ e.top = d.base
      /\ d.base \in Nat
  BY <1>2 DEF Decisions
<1> HIDE DEF e
<1>5. /\ decisions' \in Seq(Decisions) /\ Len(decisions') = N /\ decisions'[N] = e
      /\ \A k \in 1 .. N - 1 : decisions'[k] = decisions[k]
  BY <1>1, <1>2, <1>3, <1>4, ReplacedTop
<1>6. \A i \in 1 .. d.base : comps'[i] = comps[i]
  <2>1. comps \in Seq([id : Ids(cache), comp : CompsOf(input)])
    BY DEF Control, Typed
  <2>2. d.base \in 0 .. Len(comps)
    BY <1>2, <1>4
  <2>3. \A i \in 1 .. d.base : SubSeq(comps, 1, d.base)[i] = comps[i]
    BY <2>1, <2>2, PrefixIs, Zenon
  <2> QED BY <1>3, <2>3
<1>7. Cleared(cache, cache', x, d.split)
  BY CleanClears
<1>8. Rooted(cache, Roots(comps)) /\ L <= MaxIds
  BY DEF Structure, Shape, Woven, Confined
<1>12. /\ SplitMap(decisions)[n] = d.split /\ SecondMap(decisions)[n] = e.second
       /\ SuperMap(decisions, comps)[n] = x
  BY <1>1, <1>2, <1>4, MapsAt
<1>9. /\ Live(cache') = Live(cache) \ G /\ Confirmed(cache') = Confirmed(cache) \ G /\ cache'.clock = cache.clock
      /\ AncMap(cache') = [f \in AllIds |-> IF f \in G THEN {} ELSE AncMap(cache)[f]]
      /\ CreatedMap(cache') = CreatedMap(cache)
  <2>1. G = Gone(cache, x, d.split)
    BY <1>1, <1>12, Zenon DEF LostNow
  <2> QED BY ONLY <1>2, <1>7, <1>8, <2>1, MapsCleared
<1>10. TopMaps(decisions, comps, decisions', comps')
  <2>1. \A i \in 1 .. decisions[N].base : comps'[i] = comps[i]
    BY <1>2, <1>6
  <2>2. decisions'[N].base = decisions[N].base
    BY <1>2, <1>4, <1>5
  <2> QED BY ONLY <1>1, <1>5, <2>1, <2>2, MapsTop
<1>11. /\ SuperMap(decisions', comps') = SuperMap(decisions, comps)
       /\ SplitMap(decisions') = [SplitMap(decisions) EXCEPT ![n] = e.split]
       /\ SecondMap(decisions') = [SecondMap(decisions) EXCEPT ![n] = e.second]
       /\ PendingMap(decisions', comps') = [PendingMap(decisions, comps) EXCEPT ![n] = OnLevel(e, comps')]
  BY <1>5, <1>10 DEF TopMaps
<1>13. /\ SplitMap(decisions') = SplitMap(decisions) /\ SecondMap(decisions') = SecondMap(decisions)
  BY <1>1, <1>4, <1>11, <1>12 DEF SplitMap, SecondMap
<1>14. OnLevel(e, comps') = {}
  <2>1. d.base + 1 .. d.base = {}
    BY <1>4
  <2> QED BY <1>4, <2>1 DEF OnLevel
<1>16. Tree!CleanBranch
  <2>1. PendingMap(decisions', comps') = [PendingMap(decisions, comps) EXCEPT ![Depth] = {}]
    BY <1>1, <1>11, <1>14, Zenon
  <2> QED BY <1>5, <1>9, <1>11, <1>13, <2>1, TreeClean, Zenon
<1>17. Confined'
  <2>1. comps'[1] = comps[1]
    BY <1>2, <1>4, <1>6
  <2>2. Len(cache'.entry) = L
    <3>1. PICK M \in Nat : cache' \in Caches(KeysOf(input'), M)
      <4>1. Control'
        BY CleanKeeps
      <4> QED BY <4>1 DEF Control, Typed, AnyCaches
    <3>2. Ids(cache') = 1 .. M /\ Len(cache'.entry) = M /\ Ids(cache) = 1 .. L
      BY <1>2, <3>1, CacheIds, Zenon
    <3>3. 1 .. M = 1 .. L
      BY <1>7, <3>2 DEF Cleared
    <3> QED BY <1>2, <3>1, <3>2, <3>3
  <2> QED BY <1>5, <2>1, <2>2 DEF Confined
<1> QED BY <1>16, <1>17

(* What the decisions have left is on the stack.                           *)
LEMMA PendingOnStack ==
  ASSUME Control, NEW k \in 0 .. MaxLevel
  PROVE  PendingMap(decisions, comps)[k] \subseteq OnStack(comps)
<1> DEFINE C == Len(comps)
           N == Len(decisions)
<1>1. /\ decisions \in Seq(Decisions) /\ Owned(decisions, comps) /\ N \in Nat /\ N >= 1 /\ C \in Nat
      /\ TopDecision = decisions[N] /\ TopDecision.base <= C /\ TopDecision.top = C /\ TopDecision.base \in Nat
  BY TypedFacts, DecisionOps DEF Control, Typed, Stretches
<1>2. ASSUME NEW j \in 1 .. N, NEW i \in decisions[j].base + 1 .. decisions[j].top PROVE i \in 1 .. C
  <2>1. decisions[j].base \in Nat /\ decisions[j].top \in Nat
    BY <1>1, DecisionElements, Zenon
  <2>2. decisions[j].top <= C
    <3>1. CASE j = N
      BY <1>1, <3>1
    <3>2. CASE j # N
      <4>1. j \in 1 .. N - 1
        BY <1>1, <3>2
      <4>2. decisions[j].top <= decisions[N].base
        BY <1>1, <4>1, LevelsBelow
      <4> QED BY <1>1, <2>1, <4>2
    <3> QED BY <3>1, <3>2
  <2> QED BY <1>1, <2>1, <2>2
<1>3. CASE k > N - 1
  BY <1>3 DEF PendingMap
<1>4. CASE ~ (k > N - 1)
  <2>1. k + 1 \in 1 .. N
    BY <1>1, <1>4, BoundsAssumption
  <2>2. PendingMap(decisions, comps)[k] =
          {comps[i].id : i \in decisions[k + 1].base + 1 .. decisions[k + 1].top}
    BY <1>4 DEF PendingMap
  <2> QED BY <1>2, <2>1, <2>2 DEF OnStack
<1> QED BY <1>3, <1>4

LEMMA LevelGrown ==
  ASSUME NEW cs, NEW ts, Len(cs) \in Nat, Len(ts) \in Nat, NEW b \in Nat, b <= Len(cs), Len(cs) <= Len(ts),
         NEW d, NEW e, d.base = b, d.top = Len(cs), e.base = b, e.top = Len(ts), \A i \in 1 .. Len(cs) : ts[i] = cs[i]
  PROVE  OnLevel(e, ts) = OnLevel(d, cs) \cup OnTop(ts, Len(cs))
<1> DEFINE C == Len(cs)
           T == Len(ts)
<1>1. \A i \in b + 1 .. T : i \in C + 1 .. T \/ i \in b + 1 .. C
  OBVIOUS
<1>2. /\ \A i \in b + 1 .. C : i \in b + 1 .. T /\ i \in 1 .. C
      /\ \A i \in C + 1 .. T : i \in b + 1 .. T
  OBVIOUS
<1>3. /\ OnLevel(e, ts) = {ts[i].id : i \in b + 1 .. T} /\ OnTop(ts, C) = {ts[i].id : i \in C + 1 .. T}
  BY DEF OnLevel, OnTop
<1>4. OnLevel(d, cs) = {ts[i].id : i \in b + 1 .. C}
  BY <1>2 DEF OnLevel
<1> HIDE DEF C, T
<1> QED BY <1>1, <1>2, <1>3, <1>4 DEF C

LEMMA SplitTree ==
  ASSUME Control, Structure, Confined, Split
  PROVE  /\ Tree!Split(Last(comps).id, Entering, Leaving, cache'.clock, Stamps) /\ Confined'
         /\ cache.clock <= cache'.clock /\ cache'.clock < NoSplit
<1> DEFINE N == Len(decisions)
           n == N - 1
           C == Len(comps)
           d == TopDecision
           K == KeysOf(input)
           L == Len(cache.entry)
           p == Last(comps).id
           T == OnTop(comps', C)
           S == Entering
           E == Leaving
<1>1. /\ decisions \in Seq(Decisions) /\ Owned(decisions, comps) /\ N \in 1 .. MaxLevel + 1 /\ Depth = n
      /\ n \in 0 .. MaxLevel
  BY LevelFacts
<1>2. /\ N >= 1 /\ d = decisions[N] /\ N \in Nat /\ d \in Decisions /\ d.top = C /\ p = comps[C].id
      /\ L \in Nat /\ cache \in Caches(K, L) /\ 1 <= d.base /\ d.base <= C /\ C \in Nat /\ C >= 1
      /\ d.base \in Nat
  BY TypedFacts, DecisionOps DEF Control
<1>3. PICK found \in Left, free \in FreeFactors, polls \in Polls :
       \E order \in Ascending(found) : \E s \in {SplitComponent(order, free, polls)} :
             /\ InBounds(s.cache)
             /\ cache' = s.cache
             /\ comps' = s.comps
             /\ decisions' = SetTop(s.decision)
             /\ pc = "main"
  BY DEF Split
<1>4. PICK order \in Ascending(found) : \E s \in {SplitComponent(order, free, polls)} :
             /\ InBounds(s.cache)
             /\ cache' = s.cache
             /\ comps' = s.comps
             /\ decisions' = SetTop(s.decision)
             /\ pc = "main"
  BY <1>3
<1> DEFINE s == SplitComponent(order, free, polls)
           e == s.decision
<1>5. /\ InBounds(s.cache) /\ cache' = s.cache /\ comps' = s.comps /\ decisions' = SetTop(e)
      /\ pc = "main"
  BY <1>4
<1>6. SplitDone(s, found)
  <2>1. Typed /\ Stretches
    BY DEF Control
  <2> HIDE DEF s
  <2> QED BY <2>1, SplitIs, Zenon DEF s
<1>7. Regrown(cache, s.cache, OnTop(s.comps, Len(comps)), Last(comps).id)
  BY SplitGrown
<1> HIDE DEF s
<1>8. PICK M \in Nat : cache' \in Caches(K, M) /\ comps' \in Seq([id : 1 .. M, comp : CompsOf(input)])
  BY <1>5, <1>6 DEF SplitDone
<1>9. /\ e \in Decisions /\ e.base = d.base /\ e.second = d.second /\ e.top = Len(comps')
      /\ e.split = IF d.split = NoSplit THEN cache.clock ELSE d.split
      /\ C <= Len(comps') /\ \A i \in 1 .. C : comps'[i] = comps[i]
  BY <1>5, <1>6 DEF SplitDone
<1>10. Regrown(cache, cache', T, p)
  BY <1>5, <1>7
<1>11. Len(cache'.entry) = M /\ M <= MaxIds /\ L <= MaxIds /\ cache'.clock < NoSplit
  <2>1. Len(cache'.entry) = M
    BY <1>8, CacheIds, Zenon
  <2> QED BY <1>5, <2>1 DEF InBounds, Confined
<1> HIDE DEF e, T, K
<1>12. Rooted(cache, Roots(comps)) /\ Guarded(cache, OnStack(comps))
  BY DEF Structure, Shape, Woven
<1>13. T = S
  <2>1. T = {f \in Live(cache') : cache'.entry[f].created >= cache.clock}
    BY ONLY <1>2, <1>8, <1>10, <1>11, <1>12, MapsRegrown
  <2> QED BY <2>1, Zenon DEF Entering
<1>14. /\ S \cap (Live(cache) \ E) = {} /\ Live(cache') = (Live(cache) \ E) \cup S
       /\ Confirmed(cache') = Confirmed(cache) \ E
       /\ AncMap(cache') = [f \in AllIds |-> IF f \in S THEN (AncMap(cache)[p] \cup {p}) \ E
                                             ELSE IF f \in E THEN {} ELSE AncMap(cache)[f] \ E]
       /\ CreatedMap(cache') = [f \in AllIds |-> IF f \in S THEN cache'.entry[f].created ELSE CreatedMap(cache)[f]]
  <2>1. Regrown(cache, cache', Entering, p)
    BY <1>10, <1>13
  <2>2. Leaving = Confirmed(cache) \ (Live(cache') \ Entering)
    BY DEF Leaving
  <2> QED BY ONLY <1>2, <1>8, <1>11, <1>12, <2>1, <2>2, MapsRegrown
<1>15. /\ decisions' \in Seq(Decisions) /\ Len(decisions') = N /\ decisions'[N] = e
       /\ \A k \in 1 .. N - 1 : decisions'[k] = decisions[k]
  BY <1>1, <1>2, <1>5, <1>9, ReplacedTop
<1>16. TopMaps(decisions, comps, decisions', comps')
  <2>1. \A i \in 1 .. decisions[N].base : comps'[i] = comps[i]
    BY <1>2, <1>9
  <2>2. decisions'[N].base = decisions[N].base
    BY <1>2, <1>9, <1>15
  <2> QED BY ONLY <1>1, <1>15, <2>1, <2>2, MapsTop
<1>17. /\ SuperMap(decisions', comps') = SuperMap(decisions, comps)
       /\ SplitMap(decisions') = [SplitMap(decisions) EXCEPT ![n] = e.split]
       /\ SecondMap(decisions') = [SecondMap(decisions) EXCEPT ![n] = e.second]
       /\ PendingMap(decisions', comps') = [PendingMap(decisions, comps) EXCEPT ![n] = OnLevel(e, comps')]
  BY <1>15, <1>16 DEF TopMaps
<1>18. /\ SplitMap(decisions)[n] = d.split /\ SecondMap(decisions)[n] = e.second
       /\ SuperMap(decisions, comps)[n] = comps[d.base].id
       /\ PendingMap(decisions, comps)[n] = OnLevel(d, comps)
  BY <1>1, <1>2, <1>9, MapsAt
<1>19. SecondMap(decisions') = SecondMap(decisions)
  BY <1>1, <1>17, <1>18 DEF SecondMap
<1>20. OnLevel(e, comps') = PendingMap(decisions, comps)[n] \cup S
  <2>1. Len(comps') \in Nat
    BY <1>8
  <2>2. OnLevel(e, comps') = OnLevel(d, comps) \cup OnTop(comps', C)
    BY ONLY <1>2, <1>9, <2>1, LevelGrown
  <2> QED BY <1>13, <1>18, <2>2 DEF T
<1>21. \/ p = SuperMap(decisions, comps)[Depth] /\ PendingMap(decisions, comps)[Depth] = {}
       \/ p \in PendingMap(decisions, comps)[Depth]
  <2>1. CASE d.base < d.top
    <3>1. C \in d.base + 1 .. d.top
      BY <1>2, <2>1
    <3> QED BY <1>1, <1>2, <1>18, <3>1 DEF OnLevel
  <2>2. CASE ~ (d.base < d.top)
    <3>1. d.base = C /\ d.base + 1 .. d.top = {}
      BY <1>2, <2>2
    <3> QED BY <1>1, <1>2, <1>18, <3>1 DEF OnLevel
  <2> QED BY <2>1, <2>2
<1>22. \A f \in E : f # 1 /\ \A k \in 0 .. MaxLevel : f \notin PendingMap(decisions, comps)[k]
  <2>1. 1 \in OnStack(comps)
    <3>1. 1 \in 1 .. C /\ comps[1].id = 1
      BY <1>2 DEF Confined
    <3> QED BY <3>1 DEF OnStack
  <2>2. \A f \in OnStack(comps) : f \notin Confirmed(cache)
    BY <1>12 DEF Guarded, Confirmed
  <2>3. E \subseteq Confirmed(cache)
    BY DEF Leaving
  <2> QED BY <2>1, <2>2, <2>3, PendingOnStack
<1>23. cache.clock < NoSplit
  <2>1. cache.clock \in Nat /\ cache'.clock \in Nat /\ NoSplit \in Nat
    BY <1>2, <1>8, BoundsAssumption DEF Caches
  <2>2. cache.clock <= cache'.clock
    BY <1>10 DEF Regrown
  <2> QED BY <1>11, <2>1, <2>2
<1>24. /\ SplitMap(decisions') = [SplitMap(decisions) EXCEPT ![Depth] =
             IF SplitMap(decisions)[Depth] = NoSplit THEN cache.clock ELSE SplitMap(decisions)[Depth]]
       /\ PendingMap(decisions', comps') = [PendingMap(decisions, comps) EXCEPT ![Depth] = @ \cup S]
  BY <1>1, <1>9, <1>17, <1>18, <1>20
<1>25. Tree!Split(Last(comps).id, Entering, Leaving, cache'.clock, Stamps)
  BY <1>14, <1>15, <1>17, <1>19, <1>21, <1>22, <1>23, <1>24, TreeSplit, Zenon
<1>26. Confined'
  <2>1. comps'[1] = comps[1]
    BY <1>2, <1>9
  <2> QED BY <1>11, <1>15, <2>1 DEF Confined
<1> QED BY <1>10, <1>11, <1>25, <1>26 DEF Regrown

LEMMA InitTree ==
  ASSUME Init
  PROVE  Tree!Init /\ Confined
<1> DEFINE K == KeysOf(input)
           R == CompsOf(input)
           max == Inputs[input].maxMemory
           d == ChangeBranch(NewDecision(1))
           x == [id |-> 1, comp |-> RootComp]
<1>1. Hashed(K) /\ RootComp \in R /\ max \in Nat
  BY InputFacts DEF Init
<1>2. /\ cache = NewRootEntry(EmptyCache(max)) /\ comps = <<x>> /\ decisions = <<d>> /\ pc = "main"
  <2>1. AllocId(EmptyCache(0)) = 1
    BY <1>1, RootType
  <2> QED BY <2>1 DEF Init
<1>3. cache \in Caches(K, 1) /\ IsRootEntry(cache) /\ 1 \in Nat
  BY ONLY <1>1, <1>2, RootType, RootEntryIs
<1>4. comps \in Stack(1, R) /\ Len(comps) = 1 /\ comps[1].id = 1
  BY <1>1, <1>2 DEF Stack
<1>5. /\ d.base = 1 /\ d.top = 1 /\ d.split = NoSplit /\ d.second = TRUE
  BY DEF ChangeBranch, NewDecision
<1> HIDE DEF K, R, d, x
<1>6. Len(decisions) = 1 /\ decisions[1] = d
  BY <1>2
<1>7. Shape(cache, comps, {})
  BY <1>3, <1>4, RootShape, Zenon
<1>8. Ids(cache) = 1 .. 1 /\ Len(cache.entry) = 1
  BY ONLY <1>3, CacheIds, Zenon
<1>9. Live(cache) = {1} /\ Confirmed(cache) = {}
  <2>1. /\ Live(cache) = {e \in 1 .. 1 : ~ cache.entry[e].free}
        /\ Confirmed(cache) = {e \in Live(cache) : cache.entry[e].model \/ cache.entry[e].zero}
    BY ONLY <1>3, LiveIs, Zenon
  <2>2. Live(cache) = {1}
    BY <1>3, <2>1 DEF IsRootEntry
  <2>3. Confirmed(cache) = {}
    BY <1>3, <2>1, <2>2 DEF IsRootEntry
  <2> QED BY <2>2, <2>3
<1>10. Ancestors(cache, 1) = {}
  <2>1. Rooted(cache, Roots(comps))
    BY <1>7, Zenon DEF Shape, Woven
  <2>2. Fathers(cache, Roots(comps))
    BY <1>3, <2>1, AncestorsAre, Zenon
  <2>3. 1 \in Roots(comps)
    BY <1>4 DEF Roots
  <2> QED BY <2>2, <2>3, Zenon DEF Fathers
<1>11. AncMap(cache) = [e \in AllIds |-> {}]
  <2>1. \A e : e # 1 => Ancestors(cache, e) = {}
    BY <1>9 DEF Ancestors
  <2>2. \A e : Ancestors(cache, e) = {}
    BY <1>10, <2>1
  <2> QED BY <2>2, Zenon DEF AncMap
<1>12. CreatedMap(cache) = [e \in AllIds |-> 0]
  BY <1>3, <1>8 DEF CreatedMap, IsRootEntry
<1>13. MaxLevel \in Nat /\ MaxIds \in Nat /\ MaxIds >= 1
  BY BoundsAssumption
<1>14. \A k \in 0 .. MaxLevel : (k <= Len(decisions) - 1 <=> k = 0) /\ (k > Len(decisions) - 1 <=> k # 0)
  BY <1>6, <1>13
<1>15. \A k \in 0 .. MaxLevel : k = 0 => decisions[k + 1] = d
  BY <1>6
<1>16. SuperMap(decisions, comps) = [k \in 0 .. MaxLevel |-> 1]
  BY <1>4, <1>5, <1>14, <1>15 DEF SuperMap
<1>17. SplitMap(decisions) = [k \in 0 .. MaxLevel |-> NoSplit]
  BY <1>5, <1>14, <1>15 DEF SplitMap
<1>18. SecondMap(decisions) = [k \in 0 .. MaxLevel |-> k = 0]
  BY <1>5, <1>14, <1>15, Zenon DEF SecondMap
<1>19. PendingMap(decisions, comps) = [k \in 0 .. MaxLevel |-> {}]
  <2>1. {comps[i].id : i \in d.base + 1 .. d.top} = {}
    BY <1>5
  <2>2. ASSUME NEW k \in 0 .. MaxLevel
        PROVE  (IF k > Len(decisions) - 1 THEN {} ELSE {comps[i].id : i \in decisions[k + 1].base + 1 .. decisions[k + 1].top}) = {}
    BY <1>14, <1>15, <2>1
  <2> QED BY <2>2, Zenon DEF PendingMap
<1>20. Len(decisions) - 1 = 0 /\ cache.clock = 1
  BY <1>3, <1>6 DEF IsRootEntry
<1>21. Tree!Init
  BY ONLY <1>9, <1>11, <1>12, <1>16, <1>17, <1>18, <1>19, <1>20, TreeInit, Zenon
<1> QED BY <1>4, <1>6, <1>8, <1>13, <1>21 DEF Confined

LEMMA NextTree ==
  ASSUME Control, Structure, Confined, [Next]_vars
  PROVE  TreeStep /\ Confined'
<1>1. CASE \/ ConflictAtEntry \/ StartExists \/ ExistsDone \/ BacktrackRoot \/ BacktrackEntry
           \/ Signal \/ Interrupt \/ Done \/ UNCHANGED vars \/ Conflict \/ ExistsFalse \/ SimplifyFails
  <2>1. UNCHANGED Tree!vars /\ Confined'
    BY <1>1, QuietTree
  <2> QED BY <2>1, Zenon DEF TreeStep
<1>2. CASE FlipBranch
  <2>1. Tree!ChangeBranch /\ Confined'
    BY <1>2, FlipTree
  <2> QED BY <2>1, Zenon DEF TreeStep
<1>3. CASE Decide
  <2>1. Tree!PushDecision(Last(comps).id) /\ Confined'
    BY <1>3, DecideTree
  <2> QED BY <2>1, Zenon DEF TreeStep
<1>4. CASE Split
  <2>1. Tree!Split(Last(comps).id, Entering, Leaving, cache'.clock, Stamps) /\ Confined'
    BY <1>4, SplitTree
  <2> QED BY <2>1, Zenon DEF TreeStep, Entering, Leaving, Stamps
<1>5. CASE ExistsTrue
  <2>1. Tree!ConfirmSatisfiable(Last(comps).id) /\ Confined'
    BY <1>5, ExistsTrueTree
  <2> QED BY <2>1, Zenon DEF TreeStep
<1>6. CASE FinishLevel
  <2>1. (\E stored \in BOOLEAN : Tree!PopDecision(stored)) /\ Confined'
    BY <1>6, FinishTree
  <2> QED BY <2>1, Zenon DEF TreeStep
<1>7. CASE Clean
  <2>1. Structure'
    BY NextStructure
  <2>2. Tree!CleanBranch /\ Confined'
    BY <1>7, <2>1, CleanTree
  <2> QED BY <2>2, Zenon DEF TreeStep
<1> QED BY <1>1, <1>2, <1>3, <1>4, <1>5, <1>6, <1>7, Zenon DEF Next, Search

(* Every run of the search over the pointers is a run of the tree of       *)
(* descendants: splitComponent() enters the new components under the one   *)
(* at the top of the stack and evicts whole lists of finished descendants, *)
(* a return confirms what it counted, and cleaning a branch removes what   *)
(* the branch has entered below its component and not counted, and nothing *)
(* else.                                                                   *)
THEOREM TreeImplemented == Spec => ImplementsTree
<1>1. Init => (Control /\ Structure /\ Confined) /\ Tree!Init
  BY InitControl, InitStructure, InitTree
<1>2. (Control /\ Structure /\ Confined) /\ [Next]_vars => (Control /\ Structure /\ Confined)' /\ TreeStep
  BY NextKeeps, NextStructure, NextTree
<1> QED BY <1>1, <1>2, PTL DEF Spec, ImplementsTree
(* The witnesses are in the bounds that the tree has for them.             *)
LEMMA StepBounded ==
  ASSUME Control, Structure, Confined, Control', Structure', Confined', [Next]_vars
  PROVE  [Tree!Next]_(Tree!vars)
<1>1. Last(comps).id \in AllIds /\ Confirmed(cache) \subseteq AllIds
  <2>1. /\ \A i \in 1 .. Len(comps) : comps[i].id \in 1 .. Len(cache.entry)
        /\ Len(comps) \in Nat /\ Len(comps) >= 1 /\ Last(comps) = comps[Len(comps)]
    BY TypedFacts DEF Control
  <2>2. Last(comps).id \in 1 .. Len(cache.entry)
    <3>1. Len(comps) \in 1 .. Len(comps)
      BY <2>1
    <3> QED BY <2>1, <3>1
  <2>3. Len(cache.entry) \in Nat /\ Len(cache.entry) <= MaxIds /\ MaxIds \in Nat
    BY TypedFacts, BoundsAssumption DEF Control, Confined
  <2>4. 1 .. Len(cache.entry) \subseteq AllIds
    BY <2>3 DEF AllIds
  <2> QED BY <2>2, <2>4 DEF Confirmed, Live, Ids
<1>2. CASE \/ ConflictAtEntry \/ StartExists \/ ExistsDone \/ BacktrackRoot \/ BacktrackEntry
           \/ Signal \/ Interrupt \/ Done \/ UNCHANGED vars \/ Conflict \/ ExistsFalse \/ SimplifyFails
  BY <1>2, QuietTree
<1>3. CASE FlipBranch
  BY <1>3, FlipTree, Zenon DEF Tree!Next
<1>4. CASE Decide
  <2>1. Tree!PushDecision(Last(comps).id)
    BY <1>4, DecideTree
  <2> QED BY <1>1, <2>1, Zenon DEF Tree!Next, Tree!PushDecision
<1>5. CASE Split
  <2>1. /\ Tree!Split(Last(comps).id, Entering, Leaving, cache'.clock, Stamps)
        /\ cache.clock <= cache'.clock /\ cache'.clock < NoSplit
    BY <1>5, SplitTree
  <2>2. /\ Entering \in SUBSET AllIds /\ cache'.clock \in cache.clock .. NoSplit
        /\ Stamps \in [Entering -> cache.clock .. (cache'.clock - 1)] /\ Leaving \in SUBSET Confirmed(cache)
    <3> DEFINE M == Len(cache'.entry)
    <3>1. /\ M \in Nat /\ M <= MaxIds /\ cache' \in Caches(KeysOf(input'), M) /\ MaxIds \in Nat
          /\ Live(cache') \subseteq 1 .. M
      <4>1. (Len(cache.entry) \in Nat /\ cache \in Caches(KeysOf(input), Len(cache.entry)))'
        BY TypedFacts, PTL DEF Control
      <4>2. M \in Nat /\ cache' \in Caches(KeysOf(input'), M)
        BY <4>1 DEF KeysOf
      <4>3. Live(cache') \subseteq 1 .. M
        BY ONLY <4>2, LiveIs, Zenon
      <4> QED BY <4>2, <4>3, BoundsAssumption DEF Confined
    <3>2. Entering \subseteq AllIds
      BY <3>1 DEF Entering, AllIds
    <3>3. Rooted(cache', Roots(comps'))
      BY DEF Structure, Shape, Woven
    <3>4. cache.clock \in Nat /\ cache'.clock \in Nat /\ NoSplit \in Nat
      BY <3>1, TypedFacts, BoundsAssumption DEF Caches, Control
    <3>5. \A e \in Entering : cache'.entry[e].created \in cache.clock .. (cache'.clock - 1)
      BY <3>1, <3>3, <3>4 DEF Entering, Rooted, Caches, Entries
    <3> QED BY <2>1, <3>2, <3>4, <3>5 DEF Stamps, Leaving
  <2>3. \E p \in AllIds, E \in SUBSET Confirmed(cache), C \in SUBSET AllIds, now \in cache.clock .. NoSplit :
          \E stamp \in [C -> cache.clock .. (now - 1)] : Tree!Split(p, C, E, now, stamp)
    <3> USE <1>1, <2>2
    <3> WITNESS Last(comps).id \in AllIds, Leaving \in SUBSET Confirmed(cache), Entering \in SUBSET AllIds,
                cache'.clock \in cache.clock .. NoSplit
    <3> QED BY <2>1, <2>2, Zenon DEF Tree!Split
  <2> QED BY ONLY <2>3, Zenon DEF Tree!Next
<1>6. CASE ExistsTrue
  <2>1. Tree!ConfirmSatisfiable(Last(comps).id)
    BY <1>6, ExistsTrueTree
  <2> QED BY <1>1, <2>1, Zenon DEF Tree!Next, Tree!ConfirmSatisfiable
<1>7. CASE FinishLevel
  BY <1>7, FinishTree, Zenon DEF Tree!Next
<1>8. CASE Clean
  BY <1>8, CleanTree, Zenon DEF Tree!Next
<1> QED BY <1>2, <1>3, <1>4, <1>5, <1>6, <1>7, <1>8, Zenon DEF Next, Search

(* The same with the tree's own next-state relation: the ids, times and    *)
(* stamps of what is entered are those that the tree may choose from.      *)
THEOREM TreeSpecImplemented == Spec => Tree!Spec
<1>1. Init => (Control /\ Structure /\ Confined) /\ Tree!Init
  BY InitControl, InitStructure, InitTree
<1>2. (Control /\ Structure /\ Confined) /\ [Next]_vars => (Control /\ Structure /\ Confined)'
  BY NextKeeps, NextStructure, NextTree
<1>3. (Control /\ Structure /\ Confined) /\ (Control /\ Structure /\ Confined)' /\ [Next]_vars
        => [Tree!Next]_(Tree!vars)
  BY StepBounded
<1> QED BY <1>1, <1>2, <1>3, PTL DEF Spec, Tree!Spec

(* The tree of descendants once more, with what is proved of it.           *)
TreeProofs == INSTANCE DescendantTreeProofs WITH
    Id <- AllIds, Root <- 1, MaxDepth <- MaxLevel, MaxTime <- NoSplit,
    live <- Live(cache),
    anc <- [e \in AllIds |-> Ancestors(cache, e)],
    created <- [e \in AllIds |-> IF e \in Ids(cache) THEN cache.entry[e].created ELSE 0],
    confirmed <- Confirmed(cache),
    clock <- cache.clock,
    depth <- Depth,
    super <- [k \in 0 .. MaxLevel |-> IF k <= Depth THEN comps[Level(k).base].id ELSE 1],
    split <- [k \in 0 .. MaxLevel |-> IF k <= Depth THEN Level(k).split ELSE NoSplit],
    second <- [k \in 0 .. MaxLevel |-> k <= Depth /\ Level(k).second],
    pending <- [k \in 0 .. MaxLevel |->
                  IF k > Depth THEN {}
                  ELSE {comps[i].id : i \in Level(k).base + 1 .. Level(k).top}]

(* It is the same specification.                                           *)
LEMMA SameTreeInit == Tree!Init => TreeProofs!Init
BY Zenon DEF Tree!Init, TreeProofs!Init, Tree!Levels, TreeProofs!Levels

LEMMA SameTreeNext == Tree!Next => TreeProofs!Next
BY Zenon DEF Tree!Next, TreeProofs!Next, Tree!Split, TreeProofs!Split, Tree!PushDecision, TreeProofs!PushDecision,
     Tree!ChangeBranch, TreeProofs!ChangeBranch, Tree!PopDecision, TreeProofs!PopDecision,
     Tree!ConfirmSatisfiable, TreeProofs!ConfirmSatisfiable, Tree!CleanBranch, TreeProofs!CleanBranch,
     Tree!treeVars, TreeProofs!treeVars, Tree!Splittable, TreeProofs!Splittable, Tree!SplitTime,
     TreeProofs!SplitTime, Tree!Descendants, TreeProofs!Descendants, Tree!Path, TreeProofs!Path,
     Tree!ChildOf, TreeProofs!ChildOf, Tree!Pinned, TreeProofs!Pinned, Tree!Levels, TreeProofs!Levels

LEMMA SameTreeSpec == Spec => TreeProofs!Spec
<1>1. [Tree!Next]_(Tree!vars) => [TreeProofs!Next]_(TreeProofs!vars)
  BY SameTreeNext, Zenon DEF Tree!vars, TreeProofs!vars, Tree!treeVars, TreeProofs!treeVars
<1> QED BY <1>1, SameTreeInit, TreeSpecImplemented, PTL DEF Tree!Spec, TreeProofs!Spec

LEMMA TreeConstants ==
  TreeProofs!IsFiniteSet(AllIds) /\ 1 \in AllIds /\ MaxLevel \in Nat /\ NoSplit \in Nat \ {0}
<1>1. IsFiniteSet(AllIds) /\ 1 \in AllIds
  BY BoundsAssumption, IntervalFinite DEF AllIds
<1> QED BY <1>1, BoundsAssumption DEF TreeProofs!IsFiniteSet, IsFiniteSet

(* On the pointers, too, what hangs below the descendants of a decision's  *)
(* component that have been created since its branch split is all that has *)
(* been created since: removeCachePollutions() misses nothing of a branch  *)
(* that has no model and takes nothing that was there before.              *)
THEOREM CleaningIsExact == Spec => []TreeProofs!CleanIsExact
<1>1. TreeProofs!Spec => []TreeProofs!CleanIsExact
  BY TreeConstants, TreeProofs!CleanCorrect, Zenon
<1> QED BY <1>1, SameTreeSpec, PTL

(* The cache with its pointers keeps the contract of a component cache: an *)
(* entry leaves it by eviction, when it has a result and its component is  *)
(* not on the stack, or with everything entered since the split of a       *)
(* branch that has no model, and in no other way.                          *)
THEOREM ContractImplemented == Spec => TreeProofs!ImplementsContract
<1>1. TreeProofs!Spec => TreeProofs!ImplementsContract
  BY TreeConstants, TreeProofs!Implements, Zenon
<1> QED BY <1>1, SameTreeSpec, PTL
=============================================================================
