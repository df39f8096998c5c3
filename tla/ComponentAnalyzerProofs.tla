----------------------- MODULE ComponentAnalyzerProofs -----------------------
(***************************************************************************)
(* What splitComponent() finds are the connected components of what is     *)
(* left, for every formula, any number of levels and whatever the search   *)
(* assigns: proofs.                                                        *)
(*                                                                         *)
(* The inductive invariant has these parts.  LevelsInv says what holds of  *)
(* every level: its component and what it has left to count are closed,    *)
(* hold all clauses that are left, have no binary clause between them, and *)
(* no variable outside of one that shares a binary clause with it is       *)
(* active.  MarksInv and SplitInv say what the marks mean, ReachInv what   *)
(* the exploration of a component has reached, and FreqInv, at the end,    *)
(* what the frequencies have counted so far.                               *)
(***************************************************************************)
EXTENDS ComponentAnalyzer, FiniteSetTheorems, TLAPS

Claimed == {v \in Super.vars \cap Unassigned(Assigns) : varState[v] = "claimed"}

(* A component is closed under an assignment, with all clauses left of it. *)
Whole(p, A) ==
    /\ Closed(p.vars, A)
    /\ \A c \in LeftOf(A) \cap Long : Open(c, A) \cap p.vars # {} => c \in p.clauses

(* A variable next to the component but outside of it is not active.       *)
Fenced(p) == \A v \in p.vars : \A u \in Adjacent(v) \ p.vars : varState[u] # "active"

Apart(p, q) == \A v \in p.vars : Adjacent(v) \cap q.vars = {}

LevelInv(k) ==
    /\ PropagationDone(assigns[k])
    /\ Whole(super[k], assigns[k]) /\ Fenced(super[k])
    /\ \A p \in pending[k] : p.vars \subseteq super[k].vars /\ Whole(p, assigns[k]) /\ Fenced(p)
    /\ \A p, q \in pending[k] : p = q \/ Apart(p, q)

LevelsInv ==
    /\ \A k \in 0 .. depth : LevelInv(k)
    /\ \A j, k \in 0 .. depth : j <= k => super[k].vars \subseteq super[j].vars
    /\ \A k \in 1 .. depth : super[k] \in pending[k - 1]
    /\ \A k \in Depths : k > depth => pending[k] = {}

MarksInv ==
    /\ \A v \in Var : varState[v] = "in_comp" <=> v \in queue
    /\ \A c \in Long : clState[c] = "in_comp" <=> c \in counted
    /\ pc # "explore" => queue = {} /\ visited = {} /\ counted = {}
    /\ pc \notin {"scan", "explore"} => found = {} /\ free = {}
    /\ pc \in {"assigned", "unsat"} => pending[depth] = {}

(* A component found, as ComponentsRight has it, of variables that are     *)
(* claimed.                                                                *)
Part(f, A) ==
    /\ f.vars \subseteq Unassigned(A)
    /\ Closed(f.vars, A) /\ Connected(f.vars, A)
    /\ f.clauses = {c \in LeftOf(A) \cap Long : VarsOf(c) \cap f.vars # {}}
    /\ f.nvars = Cardinality(f.vars) /\ f.ncls = Cardinality(f.clauses)

Parts == {f.vars : f \in found} \cup {{v} : v \in free}

SplitInv ==
    pc \in {"scan", "explore"} =>
        /\ \A v \in Super.vars : v \in Unassigned(Assigns) <=> varState[v] # "inactive"
        /\ \A c \in LeftOf(Assigns) \cap Super.clauses : clState[c] # "inactive"
        /\ \A c \in LeftOf(Assigns) \cap Super.clauses :
             clState[c] = "claimed" => Open(c, Assigns) \subseteq Claimed
        /\ Closed(Claimed, Assigns)
        /\ Claimed = UNION Parts
        /\ \A S, T \in Parts : S # T => S \cap T = {}
        /\ \A v \in free : Closed({v}, Assigns)
        /\ \A f \in found : Part(f, Assigns)
        /\ pending[depth] \subseteq found

ReachInv ==
    /\ queue \subseteq Super.vars \cap Unassigned(Assigns)
    /\ \A c \in counted : c \in LeftOf(Assigns) \cap Super.clauses /\ Open(c, Assigns) \subseteq queue
    /\ \A c \in LeftOf(Assigns) : Open(c, Assigns) \cap visited # {} =>
          Open(c, Assigns) \subseteq queue /\ (c \in Long => c \in counted)
    /\ pc = "explore" => \E seed \in queue : \A T \in SUBSET Var :
          seed \in T /\ Closed(T, Assigns) => queue \subseteq T

Inv == TypeOK /\ LevelsInv /\ MarksInv /\ SplitInv /\ ReachInv
-----------------------------------------------------------------------------
(* What is left shrinks when more is assigned, so closed sets stay closed. *)
LEMMA Shrinks ==
  ASSUME NEW A, NEW B, A \subseteq B
  PROVE  /\ Unassigned(B) \subseteq Unassigned(A)
         /\ LeftOf(B) \subseteq LeftOf(A)
         /\ \A c : Open(c, B) \subseteq Open(c, A)
<1>1. Unassigned(B) \subseteq Unassigned(A)
  BY DEF Unassigned, VarsOf
<1>2. LeftOf(B) \subseteq LeftOf(A)
  BY DEF LeftOf, IsSatisfied
<1> QED
  BY <1>1, <1>2 DEF Open

(* A whole component is still one when more is assigned.                   *)
LEMMA WholeStays ==
  ASSUME NEW A, NEW B, A \subseteq B, NEW p, Whole(p, A)
  PROVE  Whole(p, B)
<1>1. ASSUME NEW c \in LeftOf(B), Open(c, B) \cap p.vars # {}
      PROVE  Open(c, B) \subseteq p.vars /\ (c \in Long => c \in p.clauses)
  <2>1. c \in LeftOf(A) /\ Open(c, B) \subseteq Open(c, A) /\ Open(c, A) \cap p.vars # {}
    BY <1>1, Shrinks
  <2> QED
    BY <2>1 DEF Whole, Closed
<1> QED
  BY <1>1 DEF Whole, Closed

(* Where propagation is done, a clause that is left has two variables to   *)
(* choose.                                                                 *)
LEMMA TwoOpen ==
  ASSUME NEW A, PropagationDone(A), NEW c \in LeftOf(A)
  PROVE  \E u, v \in Open(c, A) : u # v
<1>1. PICK l \in c, m \in c : l # m /\ {l[1], m[1]} \subseteq Unassigned(A)
  BY DEF PropagationDone, LeftOf
<1>2. l[1] # m[1]
  BY <1>1, FormulaAssumption DEF LeftOf
<1>3. l[1] \in VarsOf(c) /\ m[1] \in VarsOf(c)
  BY DEF VarsOf
<1> QED
  BY <1>1, <1>2, <1>3 DEF Open

(* The binary clauses link both ways.                                      *)
LEMMA AdjacentBack ==
  ASSUME NEW v \in Var, NEW u \in Adjacent(v)
  PROVE  v \in Adjacent(u) /\ u \in Var /\ u # v
BY DEF Adjacent

(* A binary clause between unassigned variables is left.                   *)
LEMMA LinkLeft ==
  ASSUME NEW A, NEW v \in Unassigned(A), NEW u \in Unassigned(A), u \in Adjacent(v)
  PROVE  \E c \in LeftOf(A) : {u, v} \subseteq Open(c, A)
<1>1. PICK c \in Formula : VarsOf(c) = {u, v}
  BY DEF Adjacent
<1>2. ~ IsSatisfied(c, A)
  <2> SUFFICES ASSUME NEW l \in c \cap A PROVE FALSE
    BY DEF IsSatisfied
  <2>1. l[1] \in VarsOf(c) /\ l[1] \in VarsOf(A)
    BY DEF VarsOf
  <2> QED
    BY <2>1, <1>1 DEF Unassigned
<1> QED
  BY <1>1, <1>2 DEF LeftOf, Open

(* The variables of a clause that is not long are next to each other.      *)
LEMMA ShortLinks ==
  ASSUME NEW A, NEW c \in LeftOf(A) \ Long, NEW v \in Open(c, A), NEW u \in Open(c, A), u # v
  PROVE  u \in Adjacent(v)
<1>1. c \in Formula /\ IsFiniteSet(c) /\ Cardinality(c) = 2
  <2>1. c \in Formula /\ IsFiniteSet(c) /\ Cardinality(c) >= 2 /\ ~ Cardinality(c) > 2
    BY FormulaAssumption DEF LeftOf, Long
  <2>2. Cardinality(c) \in Nat
    BY <2>1, FS_CardinalityType
  <2> QED
    BY <2>1, <2>2
<1>2. PICK l \in c, m \in c : l[1] = u /\ m[1] = v
  BY DEF Open, VarsOf
<1>3. IsFiniteSet({l}) /\ Cardinality({l}) = 1
  BY FS_Singleton
<1>4. Cardinality({l} \cup {m}) = 2
  <2>1. m \notin {l}
    BY <1>2
  <2>2. Cardinality({l} \cup {m}) = Cardinality({l}) + 1
    BY <1>3, <2>1, FS_AddElement, Zenon
  <2> QED
    BY <1>3, <2>2
<1>5. c = {l} \cup {m}
  BY <1>1, <1>4, FS_Subset
<1>6. VarsOf(c) = {u, v}
  BY <1>2, <1>5 DEF VarsOf
<1> QED
  BY <1>1, <1>6 DEF Adjacent, Open, Unassigned

(* A set that is connected from one of its elements is connected.          *)
LEMMA FromSeed ==
  ASSUME NEW A, NEW Q \in SUBSET Var, Closed(Q, A), NEW seed \in Q,
         \A T \in SUBSET Var : seed \in T /\ Closed(T, A) => Q \subseteq T
  PROVE  Connected(Q, A)
<1> SUFFICES ASSUME NEW T \in SUBSET Q, T # {}, Closed(T, A)
             PROVE  T = Q
  BY DEF Connected
<1>1. CASE seed \in T
  BY <1>1
<1>2. CASE seed \notin T
  <2>1. Closed(Q \ T, A)
    <3> SUFFICES ASSUME NEW c \in LeftOf(A), Open(c, A) \cap (Q \ T) # {}
                 PROVE  Open(c, A) \subseteq Q \ T
      BY DEF Closed
    <3>1. Open(c, A) \subseteq Q
      BY DEF Closed
    <3>2. Open(c, A) \cap T = {}
      BY DEF Closed
    <3> QED
      BY <3>1, <3>2
  <2>2. Q \subseteq Q \ T
    BY <1>2, <2>1
  <2> QED
    BY <2>2
<1> QED
  BY <1>1, <1>2

(* Sets of variables or clauses are finite.                                *)
LEMMA SubsetsFinite ==
  /\ \A S \in SUBSET Var : IsFiniteSet(S) /\ Cardinality(S) \in Nat
  /\ \A C \in SUBSET Formula : IsFiniteSet(C) /\ Cardinality(C) \in Nat
BY FormulaAssumption, FS_Subset, FS_CardinalityType

(* The component of level 0 is one.                                        *)
LEMMA WholeFormulaType == WholeFormula \in Comps
BY SubsetsFinite DEF WholeFormula, Comps, Long
-----------------------------------------------------------------------------
(* The types.                                                              *)
LEMMA InitTypeOK == Init => TypeOK
<1> SUFFICES ASSUME Init PROVE TypeOK
  OBVIOUS
<1>1. WholeFormula \in Comps /\ {} \in Consistent /\ 0 \in Depths
  BY WholeFormulaType, DepthAssumption DEF Consistent, Depths
<1> QED
  BY <1>1 DEF Init, TypeOK, States

(* What is found has the type of a component.                              *)
LEMMA NewCompType ==
  ASSUME TypeOK PROVE NewComp \in Comps
<1>1. Cardinality(queue) \in Nat /\ Cardinality(counted) \in Nat
  BY SubsetsFinite DEF TypeOK, Long
<1>2. Super \in Comps
  BY DEF TypeOK, Super
<1> QED
  BY <1>1, <1>2 DEF NewComp, InComp, ClausesInComp, Comps

(* Every step keeps the types.                                             *)
LEMMA TypeStep == TypeOK /\ [Next]_vars => TypeOK'
<1> SUFFICES ASSUME TypeOK, [Next]_vars PROVE TypeOK'
  OBVIOUS
<1> USE DEF TypeOK, States
<1>0. Super \in Comps /\ pending[depth] \in SUBSET Comps
  BY DEF Super
<1>1. CASE SetupContext
  BY <1>1 DEF SetupContext, levels, NewVarState, NewClState
<1>2. CASE StartComp
  <2>1. PICK seed \in Var : varState' = [varState EXCEPT ![seed] = "in_comp"] /\ queue' = {seed}
    BY <1>2 DEF StartComp, Active
  <2> QED
    BY <1>2, <2>1 DEF StartComp, levels
<1>3. CASE FreeVar
  BY <1>3 DEF FreeVar, levels, SeedClaimed
<1>4. CASE HitZero
  BY <1>4, <1>0 DEF HitZero, Finished
<1>5. CASE EndSplit
  BY <1>5 DEF EndSplit, levels
<1>6. ASSUME NEW v \in Var, Visit(v) PROVE TypeOK'
  <2>1. Reached(v) \in SUBSET Var /\ Alive(v) \in SUBSET Long
    BY DEF Reached, Active, Alive, ActiveClauses
  <2>2. freq' \in [Var -> Nat]
    <3>1. \A u \in Var : CountOf(Alive(v), u) \in Nat
      BY <2>1, SubsetsFinite DEF CountOf, Long
    <3>2. \A u \in Var : LinksOf(v, u) \in Nat
      BY SubsetsFinite DEF LinksOf, Active
    <3> QED
      BY <1>6, <3>1, <3>2 DEF Visit, Bumped
  <2>3. /\ varState' \in [Var -> States]
        /\ clState' \in [Long -> States]
    BY <1>6 DEF Visit
  <2>4. /\ queue' \in SUBSET Var
        /\ visited' \in SUBSET Var
        /\ counted' \in SUBSET Long
    BY <1>6, <2>1 DEF Visit
  <2> QED
    BY <1>6, <2>2, <2>3, <2>4 DEF Visit, levels
<1>7. ASSUME NEW hit \in BOOLEAN, FinishComp(hit) PROVE TypeOK'
  BY <1>7, <1>0, NewCompType DEF FinishComp, Finished
<1>8. CASE Decide
  <2>1. depth + 1 \in Depths /\ Extensions(Assigns) \subseteq Consistent
    BY <1>8, DepthAssumption DEF Decide, Depths, Extensions
  <2> QED
    BY <1>8, <2>1 DEF Decide, analysis
<1>9. CASE Propagate
  <2>1. Extensions(Assigns) \subseteq Consistent
    BY DEF Extensions
  <2> QED
    BY <1>9, <2>1 DEF Propagate, analysis
<1>10. CASE FlipBranch
  <2>1. Extensions(assigns[depth - 1]) \subseteq Consistent
    BY DEF Extensions
  <2> QED
    BY <1>10, <2>1 DEF FlipBranch, analysis
<1>11. ASSUME NEW dropped \in BOOLEAN, FinishLevel(dropped) PROVE TypeOK'
  <2>1. depth - 1 \in Depths /\ WholeFormula \in Comps /\ {} \in Consistent
    BY <1>11, DepthAssumption, WholeFormulaType DEF FinishLevel, Depths, Consistent
  <2> QED
    BY <1>11, <2>1 DEF FinishLevel, analysis
<1>12. CASE UNCHANGED vars
  BY <1>12 DEF vars, analysis, levels
<1> QED
  BY <1>1, <1>2, <1>3, <1>4, <1>5, <1>6, <1>7, <1>8, <1>9, <1>10, <1>11, <1>12
  DEF Next, Explore, Search, Done

(* The state of the analysis and of the search has its types.              *)
THEOREM TypeCorrect == Spec => []TypeOK
BY InitTypeOK, TypeStep, PTL DEF Spec
-----------------------------------------------------------------------------
(* Nothing is assigned at first, and every clause is left, with two        *)
(* variables or more.                                                      *)
LEMMA InitInv == Init => Inv
<1> SUFFICES ASSUME Init PROVE Inv
  OBVIOUS
<1>1. TypeOK
  BY InitTypeOK
<1>2. Super = WholeFormula /\ Assigns = {} /\ 0 \in Depths
  BY DepthAssumption DEF Init, Super, Assigns, Depths
<1>3. PropagationDone({})
  <2> SUFFICES ASSUME NEW c \in Formula
               PROVE  \E l, m \in c : l # m /\ {l[1], m[1]} \subseteq Unassigned({})
    BY DEF PropagationDone
  <2>1. IsFiniteSet(c) /\ Cardinality(c) >= 2 /\ c \in SUBSET Lit
    BY FormulaAssumption
  <2>2. PICK l : l \in c
    BY <2>1, FS_EmptySet
  <2>3. PICK m : m \in c /\ m # l
    <3>1. c # {l}
      BY <2>1, FS_Singleton, SMTT(30)
    <3> QED
      BY <2>2, <3>1
  <2> QED
    BY <2>1, <2>2, <2>3 DEF Unassigned, VarsOf, Lit
<1>4. Whole(WholeFormula, {}) /\ Fenced(WholeFormula)
  BY DEF Whole, Closed, Open, Unassigned, WholeFormula, Fenced, Adjacent
<1>5. LevelsInv
  <2>1. depth = 0 /\ super[0] = WholeFormula /\ assigns[0] = {} /\ pending[0] = {}
    BY <1>2 DEF Init
  <2>2. LevelInv(0)
    BY <2>1, <1>3, <1>4 DEF LevelInv
  <2> QED
    BY <2>1, <2>2 DEF LevelsInv, Init
<1>6. MarksInv
  BY <1>2 DEF Init, MarksInv
<1>7. SplitInv /\ ReachInv
  BY DEF Init, SplitInv, ReachInv
<1> QED
  BY <1>1, <1>5, <1>6, <1>7 DEF Inv

(* While the levels stay, they stay right as long as nothing gets active.  *)
LEMMA LevelsKept ==
  ASSUME LevelsInv, UNCHANGED levels,
         \A u \in Var : varState'[u] = "active" => varState[u] = "active"
  PROVE  LevelsInv'
<1>1. ASSUME NEW p, Fenced(p) PROVE Fenced(p)'
  BY <1>1 DEF Fenced, Adjacent
<1>2. ASSUME NEW k \in 0 .. depth PROVE LevelInv(k)'
  <2>1. LevelInv(k)
    BY DEF LevelsInv
  <2>2. Fenced(super[k])' /\ \A p \in pending[k] : Fenced(p)'
    <3>1. super'[k] = super[k]
      BY DEF levels
    <3>2. Fenced(super[k])'
      BY <2>1, <3>1 DEF LevelInv, Fenced, Adjacent
    <3> QED
      BY <1>1, <2>1, <3>2 DEF LevelInv
  <2> QED
    BY <2>1, <2>2 DEF LevelInv, levels
<1> QED
  BY <1>2 DEF LevelsInv, levels

(* The marks that a split sets are those of its component.  A component    *)
(* that is left to count elsewhere has no variable of it, nor one next to  *)
(* it that lies outside.                                                   *)
LEMMA SetupInv ==
  ASSUME Inv, TypeOK', SetupContext
  PROVE  Inv'
<1>0. /\ pc = "assigned" /\ pc' = "scan" /\ UNCHANGED levels
      /\ queue' = {} /\ visited' = {} /\ counted' = {} /\ found' = {} /\ free' = {}
      /\ pending[depth] = {} /\ queue = {} /\ counted = {}
  BY DEF Inv, SetupContext, MarksInv
<1>1. Super' = Super /\ Assigns' = Assigns /\ pending'[depth'] = pending[depth]
  BY <1>0 DEF levels, Super, Assigns
<1>2. /\ \A v \in Var : varState'[v] = NewVarState(v)
      /\ \A c \in Long : clState'[c] = NewClState(c)
  BY DEF SetupContext
<1>3. Super \in Comps /\ depth \in 0 .. depth
  BY DepthAssumption DEF Inv, TypeOK, Super, Depths
<1>4. LevelsInv'
  <2>1. ASSUME NEW k \in 0 .. depth, NEW p \in pending[k] \cup {super[k]} PROVE Fenced(p)'
    <3> SUFFICES ASSUME NEW v \in p.vars, NEW u \in Adjacent(v) \ p.vars
                 PROVE  varState'[u] # "active"
      BY DEF Fenced
    <3>0. LevelInv(k) /\ u \in Var
      BY DEF Inv, LevelsInv, Adjacent
    <3>1. CASE u \notin Super.vars
      <4>1. varState'[u] = varState[u]
        BY <3>0, <3>1, <1>2 DEF NewVarState
      <4> QED
        BY <3>0, <4>1 DEF LevelInv, Fenced
    <3>2. CASE u \in Super.vars
      <4>1. u \in super[k].vars
        BY <3>2, <1>3 DEF Inv, LevelsInv, Super
      <4>2. p \in pending[k] /\ k # depth
        BY <4>1, <1>0
      <4>3. k + 1 \in 1 .. depth /\ (k + 1) - 1 = k /\ k + 1 <= depth
        BY <4>2 DEF Inv, TypeOK, Depths
      <4>4. super[k + 1] \in pending[k] /\ Super.vars \subseteq super[k + 1].vars
        <5>1. super[k + 1] \in pending[(k + 1) - 1]
          BY <4>3, Zenon DEF Inv, LevelsInv
        <5>2. k + 1 \in 0 .. depth
          BY <4>3
        <5>3. super[depth].vars \subseteq super[k + 1].vars
          BY <1>3, <4>3, <5>2 DEF Inv, LevelsInv
        <5> QED
          BY <4>3, <5>1, <5>3 DEF Super
      <4>5. p # super[k + 1] /\ u \in super[k + 1].vars
        BY <3>2, <4>4
      <4>6. Apart(p, super[k + 1])
        BY <3>0, <4>2, <4>4, <4>5 DEF LevelInv
      <4> QED
        BY <4>5, <4>6 DEF Apart
    <3> QED
      BY <3>1, <3>2
  <2>2. ASSUME NEW k \in 0 .. depth PROVE LevelInv(k)'
    <3>1. LevelInv(k) /\ super'[k] = super[k] /\ pending'[k] = pending[k]
      BY <1>0 DEF Inv, LevelsInv, levels
    <3>2. Fenced(super[k])'
      BY <2>1, <3>1 DEF Fenced
    <3>3. \A p \in pending[k] : Fenced(p)'
      BY <2>1
    <3> QED
      BY <1>0, <3>1, <3>2, <3>3 DEF LevelInv, levels
  <2> QED
    BY <1>0, <2>2 DEF Inv, LevelsInv, levels
<1>5. MarksInv'
  BY <1>0, <1>2 DEF Inv, MarksInv, NewVarState, NewClState
<1>6. SplitInv'
  <2>1. \A v \in Super.vars : /\ v \in Unassigned(Assigns) => varState'[v] = "active"
                              /\ v \notin Unassigned(Assigns) => varState'[v] = "inactive"
    BY <1>2, <1>3 DEF NewVarState, Comps
  <2>2. \A c \in Super.clauses : clState'[c] = "active"
    BY <1>2, <1>3 DEF NewClState, Comps
  <2>3. Claimed' = {} /\ Parts' = {}
    BY <2>1, <1>0, <1>1 DEF Claimed, Parts
  <2>4. Closed({}, Assigns)
    BY DEF Closed
  <2> QED
    BY <1>0, <1>1, <2>1, <2>2, <2>3, <2>4 DEF SplitInv
<1>7. ReachInv'
  BY <1>0 DEF ReachInv
<1> QED
  BY <1>4, <1>5, <1>6, <1>7 DEF Inv
-----------------------------------------------------------------------------
(* The exploration begins with its seed.                                   *)
LEMMA StartInv ==
  ASSUME Inv, TypeOK', StartComp
  PROVE  Inv'
<1>0. /\ pc = "scan" /\ pc' = "explore" /\ UNCHANGED <<levels, clState, counted, visited, found, free>>
      /\ queue = {} /\ visited = {} /\ counted = {}
  BY DEF Inv, StartComp, MarksInv
<1>1. PICK seed \in Active \cap Super.vars :
        varState' = [varState EXCEPT ![seed] = "in_comp"] /\ queue' = {seed}
  BY DEF StartComp
<1>2. Super' = Super /\ Assigns' = Assigns /\ pending'[depth'] = pending[depth]
  BY <1>0 DEF levels, Super, Assigns
<1>3. seed \in Var /\ varState[seed] = "active" /\ seed \in Unassigned(Assigns)
  BY <1>0, <1>1 DEF Inv, SplitInv, Active
<1>4. \A v \in Var : varState'[v] = IF v = seed THEN "in_comp" ELSE varState[v]
  BY <1>1 DEF Inv, TypeOK
<1>5. LevelsInv'
  BY <1>0, <1>4, LevelsKept DEF Inv
<1>6. MarksInv'
  BY <1>0, <1>1, <1>4 DEF Inv, MarksInv
<1>7. SplitInv'
  <2>1. Claimed' = Claimed
    BY <1>2, <1>3, <1>4 DEF Claimed, Unassigned
  <2>2. Super.vars \subseteq Var
    BY DEF Inv, TypeOK, Super, Comps
  <2>3. \A v \in Super.vars : v \in Unassigned(Assigns) <=> varState'[v] # "inactive"
    BY <1>0, <1>3, <1>4, <2>2 DEF Inv, SplitInv
  <2> QED
    BY <1>0, <1>2, <2>1, <2>3 DEF Inv, SplitInv, Parts
<1>8. ReachInv'
  BY <1>0, <1>1, <1>2, <1>3 DEF ReachInv
<1> QED
  BY <1>5, <1>6, <1>7, <1>8 DEF Inv

(* What a variable reaches lies in the component and has no value, and all *)
(* the clauses that are left of it are read.                               *)
LEMMA VisitReach ==
  ASSUME Inv, NEW v \in Var, Visit(v)
  PROVE  /\ v \in Super.vars \cap Unassigned(Assigns)
         /\ Alive(v) \subseteq LeftOf(Assigns) \cap Super.clauses
         /\ Reached(v) \subseteq Super.vars \cap Unassigned(Assigns)
         /\ \A c \in LeftOf(Assigns) : v \in Open(c, Assigns) =>
              Open(c, Assigns) \subseteq queue' /\ (c \in Long => c \in counted')
         /\ \A u \in Reached(v) : \E c \in LeftOf(Assigns) : {u, v} \subseteq Open(c, Assigns)
<1>0. /\ pc = "explore" /\ v \in queue
      /\ queue' = queue \cup Reached(v) /\ counted' = counted \cup Alive(v)
  BY DEF Visit
<1>1. v \in Super.vars \cap Unassigned(Assigns) /\ varState[v] = "in_comp"
  BY <1>0 DEF Inv, ReachInv, MarksInv
<1>2. PropagationDone(Assigns) /\ Whole(Super, Assigns) /\ Fenced(Super)
  <2>1. depth \in 0 .. depth
    BY DepthAssumption DEF Inv, TypeOK, Depths
  <2> QED
    BY <2>1 DEF Inv, LevelsInv, LevelInv, Super, Assigns
<1>3. \A c \in LeftOf(Assigns) : v \in Open(c, Assigns) =>
        /\ Open(c, Assigns) \subseteq Super.vars \cap Unassigned(Assigns)
        /\ Open(c, Assigns) \cap Claimed = {}
        /\ c \in Long => c \in Super.clauses
  <2> SUFFICES ASSUME NEW c \in LeftOf(Assigns), v \in Open(c, Assigns)
               PROVE  /\ Open(c, Assigns) \subseteq Super.vars \cap Unassigned(Assigns)
                      /\ Open(c, Assigns) \cap Claimed = {}
                      /\ c \in Long => c \in Super.clauses
    OBVIOUS
  <2>1. Open(c, Assigns) \cap Super.vars # {}
    BY <1>1
  <2>2. Open(c, Assigns) \subseteq Super.vars \cap Unassigned(Assigns)
    BY <1>2, <2>1 DEF Whole, Closed, Open
  <2>3. v \notin Claimed
    BY <1>1 DEF Claimed
  <2>4. Closed(Claimed, Assigns)
    BY <1>0 DEF Inv, SplitInv
  <2>5. Open(c, Assigns) \cap Claimed = {}
    BY <2>3, <2>4 DEF Closed
  <2>6. c \in Long => c \in Super.clauses
    BY <1>2, <2>1 DEF Whole
  <2> QED
    BY <2>2, <2>5, <2>6
<1>4. ASSUME NEW c \in Alive(v) PROVE c \in LeftOf(Assigns) \cap Long /\ v \in Open(c, Assigns)
  BY <1>1 DEF Alive, ActiveClauses, Dead, LeftOf, Long, Open
<1>5. Alive(v) \subseteq LeftOf(Assigns) \cap Super.clauses
  BY <1>3, <1>4
<1>6. ASSUME NEW u \in Reached(v)
      PROVE  /\ u \in Super.vars \cap Unassigned(Assigns)
             /\ \E c \in LeftOf(Assigns) : {u, v} \subseteq Open(c, Assigns)
  <2>0. u \in Var /\ varState[u] = "active"
    BY DEF Reached, Active
  <2>1. CASE u \in Adjacent(v)
    <3>1. u \in Super.vars
      BY <1>1, <1>2, <2>0, <2>1 DEF Fenced
    <3>2. u \in Unassigned(Assigns)
      BY <1>0, <2>0, <3>1 DEF Inv, SplitInv
    <3> QED
      BY <1>1, <2>1, <3>1, <3>2, LinkLeft
  <2>2. CASE u \notin Adjacent(v)
    <3>1. PICK c \in Alive(v) : u \in VarsOf(c) \cap Unassigned(Assigns)
      BY <2>2 DEF Reached, LinkedBy
    <3>2. u \in Open(c, Assigns)
      BY <3>1 DEF Open
    <3> QED
      BY <1>3, <1>4, <3>2
  <2> QED
    BY <2>1, <2>2
<1>7. ASSUME NEW c \in LeftOf(Assigns), v \in Open(c, Assigns)
      PROVE  Open(c, Assigns) \subseteq queue' /\ (c \in Long => c \in counted')
  <2>1. CASE c \in Long
    <3>1. c \in Super.clauses /\ clState[c] \in States \ {"inactive", "claimed"}
      <4>1. c \in Super.clauses /\ clState[c] \in States
        BY <1>3, <1>7, <2>1 DEF Inv, TypeOK
      <4>2. clState[c] # "inactive"
        BY <1>0, <4>1 DEF Inv, SplitInv
      <4>3. clState[c] # "claimed"
        BY <1>0, <1>3, <1>7, <4>1 DEF Inv, SplitInv
      <4> QED
        BY <4>1, <4>2, <4>3
    <3>2. CASE c \in counted
      BY <1>0, <3>2 DEF Inv, ReachInv
    <3>3. CASE c \notin counted
      <4>1. clState[c] = "active"
        BY <2>1, <3>1, <3>3 DEF Inv, MarksInv, States
      <4>2. c \in Alive(v)
        BY <1>7, <2>1, <4>1 DEF Alive, ActiveClauses, Dead, LeftOf, Open
      <4>3. ASSUME NEW u \in Open(c, Assigns) PROVE u \in queue'
        <5>1. u \in Super.vars /\ u \in Var /\ u \notin Claimed /\ u \in Unassigned(Assigns)
          BY <1>3, <1>7 DEF Unassigned
        <5>2. varState[u] \in {"active", "in_comp"}
          BY <1>0, <5>1 DEF Inv, SplitInv, TypeOK, States, Claimed
        <5>3. CASE varState[u] = "in_comp"
          BY <1>0, <5>1, <5>3 DEF Inv, MarksInv
        <5>4. CASE varState[u] = "active"
          <6>1. u \in LinkedBy(Alive(v))
            BY <4>2 DEF LinkedBy, Open
          <6> QED
            BY <1>0, <5>1, <5>4, <6>1 DEF Reached, Active
        <5> QED
          BY <5>2, <5>3, <5>4
      <4> QED
        BY <1>0, <4>2, <4>3
    <3> QED
      BY <3>2, <3>3
  <2>2. CASE c \notin Long
    <3>1. ASSUME NEW u \in Open(c, Assigns) PROVE u \in queue'
      <4>1. u \in Super.vars /\ u \in Var /\ u \notin Claimed /\ u \in Unassigned(Assigns)
        BY <1>3, <1>7 DEF Unassigned
      <4>2. varState[u] \in {"active", "in_comp"}
        BY <1>0, <4>1 DEF Inv, SplitInv, TypeOK, States, Claimed
      <4>3. CASE varState[u] = "in_comp"
        BY <1>0, <4>1, <4>3 DEF Inv, MarksInv
      <4>4. CASE varState[u] = "active"
        <5>1. u # v
          BY <1>1, <4>4
        <5>2. u \in Adjacent(v)
          BY <1>7, <2>2, <5>1, ShortLinks
        <5> QED
          BY <1>0, <4>1, <4>4, <5>2 DEF Reached, Active
      <4> QED
        BY <4>2, <4>3, <4>4
    <3> QED
      BY <2>2, <3>1
  <2> QED
    BY <2>1, <2>2
<1> QED
  BY <1>1, <1>5, <1>6, <1>7

(* A round of the exploration keeps what is reached within every closed    *)
(* set that has the seed, and completes the clauses of its variable.       *)
LEMMA VisitInv ==
  ASSUME Inv, TypeOK', NEW v \in Var, Visit(v)
  PROVE  Inv'
<1>0. /\ pc = "explore" /\ pc' = "explore" /\ UNCHANGED <<levels, found, free>>
      /\ queue' = queue \cup Reached(v) /\ counted' = counted \cup Alive(v)
      /\ visited' = visited \cup {v} /\ v \in queue
  BY DEF Visit
<1>1. Super' = Super /\ Assigns' = Assigns /\ pending'[depth'] = pending[depth]
  BY <1>0 DEF levels, Super, Assigns
<1>2. /\ \A u \in Var : varState'[u] = IF u \in Reached(v) THEN "in_comp" ELSE varState[u]
      /\ \A c \in Long : clState'[c] = IF c \in Alive(v) THEN "in_comp"
                                       ELSE IF c \in Dead(v) THEN "inactive" ELSE clState[c]
  BY DEF Visit
<1>3. \A u \in Reached(v) : varState[u] = "active"
  BY DEF Reached, Active
<1>4. \A c \in Alive(v) \cup Dead(v) : clState[c] = "active"
  BY DEF Alive, Dead, ActiveClauses
<1>5. LevelsInv'
  BY <1>0, <1>2, LevelsKept DEF Inv
<1>6. MarksInv'
  <2>1. \A c \in Long : clState'[c] = "in_comp" <=> c \in counted'
    BY <1>0, <1>2, <1>4 DEF Inv, MarksInv
  <2>2. \A u \in Var : varState'[u] = "in_comp" <=> u \in queue'
    BY <1>0, <1>2 DEF Inv, MarksInv
  <2> QED
    BY <1>0, <2>1, <2>2 DEF MarksInv
<1>7. SplitInv'
  <2>1. Claimed' = Claimed
    BY <1>1, <1>2, <1>3 DEF Claimed, Unassigned
  <2>2. Super.vars \subseteq Var /\ Super.clauses \subseteq Long
    BY DEF Inv, TypeOK, Super, Comps
  <2>3. \A u \in Super.vars : u \in Unassigned(Assigns) <=> varState'[u] # "inactive"
    BY <1>0, <1>2, <2>2, VisitReach DEF Inv, SplitInv
  <2>4. \A c \in LeftOf(Assigns) \cap Super.clauses :
          /\ clState'[c] # "inactive"
          /\ clState'[c] = "claimed" => clState[c] = "claimed"
    BY <1>0, <1>2, <2>2 DEF Inv, SplitInv, Dead, LeftOf
  <2> QED
    BY <1>0, <1>1, <2>1, <2>3, <2>4 DEF Inv, SplitInv, Parts
<1>8. ReachInv'
  <2>1. queue' \subseteq Super.vars \cap Unassigned(Assigns)
    BY <1>0, VisitReach DEF Inv, ReachInv
  <2>2. ASSUME NEW c \in counted'
        PROVE  c \in LeftOf(Assigns) \cap Super.clauses /\ Open(c, Assigns) \subseteq queue'
    <3>1. CASE c \in counted
      BY <1>0, <3>1 DEF Inv, ReachInv
    <3>2. CASE c \in Alive(v)
      <4>1. c \in LeftOf(Assigns) \cap Super.clauses /\ v \in Open(c, Assigns)
        BY <3>2, VisitReach DEF Alive, ActiveClauses, Open
      <4> QED
        BY <4>1, VisitReach
    <3> QED
      BY <1>0, <3>1, <3>2
  <2>3. ASSUME NEW c \in LeftOf(Assigns), Open(c, Assigns) \cap visited' # {}
        PROVE  Open(c, Assigns) \subseteq queue' /\ (c \in Long => c \in counted')
    <3>1. CASE v \in Open(c, Assigns)
      BY <3>1, VisitReach
    <3>2. CASE v \notin Open(c, Assigns)
      <4>1. Open(c, Assigns) \cap visited # {}
        BY <1>0, <2>3, <3>2
      <4> QED
        BY <1>0, <4>1 DEF Inv, ReachInv
    <3> QED
      BY <3>1, <3>2
  <2>4. \E seed \in queue' : \A T \in SUBSET Var : seed \in T /\ Closed(T, Assigns) => queue' \subseteq T
    <3>1. PICK seed \in queue : \A T \in SUBSET Var : seed \in T /\ Closed(T, Assigns) => queue \subseteq T
      BY <1>0 DEF Inv, ReachInv
    <3>2. ASSUME NEW T \in SUBSET Var, seed \in T, Closed(T, Assigns) PROVE queue' \subseteq T
      <4>1. v \in T /\ queue \subseteq T
        BY <1>0, <3>1, <3>2
      <4>2. ASSUME NEW u \in Reached(v) PROVE u \in T
        <5>1. PICK c \in LeftOf(Assigns) : {u, v} \subseteq Open(c, Assigns)
          BY VisitReach
        <5> QED
          BY <3>2, <4>1, <5>1 DEF Closed
      <4> QED
        BY <1>0, <4>1, <4>2
    <3> QED
      BY <1>0, <3>1, <3>2
  <2> QED
    BY <1>0, <1>1, <2>1, <2>2, <2>3, <2>4 DEF ReachInv
<1> QED
  BY <1>5, <1>6, <1>7, <1>8 DEF Inv
-----------------------------------------------------------------------------
(* A level stays right when of its own state at most components that are   *)
(* left to count go, and nothing gets active.                              *)
LEMMA LevelKept ==
  ASSUME NEW k, LevelInv(k),
         super'[k] = super[k], assigns'[k] = assigns[k], pending'[k] \subseteq pending[k],
         \A u \in Var : varState'[u] = "active" => varState[u] = "active"
  PROVE  LevelInv(k)'
<1>1. ASSUME NEW p, Fenced(p) PROVE Fenced(p)'
  BY <1>1 DEF Fenced, Adjacent
<1>2. Fenced(super[k])'
  <2>1. Fenced(super[k])
    BY DEF LevelInv
  <2> QED
    BY <2>1 DEF Fenced, Adjacent
<1>3. \A p \in pending'[k] : Fenced(p)'
  BY <1>1 DEF LevelInv
<1> QED
  BY <1>2, <1>3 DEF LevelInv

(* A variable from which nothing was reached is a part of its own.         *)
LEMMA FreeVarInv ==
  ASSUME Inv, TypeOK', FreeVar
  PROVE  Inv'
<1>0. /\ pc = "explore" /\ pc' = "scan" /\ UNCHANGED <<levels, clState, found>>
      /\ queue = visited /\ Cardinality(queue) = 1 /\ free' = free \cup queue
      /\ queue' = {} /\ visited' = {} /\ counted' = {}
  BY DEF FreeVar
<1>1. PICK s : queue = {s}
  <2>1. IsFiniteSet(queue)
    BY SubsetsFinite DEF Inv, TypeOK
  <2> QED
    BY <1>0, <2>1, FS_Singleton
<1>2. Super' = Super /\ Assigns' = Assigns /\ pending'[depth'] = pending[depth]
  BY <1>0 DEF levels, Super, Assigns
<1>3. s \in Super.vars \cap Unassigned(Assigns) /\ varState[s] = "in_comp" /\ s \in Var
  BY <1>0, <1>1 DEF Inv, ReachInv, MarksInv, Unassigned
<1>4. \A v \in Var : varState'[v] = IF v = s THEN "claimed" ELSE varState[v]
  BY <1>1 DEF FreeVar, SeedClaimed
<1>5. \A c \in LeftOf(Assigns) : s \notin Open(c, Assigns)
  <2> SUFFICES ASSUME NEW c \in LeftOf(Assigns), s \in Open(c, Assigns) PROVE FALSE
    OBVIOUS
  <2>1. Open(c, Assigns) \subseteq {s}
    BY <1>0, <1>1 DEF Inv, ReachInv
  <2>2. PropagationDone(Assigns)
    BY DepthAssumption DEF Inv, TypeOK, Depths, LevelsInv, LevelInv, Assigns
  <2> QED
    BY <2>1, <2>2, TwoOpen
<1>6. counted = {}
  <2> SUFFICES ASSUME NEW c \in counted PROVE FALSE
    OBVIOUS
  <2>1. c \in LeftOf(Assigns) /\ Open(c, Assigns) \subseteq {s}
    BY <1>1 DEF Inv, ReachInv
  <2>2. PropagationDone(Assigns)
    BY DepthAssumption DEF Inv, TypeOK, Depths, LevelsInv, LevelInv, Assigns
  <2> QED
    BY <1>5, <2>1, <2>2, TwoOpen
<1>7. LevelsInv'
  BY <1>0, <1>4, LevelsKept DEF Inv
<1>8. MarksInv'
  <2>1. \A v \in Var : varState'[v] # "in_comp"
    BY <1>1, <1>4 DEF Inv, MarksInv
  <2>2. \A c \in Long : clState'[c] # "in_comp"
    BY <1>0, <1>6 DEF Inv, MarksInv
  <2> QED
    BY <1>0, <2>1, <2>2 DEF MarksInv
<1>9. SplitInv'
  <2>1. s \notin Claimed /\ Claimed' = Claimed \cup {s}
    BY <1>2, <1>3, <1>4 DEF Claimed, Unassigned
  <2>2. Parts' = Parts \cup {{s}}
    BY <1>0, <1>1 DEF Parts
  <2>3. Super.vars \subseteq Var
    BY DEF Inv, TypeOK, Super, Comps
  <2>4. \A v \in Super.vars : v \in Unassigned(Assigns) <=> varState'[v] # "inactive"
    BY <1>0, <1>3, <1>4, <2>3 DEF Inv, SplitInv
  <2>5. Closed({s}, Assigns) /\ Closed(Claimed', Assigns)
    BY <1>0, <1>5, <2>1 DEF Inv, SplitInv, Closed
  <2>6. Claimed' = UNION Parts'
    BY <1>0, <2>1, <2>2 DEF Inv, SplitInv
  <2>7. \A S, T \in Parts' : S # T => S \cap T = {}
    <3>1. \A S \in Parts : s \notin S
      BY <1>0, <2>1 DEF Inv, SplitInv
    <3>2. \A S, T \in Parts : S # T => S \cap T = {}
      BY <1>0 DEF Inv, SplitInv
    <3>3. ASSUME NEW S \in Parts', NEW T \in Parts', S # T PROVE S \cap T = {}
      <4>1. CASE S \in Parts /\ T \in Parts
        BY <3>2, <3>3, <4>1
      <4>2. CASE S \notin Parts \/ T \notin Parts
        BY <2>2, <3>1, <3>3, <4>2
      <4> QED
        BY <4>1, <4>2
    <3> QED
      BY <3>3
  <2>8. \A v \in free' : Closed({v}, Assigns)
    BY <1>0, <1>1, <2>5 DEF Inv, SplitInv
  <2> QED
    BY <1>0, <1>2, <2>1, <2>4, <2>5, <2>6, <2>7, <2>8 DEF Inv, SplitInv
<1>10. ReachInv'
  BY <1>0 DEF ReachInv
<1> QED
  BY <1>7, <1>8, <1>9, <1>10 DEF Inv

(* What the exploration has reached when it is done is a component.        *)
LEMMA FinishFacts ==
  ASSUME Inv, Finished
  PROVE  /\ InComp = queue /\ ClausesInComp = counted
         /\ queue \subseteq Super.vars \cap Unassigned(Assigns)
         /\ queue \cap Claimed = {}
         /\ Part(NewComp, Assigns)
<1>0. pc = "explore" /\ queue = visited
  BY DEF Finished
<1>1. queue \subseteq Super.vars \cap Unassigned(Assigns) /\ Super \in Comps
  BY DEF Inv, ReachInv, TypeOK, Super
<1>2. InComp = queue
  BY <1>1 DEF Inv, MarksInv, InComp, Comps
<1>3. ClausesInComp = counted
  BY <1>1 DEF Inv, MarksInv, ReachInv, TypeOK, ClausesInComp, Comps
<1>4. Closed(queue, Assigns)
  BY <1>0 DEF Inv, ReachInv, Closed
<1>5. Connected(queue, Assigns)
  <2>1. PICK seed \in queue : \A T \in SUBSET Var : seed \in T /\ Closed(T, Assigns) => queue \subseteq T
    BY <1>0 DEF Inv, ReachInv
  <2>2. queue \in SUBSET Var
    BY DEF Inv, TypeOK
  <2> QED
    BY <1>4, <2>1, <2>2, FromSeed
<1>6. counted = {c \in LeftOf(Assigns) \cap Long : VarsOf(c) \cap queue # {}}
  <2>1. ASSUME NEW c \in counted
        PROVE  c \in LeftOf(Assigns) \cap Long /\ VarsOf(c) \cap queue # {}
    <3>1. c \in LeftOf(Assigns) \cap Super.clauses /\ Open(c, Assigns) \subseteq queue
      BY DEF Inv, ReachInv
    <3>2. PropagationDone(Assigns)
      BY DepthAssumption DEF Inv, TypeOK, Depths, LevelsInv, LevelInv, Assigns
    <3>3. Open(c, Assigns) # {}
      BY <3>1, <3>2, TwoOpen
    <3> QED
      BY <1>1, <3>1, <3>3 DEF Open, Comps
  <2>2. ASSUME NEW c \in LeftOf(Assigns) \cap Long, VarsOf(c) \cap queue # {}
        PROVE  c \in counted
    <3>1. Open(c, Assigns) \cap visited # {}
      BY <1>0, <1>1, <2>2 DEF Open
    <3> QED
      BY <3>1 DEF Inv, ReachInv
  <2> QED
    BY <2>1, <2>2
<1>7. queue \cap Claimed = {}
  BY DEF Claimed, Inv, MarksInv, TypeOK
<1>8. Part(NewComp, Assigns)
  BY <1>1, <1>2, <1>3, <1>4, <1>5, <1>6 DEF NewComp, Part
<1> QED
  BY <1>1, <1>2, <1>3, <1>7, <1>8

(* Of an unassigned variable next to a closed set, the set has it.         *)
LEMMA NextToClosed ==
  ASSUME NEW A, NEW Q \in SUBSET Unassigned(A), Closed(Q, A),
         NEW v \in Q, NEW u \in Adjacent(v) \cap Unassigned(A)
  PROVE  u \in Q
<1>1. PICK c \in LeftOf(A) : {u, v} \subseteq Open(c, A)
  BY LinkLeft
<1> QED
  BY <1>1 DEF Closed

(* There is no binary clause between a component that is found and one     *)
(* that is left to count, and its neighbours are not active.               *)
LEMMA FinishApart ==
  ASSUME Inv, Finished
  PROVE  /\ \A p \in pending[depth] : Apart(p, NewComp) /\ Apart(NewComp, p)
         /\ \A v \in queue : \A u \in Adjacent(v) \ queue : varState[u] # "active"
         /\ Whole(NewComp, Assigns) /\ NewComp.vars = queue
<1>0. pc = "explore" /\ NewComp.vars = queue /\ NewComp.clauses = counted
  BY FinishFacts DEF Finished, NewComp
<1>1. queue \subseteq Super.vars \cap Unassigned(Assigns) /\ queue \cap Claimed = {}
      /\ Closed(queue, Assigns)
  BY <1>0, FinishFacts DEF Part
<1>2. ASSUME NEW p \in pending[depth] PROVE Apart(p, NewComp) /\ Apart(NewComp, p)
  <2>1. p \in found /\ Part(p, Assigns) /\ Claimed = UNION Parts
    BY <1>0 DEF Inv, SplitInv
  <2>2. p.vars \subseteq Claimed /\ p.vars \subseteq Unassigned(Assigns)
    BY <2>1 DEF Parts, Part
  <2>3. ASSUME NEW v \in queue, NEW u \in p.vars, u \in Adjacent(v) PROVE FALSE
    <3>1. u \in queue
      BY <1>1, <2>2, <2>3, NextToClosed
    <3> QED
      BY <1>1, <2>2, <3>1
  <2>4. ASSUME NEW v \in queue, NEW u \in p.vars, v \in Adjacent(u) PROVE FALSE
    <3>1. u \in Var
      BY <2>2 DEF Unassigned
    <3>2. u \in Adjacent(v)
      BY <2>4, <3>1, AdjacentBack
    <3> QED
      BY <2>3, <3>2
  <2> QED
    BY <1>0, <2>3, <2>4 DEF Apart
<1>3. ASSUME NEW v \in queue, NEW u \in Adjacent(v) \ queue PROVE varState[u] # "active"
  <2>0. u \in Var
    BY DEF Adjacent
  <2>1. u \notin Unassigned(Assigns)
    BY <1>1, <1>3, NextToClosed
  <2>2. CASE u \in Super.vars
    BY <1>0, <2>1, <2>2 DEF Inv, SplitInv
  <2>3. CASE u \notin Super.vars
    <3>1. Fenced(Super)
      BY DepthAssumption DEF Inv, TypeOK, Depths, LevelsInv, LevelInv, Super
    <3> QED
      BY <1>1, <2>3, <3>1 DEF Fenced
  <2> QED
    BY <2>2, <2>3
<1>4. Whole(NewComp, Assigns)
  BY <1>0, <1>1, FinishFacts DEF Whole, Part, Open
<1> QED
  BY <1>0, <1>2, <1>3, <1>4

(* The marks of what is found: nothing gets active, and nothing is left in *)
(* the component.                                                          *)
LEMMA FinishMarks ==
  ASSUME Inv, Finished
  PROVE  /\ \A v \in Var : varState'[v] = IF v \in queue THEN "claimed" ELSE varState[v]
         /\ \A c \in Long : clState'[c] = IF c \in counted THEN "claimed" ELSE clState[c]
         /\ \A v \in Var : varState'[v] # "in_comp"
         /\ \A c \in Long : clState'[c] # "in_comp"
<1>1. /\ \A v \in Var : varState'[v] = IF v \in queue THEN "claimed" ELSE varState[v]
      /\ \A c \in Long : clState'[c] = IF c \in counted THEN "claimed" ELSE clState[c]
  BY FinishFacts DEF Finished
<1> QED
  BY <1>1 DEF Inv, MarksInv

(* The component is put aside, unless the cache holds its count.           *)
LEMMA FinishInv ==
  ASSUME Inv, TypeOK', NEW hit \in BOOLEAN, FinishComp(hit)
  PROVE  Inv'
<1>0. /\ Finished /\ pc = "explore" /\ pc' = "scan" /\ UNCHANGED <<depth, super, assigns, free>>
      /\ found' = found \cup {NewComp}
      /\ pending' = IF hit THEN pending ELSE [pending EXCEPT ![depth] = @ \cup {NewComp}]
      /\ queue' = {} /\ visited' = {} /\ counted' = {}
  BY DEF FinishComp, Finished
<1>1. Super' = Super /\ Assigns' = Assigns
  BY <1>0 DEF Super, Assigns
<1>2. /\ \A v \in Var : varState'[v] = IF v \in queue THEN "claimed" ELSE varState[v]
      /\ \A c \in Long : clState'[c] = IF c \in counted THEN "claimed" ELSE clState[c]
      /\ \A v \in Var : varState'[v] # "in_comp"
      /\ \A c \in Long : clState'[c] # "in_comp"
  BY <1>0, FinishMarks
<1>3. /\ NewComp.vars = queue /\ queue \subseteq Super.vars \cap Unassigned(Assigns)
      /\ queue \cap Claimed = {} /\ Part(NewComp, Assigns)
  BY <1>0, FinishFacts, FinishApart
<1>4. /\ \A k \in Depths : k # depth => pending'[k] = pending[k]
      /\ pending[depth] \subseteq pending'[depth]
      /\ pending'[depth] \subseteq pending[depth] \cup {NewComp}
      /\ depth \in Depths
  BY <1>0 DEF Inv, TypeOK
<1>5. LevelsInv'
  <2>1. ASSUME NEW k \in 0 .. depth, k # depth PROVE LevelInv(k)'
    <3>1. k \in Depths
      BY <1>4, DepthAssumption DEF Depths
    <3>2. super'[k] = super[k] /\ assigns'[k] = assigns[k] /\ pending'[k] \subseteq pending[k]
      BY <1>0, <1>4, <2>1, <3>1
    <3>3. LevelInv(k) /\ \A u \in Var : varState'[u] = "active" => varState[u] = "active"
      BY <1>2 DEF Inv, LevelsInv
    <3> QED
      BY <3>2, <3>3, LevelKept
  <2>2. ASSUME NEW k \in 0 .. depth, k = depth PROVE LevelInv(k)'
    <3>0. LevelInv(k)
      BY DEF Inv, LevelsInv
    <3>1. \A u \in Var : varState'[u] = "active" => varState[u] = "active"
      BY <1>2
    <3>2. ASSUME NEW p, Fenced(p) PROVE Fenced(p)'
      BY <3>1, <3>2 DEF Fenced, Adjacent
    <3>3. Fenced(super[k])'
      <4>1. Fenced(super[k])
        BY <3>0 DEF LevelInv
      <4> QED
        BY <1>0, <3>1, <4>1 DEF Fenced, Adjacent
    <3>4. ASSUME NEW p \in pending'[k]
          PROVE  p.vars \subseteq super[k].vars /\ Whole(p, assigns[k]) /\ Fenced(p)'
      <4>1. CASE p \in pending[k]
        BY <3>0, <3>2, <4>1 DEF LevelInv
      <4>2. CASE p = NewComp
        <5>1. p.vars \subseteq super[k].vars /\ Whole(p, assigns[k])
          BY <1>0, <1>3, <2>2, <4>2, FinishApart DEF Super, Assigns
        <5>2. \A v \in p.vars : \A u \in Adjacent(v) \ p.vars : varState[u] # "active"
          BY <1>0, <4>2, FinishApart
        <5>3. \A v \in p.vars : \A u \in Adjacent(v) \ p.vars : varState'[u] # "active"
          BY <3>1, <5>2 DEF Adjacent
        <5> QED
          BY <5>1, <5>3 DEF Fenced
      <4> QED
        BY <1>4, <2>2, <4>1, <4>2
    <3>5. ASSUME NEW p \in pending'[k], NEW q \in pending'[k], p # q PROVE Apart(p, q)
      <4>1. CASE p \in pending[k] /\ q \in pending[k]
        BY <3>0, <3>5, <4>1 DEF LevelInv
      <4>2. CASE p = NewComp /\ q \in pending[k]
        BY <1>0, <2>2, <4>2, FinishApart
      <4>3. CASE p \in pending[k] /\ q = NewComp
        BY <1>0, <2>2, <4>3, FinishApart
      <4> QED
        BY <1>4, <2>2, <3>5, <4>1, <4>2, <4>3
    <3>6. /\ PropagationDone(assigns[k]) /\ Whole(super[k], assigns[k])
          /\ super' = super /\ assigns' = assigns
      BY <1>0, <3>0 DEF LevelInv
    <3> QED
      BY <1>0, <3>3, <3>4, <3>5, <3>6 DEF LevelInv
  <2>3. \A k \in 0 .. depth : LevelInv(k)'
    BY <2>1, <2>2
  <2>4. \A k \in 1 .. depth : super[k] \in pending'[k - 1]
    <3>1. \A k \in 1 .. depth : k - 1 \in Depths /\ k - 1 # depth
      BY <1>4, DepthAssumption DEF Depths
    <3> QED
      BY <1>4, <3>1 DEF Inv, LevelsInv
  <2>5. \A k \in Depths : k > depth => pending'[k] = {}
    BY <1>4, DepthAssumption DEF Inv, LevelsInv, Depths
  <2> QED
    BY <1>0, <2>3, <2>4, <2>5 DEF Inv, LevelsInv
<1>6. MarksInv'
  BY <1>0, <1>2 DEF MarksInv
<1>7. SplitInv'
  <2>0. Super.vars \subseteq Var /\ Super.clauses \subseteq Long
    BY DEF Inv, TypeOK, Super, Comps
  <2>1. Claimed' = Claimed \cup queue
    BY <1>1, <1>2, <1>3, <2>0 DEF Claimed
  <2>2. Parts' = Parts \cup {queue}
    BY <1>0, <1>3 DEF Parts
  <2>3. \A v \in Super.vars : v \in Unassigned(Assigns) <=> varState'[v] # "inactive"
    BY <1>0, <1>2, <1>3, <2>0 DEF Inv, SplitInv
  <2>4. \A c \in LeftOf(Assigns) \cap Super.clauses : clState'[c] # "inactive"
    BY <1>0, <1>2, <2>0 DEF Inv, SplitInv
  <2>5. ASSUME NEW c \in LeftOf(Assigns) \cap Super.clauses, clState'[c] = "claimed"
        PROVE  Open(c, Assigns) \subseteq Claimed \cup queue
    <3>1. CASE c \in counted
      BY <1>0, <3>1 DEF Inv, ReachInv
    <3>2. CASE c \notin counted
      BY <1>0, <1>2, <2>0, <2>5, <3>2 DEF Inv, SplitInv
    <3> QED
      BY <3>1, <3>2
  <2>6. Closed(Claimed \cup queue, Assigns)
    BY <1>0, <1>3 DEF Inv, SplitInv, Part, Closed
  <2>7. Claimed' = UNION Parts'
    BY <1>0, <2>1, <2>2 DEF Inv, SplitInv
  <2>8. \A S, T \in Parts' : S # T => S \cap T = {}
    <3>1. \A S \in Parts : S \cap queue = {}
      BY <1>0, <1>3 DEF Inv, SplitInv
    <3>2. \A S, T \in Parts : S # T => S \cap T = {}
      BY <1>0 DEF Inv, SplitInv
    <3>3. ASSUME NEW S \in Parts', NEW T \in Parts', S # T PROVE S \cap T = {}
      <4>1. CASE S \in Parts /\ T \in Parts
        BY <3>2, <3>3, <4>1
      <4>2. CASE S \notin Parts \/ T \notin Parts
        BY <2>2, <3>1, <3>3, <4>2
      <4> QED
        BY <4>1, <4>2
    <3> QED
      BY <3>3
  <2>9. \A f \in found' : Part(f, Assigns)
    BY <1>0, <1>3 DEF Inv, SplitInv
  <2>10. \A v \in free' : Closed({v}, Assigns)
    BY <1>0 DEF Inv, SplitInv
  <2>11. pending'[depth] \subseteq found'
    BY <1>0, <1>4 DEF Inv, SplitInv
  <2> QED
    BY <1>0, <1>1, <2>1, <2>3, <2>4, <2>5, <2>6, <2>7, <2>8, <2>9, <2>10, <2>11 DEF SplitInv
<1>8. ReachInv'
  BY <1>0 DEF ReachInv
<1> QED
  BY <1>5, <1>6, <1>7, <1>8 DEF Inv

(* The split is given up: nothing is left to count at this level.          *)
LEMMA HitInv ==
  ASSUME Inv, TypeOK', HitZero
  PROVE  Inv'
<1>0. /\ Finished /\ pc' = "unsat" /\ UNCHANGED <<depth, super, assigns>>
      /\ pending' = [pending EXCEPT ![depth] = {}]
      /\ queue' = {} /\ visited' = {} /\ counted' = {} /\ found' = {} /\ free' = {}
  BY DEF HitZero, Finished
<1>1. /\ \A v \in Var : varState'[v] = IF v \in queue THEN "claimed" ELSE varState[v]
      /\ \A v \in Var : varState'[v] # "in_comp"
      /\ \A c \in Long : clState'[c] # "in_comp"
  BY <1>0, FinishMarks
<1>2. /\ \A k \in Depths : pending'[k] = IF k = depth THEN {} ELSE pending[k]
      /\ depth \in Depths
  BY <1>0 DEF Inv, TypeOK
<1>3. LevelsInv'
  <2>1. ASSUME NEW k \in 0 .. depth PROVE LevelInv(k)'
    <3>1. k \in Depths
      BY <1>2, DepthAssumption DEF Depths
    <3>2. super'[k] = super[k] /\ assigns'[k] = assigns[k] /\ pending'[k] \subseteq pending[k]
      BY <1>0, <1>2, <3>1
    <3>3. LevelInv(k) /\ \A u \in Var : varState'[u] = "active" => varState[u] = "active"
      BY <1>1 DEF Inv, LevelsInv
    <3> QED
      BY <3>2, <3>3, LevelKept
  <2>2. \A k \in 1 .. depth : super[k] \in pending'[k - 1]
    <3>1. \A k \in 1 .. depth : k - 1 \in Depths /\ k - 1 # depth
      BY <1>2, DepthAssumption DEF Depths
    <3> QED
      BY <1>2, <3>1 DEF Inv, LevelsInv
  <2>3. \A k \in Depths : k > depth => pending'[k] = {}
    BY <1>2 DEF Inv, LevelsInv
  <2> QED
    BY <1>0, <2>1, <2>2, <2>3 DEF Inv, LevelsInv
<1>4. MarksInv'
  BY <1>0, <1>1, <1>2 DEF MarksInv
<1>5. SplitInv' /\ ReachInv'
  BY <1>0 DEF SplitInv, ReachInv
<1> QED
  BY <1>3, <1>4, <1>5 DEF Inv

(* The split is done, and the marks stay as they are.                      *)
LEMMA EndInv ==
  ASSUME Inv, TypeOK', EndSplit
  PROVE  Inv'
<1>0. /\ pc = "scan" /\ pc' = "split" /\ UNCHANGED <<levels, varState, clState, queue, visited, counted>>
      /\ found' = {} /\ free' = {}
      /\ queue = {} /\ visited = {} /\ counted = {}
  BY DEF EndSplit, Inv, MarksInv
<1>1. LevelsInv'
  BY <1>0, LevelsKept DEF Inv
<1>2. MarksInv'
  BY <1>0 DEF Inv, MarksInv
<1>3. SplitInv' /\ ReachInv'
  BY <1>0 DEF SplitInv, ReachInv
<1> QED
  BY <1>1, <1>2, <1>3 DEF Inv
-----------------------------------------------------------------------------
(* The search leaves the marks alone.                                      *)
LEMMA SearchMarks ==
  ASSUME Inv, UNCHANGED analysis, pc \in {"split", "unsat"},
         pc' \in {"assigned", "split", "unsat"},
         pc' \in {"assigned", "unsat"} => pending'[depth'] = {}
  PROVE  MarksInv' /\ SplitInv' /\ ReachInv'
<1>1. /\ queue' = {} /\ visited' = {} /\ counted' = {} /\ found' = {} /\ free' = {}
      /\ UNCHANGED <<varState, clState, queue, counted>>
  BY DEF Inv, MarksInv, analysis
<1>2. MarksInv'
  BY <1>1 DEF Inv, MarksInv
<1> QED
  BY <1>1, <1>2 DEF SplitInv, ReachInv

(* The component decided in lies in the one that was split, and is still a *)
(* whole one whatever the decision assigns.                                *)
LEMMA DecideInv ==
  ASSUME Inv, TypeOK', Decide
  PROVE  Inv'
<1>0. /\ pc = "split" /\ depth \in Depths /\ depth + 1 \in Depths /\ depth' = depth + 1
      /\ UNCHANGED <<analysis, pending>> /\ pc' = "assigned"
  BY DepthAssumption DEF Inv, TypeOK, Decide, Depths
<1>1. PICK comp \in pending[depth], A \in Extensions(Assigns) :
        /\ super' = [super EXCEPT ![depth + 1] = comp]
        /\ assigns' = [assigns EXCEPT ![depth + 1] = A]
  BY DEF Decide
<1>2. /\ super'[depth + 1] = comp /\ assigns'[depth + 1] = A
      /\ \A k \in 0 .. depth : super'[k] = super[k] /\ assigns'[k] = assigns[k]
  BY <1>0, <1>1 DEF Inv, TypeOK, Depths
<1>3. pending[depth + 1] = {} /\ LevelInv(depth) /\ varState' = varState
  BY <1>0 DEF Inv, LevelsInv, Depths, analysis
<1>4. A \in SUBSET Lit /\ assigns[depth] \subseteq A /\ PropagationDone(A)
  BY DEF Extensions, Assigns, Consistent
<1>5. LevelsInv'
  <2>1. ASSUME NEW k \in 0 .. depth PROVE LevelInv(k)'
    <3>1. LevelInv(k)
      BY DEF Inv, LevelsInv
    <3> QED
      BY <1>0, <1>2, <1>3, <3>1, LevelKept
  <2>2. ASSUME NEW k, k = depth + 1 PROVE LevelInv(k)'
    <3>1. Whole(comp, A) /\ Fenced(comp)
      BY <1>3, <1>4, WholeStays DEF LevelInv
    <3>2. super'[k] = comp /\ assigns'[k] = A /\ pending'[k] = {}
      BY <1>0, <1>2, <1>3, <2>2
    <3>3. Fenced(comp)'
      BY <1>3, <3>1 DEF Fenced
    <3>4. Fenced(super[k])'
      BY <3>2, <3>3 DEF Fenced
    <3> QED
      BY <1>4, <3>1, <3>2, <3>4 DEF LevelInv
  <2>3. \A k \in 0 .. depth + 1 : k \in 0 .. depth \/ k = depth + 1
    BY <1>0 DEF Depths
  <2>4. \A k \in 0 .. depth' : LevelInv(k)'
    BY <1>0, <2>1, <2>2, <2>3
  <2>5. ASSUME NEW j \in 0 .. depth', NEW k \in 0 .. depth', j <= k
        PROVE  super'[k].vars \subseteq super'[j].vars
    <3>1. CASE k \in 0 .. depth
      <4>1. j \in 0 .. depth
        BY <1>0, <2>5, <3>1 DEF Depths
      <4> QED
        BY <1>2, <2>5, <3>1, <4>1 DEF Inv, LevelsInv
    <3>2. CASE k = depth + 1 /\ j \in 0 .. depth
      <4>1. comp.vars \subseteq super[depth].vars
        BY <1>3 DEF LevelInv
      <4>2. super[depth].vars \subseteq super[j].vars
        BY <1>0, <3>2 DEF Inv, LevelsInv, Depths
      <4> QED
        BY <1>2, <3>2, <4>1, <4>2
    <3>3. CASE k = depth + 1 /\ j = depth + 1
      BY <3>3
    <3> QED
      BY <1>0, <2>3, <3>1, <3>2, <3>3
  <2>6. ASSUME NEW k \in 1 .. depth' PROVE super'[k] \in pending'[k - 1]
    <3>1. CASE k = depth + 1
      BY <1>0, <1>2, <3>1 DEF Depths
    <3>2. CASE k # depth + 1
      <4>1. k \in 1 .. depth /\ k \in 0 .. depth
        BY <1>0, <3>2 DEF Depths
      <4> QED
        BY <1>0, <1>2, <4>1 DEF Inv, LevelsInv
    <3> QED
      BY <3>1, <3>2
  <2>7. \A k \in Depths : k > depth' => pending'[k] = {}
    BY <1>0 DEF Inv, LevelsInv, Depths
  <2> QED
    BY <2>4, <2>5, <2>6, <2>7 DEF LevelsInv
<1>6. MarksInv' /\ SplitInv' /\ ReachInv'
  BY <1>0, <1>3, SearchMarks
<1> QED
  BY <1>5, <1>6 DEF Inv

(* One level is given an assignment under which its components are whole,  *)
(* and the others stay.                                                    *)
LEMMA LevelAssigned ==
  ASSUME Inv, UNCHANGED <<analysis, depth, super>>,
         NEW A \in SUBSET Lit, assigns' = [assigns EXCEPT ![depth] = A],
         PropagationDone(A), Whole(Super, A),
         \A k \in Depths : k # depth => pending'[k] = pending[k],
         pending'[depth] \subseteq pending[depth],
         \A p \in pending'[depth] : Whole(p, A)
  PROVE  LevelsInv'
<1>0. depth \in Depths /\ varState' = varState
  BY DEF Inv, TypeOK, analysis
<1>1. /\ \A k \in Depths : k # depth => assigns'[k] = assigns[k]
      /\ assigns'[depth] = A
  BY <1>0 DEF Inv, TypeOK
<1>2. ASSUME NEW k \in 0 .. depth PROVE LevelInv(k)'
  <2>1. LevelInv(k) /\ super'[k] = super[k] /\ k \in Depths
    BY <1>0, DepthAssumption DEF Inv, LevelsInv, Depths
  <2>2. CASE k # depth
    <3>1. assigns'[k] = assigns[k] /\ pending'[k] \subseteq pending[k]
      BY <1>1, <2>1, <2>2
    <3> QED
      BY <1>0, <2>1, <3>1, LevelKept
  <2>3. CASE k = depth
    <3>1. /\ assigns'[k] = A /\ pending'[k] \subseteq pending[k]
          /\ Whole(super[k], A) /\ \A p \in pending'[k] : Whole(p, A)
      BY <1>1, <2>3 DEF Super
    <3>2. ASSUME NEW p, Fenced(p) PROVE Fenced(p)'
      BY <1>0, <3>2 DEF Fenced
    <3>3. Fenced(super[k])'
      <4>1. Fenced(super[k])
        BY <2>1 DEF LevelInv
      <4> QED
        BY <1>0, <2>1, <4>1 DEF Fenced
    <3>4. \A p \in pending'[k] : Fenced(p)'
      BY <2>1, <3>1, <3>2 DEF LevelInv
    <3> QED
      BY <2>1, <3>1, <3>3, <3>4 DEF LevelInv
  <2> QED
    BY <2>2, <2>3
<1>3. ASSUME NEW k \in 1 .. depth PROVE super'[k] \in pending'[k - 1]
  <2>1. k - 1 \in Depths /\ k - 1 # depth
    BY <1>0, DepthAssumption DEF Depths
  <2> QED
    BY <2>1 DEF Inv, LevelsInv
<1>4. \A k \in Depths : k > depth => pending'[k] = {}
  <2>1. \A k \in Depths : k > depth => k # depth
    BY <1>0 DEF Depths
  <2> QED
    BY <2>1 DEF Inv, LevelsInv
<1> QED
  BY <1>2, <1>3, <1>4 DEF Inv, LevelsInv

(* What a component's search has assigned leaves the others whole.         *)
LEMMA PropagateInv ==
  ASSUME Inv, TypeOK', Propagate
  PROVE  Inv'
<1>0. /\ pc = "split" /\ pc' = "split" /\ UNCHANGED <<analysis, depth, super, pending>>
  BY DEF Propagate
<1>1. PICK A \in Extensions(Assigns) : assigns' = [assigns EXCEPT ![depth] = A]
  BY DEF Propagate
<1>2. A \in SUBSET Lit /\ assigns[depth] \subseteq A /\ PropagationDone(A)
  BY DEF Extensions, Assigns, Consistent
<1>3. LevelInv(depth)
  BY DepthAssumption DEF Inv, TypeOK, LevelsInv, Depths
<1>4. Whole(Super, A) /\ \A p \in pending[depth] : Whole(p, A)
  BY <1>2, <1>3, WholeStays DEF LevelInv, Super
<1>5. LevelsInv'
  BY <1>0, <1>1, <1>2, <1>4, LevelAssigned
<1>6. MarksInv' /\ SplitInv' /\ ReachInv'
  BY <1>0, SearchMarks
<1> QED
  BY <1>5, <1>6 DEF Inv

(* The second branch starts from the assignment of the level below, where  *)
(* its component is one of those that are left to count.                   *)
LEMMA FlipInv ==
  ASSUME Inv, TypeOK', FlipBranch
  PROVE  Inv'
<1>0. /\ pc \in {"split", "unsat"} /\ pc' = "assigned" /\ UNCHANGED <<analysis, depth, super>>
      /\ pending' = [pending EXCEPT ![depth] = {}] /\ depth \in 1 .. depth /\ depth \in Depths
  BY DepthAssumption DEF FlipBranch, Inv, TypeOK, Depths
<1>1. PICK A \in Extensions(assigns[depth - 1]) : assigns' = [assigns EXCEPT ![depth] = A]
  BY DEF FlipBranch
<1>2. A \in SUBSET Lit /\ assigns[depth - 1] \subseteq A /\ PropagationDone(A)
  BY DEF Extensions, Consistent
<1>3. /\ pending'[depth] = {}
      /\ \A k \in Depths : k # depth => pending'[k] = pending[k]
  BY <1>0 DEF Inv, TypeOK
<1>4. Whole(Super, A)
  <2>1. depth - 1 \in 0 .. depth
    BY <1>0
  <2>2. LevelInv(depth - 1) /\ super[depth] \in pending[depth - 1]
    BY <1>0, <2>1 DEF Inv, LevelsInv
  <2> QED
    BY <1>2, <2>2, WholeStays DEF LevelInv, Super
<1>5. LevelsInv'
  BY <1>0, <1>1, <1>2, <1>3, <1>4, LevelAssigned
<1>6. MarksInv' /\ SplitInv' /\ ReachInv'
  BY <1>0, <1>3, SearchMarks
<1> QED
  BY <1>5, <1>6 DEF Inv

(* A level is left, and the ones below stay.                               *)
LEMMA FinishLevelInv ==
  ASSUME Inv, TypeOK', NEW dropped \in BOOLEAN, FinishLevel(dropped)
  PROVE  Inv'
<1>0. /\ pc \in {"split", "unsat"} /\ depth > 0 /\ depth' = depth - 1 /\ UNCHANGED analysis
      /\ depth \in Depths /\ depth - 1 \in Depths /\ depth # depth - 1
      /\ pc' = IF dropped THEN "unsat" ELSE "split"
  BY DepthAssumption DEF FinishLevel, Inv, TypeOK, Depths
<1>1. /\ \A k \in Depths : k # depth => super'[k] = super[k] /\ assigns'[k] = assigns[k]
      /\ pending'[depth] = {}
      /\ pending'[depth - 1] \subseteq pending[depth - 1]
      /\ dropped => pending'[depth - 1] = {}
      /\ \A k \in Depths : k \notin {depth, depth - 1} => pending'[k] = pending[k]
  BY <1>0 DEF FinishLevel, Inv, TypeOK
<1>2. LevelsInv'
  <2>1. ASSUME NEW k \in 0 .. depth - 1
        PROVE  k \in Depths /\ k # depth /\ k \in 0 .. depth
    BY <1>0, DepthAssumption DEF Depths
  <2>2. ASSUME NEW k \in 0 .. depth - 1 PROVE LevelInv(k)'
    <3>1. LevelInv(k) /\ varState' = varState
      BY <1>0, <2>1 DEF Inv, LevelsInv, analysis
    <3>2. super'[k] = super[k] /\ assigns'[k] = assigns[k] /\ pending'[k] \subseteq pending[k]
      BY <1>1, <2>1
    <3> QED
      BY <3>1, <3>2, LevelKept
  <2>3. ASSUME NEW j \in 0 .. depth - 1, NEW k \in 0 .. depth - 1, j <= k
        PROVE  super'[k].vars \subseteq super'[j].vars
    <3>1. super[k].vars \subseteq super[j].vars
      BY <2>1, <2>3 DEF Inv, LevelsInv
    <3> QED
      BY <1>1, <2>1, <3>1
  <2>4. ASSUME NEW k \in 1 .. depth - 1 PROVE super'[k] \in pending'[k - 1]
    <3>1. /\ k \in 1 .. depth /\ k \in Depths /\ k # depth
          /\ k - 1 \in Depths /\ k - 1 \notin {depth, depth - 1}
      BY <1>0, DepthAssumption DEF Depths
    <3>2. super[k] \in pending[k - 1]
      BY <3>1 DEF Inv, LevelsInv
    <3> QED
      BY <1>1, <3>1, <3>2
  <2>5. ASSUME NEW k \in Depths, k > depth - 1 PROVE pending'[k] = {}
    <3>1. k = depth \/ (k > depth /\ k \notin {depth, depth - 1})
      BY <1>0, <2>5 DEF Depths
    <3> QED
      BY <1>1, <3>1 DEF Inv, LevelsInv
  <2> QED
    BY <1>0, <2>2, <2>3, <2>4, <2>5 DEF LevelsInv
<1>3. MarksInv' /\ SplitInv' /\ ReachInv'
  BY <1>0, <1>1, SearchMarks
<1> QED
  BY <1>2, <1>3 DEF Inv
-----------------------------------------------------------------------------
(* The invariant holds along every step.                                   *)
LEMMA InvStep == Inv /\ [Next]_vars => Inv'
<1> SUFFICES ASSUME Inv, [Next]_vars PROVE Inv'
  OBVIOUS
<1>0. TypeOK'
  BY TypeStep DEF Inv
<1>1. CASE Explore
  BY <1>0, <1>1, SetupInv, StartInv, VisitInv, FreeVarInv, FinishInv, HitInv, EndInv DEF Explore
<1>2. CASE Search
  BY <1>0, <1>2, DecideInv, PropagateInv, FlipInv, FinishLevelInv DEF Search
<1>3. CASE UNCHANGED vars
  <2>1. LevelsInv'
    BY <1>3, LevelsKept DEF Inv, vars, analysis
  <2>2. MarksInv'
    BY <1>3 DEF Inv, MarksInv, vars, analysis, levels
  <2>3. SplitInv'
    BY <1>3 DEF Inv, SplitInv, Claimed, Parts, Super, Assigns, vars, analysis, levels
  <2>4. ReachInv'
    BY <1>3 DEF Inv, ReachInv, Super, Assigns, vars, analysis, levels
  <2> QED
    BY <1>0, <2>1, <2>2, <2>3, <2>4 DEF Inv
<1> QED
  BY <1>1, <1>2, <1>3 DEF Next, Done

(* The inductive invariant holds in every state.                           *)
THEOREM Invariant == Spec => []Inv
BY InitInv, InvStep, PTL DEF Spec

(* The exploration stays inside of the component that is split, among the  *)
(* variables without a value.                                              *)
THEOREM StaysInsideAlways == Spec => []StaysInside
<1>1. Inv => StaysInside
  BY DEF Inv, ReachInv, StaysInside
<1> QED
  BY <1>1, Invariant, PTL

(* What a split finds are the connected components of what is left, with   *)
(* all of their clauses and with their sizes.                              *)
THEOREM ComponentsFound == Spec => []ComponentsRight
<1>1. Inv => ComponentsRight
  BY DEF Inv, MarksInv, SplitInv, Part, ComponentsRight
<1> QED
  BY <1>1, Invariant, PTL

(* A split that ends has found each variable without a value exactly once. *)
THEOREM SplitCompleteAlways == Spec => []SplitComplete
<1>1. ASSUME Inv, pc = "scan", Active \cap Super.vars = {}
      PROVE  Claimed = Super.vars \cap Unassigned(Assigns)
  <2>1. ASSUME NEW v \in Super.vars \cap Unassigned(Assigns) PROVE varState[v] = "claimed"
    <3>1. v \in Var /\ varState[v] \in States /\ varState[v] # "active"
      BY <1>1, <2>1 DEF Active, Inv, TypeOK, Unassigned
    <3>2. varState[v] # "inactive"
      BY <1>1, <2>1 DEF Inv, SplitInv
    <3>3. varState[v] # "in_comp"
      BY <1>1, <3>1 DEF Inv, MarksInv
    <3> QED
      BY <3>1, <3>2, <3>3 DEF States
  <2> QED
    BY <2>1 DEF Claimed
<1>2. Inv => SplitComplete
  BY <1>1 DEF Inv, SplitInv, Parts, SplitComplete
<1> QED
  BY <1>2, Invariant, PTL
-----------------------------------------------------------------------------
(* The frequency of v counts the clauses given that it is in, and beside   *)
(* them some of its neighbours among the variables given.                  *)
With(clauses, v) == {c \in clauses : v \in VarsOf(c)}
Tallied(v, clauses, S) == freq[v] - Cardinality(With(clauses, v)) \in 0 .. Cardinality(Adjacent(v) \cap S)

FreqInv ==
    pc \in {"scan", "explore"} =>
        /\ \A v \in Active \cap Super.vars : freq[v] = 0
        /\ \A v \in queue : Tallied(v, counted, queue)
        /\ \A f \in found : \A v \in f.vars : Tallied(v, f.clauses, f.vars)

LEMMA AdjacentFinite ==
  ASSUME NEW v, NEW S
  PROVE  IsFiniteSet(Adjacent(v) \cap S) /\ Cardinality(Adjacent(v) \cap S) \in Nat
<1>1. Adjacent(v) \cap S \in SUBSET Var
  BY DEF Adjacent
<1> QED
  BY <1>1, SubsetsFinite

(* What the clauses of two sets apart add to a variable.                   *)
LEMMA CountAdds ==
  ASSUME NEW C \in SUBSET Formula, NEW D \in SUBSET Formula, C \cap D = {}, NEW v
  PROVE  /\ Cardinality(With(C, v)) \in Nat
         /\ Cardinality(With(D, v)) \in Nat
         /\ Cardinality(With(C \cup D, v)) = Cardinality(With(C, v)) + Cardinality(With(D, v))
<1> DEFINE X == With(C, v)
           Y == With(D, v)
<1>1. With(C \cup D, v) = X \cup Y /\ X \cap Y = {}
  BY DEF With
<1>2. X \in SUBSET Formula /\ Y \in SUBSET Formula
  BY DEF With
<1>3. IsFiniteSet(X) /\ IsFiniteSet(Y) /\ Cardinality(X) \in Nat /\ Cardinality(Y) \in Nat
  BY <1>2, SubsetsFinite
<1> HIDE DEF X, Y
<1>4. Cardinality(X \cup Y) = Cardinality(X) + Cardinality(Y) - Cardinality(X \cap Y)
  BY <1>3, FS_Union
<1>5. Cardinality(X \cap Y) = 0
  BY <1>1, FS_EmptySet
<1>6. Cardinality(X \cup Y) = Cardinality(X) + Cardinality(Y)
  BY <1>3, <1>4, <1>5
<1> QED
  BY <1>1, <1>3, <1>6 DEF X, Y

(* The other parts of the exploration: a split and a component begin with  *)
(* variables that count nothing, and a component that is found keeps what  *)
(* has been counted.                                                       *)
LEMMA FreqExplored ==
  ASSUME Inv, FreqInv,
         SetupContext \/ StartComp \/ FreeVar \/ HitZero \/ EndSplit \/ (\E hit \in BOOLEAN : FinishComp(hit))
  PROVE  FreqInv'
<1>1. CASE SetupContext
  <2>1. queue = {} /\ found = {}
    BY <1>1 DEF SetupContext, Inv, MarksInv
  <2>2. queue' = {} /\ found' = {} /\ Super' = Super /\ Assigns' = Assigns
    BY <1>1, <2>1 DEF SetupContext, levels, Super, Assigns
  <2>3. ASSUME NEW v \in Active' \cap Super.vars PROVE freq'[v] = 0
    <3>1. v \in Var /\ varState'[v] = "active" /\ varState'[v] = NewVarState(v)
      BY <1>1, <2>3 DEF Active, SetupContext
    <3>2. v \in Super.vars \cap Unassigned(Assigns)
      BY <2>3, <3>1 DEF NewVarState
    <3> QED
      BY <1>1, <3>1, <3>2 DEF SetupContext
  <2> QED
    BY <2>2, <2>3 DEF FreqInv
<1>2. CASE StartComp
  <2>1. /\ pc = "scan" /\ freq' = freq /\ found' = found /\ counted' = counted /\ counted = {}
        /\ Super' = Super
    BY <1>2 DEF StartComp, levels, Super, Inv, MarksInv
  <2>2. PICK seed \in Active \cap Super.vars :
          varState' = [varState EXCEPT ![seed] = "in_comp"] /\ queue' = {seed}
    BY <1>2 DEF StartComp
  <2>3. Active' \subseteq Active
    BY <2>2 DEF Active, Inv, TypeOK
  <2>4. freq[seed] = 0
    BY <2>1, <2>2 DEF FreqInv
  <2>5. Tallied(seed, counted, queue)'
    <3>1. With({}, seed) = {} /\ Cardinality({}) = 0
      BY FS_EmptySet DEF With
    <3>2. Cardinality(Adjacent(seed) \cap queue') \in Nat
      BY AdjacentFinite
    <3>3. Cardinality(With(counted', seed)) = 0 /\ freq'[seed] = 0
      BY <2>1, <2>4, <3>1
    <3>4. freq'[seed] - Cardinality(With(counted', seed)) \in 0 .. Cardinality(Adjacent(seed) \cap queue')
      BY <3>2, <3>3
    <3> QED
      BY <3>4 DEF Tallied, With, Adjacent
  <2>6. \A f \in found : \A v \in f.vars : Tallied(v, f.clauses, f.vars)'
    BY <2>1 DEF FreqInv, Tallied
  <2>7. \A v \in Active' \cap Super.vars : freq[v] = 0
    BY <2>1, <2>3 DEF FreqInv
  <2> QED
    BY <2>1, <2>2, <2>5, <2>6, <2>7 DEF FreqInv
<1>3. CASE FreeVar
  <2>1. pc = "explore" /\ freq' = freq /\ found' = found /\ queue' = {} /\ Super' = Super /\ varState' = SeedClaimed
    BY <1>3 DEF FreeVar, levels, Super
  <2>2. Active' \subseteq Active
    BY <2>1 DEF Active, SeedClaimed
  <2>3. \A f \in found : \A v \in f.vars : Tallied(v, f.clauses, f.vars)'
    BY <2>1 DEF FreqInv, Tallied
  <2> QED
    BY <2>1, <2>2, <2>3 DEF FreqInv
<1>4. CASE HitZero \/ EndSplit
  BY <1>4 DEF HitZero, EndSplit, FreqInv
<1>5. ASSUME NEW hit \in BOOLEAN, FinishComp(hit) PROVE FreqInv'
  <2>1. /\ pc = "explore" /\ freq' = freq /\ found' = found \cup {NewComp} /\ queue' = {}
        /\ varState' = [v \in Var |-> IF v \in InComp THEN "claimed" ELSE varState[v]]
        /\ Finished /\ Super' = Super
    BY <1>5 DEF FinishComp, Finished, Super
  <2>2. Active' \subseteq Active
    BY <2>1 DEF Active
  <2>3. NewComp.vars = queue /\ NewComp.clauses = counted
    BY <2>1, FinishFacts DEF NewComp
  <2>4. \A f \in found' : \A v \in f.vars : Tallied(v, f.clauses, f.vars)'
    BY <2>1, <2>3 DEF FreqInv, Tallied
  <2> QED
    BY <2>1, <2>2, <2>4 DEF FreqInv
<1> QED
  BY <1>1, <1>2, <1>3, <1>4, <1>5

(* A round of the loop counts the clauses it is the first to read, for all *)
(* their variables, and a link to a variable not seen before at both ends. *)
LEMMA FreqVisited ==
  ASSUME Inv, FreqInv, NEW v \in Var, Visit(v)
  PROVE  FreqInv'
<1>0. /\ pc = "explore" /\ v \in queue /\ found' = found /\ Super' = Super /\ Assigns' = Assigns
      /\ queue' = queue \cup Reached(v) /\ counted' = counted \cup Alive(v)
      /\ varState' = [u \in Var |-> IF u \in Reached(v) THEN "in_comp" ELSE varState[u]]
      /\ freq' = Bumped(v)
  BY DEF Visit, levels, Super, Assigns
<1>1. /\ Reached(v) \subseteq Super.vars \cap Unassigned(Assigns)
      /\ v \in Super.vars \cap Unassigned(Assigns)
      /\ \A c \in Alive(v) : c \in LeftOf(Assigns) /\ v \in Open(c, Assigns)
      /\ \A c \in LeftOf(Assigns) : v \in Open(c, Assigns) => Open(c, Assigns) \subseteq queue'
  <2>1. Alive(v) \subseteq LeftOf(Assigns) /\ \A c \in Alive(v) : v \in VarsOf(c)
    BY VisitReach DEF Alive, ActiveClauses
  <2> QED
    BY <2>1, VisitReach DEF Open
<1>2. /\ queue \subseteq Unassigned(Assigns) /\ queue \subseteq Super.vars /\ queue \subseteq Var
      /\ counted \in SUBSET Formula /\ Alive(v) \in SUBSET Formula /\ counted \cap Alive(v) = {}
      /\ \A u \in Var : freq[u] \in Nat
      /\ \A c \in counted : Open(c, Assigns) \subseteq queue
  BY DEF Inv, ReachInv, TypeOK, MarksInv, Alive, ActiveClauses, Long
<1>3. \A u \in queue : u \notin Active
  BY DEF Inv, MarksInv, Active
<1>4. Reached(v) \subseteq Active /\ Active \subseteq Var /\ Active' = Active \ Reached(v)
  <2>1. Active' = {u \in Var : varState'[u] = "active"}
    BY DEF Active
  <2> QED
    BY <1>0, <2>1 DEF Reached, Active
<1>5. \A u \in Var : freq'[u] = freq[u] + CountOf(Alive(v), u) + LinksOf(v, u)
  BY <1>0 DEF Bumped
<1>6. ASSUME NEW u \in Unassigned(Assigns)
      PROVE  /\ CountOf(Alive(v), u) = Cardinality(With(Alive(v), u))
             /\ CountOf(Alive(v), u) \in Nat
             /\ Cardinality(With(counted, u)) \in Nat
             /\ Cardinality(With(counted', u)) = Cardinality(With(counted, u)) + CountOf(Alive(v), u)
  <2>1. {c \in Alive(v) : u \in VarsOf(c) \cap Unassigned(Assigns)} = With(Alive(v), u)
    BY DEF With
  <2>2. /\ Cardinality(With(counted, u)) \in Nat
        /\ Cardinality(With(Alive(v), u)) \in Nat
        /\ Cardinality(With(counted \cup Alive(v), u)) =
               Cardinality(With(counted, u)) + Cardinality(With(Alive(v), u))
    BY <1>2, CountAdds, ZenonT(60)
  <2>3. CountOf(Alive(v), u) = Cardinality(With(Alive(v), u))
    BY <2>1 DEF CountOf
  <2> QED
    BY <1>0, <2>2, <2>3
<1>7. ASSUME NEW u \in Unassigned(Assigns), u \notin queue, u \notin Reached(v)
      PROVE  CountOf(Alive(v), u) = 0
  <2>1. With(Alive(v), u) = {}
    <3> SUFFICES ASSUME NEW c \in Alive(v), u \in VarsOf(c) PROVE FALSE
      BY DEF With
    <3>1. u \in Open(c, Assigns)
      BY DEF Open
    <3> QED
      BY <1>0, <1>1, <1>7, <3>1
  <2> QED
    BY <1>6, <2>1, FS_EmptySet
<1>8. ASSUME NEW u \in Active' \cap Super.vars PROVE freq'[u] = 0
  <2>1. u \in Active /\ u \in Var /\ u \notin Reached(v) /\ u \notin queue /\ u # v
    BY <1>0, <1>3, <1>4
  <2>2. u \in Unassigned(Assigns)
    BY <1>0, <2>1 DEF Inv, SplitInv, Active
  <2>3. u \notin Active \cap Adjacent(v)
    BY <2>1 DEF Reached
  <2>4. freq[u] = 0 /\ LinksOf(v, u) = 0
    BY <1>0, <2>1, <2>3 DEF FreqInv, LinksOf
  <2> QED
    BY <1>5, <1>7, <2>1, <2>2, <2>4
<1>9. ASSUME NEW u \in queue' PROVE Tallied(u, counted, queue)'
  <2> DEFINE old == Cardinality(With(counted, u))
             new == CountOf(Alive(v), u)
             now == Cardinality(With(counted', u))
             before == Cardinality(Adjacent(u) \cap queue)
             after == Cardinality(Adjacent(u) \cap queue')
  <2>1. u \in Unassigned(Assigns) /\ u \in Var /\ u \in Super.vars
    BY <1>0, <1>1, <1>2 DEF Unassigned
  <2>2. /\ old \in Nat /\ new \in Nat /\ now = old + new /\ before \in Nat /\ after \in Nat /\ freq[u] \in Nat
        /\ freq'[u] = freq[u] + new + LinksOf(v, u)
    BY <1>2, <1>5, <1>6, <2>1, AdjacentFinite
  <2>3. before <= after
    <3>1. Adjacent(u) \cap queue \subseteq Adjacent(u) \cap queue'
      BY <1>0
    <3> QED
      BY <3>1, AdjacentFinite, FS_Subset
  <2> HIDE DEF old, new, now, before, after
  <2>4. CASE u \in queue
    <3>1. freq[u] - old \in 0 .. before
      BY <1>0, <2>4 DEF FreqInv, Tallied, old, before
    <3>2. CASE u # v
      <4>1. LinksOf(v, u) = 0
        BY <1>3, <2>4, <3>2 DEF LinksOf
      <4>2. freq'[u] - now \in 0 .. after
        BY <2>2, <2>3, <3>1, <4>1
      <4> QED
        BY <4>2 DEF Tallied, now, after, Adjacent
    <3>3. CASE u = v
      <4> DEFINE links == Cardinality(Active \cap Adjacent(v))
      <4>1. LinksOf(v, u) = links
        BY <3>3 DEF LinksOf
      <4>2. links \in Nat /\ after = before + links
        <5> DEFINE X == Adjacent(v) \cap queue
                   Y == Adjacent(v) \cap Active
        <5>1. IsFiniteSet(X) /\ IsFiniteSet(Y) /\ Cardinality(Y) \in Nat
          BY AdjacentFinite
        <5>2. X \cap Y = {} /\ Adjacent(v) \cap queue' = X \cup Y /\ Active \cap Adjacent(v) = Y
          BY <1>0, <1>3, <1>4 DEF Reached
        <5> HIDE DEF X, Y
        <5>3. Cardinality(X \cup Y) = Cardinality(X) + Cardinality(Y) - Cardinality(X \cap Y)
          BY <5>1, FS_Union
        <5>4. Cardinality(X \cap Y) = 0
          BY <5>2, FS_EmptySet
        <5>5. before = Cardinality(X) /\ after = Cardinality(X \cup Y) /\ links = Cardinality(Y)
          BY <3>3, <5>2 DEF before, after, X
        <5> QED
          BY <2>2, <5>1, <5>3, <5>4, <5>5
      <4> HIDE DEF links
      <4>3. freq'[u] - now \in 0 .. after
        BY <2>2, <3>1, <4>1, <4>2
      <4> QED
        BY <4>3 DEF Tallied, now, after, Adjacent
    <3> QED
      BY <3>2, <3>3
  <2>5. CASE u \notin queue
    <3>1. u \in Reached(v) /\ u # v
      BY <1>0, <2>5
    <3>2. freq[u] = 0
      BY <1>0, <1>4, <2>1, <3>1 DEF FreqInv
    <3>3. old = 0
      <4>1. With(counted, u) = {}
        BY <1>2, <2>1, <2>5 DEF Open, With
      <4> QED
        BY <4>1, FS_EmptySet DEF old
    <3>4. LinksOf(v, u) \in 0 .. after
      <4>1. CASE u \notin Adjacent(v)
        BY <2>2, <3>1, <4>1 DEF LinksOf
      <4>2. CASE u \in Adjacent(v)
        <5>1. v \in Adjacent(u) \cap queue'
          BY <1>0, <4>2, AdjacentBack
        <5>2. after # 0
          BY <5>1, AdjacentFinite, FS_EmptySet DEF after
        <5>3. LinksOf(v, u) = 1
          BY <1>4, <3>1, <4>2 DEF LinksOf
        <5> QED
          BY <2>2, <5>2, <5>3
      <4> QED
        BY <4>1, <4>2
    <3>5. freq'[u] - now \in 0 .. after
      BY <2>2, <3>2, <3>3, <3>4
    <3> QED
      BY <3>5 DEF Tallied, now, after, Adjacent
  <2> QED
    BY <2>4, <2>5
<1>10. ASSUME NEW f \in found, NEW u \in f.vars PROVE Tallied(u, f.clauses, f.vars)'
  <2>1. u \in Claimed
    BY <1>0 DEF Inv, SplitInv, Parts
  <2>2. u \in Unassigned(Assigns) /\ u \in Var /\ varState[u] = "claimed"
    BY <2>1 DEF Claimed, Unassigned
  <2>3. u \notin queue /\ u \notin Active /\ u \notin Reached(v)
    BY <1>4, <2>2 DEF Inv, MarksInv, Active
  <2>4. CountOf(Alive(v), u) = 0 /\ LinksOf(v, u) = 0
    BY <1>0, <1>7, <2>2, <2>3 DEF LinksOf
  <2>5. freq'[u] = freq[u]
    BY <1>2, <1>5, <2>2, <2>4
  <2>6. Tallied(u, f.clauses, f.vars)
    BY <1>0 DEF FreqInv
  <2> QED
    BY <2>5, <2>6 DEF Tallied
<1> QED
  BY <1>0, <1>8, <1>9, <1>10 DEF FreqInv

LEMMA FreqStep == Inv /\ FreqInv /\ [Next]_vars => FreqInv'
<1> SUFFICES ASSUME Inv, FreqInv, [Next]_vars PROVE FreqInv'
  OBVIOUS
<1>1. CASE Explore
  BY <1>1, FreqExplored, FreqVisited DEF Explore
<1>2. CASE Search
  BY <1>2 DEF Search, Decide, Propagate, FlipBranch, FinishLevel, FreqInv
<1>3. CASE UNCHANGED vars
  BY <1>3 DEF vars, analysis, levels, FreqInv, Tallied, Active, Super
<1> QED
  BY <1>1, <1>2, <1>3 DEF Next, Done

(* The frequency of a variable that is found, which the branching goes by, *)
(* counts each clause it is in once, a clause read and undone never, and   *)
(* beside them no more than its neighbours.                                *)
THEOREM FrequenciesCounted == Spec => []FrequenciesRight
<1>1. Init => FreqInv
  BY DEF Init, FreqInv
<1>2. FreqInv => FrequenciesRight
  BY DEF FreqInv, Tallied, With, FrequenciesRight
<1> QED
  BY <1>1, <1>2, FreqStep, Invariant, PTL DEF Spec
=============================================================================
