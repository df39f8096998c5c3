----------------------------- MODULE CountSearch -----------------------------
(***************************************************************************)
(* The search of count_main() and backtrack() on a formula: propagation,   *)
(* clause learning, the split into components, the cache, the unit clauses *)
(* learnt on the way, and the simplification at fixed levels.  It shows    *)
(* that the number it ends with is the weighted projected model count.     *)
(*                                                                         *)
(* A literal is a variable or its negative, a clause a set of literals.    *)
(* The heuristics are free: any projection variable of the component may   *)
(* be decided on with either value, any clause that propagation refutes    *)
(* may be learnt, a learnt clause may fail to propagate (its watches need  *)
(* not be on the right literals after a backtrack) or be dropped, and the  *)
(* cache may be emptied before any split.  The cache is a set of counts;   *)
(* ComponentManager has its entries, and cleans exactly what a branch has  *)
(* created since it split, which is how an entry is owned by a level here. *)
(***************************************************************************)
EXTENDS Integers, Sequences, FiniteSets, FiniteSetsExt, Functions, SequencesExt

CONSTANTS
    Inputs      \* sequence of records: the formulas with their options, see below

VARIABLES
    input,      \* the one that is counted
    clauses,    \* the clauses in the propagator
    learnts,    \* learnt clauses kept there
    units,      \* unitcls_
    trail,      \* the literals of every level, from level 0
    comps,      \* comp_stack_
    decisions,  \* decisions_
    cache,      \* the components with a count
    multiplier, \* multiplier_
    fixed,      \* fixed_level_
    preLevel,   \* exists_pre_dl_ during countExists(), else -1
    pc          \* where the loops of count_main() and backtrack() are

vars == <<input, clauses, learnts, units, trail, comps, decisions, cache, multiplier, fixed,
          preLevel, pc>>
search == <<input, clauses, learnts, units, multiplier, fixed>>

(* An input: the clauses, normalized (satisfiable, no unit, all variables  *)
(* occur), on the variables 1 .. nvars, of which those up to nsvars are    *)
(* projection variables; the weights of the literals; the literals that    *)
(* are decided on first, in order; use_exists_check; and a bound on the    *)
(* learnt clauses kept at a time.                                          *)
ASSUME InputsAssumption ==
    \A i \in DOMAIN Inputs :
        LET names == 1 .. Inputs[i].nvars
        IN  /\ Inputs[i].nvars \in Nat
            /\ Inputs[i].nsvars \in 0 .. Inputs[i].nvars
            /\ Inputs[i].formula \subseteq SUBSET (names \cup {-v : v \in names})

Formula == Inputs[input].formula
Vars == 1 .. Inputs[input].nvars
Lits == Vars \cup {-v : v \in Vars}
SVars == 1 .. Inputs[input].nsvars
Weight == Inputs[input].weight
UseExistsCheck == Inputs[input].exists
MaxLearnts == Inputs[input].maxLearnts

Var(l) == IF l > 0 THEN l ELSE -l
Negate(L) == {-l : l \in L}
VarsOf(L) == {Var(l) : l \in L}
Product(S, F(_)) == MapThenFoldSet(LAMBDA x, y : x * y, 1, F, LAMBDA T : CHOOSE x \in T : TRUE, S)

(* The weight of a set of literals; only projection variables have one.    *)
WeightOf(L) == Product({l \in L : Var(l) \in SVars}, LAMBDA l : Weight[l])

Level == Len(decisions) - 1
InExists == preLevel >= 0
AtEntry == InExists /\ Level = preLevel
TopDecision == Last(decisions)
SetTop(d) == [decisions EXCEPT ![Len(decisions)] = d]
Super == Last(comps)
AssignedUpTo(k) == UNION {trail[i] : i \in 1 .. k + 1}
Assigned == AssignedUpTo(Level)
-----------------------------------------------------------------------------
(* Unit propagation of the clauses from the literals A.  A conflict leaves *)
(* a clause with all its literals false.                                   *)
Forced(C, A) ==
    UNION {{l \in c : Negate(c \ {l}) \subseteq A} : c \in {d \in C : d \cap A = {}}}

Propagate(C, A) ==
    LET closure[L \in SUBSET Lits] ==
            LET new == Forced(C, L) IN IF new \subseteq L THEN L ELSE closure[L \cup new]
    IN  closure[A]

Falsified(C, A) == \E c \in C : Negate(c) \subseteq A
Refuted(C, A) == Falsified(C, Propagate(C, A))

(* The models of the formula that extend a set of literals, or of clauses  *)
(* over some variables.                                                    *)
Models(C, V, A) ==
    {M \in {{IF v \in P THEN v ELSE -v : v \in V} : P \in SUBSET V} :
        A \subseteq M /\ \A c \in C : c \cap M # {}}
ModelsOf == [i \in DOMAIN Inputs |-> Models(Inputs[i].formula, 1 .. Inputs[i].nvars, {})]
AllModels == ModelsOf[input]
Satisfiable(A) == \E M \in AllModels : A \subseteq M

Projection(M) == {l \in M : Var(l) \in SVars}

(* A component is a set of variables with the long clauses active among    *)
(* them; a clause of two literals is active when its variables are there.  *)
Residual(comp) ==
    {{l \in c : Var(l) \in comp.vars} :
        c \in comp.cls \cup {b \in Formula : Cardinality(b) = 2 /\ VarsOf(b) \subseteq comp.vars}}

(* What is to be computed: the sum of the weights of the assignments to    *)
(* the projection variables that can be extended to a model.               *)
ModelCount(comp) ==
    MapThenSumSet(WeightOf, {Projection(M) : M \in Models(Residual(comp), comp.vars, {})})

RootComp == [vars |-> Vars, cls |-> {c \in Formula : Cardinality(c) > 2}]
-----------------------------------------------------------------------------
NewDecision(lit) ==
    [dec |-> lit, base |-> Len(comps), top |-> Len(comps), second |-> FALSE,
     models |-> << <<>>, <<>> >>, weight |-> Weight[lit],
     dvars |-> Super.vars \cap SVars]

Branch(d) == IF d.second THEN 2 ELSE 1
IncreaseModels(d, val) ==
    [d EXCEPT !.models[Branch(d)] = IF @ = <<>> THEN <<val>> ELSE <<@[1] * val>>]
MarkBranchUnsat(d) == [d EXCEPT !.models[Branch(d)] = <<>>]
IsUnsat(d) == d.models[Branch(d)] = <<>>
HasModel(d) == d.models # << <<>>, <<>> >>
HasUnprocessedComp(d) == d.base < d.top
NextComp(d) == [d EXCEPT !.top = @ - 1]
MulLitsWeightsUnsat(d) == IncreaseModels(d, d.weight)
MulLitsWeights(d) == IF IsUnsat(d) THEN d ELSE IncreaseModels(d, d.weight)
TotalModels(d) == FoldLeft(LAMBDA a, b : a + b, 0, d.models[1] \o d.models[2])

Init ==
    /\ input \in DOMAIN Inputs
    /\ clauses = Formula
    /\ learnts = {}
    /\ units = {}
    /\ trail = << {} >>
    /\ comps = <<RootComp>>
    /\ decisions = <<[dec |-> 0, base |-> 1, top |-> 1, second |-> TRUE,
                      models |-> << <<>>, <<>> >>, weight |-> 1, dvars |-> {}]>>
    /\ cache = {}
    /\ multiplier = 1
    /\ fixed = 0
    /\ preLevel = -1
    /\ pc = "main"

(* The literals whose weights the branch counts: those of the component    *)
(* being split, which propagation may leave by way of units and learnt     *)
(* clauses.                                                                *)
CountedAll(L) == L
Counted(L) == {l \in L : Var(l) \in TopDecision.dvars}

(* The literals not propagated yet, those of a decision or a flip, and     *)
(* those assigned once the learnt units are enqueued.                      *)
Pending == IF AtEntry THEN {} ELSE Last(trail)
EnqueuedNone == Assigned
Enqueued == Assigned \cup (units \ Negate(Assigned))

(* The head of the loop of count_main() or countExists(): enqueue the      *)
(* learnt units and propagate.  countExists() counts no weights.           *)
Propagation ==
    /\ pc = "main"
    /\ \E fired \in SUBSET learnts : \E after \in {Propagate(clauses \cup fired, Enqueued)} :
           LET new == after \ (Assigned \cup Negate(Enqueued))
           IN  /\ \A c \in fired : c \cap Negate(Pending \cup new) # {}
               /\ trail' = [trail EXCEPT ![Level + 1] = @ \cup new]
               /\ units' = IF Level = 0 THEN {} ELSE units
               /\ multiplier' = IF Level = 0 /\ ~ InExists THEN multiplier * WeightOf(new) ELSE multiplier
               /\ decisions' = IF Level = 0 \/ InExists THEN decisions
                               ELSE SetTop([TopDecision EXCEPT !.weight = @ * WeightOf(Counted(new))])
               /\ pc' = IF Falsified(clauses \cup fired, after) THEN "conflict" ELSE "split"
    /\ UNCHANGED <<input, clauses, learnts, comps, cache, fixed, preLevel>>

(* The literals analyzeMC() takes for assigned at level 0: those and the   *)
(* units, whatever value the units have.                                   *)
LevelZeroFixed == {l \in Assigned : l \in AssignedUpTo(fixed) \/ Var(l) \in VarsOf(units)}
LevelZero == {l \in Assigned : l \in trail[1] \/ Var(l) \in VarsOf(units)}

(* What analyzeMC() can make of a conflict: a clause that the trail        *)
(* falsifies, with at most one literal of the current level, and whose     *)
(* negation the propagator refutes.                                        *)
FalseClauses ==
    {L \in SUBSET Negate(Assigned \ LevelZero) :
        L # {} /\ Cardinality(Negate(L) \cap Last(trail)) <= 1}
Learnable == {L \in FalseClauses : Refuted(clauses \cup learnts, Negate(L) \cup LevelZero)}

(* A unit is learnt when the one literal is of the current level.          *)
IsUnitAnyLevel(L) == Cardinality(L) = 1
IsUnit(L) == Cardinality(L) = 1 /\ Negate(L) \subseteq Last(trail)

Keep(L) ==
    IF IsUnit(L) THEN units' = units \cup L /\ UNCHANGED learnts
    ELSE /\ UNCHANGED units
         /\ learnts' \in {learnts} \cup
              IF Cardinality(learnts) < MaxLearnts THEN {learnts \cup {L}} ELSE {}

Learn == \E L \in Learnable : Keep(L)

Conflict ==
    /\ pc = "conflict" /\ ~ AtEntry
    /\ IF Level = 0 THEN pc' = "exit" /\ UNCHANGED <<decisions, units, learnts>>
       ELSE /\ Learn
            /\ decisions' = SetTop(MarkBranchUnsat(TopDecision))
            /\ pc' = "backtrack"
    /\ UNCHANGED <<input, clauses, trail, comps, cache, multiplier, fixed, preLevel>>

(* Where countExists() began, a conflict refutes the component; it is      *)
(* learnt from with learn_unsat_comp.                                      *)
ConflictAtEntry ==
    /\ pc = "conflict" /\ AtEntry
    /\ Learn \/ UNCHANGED <<units, learnts>>
    /\ preLevel' = -1
    /\ pc' = "refuted"
    /\ UNCHANGED <<input, clauses, trail, comps, decisions, cache, multiplier, fixed>>
-----------------------------------------------------------------------------
(* The components of what is unassigned in the component being split: its  *)
(* variables, joined by the clauses that are not satisfied.                *)
ActiveBeforeBranch == {v \in Super.vars : v \notin VarsOf(AssignedUpTo(Level - 1))}
Active == {v \in Super.vars : v \notin VarsOf(Assigned)}
ActiveClauses ==
    {c \in Super.cls \cup {b \in Formula : Cardinality(b) = 2} :
        c \cap Assigned = {} /\ VarsOf(c) \cap Active # {}}

Neighbours(V) == UNION {VarsOf(c) \cap Active : c \in {d \in ActiveClauses : VarsOf(d) \cap V # {}}}
Reach(v) ==
    LET within[n \in Nat] ==
            IF n = 0 THEN {v} ELSE LET V == within[n - 1] IN V \cup Neighbours(V)
    IN  within[Cardinality(Active)]

Found ==
    {[vars |-> V, cls |-> {c \in ActiveClauses : Cardinality(c) > 2 /\ VarsOf(c) \cap V # {}}] :
        V \in {Reach(v) : v \in UNION {VarsOf(c) \cap Active : c \in ActiveClauses}}}

(* Components in the order of their first variables.                       *)
Ascending(C) ==
    {q \in [1 .. Cardinality(C) -> C] :
        \A i, j \in DOMAIN q : i < j => Min(q[i].vars) < Min(q[j].vars)}

(* splitComponent(): a free projection variable counts for both its        *)
(* literals, a component found in the cache for its count, and the others  *)
(* go onto the component stack.  Entries may be evicted on the way.        *)
SplitComponent ==
    /\ pc = "split"
    /\ \E kept \in {cache, {}} : \E found \in {Found} :
       \E new \in Ascending({c \in found : \A e \in kept : e.comp # c}) :
         LET free == {v \in Active \cap SVars : \A c \in found : v \notin c.vars}
             hits == {e \in kept : e.comp \in found}
             factors == Product(free, LAMBDA v : Weight[v] + Weight[-v])
                        * Product(hits, LAMBDA e : e.count)
         IN  /\ cache' = kept
             /\ comps' = comps \o new
             /\ decisions' = SetTop(LET d == [TopDecision EXCEPT !.top = Len(comps)+Len(new)]
                    IN  IF free = {} /\ hits = {} /\ new # <<>> THEN d
                        ELSE IncreaseModels(d, factors))
             /\ pc' = CASE new = <<>> -> "backtrack"
                        [] new # <<>> /\ InExists -> "decide"
                        [] OTHER -> "exists"
    /\ UNCHANGED <<search, trail, preLevel>>

(* The components without projection variables, the last first: whether    *)
(* they are satisfiable, which internalSAT() refutes only together with    *)
(* the trail.                                                              *)
Unprojected == HasUnprocessedComp(TopDecision) /\ Super.vars \cap SVars = {}

Implies(A, l) == \A M \in AllModels : A \subseteq M => l \in M

(* A clause internalSAT() learns below the current level asserts a literal *)
(* of the component there, which then propagates, through learnt clauses   *)
(* into other components as well.  Its level is left as it is afterwards.  *)
LearnBelow(l, why) ==
    /\ Implies(why, l) /\ Var(l) \notin VarsOf(Assigned)
    /\ IF why = {} THEN units' = units \cup {l} /\ UNCHANGED learnts
       ELSE /\ UNCHANGED units
            /\ learnts' \in {learnts} \cup
                 IF Cardinality(learnts) < MaxLearnts THEN {learnts \cup {{l} \cup Negate(why)}} ELSE {}
    /\ \E fired \in SUBSET learnts : \E new \in {Propagate(clauses \cup fired, Assigned \cup {l}) \ Assigned} :
         /\ \A c \in fired : c \cap Negate(new) # {}
         /\ ~ Falsified(clauses \cup fired, Assigned \cup new)
         /\ trail' = [trail EXCEPT ![Level + 1] = @ \cup new]

InternalSAT ==
    \/ UNCHANGED <<units, learnts, trail>>
    \/ \E l \in Super.vars \cup Negate(Super.vars), why \in SUBSET (Assigned \ LevelZero) : LearnBelow(l, why)

StartExists ==
    /\ pc = "exists" /\ Unprojected /\ UseExistsCheck
    /\ preLevel' = Level
    /\ pc' = "main"
    /\ UNCHANGED <<search, trail, comps, decisions, cache>>

InternalSATTrue == ~ UseExistsCheck /\ pc = "exists" /\ ModelCount(Super) > 0 /\ InternalSAT

(* A refutation is learnt from with learn_unsat_comp, by what the solver   *)
(* has learnt on the way.                                                  *)
InternalSATFalse ==
    /\ ~ UseExistsCheck /\ pc = "exists" /\ ~ Satisfiable(Assigned)
    /\ \/ InternalSAT
       \/ UNCHANGED trail /\ \E L \in FalseClauses : ~ Satisfiable(Negate(L)) /\ Keep(L)

ExistsTrue ==
    /\ Unprojected
    /\ \/ InternalSATTrue
       \/ pc = "found" /\ UNCHANGED <<units, learnts, trail>>
    /\ decisions' = SetTop(NextComp(IncreaseModels(TopDecision, 1)))
    /\ cache' = cache \cup {[comp |-> Super, count |-> 1, owner |-> Level]}
    /\ comps' = Front(comps)
    /\ pc' = "exists"
    /\ UNCHANGED <<input, clauses, multiplier, fixed, preLevel>>

ExistsFalse ==
    /\ Unprojected
    /\ \/ InternalSATFalse
       \/ pc = "refuted" /\ UNCHANGED <<units, learnts, trail>>
    /\ decisions' = SetTop(MarkBranchUnsat(TopDecision))
    /\ pc' = "clean"
    /\ UNCHANGED <<input, clauses, multiplier, fixed, preLevel, comps, cache>>

ExistsDone ==
    /\ pc = "exists" /\ ~ Unprojected
    /\ pc' = IF HasUnprocessedComp(TopDecision) THEN "decide" ELSE "backtrack"
    /\ UNCHANGED <<search, trail, comps, decisions, cache, preLevel>>

(* removeCachePollutions()                                                 *)
KeptAll(C) == C
Kept(C) == {e \in C : e.owner < Level}

(* The rest of an unsatisfiable branch leaves the stack, and what it has   *)
(* created leaves the cache.                                               *)
Clean ==
    /\ pc = "clean"
    /\ comps' = SubSeq(comps, 1, TopDecision.base)
    /\ decisions' = SetTop([TopDecision EXCEPT !.top = TopDecision.base])
    /\ cache' = Kept(cache)
    /\ pc' = "backtrack"
    /\ UNCHANGED <<search, trail, preLevel>>
-----------------------------------------------------------------------------
(* What a branch leaves in the cache belongs to the branch below from then *)
(* on.                                                                     *)
HandOver(C) == {[e EXCEPT !.owner = IF @ = Level THEN Level - 1 ELSE @] : e \in C}

BacktrackRoot ==
    /\ pc = "backtrack" /\ Level = 0 /\ ~ InExists
    /\ pc' = "exit"
    /\ UNCHANGED <<search, trail, comps, decisions, cache, preLevel>>

(* backtrackExists() at the level countExists() began: exists_found_ is    *)
(* still false.                                                            *)
BacktrackEntry ==
    /\ pc = "backtrack" /\ AtEntry
    /\ preLevel' = -1
    /\ pc' = "refuted"
    /\ UNCHANGED <<search, trail, comps, decisions, cache>>

Backtracking == pc = "backtrack" /\ Level > 0 /\ ~ AtEntry

(* countExists() is content with one model, count_main() flips every       *)
(* decision.                                                               *)
ToFlipFirst == ~ TopDecision.second /\ ~ InExists
ToFlip == ~ TopDecision.second /\ (InExists => TotalModels(TopDecision) = 0)

FlipBranch ==
    /\ Backtracking /\ ToFlip
    /\ decisions' = SetTop([MulLitsWeights(TopDecision) EXCEPT
                              !.second = TRUE, !.weight = IF InExists THEN @ ELSE Weight[-TopDecision.dec]])
    /\ trail' = [trail EXCEPT ![Level + 1] = {-TopDecision.dec}]
    /\ cache' = HandOver(cache)
    /\ pc' = "main"
    /\ UNCHANGED <<search, comps, preLevel>>

FinishLevel ==
    /\ Backtracking /\ ~ ToFlip
    /\ LET d == MulLitsWeights(TopDecision)
           val == TotalModels(d)
           prev == decisions[Len(decisions) - 1]
           below == NextComp(IF HasModel(d) THEN IncreaseModels(prev, val) ELSE MarkBranchUnsat(prev))
           entry == [comp |-> Super, count |-> IF InExists THEN 1 ELSE val, owner |-> Level - 1]
           atEntry == InExists /\ Level - 1 = preLevel
       IN  /\ cache' = HandOver(cache) \cup IF val > 0 THEN {entry} ELSE {}
           /\ decisions' = Append(SubSeq(decisions, 1, Len(decisions) - 2), below)
           /\ pc' = CASE atEntry -> IF val > 0 THEN "found" ELSE "refuted"
                      [] ~ atEntry /\ IsUnsat(below) -> "clean"
                      [] ~ atEntry /\ ~ IsUnsat(below) /\ HasUnprocessedComp(below) -> "decide"
                      [] OTHER -> "backtrack"
           /\ preLevel' = IF atEntry THEN -1 ELSE preLevel
    /\ trail' = Front(trail)
    /\ comps' = Front(comps)
    /\ UNCHANGED search

(* checkfixedDL() and simplify(), which the counters may let pass.         *)
AtFixedLevelFirstBranch ==
    fixed = Level /\ TopDecision.top - TopDecision.base = 1
AtFixedLevel ==
    fixed = Level /\ TopDecision.second /\ TopDecision.top - TopDecision.base = 1

(* The literals that the selector may take: the first of the input's lead  *)
(* that is there, or any.                                                  *)
Decidable(V) ==
    LET all == V \cup Negate(V)
        led == {k \in DOMAIN Inputs[input].lead : Inputs[input].lead[k] \in all}
    IN  {l \in all : led = {} \/ l = Inputs[input].lead[Min(led)]}

Decide ==
    /\ pc = "decide" /\ ~ InExists
    /\ IF AtFixedLevel
       THEN /\ fixed' = fixed + 1
            /\ \/ UNCHANGED <<clauses, learnts>>
               \/ /\ clauses' = {c \in clauses : c \cap Assigned = {}}
                  /\ learnts' = {c \in learnts : c \cap Assigned = {}}
       ELSE UNCHANGED <<clauses, learnts, fixed>>
    /\ \E lit \in Decidable(Super.vars \cap SVars) :
         /\ decisions' = Append(decisions, NewDecision(lit))
         /\ trail' = Append(trail, {lit})
    /\ pc' = "main"
    /\ UNCHANGED <<input, units, comps, cache, multiplier, preLevel>>

(* selectExists(): any variable that is not assigned; no weights.          *)
DecideExists ==
    /\ pc = "decide" /\ InExists
    /\ \E lit \in Decidable(Super.vars \ VarsOf(Assigned)) :
         /\ decisions' = Append(decisions, [NewDecision(lit) EXCEPT !.weight = 1, !.dvars = {}])
         /\ trail' = Append(trail, {lit})
    /\ pc' = "main"
    /\ UNCHANGED <<search, comps, cache, preLevel>>

Ended == pc = "exit"
Done == Ended /\ UNCHANGED vars

Next ==
    \/ Propagation \/ Conflict \/ ConflictAtEntry \/ SplitComponent
    \/ StartExists \/ ExistsTrue \/ ExistsFalse \/ ExistsDone
    \/ Clean \/ BacktrackRoot \/ BacktrackEntry \/ FlipBranch \/ FinishLevel
    \/ Decide \/ DecideExists \/ Done

Spec == Init /\ [][Next]_vars
-----------------------------------------------------------------------------
Result == IF HasModel(decisions[1]) THEN TotalModels(decisions[1]) * multiplier ELSE 0

(* The search ends with the weighted projected model count: count_main()   *)
(* and backtrack() count no assignment twice and lose none, whatever is    *)
(* learnt, decided, found in the cache or evicted on the way.              *)
CountCorrect == Ended => Result = ModelCount(RootComp)

(* A count in the cache is the count of its component, unless the branch   *)
(* that owns it is unsatisfiable and removeCachePollutions() is still to   *)
(* clean it: a clause learnt from a sibling component may have cut models  *)
(* of a component whose siblings have none.                                *)
CacheSound ==
    \A e \in cache :
        Satisfiable(AssignedUpTo(e.owner)) => e.count = ModelCount(e.comp)

(* The clauses simplify() removes at a fixed level stay satisfied for the  *)
(* rest of the search: no backtrack undoes the literals that satisfy them. *)
RemovedStaySatisfied ==
    pc \in {"main", "split", "exists", "decide"} =>
        \A c \in Formula \ clauses : c \cap AssignedUpTo(Min({fixed, Level})) # {}

(* When a conflict is analysed, no literal of the trail contradicts a      *)
(* learnt unit: analyzeMC() takes the variables of the units for assigned  *)
(* at level 0, with the value the unit gives them.                         *)
UnitsHold == pc = "conflict" => units \cap Negate(Assigned) = {}

(* A conflict involves a literal above level 0: the analysis, which skips  *)
(* those of level 0, does not run off the start of the trail.              *)
ConflictAboveZero ==
    pc = "conflict" => ~ Refuted(clauses \cup learnts, LevelZero)

(* The variables of the component to decide on are unassigned, the         *)
(* selector does not look: neither a learnt unit nor a learnt clause has   *)
(* assigned one since its component was split off.                         *)
DecideUnassigned == pc = "decide" => Super.vars \cap VarsOf(Assigned) = {}

(* What countExists() answers is right: a component it refutes is not      *)
(* satisfiable under the trail, and one it finds satisfiable is.           *)
ExistsRight ==
    /\ pc = "refuted" => ~ Satisfiable(Assigned)
    /\ pc = "found" => ModelCount(Super) > 0

(* What is learnt follows from the formula, although what level 0 means    *)
(* and the clauses themselves change during the search.                    *)
LearntImplied ==
    \A M \in AllModels : units \subseteq M /\ \A c \in learnts : c \cap M # {}
=============================================================================
