-------------------------- MODULE ComponentAnalyzer --------------------------
(***************************************************************************)
(* How splitComponent() finds the components of what an assignment leaves  *)
(* of a component.  The marks of variables and clauses are allocated once: *)
(* a split resets those of the component it splits and no other, and one   *)
(* that meets a count of zero in the cache returns in the middle.          *)
(*                                                                         *)
(* The rest of the search is what moves the assignment: it decides in one  *)
(* of the components found, flips a branch, gives a level up.  Unit        *)
(* propagation is complete when a split begins; as learnt clauses take     *)
(* part in it, a step may assign any variables, in agreement with the      *)
(* formula.  The variables in the queue are taken in any order.            *)
(***************************************************************************)
EXTENDS Integers, FiniteSets

CONSTANTS
    Var,        \* the variables
    Formula,    \* the clauses; a clause is a set of literals <<variable, sign>>
    MaxDepth,   \* bound on the decision level
    MaxStep     \* bound on the literals a step of the search assigns

Lit == Var \X BOOLEAN
VarsOf(lits) == {l[1] : l \in lits}

(* What the preprocessing leaves and init() asserts: every clause has two  *)
(* literals or more, of as many variables.                                 *)
ASSUME FormulaAssumption ==
    /\ Var \in SUBSET Nat /\ IsFiniteSet(Var)
    /\ IsFiniteSet(Formula)
    /\ \A c \in Formula :
         /\ c \in SUBSET Lit
         /\ IsFiniteSet(c) /\ Cardinality(c) >= 2
         /\ \A l, m \in c : l[1] = m[1] => l = m

ASSUME DepthAssumption == MaxDepth \in Nat

VARIABLES
    varState,   \* var_state_
    clState,    \* cl_state_
    freq,       \* var_freq_
    queue,      \* bfs_queue_
    visited,    \* the part of the queue the loop is done with
    counted,    \* the clauses ncls_in_comp counts
    found,      \* the components a split has found so far
    free,       \* the variables it has found without a clause
    depth,      \* decisionLevel()
    super,      \* for every level, the component that is split there,
    assigns,    \* the assignment,
    pending,    \* and the components it has left to count
    pc          \* where splitComponent() is

analysis == <<varState, clState, freq, queue, visited, counted, found, free>>
levels == <<depth, super, assigns, pending>>
vars == <<analysis, levels, pc>>

States == {"inactive", "active", "in_comp", "claimed"}
Depths == 0 .. MaxDepth

Super == super[depth]
Assigns == assigns[depth]

Unassigned(A) == Var \ VarsOf(A)
IsSatisfied(c, A) == c \cap A # {}
Long == {c \in Formula : Cardinality(c) > 2}
Adjacent(v) == {u \in Var \ {v} : \E c \in Formula : Cardinality(c) = 2 /\ VarsOf(c) = {u, v}}

(* No clause is falsified, and none has a single literal left.             *)
PropagationDone(A) ==
    \A c \in Formula : \/ IsSatisfied(c, A)
                       \/ \E l, m \in c : l # m /\ {l[1], m[1]} \subseteq Unassigned(A)

Consistent == {A \in SUBSET Lit : \A l, m \in A : l[1] = m[1] => l = m}

(* What a decision, propagation or both can make of an assignment.         *)
Extensions(A) ==
    {B \in Consistent : A \subseteq B /\ Cardinality(B \ A) <= MaxStep /\ PropagationDone(B)}

WholeFormula == [vars |-> Var, clauses |-> Long, nvars |-> Cardinality(Var), ncls |-> Cardinality(Long)]

Init ==
    /\ varState = [v \in Var |-> "inactive"]
    /\ clState = [c \in Long |-> "inactive"]
    /\ freq = [v \in Var |-> 0]
    /\ queue = {} /\ visited = {} /\ counted = {}
    /\ found = {} /\ free = {}
    /\ depth = 0
    /\ super = [k \in Depths |-> WholeFormula]
    /\ assigns = [k \in Depths |-> {}]
    /\ pending = [k \in Depths |-> {}]
    /\ pc = "assigned"
-----------------------------------------------------------------------------
(* Mutant: only the variables that are still unassigned get a mark.        *)
VarStateKept(v) ==
    IF v \in Super.vars \cap Unassigned(Assigns) THEN "active" ELSE varState[v]

NewVarState(v) ==
    IF v \notin Super.vars THEN varState[v]
    ELSE IF v \in Unassigned(Assigns) THEN "active" ELSE "inactive"

(* Mutant: what was satisfied in another branch stays out.                 *)
ClStateKept(c) ==
    IF c \in Super.clauses /\ clState[c] # "inactive" THEN "active" ELSE clState[c]

NewClState(c) == IF c \in Super.clauses THEN "active" ELSE clState[c]

SetupContext ==
    /\ pc = "assigned"
    /\ varState' = [v \in Var |-> NewVarState(v)]
    /\ clState' = [c \in Long |-> NewClState(c)]
    /\ freq' = [v \in Var |-> IF v \in Super.vars \cap Unassigned(Assigns) THEN 0 ELSE freq[v]]
    /\ pc' = "scan"
    /\ UNCHANGED <<levels, queue, visited, counted, found, free>>

Active == {v \in Var : varState[v] = "active"}

StartComp ==
    /\ pc = "scan"
    /\ \E seed \in Active \cap Super.vars :
         /\ \A v \in Active \cap Super.vars : seed <= v
         /\ varState' = [varState EXCEPT ![seed] = "in_comp"]
         /\ queue' = {seed}
    /\ pc' = "explore"
    /\ UNCHANGED <<levels, clState, freq, visited, counted, found, free>>

(* The active clauses of a variable, those that the assignment satisfies,  *)
(* and those that are left.                                                *)
ActiveClauses(v) == {c \in Long : v \in VarsOf(c) /\ clState[c] = "active"}
Dead(v) == {c \in ActiveClauses(v) : IsSatisfied(c, Assigns)}
Alive(v) == ActiveClauses(v) \ Dead(v)

LinkedBy(clauses) == UNION {VarsOf(c) \cap Unassigned(Assigns) : c \in clauses}

(* Mutant: what a clause has reached before its satisfied literal is kept. *)
ReachedAnyway(v) == Active \cap (Adjacent(v) \cup LinkedBy(ActiveClauses(v)))

(* What a satisfied clause has reached is undone.                          *)
Reached(v) == Active \cap (Adjacent(v) \cup LinkedBy(Alive(v)))

(* The variables of clauses that are left count these, and both ends of a  *)
(* link over which a variable is reached count it.                         *)
CountOf(clauses, u) == Cardinality({c \in clauses : u \in VarsOf(c) \cap Unassigned(Assigns)})
LinksOf(v, u) ==
    IF u = v THEN Cardinality(Active \cap Adjacent(v))
    ELSE IF u \in Active \cap Adjacent(v) THEN 1 ELSE 0

(* Mutant: a satisfied clause counts as far as it was read.                *)
BumpedDead(v) == [u \in Var |-> freq[u] + CountOf(ActiveClauses(v), u) + LinksOf(v, u)]
Bumped(v) == [u \in Var |-> freq[u] + CountOf(Alive(v), u) + LinksOf(v, u)]

(* One round of the loop of exploreCompOf().                               *)
Visit(v) ==
    /\ pc = "explore"
    /\ v \in queue \ visited
    /\ varState' = [u \in Var |-> IF u \in Reached(v) THEN "in_comp" ELSE varState[u]]
    /\ clState' = [c \in Long |-> IF c \in Alive(v) THEN "in_comp"
                                  ELSE IF c \in Dead(v) THEN "inactive" ELSE clState[c]]
    /\ freq' = Bumped(v)
    /\ queue' = queue \cup Reached(v)
    /\ visited' = visited \cup {v}
    /\ counted' = counted \cup Alive(v)
    /\ UNCHANGED <<levels, found, free, pc>>

(* Mutant: a seed from which nothing was reached keeps its mark.           *)
SeedKept == [v \in Var |-> IF v \in queue THEN "active" ELSE varState[v]]
SeedClaimed == [v \in Var |-> IF v \in queue THEN "claimed" ELSE varState[v]]

FreeVar ==
    /\ pc = "explore" /\ queue = visited /\ Cardinality(queue) = 1
    /\ varState' = SeedClaimed
    /\ free' = free \cup queue
    /\ queue' = {} /\ visited' = {} /\ counted' = {}
    /\ pc' = "scan"
    /\ UNCHANGED <<levels, clState, freq, found>>

InComp == {v \in Super.vars : varState[v] = "in_comp"}
ClausesInComp == {c \in Super.clauses : clState[c] = "in_comp"}
NewComp ==
    [vars |-> InComp, clauses |-> ClausesInComp,
     nvars |-> Cardinality(queue), ncls |-> Cardinality(counted)]

Finished ==
    /\ pc = "explore" /\ queue = visited /\ Cardinality(queue) # 1
    /\ varState' = [v \in Var |-> IF v \in InComp THEN "claimed" ELSE varState[v]]
    /\ clState' = [c \in Long |-> IF c \in ClausesInComp THEN "claimed" ELSE clState[c]]
    /\ queue' = {} /\ visited' = {} /\ counted' = {}
    /\ UNCHANGED <<freq, depth, super, assigns>>

(* The cache does not hold the component found, or it holds a count that   *)
(* is not zero: then nothing is left to do for the component.              *)
FinishComp(hit) ==
    /\ Finished
    /\ found' = found \cup {NewComp}
    /\ pending' = IF hit THEN pending ELSE [pending EXCEPT ![depth] = @ \cup {NewComp}]
    /\ pc' = "scan"
    /\ UNCHANGED free

(* The cache holds a count of zero: the split is given up.                 *)
HitZero ==
    /\ Finished
    /\ found' = {} /\ free' = {}
    /\ pending' = [pending EXCEPT ![depth] = {}]
    /\ pc' = "unsat"

EndSplit ==
    /\ pc = "scan" /\ Active \cap Super.vars = {}
    /\ found' = {} /\ free' = {}
    /\ pc' = "split"
    /\ UNCHANGED <<levels, varState, clState, freq, queue, visited, counted>>
-----------------------------------------------------------------------------
(* The search: a decision in a component that is pending (or, as           *)
(* countExists() does, another split of it before any decision).           *)
Decide ==
    /\ pc = "split" /\ depth < MaxDepth
    /\ \E comp \in pending[depth], A \in Extensions(Assigns) :
         /\ super' = [super EXCEPT ![depth + 1] = comp]
         /\ assigns' = [assigns EXCEPT ![depth + 1] = A]
    /\ depth' = depth + 1
    /\ pc' = "assigned"
    /\ UNCHANGED <<analysis, pending>>

(* The search of a component assigns variables of those that are pending,  *)
(* too, and leaves them so.                                                *)
Propagate ==
    /\ pc = "split" /\ pending[depth] # {}
    /\ \E A \in Extensions(Assigns) : assigns' = [assigns EXCEPT ![depth] = A]
    /\ UNCHANGED <<analysis, depth, super, pending, pc>>

(* The branch is done, or dropped with what is pending: its component is   *)
(* split for the second branch.                                            *)
FlipBranch ==
    /\ pc \in {"split", "unsat"} /\ depth > 0
    /\ \E A \in Extensions(assigns[depth - 1]) : assigns' = [assigns EXCEPT ![depth] = A]
    /\ pending' = [pending EXCEPT ![depth] = {}]
    /\ pc' = "assigned"
    /\ UNCHANGED <<analysis, depth, super>>

(* The component is done: the level is left, and the branch below may be   *)
(* dropped with it.                                                        *)
FinishLevel(dropped) ==
    /\ pc \in {"split", "unsat"} /\ depth > 0
    /\ depth' = depth - 1
    /\ super' = [super EXCEPT ![depth] = WholeFormula]
    /\ assigns' = [assigns EXCEPT ![depth] = {}]
    /\ pending' = [pending EXCEPT ![depth] = {},
                                  ![depth - 1] = IF dropped THEN {} ELSE @ \ {Super}]
    /\ pc' = IF dropped THEN "unsat" ELSE "split"
    /\ UNCHANGED analysis

Done == pc \in {"split", "unsat"} /\ depth = 0 /\ UNCHANGED vars

Explore ==
    \/ SetupContext \/ StartComp \/ FreeVar \/ HitZero \/ EndSplit
    \/ \E v \in Var : Visit(v)
    \/ \E hit \in BOOLEAN : FinishComp(hit)

Search ==
    \/ Decide \/ Propagate \/ FlipBranch
    \/ \E dropped \in BOOLEAN : FinishLevel(dropped)

Next == Explore \/ Search \/ Done

(* A split is a loop that waits for nothing.                               *)
Spec == Init /\ [][Next]_vars /\ WF_vars(Explore)
-----------------------------------------------------------------------------
(* Unassigned variables are closed when no clause that is left leads out   *)
(* of them, and connected when that is true of no part of them.            *)
LeftOf(A) == {c \in Formula : ~ IsSatisfied(c, A)}
Open(c, A) == VarsOf(c) \cap Unassigned(A)
Closed(S, A) == \A c \in LeftOf(A) : Open(c, A) \cap S # {} => Open(c, A) \subseteq S
Connected(S, A) == \A T \in (SUBSET S) \ {{}} : Closed(T, A) => T = S

Comps == [vars : SUBSET Var, clauses : SUBSET Long, nvars : Nat, ncls : Nat]

TypeOK ==
    /\ varState \in [Var -> States]
    /\ clState \in [Long -> States]
    /\ freq \in [Var -> Nat]
    /\ queue \in SUBSET Var /\ visited \in SUBSET Var /\ counted \in SUBSET Long
    /\ found \in SUBSET Comps /\ free \in SUBSET Var
    /\ depth \in Depths
    /\ super \in [Depths -> Comps]
    /\ assigns \in [Depths -> Consistent]
    /\ pending \in [Depths -> SUBSET Comps]
    /\ pc \in {"assigned", "scan", "explore", "split", "unsat"}

(* What is found is a component of what the assignment leaves of the       *)
(* formula, with its clauses and with the sizes that exploreCompOf() gives *)
(* it: whatever marks earlier splits have left, in other branches and      *)
(* given up in the middle, and whatever has been assigned since.           *)
ComponentsRight ==
    \A f \in found :
        /\ f.vars \subseteq Unassigned(Assigns)
        /\ Closed(f.vars, Assigns) /\ Connected(f.vars, Assigns)
        /\ f.clauses = {c \in LeftOf(Assigns) \cap Long : VarsOf(c) \cap f.vars # {}}
        /\ f.nvars = Cardinality(f.vars) /\ f.ncls = Cardinality(f.clauses)

(* A split that comes to its end has found every unassigned variable of    *)
(* the component, once, and the ones without a clause have none.           *)
SplitComplete ==
    pc = "scan" /\ Active \cap Super.vars = {} =>
        LET parts == {f.vars : f \in found} \cup {{v} : v \in free}
        IN  /\ UNION parts = Super.vars \cap Unassigned(Assigns)
            /\ \A S, T \in parts : S # T => S \cap T = {}
            /\ \A v \in free : Closed({v}, Assigns)

(* No mark that an earlier split has left leads exploreCompOf() out of the *)
(* component that is split, or to a variable with a value.                 *)
StaysInside == queue \subseteq Super.vars \cap Unassigned(Assigns)

(* A variable found counts the clauses it is in, and beside them at most   *)
(* its neighbours, also when clauses were read that turn out satisfied.    *)
FrequenciesRight ==
    pc = "scan" => \A f \in found : \A v \in f.vars :
        freq[v] - Cardinality({c \in f.clauses : v \in VarsOf(c)})
            \in 0 .. Cardinality(Adjacent(v) \cap f.vars)

(* Every split comes to an end.                                            *)
SplitEnds == pc = "assigned" ~> pc \in {"split", "unsat"}
=============================================================================
