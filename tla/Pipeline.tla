------------------------------- MODULE Pipeline -------------------------------
(***************************************************************************)
(* What the programs do to a formula around the search: gpmc-pp reads a    *)
(* file, preprocesses and writes a file; gpmc reads a file, preprocesses   *)
(* or normalizes, and counts.  Every pass folds variables into a factor,   *)
(* the multiplier of weighted formulas and a number of free variables for  *)
(* the others, that must reach the count through all that comes after.     *)
(*                                                                         *)
(* The SAT solvers are free: they may find any entailed literals and       *)
(* equivalences, and eliminate any variables they are allowed to.          *)
(***************************************************************************)
EXTENDS Formulas, Sequences, SequencesExt

CONSTANTS
    Inputs,    \* what there is to count: a file and how it is to be read
    Chains,    \* the programs it goes through: "pp" any number of times, then
               \* "gpmc", or "direct" for gpmc without preprocessing
    MaxRounds  \* bound on the rounds of the preprocessor

ASSUME InputsAssumption ==
    \A input \in Inputs :
        /\ input.file.nvars \in Nat
        /\ input.file.show \subseteq 1 .. input.file.nvars
        /\ input.file.clauses \subseteq SUBSET Lits(1 .. input.file.nvars)

VARIABLES
    file,      \* the formula in its file
    mode,      \* [projected, weighted, complete], as resolve_mode() has them
    chain,     \* the programs still to run
    cnf,       \* the formula in the running program
    st,        \* PrepState
    round,     \* rounds of the preprocessor begun
    res,       \* PreprocessingResult
    result,    \* the count, when there is one
    truth,     \* the count there should be
    pc

vars == <<file, mode, chain, cnf, st, round, res, result, truth, pc>>

None == <<>>
Among(n) == 1 .. n

(* isWeighted(): a table of weights that is not empty, or a multiplier.    *)
Weighted(c) == c.table \/ c.mult # None
LitWeight(c, l) == IF c.table THEN c.weight[l] ELSE One
OrOne(m) == IF m = None THEN One ELSE m

(* The sum over the assignments to the projection variables that can be    *)
(* extended to a model, of the products of their weights; what the search  *)
(* computes, and with the factors what there is to compute.                *)
CoreCount(c) ==
    LET projections == {M \cap Lits(c.proj) : M \in Models(c.clauses, Among(c.nvars))}
    IN  SumOver(projections, LAMBDA P : ProductOver(P, LAMBDA l : LitWeight(c, l)))
WithFactors(count, weighted, mult, shift) ==
    Times(count, IF weighted THEN mult ELSE <<2 ^ shift, 1>>)
Count(c) == WithFactors(CoreCount(c), Weighted(c), OrOne(c.mult), c.shift)
-----------------------------------------------------------------------------
(* readDimacs(), with setAllProjected() where the mode asks for it.        *)
Read(f, m) ==
    [nvars |-> f.nvars, proj |-> IF m.projected THEN f.show ELSE Among(f.nvars),
     clauses |-> {c \in f.clauses : ~ Tautology(c)},
     table |-> m.weighted /\ f.nvars > 0,
     weight |-> IF m.weighted THEN f.weight ELSE <<>>,
     mult |-> IF m.weighted THEN f.mult ELSE None,
     shift |-> f.shift]

(* completeMccWeights(): a literal without a weight has the complement of  *)
(* its negation's, or one; variables not projected have no weights.  Where *)
(* it is not asked for, check_weights_complete() wants all weights.        *)
Complement(w) == Rat(w[2] - w[1], w[2])
OneSided(c) == {l \in DOMAIN c.weight : Var(l) \in c.proj /\ -l \notin DOMAIN c.weight}
CanComplete(c) == \A l \in OneSided(c) : 0 < c.weight[l][1] /\ c.weight[l][1] < c.weight[l][2]
Completed(c) == [c EXCEPT !.weight = [l \in Lits(c.proj) |->
    CASE l \in DOMAIN c.weight -> c.weight[l]
      [] -l \in OneSided(c) -> Complement(c.weight[-l])
      [] OTHER -> One]]
Complete(c) == Weighted(c) => Lits(c.proj) \subseteq DOMAIN c.weight
Accepted(f, m) == IF m.complete THEN CanComplete(Read(f, m)) ELSE Complete(Read(f, m))
Opened(f, m) == IF m.complete THEN Completed(Read(f, m)) ELSE Read(f, m)

(* writeDimacs()                                                           *)
Written(c) ==
    [nvars |-> c.nvars, clauses |-> c.clauses, show |-> c.proj,
     weight |-> IF Weighted(c) THEN [l \in Lits(c.proj) |-> LitWeight(c, l)] ELSE <<>>,
     mult |-> c.mult,
     shift |-> IF Weighted(c) THEN 0 ELSE c.shift]
NoFile == [nvars |-> 0, clauses |-> {}, show |-> {}, weight |-> <<>>, mult |-> None, shift |-> 0]
WrittenUnsat == [NoFile EXCEPT !.clauses = {{}}]

(* The formula with the variables that are left numbered anew, those of    *)
(* the projection first.                                                   *)
Renumbered(c, clauses, table) ==
    LET live == VarsIn(clauses)
        npvars == Cardinality(live \cap c.proj)
        UpTo(S, v) == Cardinality({u \in S : u <= v})
        index == [v \in live |-> IF v \in c.proj THEN UpTo(live \cap c.proj, v)
                                 ELSE npvars + UpTo(live \ c.proj, v)]
        NewLit(l) == IF l > 0 THEN index[l] ELSE -index[-l]
        OldLit(k) == CHOOSE l \in Lits(live) : NewLit(l) = k
    IN  [c EXCEPT !.nvars = Cardinality(live), !.proj = Among(npvars),
                  !.clauses = {{NewLit(l) : l \in d} : d \in clauses},
                  !.table = table /\ npvars > 0,
                  !.weight = IF table THEN [k \in Lits(Among(npvars)) |-> c.weight[OldLit(k)]] ELSE <<>>]
-----------------------------------------------------------------------------
Init ==
    /\ \E input \in Inputs :
         /\ file = input.file
         /\ mode = input.mode
         /\ truth = IF Accepted(file, mode) THEN Count(Opened(file, mode)) ELSE Zero
    /\ chain \in Chains
    /\ cnf = Read(NoFile, [projected |-> FALSE, weighted |-> FALSE, complete |-> FALSE])
    /\ st = None
    /\ round = 0
    /\ res = None
    /\ result = None
    /\ pc = "file"

Open ==
    /\ pc = "file"
    /\ IF Accepted(file, mode)
       THEN /\ cnf' = Opened(file, mode)
            /\ pc' = IF Head(chain) = "direct" THEN "normalize" ELSE "preprocess"
       ELSE pc' = "error" /\ UNCHANGED cnf
    /\ UNCHANGED <<file, mode, chain, st, round, res, result, truth>>

(* preprocess() up to its loop.                                            *)
StartPreprocess ==
    /\ pc = "preprocess"
    /\ round' = 0
    /\ IF cnf.nvars = 0
       THEN res' = [sat |-> TRUE, mult |-> None, shift |-> 0] /\ pc' = "preprocessed" /\ UNCHANGED st
       ELSE /\ st' = [fixed |-> {}, substituted |-> {}, eliminated |-> {},
                      mult |-> IF Weighted(cnf) THEN OrOne(cnf.mult) ELSE None,
                      clauses |-> cnf.clauses]
            /\ pc' = "simplify"
            /\ UNCHANGED res
    /\ UNCHANGED <<file, mode, chain, cnf, result, truth>>

Unsat ==
    /\ res' = [sat |-> FALSE, mult |-> None, shift |-> 0]
    /\ st' = None
    /\ pc' = "preprocessed"
    /\ UNCHANGED <<cnf, round>>

(* What a solver may find fixed: units and what follows from them, and any *)
(* literals entailed.                                                      *)
FindableAlone(C) == SUBSET Entailed(C)
Findable(C) == {Closure(C, L) : L \in SUBSET Entailed(C)}

(* What it may find equivalent: every variable goes to a literal of the    *)
(* survivor of its class.                                                  *)
Mappings(n, C) ==
    LET V == VarsIn(C)
        all == Models(C, V)
        Same(l, k) == \A M \in all : l \in M <=> k \in M
    IN  {map \in [Among(n) -> Lits(Among(n))] :
            /\ \A v \in Among(n) \ V : map[v] = v
            /\ \A v \in V : Var(map[v]) \in V /\ map[Var(map[v])] = Var(map[v]) /\ Same(v, map[v])}

MapLit(map, l) == IF l > 0 THEN map[l] ELSE -map[-l]

(* normalizeClauses(): survivors replace their classes in the clauses,     *)
(* units propagate, and a class that is not fixed gives its survivor its   *)
(* weights and its place in the projection.                                *)
Rewritten(C, map) == {d \in {{MapLit(map, l) : l \in c} : c \in C} : ~ Tautology(d)}
Values(C, given) == given \cup Closure(Reduce(C, given), {})
TargetUnsigned(map, l) == IF l > 0 THEN Var(map[l]) ELSE -Var(map[-l])
Target(map, l) == MapLit(map, l)
GainWeightsProjected(c, merged) == merged \cap c.proj
GainWeights(c, merged) == merged
Merged(c, s, map) ==
    LET C == Rewritten(s.clauses, map)
        values == Values(C, {MapLit(map, l) : l \in s.fixed})
        Members(u) == {v \in DOMAIN map : Var(map[v]) = u}
        merged == {u \in DOMAIN map : Members(u) \notin {{}, {u}} /\ Lits({u}) \cap values = {}}
        From(l) == {k \in DOMAIN c.weight : Target(map, k) = l}
        gain == {l \in Lits(GainWeights(c, merged)) : From(l) # {}}
    IN  [ok |-> ~ Contradictory(values) /\ {} \notin Reduce(C, values),
         cnf |-> [c EXCEPT
            !.proj = @ \cup {u \in merged : Members(u) \cap c.proj # {}},
            !.weight = [l \in DOMAIN @ \cup gain |->
                           IF l \in gain THEN ProductOver(From(l), LAMBDA k : c.weight[k]) ELSE @[l]]],
         st |-> [s EXCEPT
            !.fixed = @ \cup {l \in Lits(DOMAIN map) : MapLit(map, l) \in values},
            !.substituted = @ \cup UNION {Members(u) \ {u} : u \in merged},
            !.clauses = Reduce(C, values)]]

(* simplifyWithoutBVE().  What it does not refute here the complete solve  *)
(* of the first round would, before anything else is done.                 *)
Simplify ==
    /\ pc = "simplify"
    /\ IF Models(st.clauses, Among(cnf.nvars)) = {} THEN Unsat
       ELSE \E found \in Findable(st.clauses), map \in Mappings(cnf.nvars, st.clauses) :
              LET m == Merged(cnf, [st EXCEPT !.fixed = @ \cup found], map)
              IN  IF m.ok
                  THEN /\ cnf' = m.cnf /\ st' = m.st
                       /\ round' = round + 1
                       /\ pc' = "eliminate"
                       /\ UNCHANGED res
                  ELSE Unsat
    /\ UNCHANGED <<file, mode, chain, result, truth>>

(* What a solver leaves when it eliminates some variables and finds some   *)
(* literals fixed.                                                         *)
AfterSolver(s, V, found) ==
    [s EXCEPT !.fixed = @ \cup found, !.clauses = Reduce(Eliminated(@, V), found)]

(* solveAndSimplifyWithBVE(): the projection is frozen.                    *)
EliminateVars ==
    /\ pc = "eliminate"
    /\ \E V \in SUBSET (VarsIn(st.clauses) \ cnf.proj) :
         \E found \in Findable(Eliminated(st.clauses, V)) : st' = AfterSolver(st, V, found)
    /\ pc' = "define"
    /\ UNCHANGED <<file, mode, chain, cnf, round, res, result, truth>>

(* applyDVE(): projection variables whose literals weigh the same and that *)
(* the others define; the solver need not eliminate all of them.           *)
Candidates ==
    {v \in cnf.proj \cap VarsIn(st.clauses) : st.mult # None => cnf.weight[v] = cnf.weight[-v]}

(* Whether v can differ in two copies of the formula that agree on the     *)
(* other projection variables, but for the candidates known to be defined. *)
(* Mutant: those are agreed on, too.                                       *)
DiffersAlone(v, known) ==
    LET all == Models(st.clauses, VarsIn(st.clauses))
        base == Lits(cnf.proj \ {v})
    IN  \E M, N \in all : v \in M /\ -v \in N /\ M \cap base = N \cap base
Differs(v, known) ==
    LET all == Models(st.clauses, VarsIn(st.clauses))
        base == Lits(cnf.proj \ (known \cup {v}))
    IN  \E M, N \in all : v \in M /\ -v \in N /\ M \cap base = N \cap base

(* detectDefinable(): what the loop over the candidates, in their order,   *)
(* may end with when a query can run into its limit, or into that of all.  *)
Detectable == {D \in SUBSET Candidates : \A v \in D : ~ Differs(v, {u \in D : u < v})}

FoldedAll(defined, gone) == defined
FoldedOf(defined, gone) == gone
DefineVars ==
    /\ pc = "define"
    /\ \E defined \in Detectable : \E gone \in SUBSET defined :
         \E found \in Findable(Eliminated(st.clauses, gone)) :
           st' = [AfterSolver(st, gone, found) EXCEPT
                    !.eliminated = @ \cup FoldedOf(defined, gone),
                    !.mult = IF @ = None THEN None
                             ELSE Times(@, ProductOver(FoldedOf(defined, gone), LAMBDA v : cnf.weight[v]))]
    /\ pc' \in {"finalize"} \cup IF round < MaxRounds THEN {"simplify"} ELSE {}
    /\ UNCHANGED <<file, mode, chain, cnf, round, res, result, truth>>

(* foldFixedWeights() and foldIsolatedVars()                               *)
FixedLits(c, s) == {l \in s.fixed : Var(l) \in c.proj}
IsolatedVars(c, s) ==
    c.proj \ ({Var(l) : l \in s.fixed} \cup s.substituted \cup s.eliminated \cup VarsIn(s.clauses))
Folded(c, s) ==
    [sat |-> TRUE,
     mult |-> IF s.mult = None THEN None
              ELSE Times(s.mult, Times(ProductOver(FixedLits(c, s), LAMBDA l : c.weight[l]),
                   ProductOver(IsolatedVars(c, s), LAMBDA v : Plus(c.weight[v], c.weight[-v])))),
     shift |-> Cardinality(IsolatedVars(c, s))]

Finalize ==
    /\ pc = "finalize"
    /\ LET m == Merged(cnf, st, [v \in Among(cnf.nvars) |-> v])
       IN  IF m.ok
           THEN /\ res' = Folded(m.cnf, m.st)
                /\ cnf' = Renumbered(m.cnf, m.st.clauses, st.mult # None)
                /\ st' = None
                /\ pc' = "preprocessed"
                /\ UNCHANGED round
           ELSE Unsat
    /\ UNCHANGED <<file, mode, chain, result, truth>>
-----------------------------------------------------------------------------
(* The end of gpmc-pp.                                                     *)
Write ==
    /\ pc = "preprocessed" /\ Head(chain) = "pp"
    /\ file' = IF res.sat THEN Written([cnf EXCEPT !.mult = res.mult, !.shift = res.shift])
               ELSE WrittenUnsat
    /\ chain' = Tail(chain)
    /\ res' = None
    /\ pc' = "file"
    /\ UNCHANGED <<mode, cnf, st, round, result, truth>>

(* setup() with a preprocessed formula, and count().  A clause without two *)
(* literals to watch makes what follows undefined.                         *)
Loadable == \A c \in cnf.clauses : Cardinality(c) > 1
CountPreprocessed ==
    /\ pc = "preprocessed" /\ Head(chain) = "gpmc"
    /\ result' \in IF ~ res.sat THEN {Zero}
                   ELSE IF ~ Loadable THEN {Zero, One}
                   ELSE {WithFactors(CoreCount(cnf), Weighted(cnf) \/ res.mult # None,
                                     OrOne(res.mult), res.shift)}
    /\ pc' = "counted"
    /\ UNCHANGED <<file, mode, chain, cnf, st, round, res, truth>>

(* normalize(), from what the solver has assigned at its root.             *)
NormalizedMult(c, found, left) ==
    IF ~ Weighted(c) THEN None
    ELSE LET gone == c.proj \ VarsIn(left)
         IN  Times(OrOne(c.mult),
                   Times(ProductOver({l \in found : Var(l) \in gone}, LAMBDA l : c.weight[l]),
                         ProductOver({v \in gone : Lits({v}) \cap found = {}},
                              LAMBDA v : Plus(c.weight[v], c.weight[-v]))))
NormalizedShiftAlone(c, found, left) ==
    Cardinality({v \in c.proj \ VarsIn(left) : Lits({v}) \cap found = {}})
NormalizedShift(c, found, left) ==
    (IF Weighted(c) THEN 0 ELSE c.shift)
    + Cardinality({v \in c.proj \ VarsIn(left) : Lits({v}) \cap found = {}})

Normalize ==
    /\ pc = "normalize"
    /\ IF Models(cnf.clauses, Among(cnf.nvars)) = {}
       THEN result' = Zero /\ pc' = "counted" /\ UNCHANGED <<cnf, res>>
       ELSE /\ \E found \in Findable(cnf.clauses) :
                 LET left == Reduce(cnf.clauses, found)
                 IN  /\ cnf' = Renumbered(cnf, left, cnf.table)
                     /\ res' = [sat |-> TRUE, mult |-> NormalizedMult(cnf, found, left),
                                shift |-> NormalizedShift(cnf, found, left)]
            /\ pc' = "normalized"
            /\ UNCHANGED result
    /\ UNCHANGED <<file, mode, chain, st, round, truth>>

CountNormalized ==
    /\ pc = "normalized"
    /\ result' = WithFactors(CoreCount(cnf), res.mult # None, OrOne(res.mult), res.shift)
    /\ pc' = "counted"
    /\ UNCHANGED <<file, mode, chain, cnf, st, round, res, truth>>

Ended == pc \in {"counted", "error"}
Done == Ended /\ UNCHANGED vars

Next ==
    \/ Open \/ StartPreprocess \/ Simplify \/ EliminateVars \/ DefineVars \/ Finalize
    \/ Write \/ CountPreprocessed \/ Normalize \/ CountNormalized \/ Done

Spec == Init /\ [][Next]_vars
-----------------------------------------------------------------------------
(* The variables that the preprocessor has done with.                      *)
Gone == {Var(l) : l \in st.fixed} \cup st.substituted \cup st.eliminated

(* What is still to be counted in the middle of the preprocessor: over the *)
(* projected variables that are not fixed, substituted or eliminated.      *)
Remaining ==
    Times(Times(CoreCount([cnf EXCEPT !.proj = @ \ Gone, !.clauses = st.clauses]), OrOne(st.mult)),
          ProductOver(FixedLits(cnf, st), LAMBDA l : LitWeight(cnf, l)))

(* The count that the file stands for, or what is made of it so far.       *)
StandsFor ==
    CASE pc = "file" -> Count(Opened(file, mode))
      [] pc \in {"preprocess", "normalize"} -> Count(cnf)
      [] pc \in {"simplify", "eliminate", "define", "finalize"} -> Remaining
      [] pc \in {"preprocessed", "normalized"} ->
           IF res.sat
           THEN WithFactors(CoreCount(cnf), Weighted(cnf) \/ res.mult # None, OrOne(res.mult), res.shift)
           ELSE Zero

(* No step between a file and the count changes what is to be counted: not *)
(* completing weights, a phase of the preprocessor with its equivalences,  *)
(* units, eliminated and defined variables, numbering anew, nor writing    *)
(* and reading back.                                                       *)
CountKept == Ended \/ (pc = "file" /\ ~ Accepted(file, mode)) \/ StandsFor = truth

(* What is printed is the count of the formula in the first file: the      *)
(* multiplier and the shift that every pass hands on reach it.             *)
ResultCorrect == pc = "counted" => result = truth

(* In the middle of the preprocessor no variable is counted twice: one     *)
(* whose weight goes to the multiplier as fixed or eliminated, or to its   *)
(* survivor, is none of the others and occurs no more in the clauses.      *)
FoldedOnce ==
    st # None =>
        /\ ~ Contradictory(st.fixed)
        /\ LET parts == <<{Var(l) : l \in st.fixed}, st.substituted, st.eliminated>>
           IN  \A i \in DOMAIN parts :
                 /\ pc \in {"eliminate", "define", "finalize"} => parts[i] \cap VarsIn(st.clauses) = {}
                 /\ \A j \in DOMAIN parts : i # j => parts[i] \cap parts[j] = {}

(* The variables detectDefinable() returns are defined by the rest of the  *)
(* projection, all of them together: those that define each other in a     *)
(* circle, as in an exclusive or, are not all returned.                    *)
DefinedTogether ==
    pc = "define" => \A V \in Detectable :
        LET all == Models(st.clauses, VarsIn(st.clauses))
            rest == Lits(cnf.proj \ V)
        IN  \A M, N \in all : M \cap rest = N \cap rest => M \cap V = N \cap V

(* In a weighted formula every variable of the projection has a weight for *)
(* either literal, also one that joins it as a survivor ("invariant 1",    *)
(* Preprocessor.cc:699).                                                   *)
WeightsTotal == pc \notin {"file", "error"} /\ cnf.table => Lits(cnf.proj) \subseteq DOMAIN cnf.weight

(* Every clause loaded into the counter has two literals to watch          *)
(* (attachClause(), extern/glucose/core/Solver.cc:270).                    *)
ClausesLoadable ==
    pc = "normalized" \/ (pc = "preprocessed" /\ Head(chain) = "gpmc" /\ res.sat) => Loadable
=============================================================================
