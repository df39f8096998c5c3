# TLA+ models of GPMC

GPMC counts the models of a CNF formula, optionally projected onto some of its
variables and weighted.  It is a DPLL search with clause learning that splits
the formula into components, counts them one after the other, and keeps their
counts in a cache.  Before the search a formula is preprocessed or normalized,
perhaps by a program of its own with a file in between.  These modules model
the search (the cache with its eviction and cleaning, the component and decision
stacks, the analysis that finds the components, the keys they are cached under,
and the count that comes out of it all), the passes before it, and the tree
decomposition that advises the search.

Run a model with `tlc -workers 2 -config <run>.cfg <module>.tla`, where the
module is `MC` and the part of the name before the underscore (`DescendantTree`
has no `MC` module); check the proofs of a module `X` with `tlapm XProofs.tla`, which
takes from seconds to four minutes.

## 1. Inventory

The first-party code is in `counter/`, `preprocessor/`, `cli/`, `td/` and
`include/gpmc/`, some 6,600 lines; `extern/` holds vendored solvers.

| Component | State | Operations | What makes it correct |
|---|---|---|---|
| **Component cache** (`ComponentCache`, `CachedBucket`) | entries, hash table, free slots, tree of descendants threaded through the entries, access clock, memory account | `lookup`, `newEntry`, `store`, `storeZero`, `addDescendant`, `cleanDescendants`, `evictIfNeeded`, table growth | a lookup finds every result there is and nothing else; a cleaning removes exactly what the failed branch created; accounts agree with what is in use |
| **Component manager** (`ComponentManager`, `Decision`) | component stack, decision stack (stretch of the component stack, split time, branch, counts per branch), fixed level | `splitComponent`, `pushDecision`, `popDecision`, `popComponent`, `propagateTopResult`, `removeCachePollutions`, `checkfixedDL` | every decision owns a stretch of the stack; every count reaches the decision that needs it, once |
| **Search** (`CounterImpl`) | trail, learnt clauses, learnt units, multiplier | `count_main`, `backtrack`, `analyzeMC`, `internalSAT`, `simplify`, `countExists`, `backtrackExists` | the result is the weighted projected model count |
| **Component analysis** (`ComponentAnalyzer`) | marks of variables and clauses, BFS queue, frequencies | `setupContext`, `exploreCompOf` | the components are those of the residual formula, whatever marks are left from before |
| **Packed components** (`PackedComponent`) | packed words, hash | packing, `equals` | the key fits its buffer, different components have different keys |
| **Normalizer, Preprocessor, CNF** | the formula, weights, multiplier, isolated variables | `normalize`, `preprocess`, `completeMccWeights`, `readDimacs`, `writeDimacs` | the count of the result, with multiplier and shift, is the count of the input, through any chain of passes |
| **Command line, signals** | `g_stop`, `g_in_core` | handlers, `main` | a signal ends the program, in the core through the normal path |
| **Tree decomposition** (`IFlowCutter`, `TreeDecomposition`, `TDScorer`) | open and closed cells, the best decomposition so far | `constructTD`, `compute_multilevel_partition`, `centroid`, `distanceFromCentroid` | what is kept is a tree decomposition, as wide as it claims, wherever the time limit stops it |
| **Heuristics** (`VarSelector`, selectors) | scores | `select` | no result depends on them; a variable chosen is unassigned and projected |

The components interact by direct calls within one thread.  `count_main()` owns
the loop: it enqueues learnt units and propagates (Glucose), learns from a
conflict or calls `splitComponent()`, which asks the analyzer for the
components, looks each up in the cache, and enters the new ones in the cache
and on the component stack; components without projection variables go to
`internalSAT()`, or with `--exists-check` to `countExists()`, a loop of its own
over the same stacks; then it decides.  `backtrack()` flips a decision, or stores the
count of a finished component and passes it to the decision below, or finds
that decision unsatisfiable and cleans.  The only concurrency is the signal
handler that sets the stop flag, polled at the loop heads and in the eviction
sweep.

What is hard here is not concurrency but long-range dependency.  A count may be
wrong because a clause learnt in a sibling component cut models away: that is
harmless as long as the branch is unsatisfiable and the cache forgets the count
in time.  Whether it does depends on the order of lists that evictions
rearrange, on clock values kept in decisions, and on what the propagator
assigned outside of the current component.  `PROJECT.json` lists these hazards
with the lines where they bite.

## 2. Modules

```
CacheContract                 what the cache promises: rollback is exact
   ^ implements (proved, checked)
DescendantTree                tree of descendants, split times, decisions
   ^ implements (proved, checked)   + DescendantTreeProofs
ComponentManager              both stacks, the loops of the search
   extends ComponentCache     tables, lists, clock, memory, eviction
   <- MCComponentManager      + ComponentManagerProofs, CacheStructureProofs

CountSearch                   a formula, a trail, clause learning, counts
   <- MCCountSearch           + CountSearchProofs

ComponentAnalyzer             marks and queue of the breadth-first search
   <- MCComponentAnalyzer     + ComponentAnalyzerProofs

PackedComponent               the key of a component, bit by bit
   <- MCPackedComponent       + PackedComponentProofs

Pipeline                      files, passes over a formula, their factors
   extends Formulas           clauses, models, rational numbers
   <- MCPipeline              + PipelineProofs

TreeDecomposition             orders, dissection, centroid, distances
   <- MCTreeDecomposition     instances

Induction                     what the proofs share: induction, recursion
```

Each module takes from the others what they promise.  `CountSearch` splits into
the connected components that `ComponentAnalyzer` shows a split to find, and
looks them up by themselves, which `PackedComponent` allows; its cache rolls back
as `CacheContract` says; `Pipeline` counts by definition what `CountSearch` counts.

**CacheContract** is the abstract specification.  An entry leaves the cache by
eviction (when it holds a result and its component is not on the stack) or by
the rollback of an unsatisfiable branch, which removes everything created since
the branch split and nothing else.

**DescendantTree** is the algorithm behind the rollback: entries hang below the
component they were split from, `Decision::split_time_` records the clock at the
first split of a branch and is kept through later ones (`countExists()` splits
again under the same decision), `cleanDescendants()` frees the children stamped since
then with all below them, and eviction hands children to the grandfather.  The
father pointers are kept as their transitive closure `anc`, which is what the
proofs need and what frees the module from recursion.  Which components a split
finds and which entries an eviction removes is free.

**ComponentCache** has one operator per method of the class, from a cache to
the cache it leaves.  Lists are real pointers (`father`, `first`, `next`,
`chain`), followed by the operator `Follow`, a recursive function as everything
here that walks or sweeps, so that it can be proved about; the table doubles as in the code;
an entry takes one unit of memory and its count another.  The sweep of
`evictIfNeeded()` takes how many polls will find the stop flag clear.

**ComponentManager** composes them into the steps of `count_main()` and
`backtrack()`, with `pc` for the place in the two loops:

| Action | Code |
|---|---|
| `Split` | `splitComponent()` and what `count_main()` does with its answer |
| `Conflict` | a conflict of `propagate()`, up to `markBranchUnsat()` |
| `ExistsTrue`, `ExistsFalse`, `ExistsDone` | the loop over components without projection variables, `internalSAT()` |
| `StartExists`, `ConflictAtEntry`, `BacktrackEntry` | `countExists()`: its entry, a conflict there, the end of `backtrackExists()` |
| `Clean` | popping the rest of a failed branch, `removeCachePollutions()` |
| `FlipBranch`, `FinishLevel`, `BacktrackRoot` | the three cases of `backtrack()` |
| `Decide`, `SimplifyFails` | `checkfixedDL()`, `simplify()`, `pushDecision()` |
| `Signal`, `Interrupt` | the handler, and the polls at the loop heads |

What assignments leave of a component is a table of the instance (`Residuals`),
and counts are absent, zero or not zero: what the bookkeeping can tell apart.

**CountSearch** puts the formula back.  It has the trail by levels, unit
propagation, learnt clauses, learnt units, the split into real components, the
weights of branches and the multiplier, and ends with a number.  Conflict
analysis is abstracted to what it can make: any clause the trail falsifies,
with at most one literal of the current level, that propagation refutes.  (More
than one is asked of a clause the search learns from a conflict found by
clauses whose watches were behind: the current level may contribute none.)
`internalSAT()` is one step: it answers, and leaves at most one literal of its
component asserted at the level it was called at, with what propagates from it;
an unsatisfiable component leaves learnt clauses too.  With `exists`,
`countExists()` decides and backtracks in the model as in the code, by
`StartExists`, `DecideExists` and `BacktrackEntry`.
The heuristics are free.  A learnt clause may fail to propagate, because a
backtrack does not put its watches back, and may be dropped.  The cache is a set
of counts; each is *owned* by the level whose failure cleans it, which is what
CacheContract promises.

**ComponentAnalyzer** is `splitComponent()` step by step.  `SetupContext` marks
the variables and clauses of the component, `StartComp` takes a seed, `Visit`
is one turn of the loop in `exploreCompOf()`, with what it takes back when a
clause turns out satisfied, `FinishComp` and `FreeVar` close a component,
`HitZero` gives the split up in the middle and leaves the marks as they are.
Around it `Decide`, `Propagate`, `FlipBranch` and `FinishLevel` do to the
assignment what the search may do between two splits.  The order of the queue
and of the occurrence lists is free.

**PackedComponent** is the constructor of the class: the widths it computes, the
buffer it allocates, and its writes one by one with their carries from word to
word.  A word is the set of its bits, and `BPB` their number.  What
`KeyTellsComponent` reads back is not in the code: it is the argument that
comparing the words is enough.

**TreeDecomposition** is `constructTD()` and what scores its result.

| Action | Code |
|---|---|
| `TryOrder`, `GrowTree`, `TreeGrown`, `OrdersTried` | `test_new_order()` with `output_tree_decomposition_of_order()`: the cliques of an elimination order, then a heaviest spanning tree of them |
| `StartPass`, `CloseCell`, `StopPass` | `compute_multilevel_partition()`: one cell is closed and split per round, until a test ends the pass or the time is over |
| `Materialize` | `materialize_best()` with `output_tree_decomposition_of_multilevel_partition()` |
| `FindCentroid`, `VisitBag`, `WalkDone` | `centroid()`, `distanceFromCentroid()` |
| `NoDecomposition` | `TDScorer::compute()` when there is none |

The elimination order is any, a separator any set of nodes of the cell that
flow-cutter may answer.  The decomposition is one tree in every case, as
`DecompositionValid` says: `output_tree_decomposition_of_order()` hangs the bags
of another part of the graph below the first bag, and all cells of a pass have
one root.  So the loop of `TDScorer::compute()` over the trees of a forest goes
round once, the comment above it (`TDScorer.cc:75`) notwithstanding: parts of
the graph are not scored each by itself.

**Pipeline** is what the programs do around the search, on formulas with real
clauses and weights.  A *chain* of programs works on a file: `gpmc-pp` any number
of times ("pp"), then `gpmc` with preprocessing ("gpmc") or without ("direct").

| Action | Code |
|---|---|
| `Open` | `readDimacs()`, `setAllProjected()`, `completeMccWeights()` or `check_weights_complete()` |
| `StartPreprocess` | `preprocess()` up to its loop |
| `Simplify` | `simplifyWithoutBVE()` with `normalizeClauses()`: units, equivalences, survivors and their weights |
| `EliminateVars` | `solveAndSimplifyWithBVE()` |
| `DefineVars` | `applyDVE()` with the loop of `detectDefinable()`, and whether another round follows |
| `Finalize` | `finalize()`: the folding of fixed and isolated variables, the new numbering |
| `Write` | the end of `gpmc-pp` with `writeDimacs()` |
| `CountPreprocessed` | `setup()` with the result of the preprocessor, `count()` |
| `Normalize`, `CountNormalized` | `Normalizer::normalize()`, the other `setup()`, `count()` |

CaDiCaL and Glucose are free: a solver may find any literals the clauses entail
and any equivalences, may eliminate any variables that are not frozen, and stops
where it likes, since the code bounds it by conflicts and time.  What they find
is exact: propagation is complete where clauses are read out of a solver.  The search itself is
`CoreCount`, the weighted projected count by definition; that the search
computes it is what CountSearch is for.

### Abstractions

* The projection set and the decision set are one: `nsvars` and `ndvars` are
  equal wherever they are set (`Normalizer.cc:148`, `Preprocessor.cc:670`).
* Restarts, activities, clause database reduction and statistics are left out;
  reduction is covered by learnt clauses that may be dropped or stay silent.
* `CountSearch` starts from a normalized formula: `Normalizer::normalize()`
  solves the formula (`Normalizer.cc:30`), so it is satisfiable, without unit
  clauses, and all variables occur.
* In Pipeline a clause is a set of literals and a formula a set of clauses: their
  order and duplicates are left out, and redundant clauses, which change no
  count.  Weights are rationals in lowest terms; what `parse()` and the printing
  make of their text is left out, they are exact.  A counter that attaches a
  clause of fewer than two literals has undefined behaviour: its result is free.
* ComponentAnalyzer assigns variables in agreement with the formula, and up to
  `MaxStep` at a time: what propagation with learnt clauses may do.
* `compute_max_bag_size_of_order()` never looks at the last node that has later
  neighbours.  That node has one, and in a graph of two edges or more another
  node has as many; the instances have two edges or more, as `TDScorer` leaves
  small formulas out.
* `simplify()` cannot fail in `CountSearch` (everything is propagated when it is
  called); `ComponentManager` has the branch of the code for it all the same.

## 3. Runs

| Run | Instance | Properties | Shows |
|---|---|---|---|
| `DescendantTree_MC` | 4 entries, 2 levels, clock up to 5 | `TreeOK` `StackEntriesKept` `CleanIsExact` `ImplementsContract` | what the proofs say, on a small instance |
| `ComponentManager_main` | four tables of residuals: existential components, zeros that are cached, evictions from the middle of lists, `countExists()`; caches of 6 to 20 units; the stop flag | `TypeOK` `StacksOK` `TableOK` `NothingDead` `DecideHasSVar` `FixedIsFinal` `ListsOK` `AccountsOK` `ImplementsTree` `Termination` | stacks, table, lists and account stay right, the pointers implement the tree, and the search ends |
| `CountSearch_sound` | six instances of 6 to 9 variables, with and without projection, weights (one of them zero) and `--exists-check` | `CountCorrect` `CacheSound` `RemovedStaySatisfied` `UnitsHold` `ConflictAboveZero` `DecideUnassigned` `LearntImplied` `ExistsRight` | the count is right although the cache gets polluted and units stray |
| `CountSearch_spilled` | an existential component and a weighted one that a learnt clause ties | `CountCorrect` | fails, see 6 |
| `CountSearch_exists` | two existential components that a learnt clause ties, `--exists-check` | `CountCorrect` | fails, see 6 |
| `CountSearch_units` | two components that a learnt clause ties, no projection, no weights | `CountCorrect` | fails, see 6 |
| `ComponentAnalyzer_MC` | 5 variables, 3 clauses, splits on 3 levels | `ComponentsRight` `SplitComplete` `StaysInside` `FrequenciesRight` `SplitEnds` | what a split finds are the components, all of them, and it ends |
| `PackedComponent_MC` | all components of 7 variables and 5 clauses, words of 4 bits | `InBuffer` `KeyTellsComponent` | the buffer suffices, the key tells the component |
| `Pipeline_single` | every formula of up to four clauses of two or three literals over three variables, one not projected, one with equal weights, one with a one-sided weight; some formulas of four variables; files that are refused | `CountKept` `ResultCorrect` `DefinedTogether` `FoldedOnce` `WeightsTotal` `ClausesLoadable` | one preprocessing, also with a file between it and the count, and the normalizer keep the count |
| `Pipeline_twice` | a formula with free variables and one that folds completely, preprocessed twice | `ResultCorrect` | fails, see 6 |
| `Pipeline_empty` | an unsatisfiable formula, preprocessed twice | `ClausesLoadable` | fails, see 6 |
| `TreeDecomposition_MC` | graphs of 4 to 6 nodes: cycles, a cycle with a triangle on it, two parts, a star with a tail, a line; up to two orders and two passes | `DecompositionValid` `PartitionValid` `CentroidHalves` `DistancesRight` `Terminates` | what is kept is a decomposition, and the scores are those of the documentation |

The bounds are chosen for the cases, not for size.  A polluted count needs a
component with no models (variables 3 and 4 under 1), a sibling component
that a learnt clause reaches, an unsatisfiable branch above both, and a second
branch in which the sibling's key comes up again; `Pollution` is the
smallest formula we found with all of them.  Moving children in a list by
eviction needs three generations of components, an entry finished with its
children, and enough memory pressure in the second branch; `Evicting` is
made for that.  A stale mark in the analyzer needs a split that is given up, or
one in another branch, and a satisfied clause that used to link two components:
two decision levels and a clause of three literals have both.  With words of 4
bits each field of a key begins, ends and lies across the end of a word in some
component; the buffer argument itself is proved for all sizes.  Five nodes are
enough for a cell whose child is split again with a boundary from two levels
above, and for a graph of two parts.  The mutants of `PROJECT.json` show that
each property can fail: every one is a plausible bug that the run finds.

`MaxLearnts` and `lead`, the first decisions (CountSearch), `MaxIds`, `MaxLevel`,
`MaxPolls` (ComponentManager), `MaxDepth` and `MaxStep` (ComponentAnalyzer),
`MaxRounds` (Pipeline), `Orders` and `MaxPasses` (TreeDecomposition), `MaxDepth`
and `MaxTime` (DescendantTree) bound the instances.  `DescendantTree` is checked without deadlock detection since its
clock runs into `MaxTime`; all others must reach the end of the search.

### Properties

* *Rollback*: `CleanIsExact`, `StackEntriesKept`, `TreeOK`, `ImplementsContract`
  (DescendantTree), carried to the pointers by `ImplementsTree` and `ListsOK`.
  `ListsOK` is the comment of `cleanDescendants()` (`ComponentCache.h:38`) made
  precise.  The whole list need not be ordered by creation: evictions can place
  children between older siblings.  What holds is that the entries of the
  current branch form a prefix of the list of every component being split.
* *Types*: `TypeOK` of ComponentManager is checked and proved; the other modules
  with proofs have theirs in the inductive invariant.
* *Bookkeeping*: `StacksOK`, `TableOK`, `AccountsOK`, `NothingDead`,
  `DecideHasSVar`, `FixedIsFinal`.
* *Counting*: `CountCorrect`, and what it rests on: `CacheSound`, `LearntImplied`,
  `RemovedStaySatisfied`, `UnitsHold`, `ConflictAboveZero`, `DecideUnassigned`;
  `ExistsRight` for what `countExists()` answers.
* *Analysis*: `ComponentsRight` and `SplitComplete` say that what a split finds are
  the connected components of what is left, each once; `StaysInside` that no
  mark from an earlier split leads it out of its component; `FrequenciesRight`
  that the frequencies count the clauses that are left.
* *Keys*: `InBuffer`, and `KeyTellsComponent`: the component can be read back from
  its words, so that two with one key are equal.
* *Decomposition*: `DecompositionValid` at every moment something is kept, and
  with it that the size the passes compare with is the right one (`BestIsSize`);
  `PartitionValid` is `check_multilevel_partition_invariants()` and the assertions
  on the sizes, which release builds leave out; `CentroidHalves`, and
  `DistancesRight` from the comment in `TreeDecomposition.h:42`.
* *Liveness*: `Termination` of the search, `SplitEnds` of a split, `Terminates` of
  the decomposition.
* *Passes*: `CountKept` says of every point between the first file and the count
  what the formula, what is folded and what is read or written stand for
  together, and that it is the count there should be.  `FoldedOnce` and
  `WeightsTotal` are what that rests on in the preprocessor, `ClausesLoadable`
  is what the search asks of what comes out, `ResultCorrect` is what a user sees.
  `DefinedTogether` says that the variables folded away as defined are defined by
  those that stay, not in a circle by each other.
  Three variables are enough for a class of equivalent variables with members
  in and out of the projection next to a variable that ties them to the rest,
  and for a definition by two others; two rounds for an equivalence that shows
  only after an elimination.

### Fairness

The search is a single thread that never blocks, so some step of `Search` is
taken as long as it has not ended: `Fairness` of ComponentManager says so, as
`[]<>Ended \/ []<><<Search>>_vars`, without a claim about which step it is.  (It is
weak fairness of `Search`, written without `ENABLED`: that a step is enabled until
the end is what the deadlock check shows.)  The signal is not fair.  `WF_vars(Explore)` in ComponentAnalyzer
is the same for one split, a loop without calls that wait, and
`WF_vars(Compute)` in TreeDecomposition for `constructTD()`; the number of passes
there is bounded by the limit of time or `iters`, in the model by `MaxPasses`.

## 4. Proofs

`DescendantTreeProofs` proves for every finite set of ids, every number of
levels and every clock bound:

| Theorem | Statement |
|---|---|
| `TypeCorrect` | `Spec => []TypeOK` |
| `TreeCorrect` | `Spec => []TreeOK` |
| `StackKept` | `Spec => []StackEntriesKept` |
| `LevelsCorrect` | `Spec => []LevelsOK` |
| `CleanCorrect` | `Spec => []CleanIsExact` |
| `Implements` | `Spec => ImplementsContract`, the refinement of CacheContract |

Assumed are only `IdAssumption` and `BoundAssumption`.  The inductive invariant
is the conjunction of `TypeOK`, `TreeOK`, `StackEntriesKept` and `LevelsOK`.
`CleanIsExact` is not inductive: that everything stamped since a decision split
hangs below a child of its component stamped since then (`LevelsOK`, last
conjunct) must be known of *all* levels at once, since popping a level exposes
the one below, and an eviction may move entries across several.  That in turn
needs the split times to separate what the decisions have on the stack
(`LevelsOK`, fourth conjunct).  There is one lemma per action and conjunct.
Contract and tree agree step by step: `Split` is `Create`, `PopDecision` and
`ConfirmSatisfiable` are `Release`, `CleanBranch` is `Rollback` by
`CleanIsExact`, and the others stutter.

`ComponentAnalyzerProofs` proves for every formula of clauses of two or more
literals, every number of levels and every way the search may assign variables:

| Theorem | Statement |
|---|---|
| `TypeCorrect` | `Spec => []TypeOK` |
| `StaysInsideAlways` | `Spec => []StaysInside` |
| `ComponentsFound` | `Spec => []ComponentsRight` |
| `SplitCompleteAlways` | `Spec => []SplitComplete` |
| `FrequenciesCounted` | `Spec => []FrequenciesRight` |

Assumed are `FormulaAssumption` and `DepthAssumption`.  The inductive invariant is
the conjunction of `TypeOK`, `LevelsInv` (on every level, the component and what is
left to count are closed under the clauses that are left, hold all of them, have
no binary clause between them, and no variable next to one of them is active:
this is the only thing needed of the marks outside of the component), `MarksInv`
(what is marked is what is in the queue or counted), `SplitInv` (what is claimed
are the parts found so far, disjoint and closed) and `ReachInv` (every closed set
with the seed holds the queue, and what a visited variable is linked to is in
the queue).  The last is why a part is a whole component: its variables are all
connected with the seed, and nothing else is.  The frequencies are on top of that
(`FreqInv`): an active variable has counted nothing; a visit counts the
clauses it is the first to read, which are none of those counted before; and
what a variable has beyond its clauses are at most links to neighbours in the
queue, each counted once at either end, when the second of the two is reached.

`PackedComponentProofs` proves for any number of variables and clauses, any
component and any word size, from `ComponentAssumption` and `WidthAssumption`:

| Theorem | Statement |
|---|---|
| `TypeCorrect` | `Spec => []TypeOK` |
| `BufferSuffices` | `Spec => []InBuffer` |
| `KeyTells` | `Spec => []KeyTellsComponent` |

For the buffer the invariant is that word and bit of the cursor say how many
bits are written, that the clauses begin less than a word after the end of the
variables, and that the cursor ends less than a word after the last clause: with
the two words that a carry may look at, that is what `Words` reserves.  For
the key it is in addition what is written (`Contents`): all words together are
one set of bits (`On`), in which each number packed so far is `Placed` at its
position, and nothing is on ahead of the cursor.  `NumberAt` then reads each
number back, carries or not; a field is read up to its difference of zero, and
the sums of the differences are the variables and the clauses.

`CountSearchProofs` proves for every formula, weights and options (from
`InputsAssumption`):

| Theorem | Statement |
|---|---|
| `RemovedClauses` | `Spec => []RemovedStaySatisfied` |
| `LearningIsSound` | `Spec /\ []UnitsHold => []LearntImplied` |
| `AnalysisStops` | `Spec /\ []UnitsHold => [](AllModels # {} => ConflictAboveZero)` |

For the first `Inv` is inductive: the trail has a segment for each decision and
every decision a stretch of the component stack that begins where the one below
ends (`Stacks`, `Frames`); the levels up to the fixed one are in their second
branch with the single component that the level above splits, so no backtrack
ever ends on them but to leave them (`FixedLevels`); and so what they have
assigned, which satisfies all the clauses removed, is not unassigned while the
search goes on (`Removed`).

For the other two it is `Learning`, with `Inv`: clauses kept are clauses of the
formula, and what is learnt, the units and the literals of level 0 hold in every
model.  `PropagateSound` says that propagation from literals of a model stays
within the model, so `RefutedSound` that what it refutes is in none.  What
`analyzeMC()` leaves out as of level 0 must then be in every model
(`LevelZeroImplied`), and that is true of the trail of level 0 but of the other
literals only if they are the units and not their negations.  Nothing in the
code sees to that: the attempt to prove it led to the third fault of the search
in 6, and the theorem says that there is no other way to learn what does not
follow.  `UnitsHold` is its hypothesis, and holds in `CountSearch_sound`.  That
there is a model is what the normalizer leaves (`Normalizer.cc:30`).

`PipelineProofs` proves for every formula, projection and weights, any number of
programs, and whatever the solvers find (from `InputsAssumption`):

| Theorem | Statement |
|---|---|
| `WeightsStayTotal` | `Spec => []WeightsTotal` |
| `DefinedVarsAgree` | `Spec => []DefinedTogether` |
| `FoldedOnceAlways` | `Spec => []FoldedOnce` |
| `LoadsTwoLiterals` | `Spec => [](cnf.clauses # {{}} => ClausesLoadable)` |

Weights and types are inductive together.  For `DefinedTogether` take two models
that agree on the rest of the projection and differ on a defined variable, and
the last one of those in the order of the queries: what its query assumed to be
equal is equal in both, so it does not differ.  `FoldedOnce` is strengthened to an
account of every variable that is done with (`Accounts`: fixed, substituted or
eliminated, each for one of these reasons, and in no clause any more) and to a formula that
keeps a model once it has been simplified, since two literals of one variable are
fixed only where there is none.  Unit propagation is the
union of a chain of sets; that it is closed when the code stops is counted:
each round but the last adds a literal.  `LoadsTwoLiterals` has one exception, the
formula that consists of the empty clause: it is the one in `Pipeline_empty`, and
the theorem says that there is no other.

`ComponentManagerProofs` proves for every input, with any components, residuals,
hashes, sizes of table and memory, number of entries and of levels (from
`InputsAssumption` and `BoundsAssumption`):

| Theorem | Statement |
|---|---|
| `Invariant` | `Spec => []Control` |
| `TypeCorrect` | `Spec => []TypeOK` |
| `DecisionHasVariable` | `Spec => []DecideHasSVar` |
| `FixedLevelsAreFinal` | `Spec => []FixedIsFinal` |

`Control` is the conjunction of

* `Typed`: besides `TypeOK` the types of all the cache holds.  The work is in
  the operations: a walk along pointers ends within as many steps as there are
  entries, since a longer one has met an entry twice (`Follow`); so do the walk
  over the descendants (`FreeOrder`), the sweep of an eviction and the
  growth of the table, each of which hands entries of the cache to the next step;
* `Stretches`: the decisions own the stack of components, one stretch after the
  other, each of which but the last has at least the component that is split
  above it.  By it `FinishLevel` and `Clean` find the components they pop;
* `FixedLevels`: a level that has been fixed is in its second branch with nothing
  left to count but what is split above it.  `FixedIsFinal` alone is not
  inductive: a finished level must be known to have nothing left to decide on,
  or the search would stop there instead of leaving it;
* `SVarsFirst`: components without projection variables come last in their
  stretch, since a split adds components by their first variables and
  projection variables have the smallest numbers, and a level that has been
  decided on has none of them.  So when one leaves the stack in `backtrack()`, what
  comes to the top has a projection variable, without a new check by
  `count_main()`; outside of `countExists()`, that is, where `preLevel` ends the claim.

The module begins with lemmas on the methods of the cache, without the search: what each
does to the lists, the table, the account and the tree.  `CacheStructureProofs` builds on
them and on `Control` and proves, for the same inputs and bounds:

| Theorem | Statement |
|---|---|
| `TreeInvariant` | `Spec => [](Control /\ Structure)` |
| `StacksAreOwned` | `Spec => []StacksOK` |
| `AccountsBalance` | `Spec => []AccountsOK` |
| `ListsAreSound` | `Spec => []ListsOK` |
| `NothingIsLeft` | `Spec => []((Weighted => CacheUnsat) => NothingDead)` |
| `TableIsSound` | `Spec => []TableOK` |
| `TreeImplemented` | `Spec => ImplementsTree`, the refinement of DescendantTree |
| `TreeSpecImplemented` | `Spec => Tree!Spec`, the same with the tree's own `Next` |
| `CleaningIsExact` | `Spec => []CleanIsExact` of DescendantTree, with the pointers for its variables |
| `ContractImplemented` | `Spec => ImplementsContract` of DescendantTree, with the pointers for its variables |

None of the properties is inductive.  `Structure` is, with `Control`; its parts are, from
the cache to the stack:

* `Woven`: memory and free slots are accounted for (`Account`), a free entry has no
  pointers and no count left (`Blank`), every entry but the root has a father that
  is alive and older (`Rooted`), its list is one of exactly its children, each
  once (`Listed`), and the bucket of each slot is a list of exactly the results
  that belong there, while nothing else is chained (`Tabled`);
* `Guarded`: what is on the component stack has no result and is not condemned, so
  no eviction takes it, and its father is on the stack too, so no eviction moves it;
* `Climbs` and `Below`: components further up were entered later, and each hangs below
  the one it is part of, which is no further down than the base of its stretch;
* `Branching`, for the base and the split time of every decision: what has been
  created since then hangs below the component that is split or below something
  created since, and comes first in that component's list.  Here the order
  that evictions leave matters: an evicted entry is replaced by its children at its
  place, and a child of an old entry may be younger than the split only where
  that entry is the component split itself, which is never evicted (`LeadsSplice`).

A list is handled as a sequence along the pointers (`Piece`, `ListOf`), and every
operation as one replacement of an element by a sequence (`Splice`): an eviction puts
the children of an entry in its place, an insertion adds a head, a cleaning
removes a prefix with all that hangs below it.  What `cleanDescendants()`
removes is described by three of its properties alone (`Cleaned`): it is closed under
children, younger than the split, and takes the children up to the
first older one.

`NothingDead` needs an invariant of its own, `Settled`: an entry that has no result and is
not on the stack (`Loose`) exists only between a refutation and the cleaning after it,
and then it has been created since the split of the component on top, so that the cleaning
takes it.  A level that finishes stores a result for what it pops, or has no need
to: a count of zero is not cached without `CacheUnsat`, and then the
component is cleaned by its father's level.  Without weights no level finishes with
a zero other than by a refutation (`NoZeros`); with weights that cancel out one does, and
without `CacheUnsat` its entry would stay, which is the hypothesis of the theorem.

`TableOK` has two halves.  That the buckets are right is `Tabled`: a result that is stored
becomes the head of its bucket, an evicted entry is taken out of it, and when the
table grows, every bucket of the larger table is the results that belong there, from
the youngest id down (`LadderList`).  That no component
has two results is another invariant, `Singular`, beside `Structure`:

* `Sole`: of the entries that have a result or are on the stack, two are for one
  component only if one is the father of the other.  An entry is made only after the
  lookup has found no result, so it could meet another one only on the stack;
* `Named`: the entries of the stack are for the components of the stack;
* `Nests`: no component above the bottom of the stack has the variables of the whole
  formula, and none is without variables; and of two on the stack the upper one is
  part of the lower one or apart from it.  A split gives parts that are smaller, or
  the component itself in `countExists()`, which splits what it begins with before
  it decides on anything;
* `Twins`: so a component is on the stack twice only in `countExists()`, as the one it
  began with and the one part that has been split off.  The upper
  one is the last of its stretch and leaves first.

`ImplementsTree` follows from `Control` and `Structure`, step by step.  The levels and the
entries as the tree sees them are functions of the two stacks and of the cache
(`SuperMap`, `SplitMap`, `SecondMap`, `PendingMap`, `AncMap`, `CreatedMap`), and for each action
there is one lemma for what it makes of them.  A split, seen from outside,
enters what it leaves at the top of the stack and evicts results, and takes what it
has evicted out of every path to the root (`Regrown`, an invariant of the loop over the
components).  A cleaning removes exactly the descendants of the component on
top that hang below a child no older than the split: what it removes is closed under
children and has all of these (`Cleaned`), and what it leaves has a path to the root that
goes through none of them.  A return adds one result or none (`Resulted`).  What the
pointers must not leave are the bounds (`Confined`): the tree's constants are `MaxIds` and
`MaxLevel`, and the guards of the model keep entries and decisions within them.
That is why `BoundsAssumption` asks for room for one entry.  As DescendantTree has theorems of
its own, what they say holds of the pointers: `ContractImplemented` is the chain from
the lists in memory to the promise of the cache.

`Induction` is what these proofs share.  The induction theorems of the standard
library take an operator as a parameter, which the provers cannot instantiate.  But
that every set of natural numbers that is not empty has a least element is
proved from one of the library's theorems without such a parameter, and gives
induction with the predicate as a set of numbers.  That a recursive function is what its
definition says follows once a function with that property is exhibited
(`Recursion`), put together from its values up to every bound.

Only model-checked are

* `CountKept` and `ResultCorrect` of Pipeline, whose invariants are sums over the
  models of a formula and what an elimination or a new numbering makes of them;
* `CountCorrect`, `UnitsHold`, `DecideUnassigned`, `ExistsRight` and `CacheSound` of
  CountSearch.  The first four are false for some inputs (see 6), so that a theorem
  would need the exceptions as hypotheses; `CacheSound` holds where the runs look,
  but its argument goes through the same counts;
* TreeDecomposition;
* liveness, and with it `ENABLED`, which is out of the prover's reach.

## 5. Not modelled, and the plan

Next, in this order:

1. Proofs for TreeDecomposition: that a dissection stopped anywhere is a tree
   decomposition (the part of `PartitionValid` on cells is inductive already).
2. The life cycle of the programs around the core: which mode of the signal
   handler is in force when, and what it prints.

Left out for good: the vendored solvers, the flow cutter and `CLI11`, option
parsing and reports, the scores of the branching heuristics, which are
floating-point numbers no result depends on, with the gates and the scaling of
`TDScorer`, the hash of a key, and the arithmetic of the semirings (exact, by
GMP).

## 6. Where the code does not do what it says

`internalSAT()` works on one component without projection variables, but its
solver is that of the whole formula.  When it backjumps to the level it was
called at, the literal its clause asserts propagates there, and a clause learnt
earlier may carry it into a sibling component that still waits on the stack.
Those values stay (they are right: the formula implies them).  The search does
not expect them:

* the selector looks at all projection variables of a component and may decide
  on one that has a value, against the assertion in `uncheckedEnqueue()`
  (`extern/glucose/core/Solver.cc:763`): with `DecideUnassigned` for its invariant
  `CountSearch_spilled` ends there;
* the loop of `count_main()` multiplies weights from the end of the trail at its
  head, so the weight of such a variable is lost and a projected weighted count
  comes out wrong; run `CountSearch_spilled`.

Without weights the count is not affected by the second point.  It takes a
clause learnt while the two components were one, an existential component that
is satisfiable with a literal found by conflict, and a sibling with projection
variables; `Spills` is a formula of six clauses with all of it.  
Units stray as well, and without projection.  A conflict in one component may
teach a unit about a variable of a sibling, again by way of a clause learnt
earlier.  The loop of `count_main()` enqueues units at its head, but when
`backtrack()` has finished the level it goes on to decide in the sibling before
it comes there, and may take the negation of the unit.  At the head `enqueue()`
then fails, which nobody looks at, and the variable is given level 0 with the
wrong value (`CounterImpl.cc:433`).  `analyzeMC()` skips it, so a conflict under
that decision teaches a clause that does not follow from the formula, and models
are lost; run `CountSearch_units`, whose formula has eight clauses.  The program
itself prints too small a count for formulas of this kind with `--no-preprocess`,
where its default preprocessing takes another way through the same formula.
The same lines are in `countExists()` (719).
Where no learnt clause reaches a sibling, `CountSearch_sound` shows the count to
be right.

With `--exists-check` a count without weights may be wrong as well.
`backtrackExists()` first asks whether it is at the level `countExists()` was
entered at, and if so returns before it has set `exists_found_`
(`CounterImpl.cc:825`).  That is right after a conflict, but the loop also comes
there when the component has nothing left to decide at its entry, because a unit
that was learnt while another existential component was checked satisfies it
through a learnt clause.  A satisfiable component is then taken for an
unsatisfiable one and the assignments above it are not counted; run
`CountSearch_exists`, and the program itself prints a smaller count with the
option than without for formulas of this kind.

The passes around the search lose factors when a formula goes through the
preprocessor a second time, which is what happens when `gpmc` is run with its
defaults on what `gpmc-pp` has written.  `CNF.h:32` to `:43` says that such a file
round-trips; the tests read it back with `--no-preprocess` only
(`tests/run_tests.sh:97`).

* `preprocess()` does not start from the shift that was read, as the normalizer
  does (`Normalizer.cc:77`): free variables of an unweighted formula are lost; run
  `Pipeline_twice` (the formula `Free`).
* When no variable is left it returns early, without the multiplier that was
  read; the same run (the formula `Units`).
* It takes such a formula for satisfiable, but an unsatisfiable one is written
  as an empty clause without variables.  The counter is given the empty clause,
  which it cannot watch; run `Pipeline_empty`.

And in one preprocessing: weights of variables outside of the projection are not
to count (`CNF.cc:223`), but are cleared with `--mode` only.  With
`--projected --weight-type rational` the preprocessor multiplies them into the
weights of an equivalent variable of the projection.  `Stray` of `MCPipeline` is such
a formula, for which `ResultCorrect` fails with `Inputs <- Stray`, `Chains <- Once`.
