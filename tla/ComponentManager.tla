-------------------------- MODULE ComponentManager --------------------------
(***************************************************************************)
(* The component stack, the decision stack and the cache as count_main()   *)
(* and backtrack() drive them.                                             *)
(*                                                                         *)
(* A component is a set of variables with a tag that stands for its        *)
(* clauses; projection variables are numbered first.  What the assignment  *)
(* leaves of a component and whether propagation meets a conflict is up to *)
(* the environment here (CountSearch has the formula), as is the answer of *)
(* internalSAT().  A count is absent, zero or not zero.                    *)
(***************************************************************************)
EXTENDS ComponentCache

CONSTANTS
    Inputs,         \* sequence of records: what is counted, with its options, see below
    InprocSimplify, \* config.inproc_simplify
    NoSplit,        \* UINT64_MAX
    MaxIds,         \* bound on the entries in the cache at a time
    MaxLevel        \* bound on the decision level

(* What is left of a component is split into components with variables of  *)
(* it, none in two of them, and has fewer than it unless it is the whole   *)
(* formula, whose entry has no key.                                        *)
ASSUME InputsAssumption == \A k \in DOMAIN Inputs :
    LET in == Inputs[k]
        all == DOMAIN in.residuals
    IN  /\ in.root \in all /\ NoComp \notin all /\ in.nsvars \in Nat
        /\ in.maxMemory \in Nat /\ in.maxPolls \in Nat
        /\ in.projected \/ \A comp \in all : \A v \in comp.vars : v < in.nsvars
        /\ \A comp \in all :
             /\ comp.vars \subseteq Nat
             /\ \A found \in in.residuals[comp] :
                  /\ found \subseteq all \ {in.root} /\ IsFiniteSet(found)
                  /\ \A a \in found : /\ a.vars # {} /\ a.vars \subseteq comp.vars
                                      /\ comp # in.root => a.vars # comp.vars
                  /\ \A a, b \in found : a # b => a.vars \cap b.vars = {}
        /\ \A comp \in all \cup {NoComp} : Hash[comp] \in Nat

ASSUME BoundsAssumption ==
    /\ InitTable \in Nat \ {0} /\ PollEvery \in Nat \ {0} /\ NoSplit \in Nat \ {0}
    /\ MaxLevel \in Nat /\ MaxIds \in Nat \ {0}

VARIABLES
    input,      \* the one that is counted
    cache,      \* cache_
    comps,      \* comp_stack_
    decisions,  \* decisions_
    fixed,      \* fixed_level_
    preLevel,   \* exists_pre_dl_ during countExists(), else -1
    pc,         \* where the loops of count_main() and backtrack() are
    stop        \* the stop flag

vars == <<input, cache, comps, decisions, fixed, preLevel, pc, stop>>

(* An input: the component of the whole formula, the sets of components    *)
(* that can be left of every component, the variable below which all are   *)
(* projection variables, max_memory_ of the cache, is_projected_,          *)
(* is_weighted_ (counts that are not null may be zero), cache_unsat and    *)
(* use_exists_check, whether the stop flag may be set, and more polls of   *)
(* it than one call of splitComponent() makes.                             *)
RootComp == Inputs[input].root
Residuals == Inputs[input].residuals
NSVars == Inputs[input].nsvars
Projected == Inputs[input].projected
Weighted == Inputs[input].weighted
CacheUnsat == Inputs[input].cacheUnsat
UseExistsCheck == Inputs[input].exists
Signals == Inputs[input].signals
MaxPolls == Inputs[input].maxPolls

Counts == {"none", "zero", "some"}
Weights == IF Weighted THEN {"zero", "some"} ELSE {"some"}

(* increaseModels()                                                        *)
Increase(models, val) ==
    CASE models = "none" -> val
      [] models = "zero" \/ val = "zero" -> "zero"
      [] OTHER -> "some"

(* totalModels(): what two counts can add up to.                           *)
Totals(m) ==
    CASE m[1] = "none" -> {m[2]}
      [] m[2] = "none" -> {m[1]}
      [] "zero" \in {m[1], m[2]} -> {IF m[1] = m[2] THEN "zero" ELSE "some"}
      [] OTHER -> Weights

NewDecision(height) ==
    [base |-> height, top |-> height, split |-> NoSplit, second |-> FALSE,
     models |-> <<"none", "none">>]

Branch(d) == IF d.second THEN 2 ELSE 1
IncreaseModels(d, val) == [d EXCEPT !.models[Branch(d)] = Increase(@, val)]
MarkBranchUnsat(d) == [d EXCEPT !.models[Branch(d)] = "none"]
IsUnsat(d) == d.models[Branch(d)] = "none"
HasUnprocessedComp(d) == d.base < d.top
(* Mutants: the second branch keeps the split time of the first, starts    *)
(* with zero for it, or never starts.                                      *)
ChangeBranchKeepSplit(d) == [d EXCEPT !.second = TRUE]
ChangeBranchZeroSplit(d) == [d EXCEPT !.second = TRUE, !.split = 0]
ChangeBranchForgotten(d) == [d EXCEPT !.split = NoSplit]
ChangeBranch(d) == [d EXCEPT !.second = TRUE, !.split = NoSplit]

(* How many polls of the eviction sweeps of a call find the flag clear.    *)
Polls == IF Signals THEN 0 .. MaxPolls ELSE {MaxPolls}

HasSVar(comp) == \E v \in comp.vars : v < NSVars
Super == Last(comps).comp
TopDecision == Last(decisions)
SetTop(d) == [decisions EXCEPT ![Len(decisions)] = d]
InExists == preLevel >= 0
AtEntry == InExists /\ Len(decisions) - 1 = preLevel

(* Where the model stops: the clock before it reaches the split time of a  *)
(* branch that has not split, the cache at MaxIds entries.                 *)
InBounds(c) == c.clock < NoSplit /\ Len(c.entry) <= MaxIds

Init ==
    /\ input \in DOMAIN Inputs
    /\ cache = NewRootEntry(EmptyCache(Inputs[input].maxMemory))
    /\ comps = <<[id |-> AllocId(EmptyCache(0)), comp |-> RootComp]>>
    /\ decisions = <<ChangeBranch(NewDecision(1))>>
    /\ fixed = 0
    /\ preLevel = -1
    /\ pc = "main"
    /\ stop = FALSE

(* One component in the loop of splitComponent(): s has the cache, the     *)
(* stack and the decision so far, whether a component with count zero has  *)
(* been hit, and the polls that will find the stop flag clear.             *)
Explore(s, comp) ==
    LET id == Find(s.cache, comp)
        new == AllocId(s.cache)
        entered == AddDescendant(NewEntry(s.cache, comp, s.polls), Last(comps).id, new)
    IN  IF s.dead THEN s
        ELSE IF id = INVALID_ENTRY
        THEN [s EXCEPT !.cache = entered, !.comps = Append(@, [id |-> new, comp |-> comp]),
                       !.polls = PollsLeft(s.cache, s.polls)]
        ELSE IF s.cache.entry[id].zero
        THEN [s EXCEPT !.cache = Lookup(@, comp), !.dead = TRUE]
        ELSE [s EXCEPT !.cache = Lookup(@, comp), !.decision = IncreaseModels(@, "some")]

(* Mutant: setCompTop() is skipped after the hit of a count of zero.       *)
SplitResultNoTop(s) ==
    IF s.dead THEN MarkBranchUnsat(s.decision)
    ELSE IF Len(s.comps) = Len(comps)
    THEN IncreaseModels([s.decision EXCEPT !.top = Len(s.comps)], "some")
    ELSE [s.decision EXCEPT !.top = Len(s.comps)]

(* The decision at the end of the loop.                                    *)
SplitResult(s) ==
    LET d == [s.decision EXCEPT !.top = Len(s.comps)]
    IN  IF s.dead THEN MarkBranchUnsat(d)
        ELSE IF Len(s.comps) = Len(comps) THEN IncreaseModels(d, "some")
        ELSE d

(* Components in the order of their first variables.                       *)
Ascending(found) ==
    {q \in [1 .. Cardinality(found) -> found] :
        \A i, j \in DOMAIN q : i < j => Min(q[i].vars) < Min(q[j].vars)}

(* splitComponent() on the components the analysis leaves; free is the     *)
(* factor of the variables that occur in none of them.                     *)
SplitComponent(found, free, polls) ==
    LET top == [TopDecision EXCEPT !.split = IF @ = NoSplit THEN cache.clock ELSE @]
        begun == [cache |-> cache, comps |-> comps, dead |-> FALSE, polls |-> polls,
                  decision |-> IF free = "none" THEN top ELSE IncreaseModels(top, free)]
        upTo[n \in 0 .. Len(found)] == IF n = 0 THEN begun ELSE Explore(upTo[n-1], found[n])
        s == upTo[Len(found)]
    IN  [s EXCEPT !.decision = SplitResult(s)]

(* What can be left of the component to split: countExists() splits a      *)
(* component again before it has decided anything.                         *)
Left == Residuals[Super] \cup IF AtEntry THEN {{Super}} ELSE {}
FreeFactors == {"none"} \cup IF HasSVar(Super) THEN Weights ELSE {}

Split ==
    /\ pc = "main" /\ ~ stop
    /\ \E found \in Left, free \in FreeFactors, polls \in Polls :
       \E order \in Ascending(found) : \E s \in {SplitComponent(order, free, polls)} :
             /\ InBounds(s.cache)
             /\ cache' = s.cache
             /\ comps' = s.comps
             /\ decisions' = SetTop(s.decision)
             /\ pc' = CASE s.dead -> "clean"
                        [] Len(s.comps) = Len(comps) -> "backtrack"
                        [] OTHER -> IF Projected /\ ~ InExists THEN "exists" ELSE "decide"
             /\ stop' = (s.polls = 0)
    /\ UNCHANGED <<input, fixed, preLevel>>

(* Propagation meets a conflict.                                           *)
Conflict ==
    /\ pc = "main" /\ ~ stop /\ ~ AtEntry
    /\ IF Len(decisions) = 1
       THEN pc' = "exit" /\ UNCHANGED decisions
       ELSE pc' = "backtrack" /\ decisions' = SetTop(MarkBranchUnsat(TopDecision))
    /\ UNCHANGED <<input, cache, comps, fixed, preLevel, stop>>

(* Where countExists() began, it refutes the component.                    *)
ConflictAtEntry ==
    /\ pc = "main" /\ ~ stop /\ AtEntry
    /\ preLevel' = -1
    /\ pc' = "refuted"
    /\ UNCHANGED <<input, cache, comps, decisions, fixed, stop>>

PopComponent(c) == SetDeletePermitted(c, Last(comps).id, TRUE)
(* Mutant: the decision does not notice that its component left the stack. *)
NextCompForgotten(d) == d
NextComp(d) == [d EXCEPT !.top = @ - 1]

(* Mutant: only the last component of a decision is checked.               *)
UnprojectedLast == TopDecision.top - TopDecision.base = 1 /\ ~ HasSVar(Super)

(* A component without projection variables is to be checked.              *)
Unprojected == HasUnprocessedComp(TopDecision) /\ ~ HasSVar(Super)

StartExists ==
    /\ pc = "exists" /\ Unprojected /\ UseExistsCheck
    /\ preLevel' = Len(decisions) - 1
    /\ pc' = "main"
    /\ UNCHANGED <<input, cache, comps, decisions, fixed, stop>>

(* internalSAT() may give either answer; countExists() has given one.      *)
Answered(answer) ==
    /\ Unprojected
    /\ pc = answer \/ (pc = "exists" /\ ~ UseExistsCheck)

ExistsTrue ==
    /\ Answered("found")
    /\ InBounds(Store(cache, Last(comps).id))
    /\ cache' = PopComponent(Store(cache, Last(comps).id))
    /\ decisions' = SetTop(NextComp(IncreaseModels(TopDecision, "some")))
    /\ comps' = Front(comps)
    /\ pc' = "exists"
    /\ UNCHANGED <<input, fixed, preLevel, stop>>

ExistsFalse ==
    /\ Answered("refuted") \/ (pc = "refuted" /\ ~ HasUnprocessedComp(TopDecision))
    /\ decisions' = SetTop(MarkBranchUnsat(TopDecision))
    /\ pc' = "clean"
    /\ UNCHANGED <<input, cache, comps, fixed, preLevel, stop>>

ExistsDone ==
    /\ pc = "exists" /\ ~ Unprojected
    /\ pc' = IF HasUnprocessedComp(TopDecision) THEN "decide" ELSE "backtrack"
    /\ UNCHANGED <<input, cache, comps, decisions, fixed, preLevel, stop>>

(* The branch is unsatisfiable: its components leave the stack and what it *)
(* has entered leaves the cache.                                           *)
Clean ==
    LET d == TopDecision
        popped == {comps[i].id : i \in d.base + 1 .. d.top}
        permitted == [cache EXCEPT !.entry = [id \in Ids(cache) |->
                         IF id \in popped THEN [@[id] EXCEPT !.delete = TRUE] ELSE @[id]]]
    IN  /\ pc = "clean"
        /\ \E c \in {permitted} : cache' = CleanDescendants(c, comps[d.base].id, d.split)
        /\ comps' = SubSeq(comps, 1, d.base)
        /\ decisions' = SetTop([d EXCEPT !.top = d.base])
        /\ pc' = "backtrack"
        /\ UNCHANGED <<input, fixed, preLevel, stop>>

BacktrackRoot ==
    /\ pc = "backtrack" /\ Len(decisions) = 1 /\ ~ InExists
    /\ pc' = "exit"
    /\ UNCHANGED <<input, cache, comps, decisions, fixed, preLevel, stop>>

(* backtrackExists() where countExists() began: exists_found_ is false     *)
(* still.                                                                  *)
BacktrackEntry ==
    /\ pc = "backtrack" /\ AtEntry
    /\ preLevel' = -1
    /\ pc' = "refuted"
    /\ UNCHANGED <<input, cache, comps, decisions, fixed, stop>>

(* mulLitsWeights(), which only count_main() calls.                        *)
Weigh(d, weight) == IF IsUnsat(d) THEN d ELSE IncreaseModels(d, weight)
BranchWeights == IF InExists THEN {"some"} ELSE Weights

Backtracking == pc = "backtrack" /\ Len(decisions) > 1 /\ ~ AtEntry

(* Both branches count, for countExists() one with a model is enough.      *)
ToFlip == ~ TopDecision.second /\ (InExists => TopDecision.models[1] # "some")

FlipBranch ==
    /\ Backtracking /\ ToFlip
    /\ \E weight \in BranchWeights :
         decisions' = SetTop(ChangeBranch(Weigh(TopDecision, weight)))
    /\ pc' = "main"
    /\ UNCHANGED <<input, cache, comps, fixed, preLevel, stop>>

(* The decision is done: store the count of the component, pass it to the  *)
(* decision below, and leave the level.                                    *)
FinishLevel ==
    /\ Backtracking /\ ~ ToFlip
    /\ \E weight \in BranchWeights : \E val \in Totals(Weigh(TopDecision, weight).models) :
         LET id == Last(comps).id
             prev == decisions[Len(decisions) - 1]
             told == IF val = "none" THEN MarkBranchUnsat(prev) ELSE IncreaseModels(prev, val)
             below == NextComp(told)
             stored == CASE val = "some" -> Store(cache, id)
                         [] val # "some" /\ CacheUnsat -> StoreZero(cache, id)
                         [] OTHER -> cache
             toEntry == InExists /\ Len(decisions) - 2 = preLevel
         IN  /\ InBounds(stored)
             /\ cache' = PopComponent(stored)
             /\ decisions' = Append(SubSeq(decisions, 1, Len(decisions) - 2), below)
             /\ pc' = CASE toEntry -> IF val = "some" THEN "found" ELSE "refuted"
                        [] ~ toEntry /\ IsUnsat(below) -> "clean"
                        [] ~ toEntry /\ ~ IsUnsat(below) /\ HasUnprocessedComp(below) -> "decide"
                        [] OTHER -> "backtrack"
             /\ preLevel' = IF toEntry THEN -1 ELSE preLevel
    /\ comps' = Front(comps)
    /\ UNCHANGED <<input, fixed, stop>>

(* Mutant: components still to be counted are ignored.                     *)
AtFixedLevelPending ==
    InprocSimplify /\ fixed + 1 = Len(decisions) /\ TopDecision.second

(* checkfixedDL(): the search will not come back below this level.         *)
AtFixedLevel ==
    /\ InprocSimplify
    /\ fixed + 1 = Len(decisions)
    /\ TopDecision.second /\ TopDecision.top - TopDecision.base = 1

Decide ==
    /\ pc = "decide" /\ Len(decisions) <= MaxLevel
    /\ fixed' = IF AtFixedLevel /\ ~ InExists THEN fixed + 1 ELSE fixed
    /\ decisions' = Append(decisions, NewDecision(Len(comps)))
    /\ pc' = "main"
    /\ UNCHANGED <<input, cache, comps, preLevel, stop>>

SimplifyFails ==
    /\ pc = "decide" /\ AtFixedLevel /\ ~ InExists
    /\ fixed' = fixed + 1
    /\ decisions' = SetTop(MarkBranchUnsat(TopDecision))
    /\ pc' = "clean"
    /\ UNCHANGED <<input, cache, comps, preLevel, stop>>

(* The stop flag, set by the signal handler at any moment, ends the search *)
(* at the head of a loop.                                                  *)
Signal ==
    /\ Signals /\ ~ stop /\ pc \notin {"exit", "interrupted"}
    /\ stop' = TRUE
    /\ UNCHANGED <<input, cache, comps, decisions, fixed, preLevel, pc>>

Interrupt ==
    /\ stop
    /\ pc = "main" \/ (pc = "exists" /\ Unprojected)
    /\ pc' = "interrupted"
    /\ UNCHANGED <<input, cache, comps, decisions, fixed, preLevel, stop>>

Search ==
    \/ Split \/ Conflict \/ ConflictAtEntry
    \/ StartExists \/ ExistsTrue \/ ExistsFalse \/ ExistsDone \/ Clean
    \/ BacktrackRoot \/ BacktrackEntry \/ FlipBranch \/ FinishLevel \/ Decide \/ SimplifyFails
    \/ Interrupt

Ended == pc \in {"exit", "interrupted"}
Done == Ended /\ UNCHANGED vars

Next == Search \/ Signal \/ Done

(* The search is one thread that never waits: weak fairness of its steps.  *)
(* That there is a step to take until the search has ended is what the     *)
(* check for deadlock shows.                                               *)
Fairness == []<>Ended \/ []<><<Search>>_vars

Spec == Init /\ [][Next]_vars /\ Fairness
-----------------------------------------------------------------------------
Times == Nat \ {0}

TypeOK ==
    /\ comps \in Seq([id : Ids(cache), comp : DOMAIN Residuals])
    /\ decisions \in Seq([base : Nat, top : Nat, split : Times, second : BOOLEAN,
                          models : Counts \X Counts])
    /\ fixed \in Nat
    /\ pc \in {"main", "exists", "decide", "clean", "backtrack", "found", "refuted",
              "exit", "interrupted"}
    /\ preLevel \in -1 .. Len(decisions) - 1
    /\ stop \in BOOLEAN

(* Every decision owns a stretch of the component stack, the one above     *)
(* splits the last component of it, and the entry of every component on    *)
(* the stack is in use, protected from eviction, without a result, and     *)
(* below the entry of the component it was split from: that of its         *)
(* decision or, in countExists(), one of the same decision.                *)
StacksOK ==
    /\ TopDecision.top = Len(comps)
    /\ \A k \in 1 .. Len(decisions) :
         LET d == decisions[k]
         IN  /\ d.base <= d.top
             /\ d.base = IF k = 1 THEN 1 ELSE decisions[k - 1].top
             /\ \A i \in d.base + 1 .. d.top : \E j \in d.base .. i - 1 :
                  /\ comps[i].comp.vars \subseteq comps[j].comp.vars
                  /\ cache.entry[comps[i].id].father = comps[j].id
    /\ \A i \in 1 .. Len(comps) :
         LET e == cache.entry[comps[i].id]
         IN  ~ e.free /\ ~ e.delete /\ ~ e.model /\ ~ e.zero
    /\ pc = "exit" => Len(comps) = 1

(* The bucket of a slot holds the entries with a result whose hash leads   *)
(* to the slot, each once: lookup() finds every result there is, after any *)
(* growth of the table.  No two hold the same component, unless            *)
(* countExists() has split it again, below its own entry.                  *)
TableOK ==
    /\ \A slot \in DOMAIN cache.table :
         /\ ToSet(Bucket(cache, slot)) = {id \in Confirmed(cache) : Slot(cache, id) = slot}
         /\ IsInjective(Bucket(cache, slot))
    /\ \A id \in Live(cache) \ Confirmed(cache) : cache.entry[id].chain = INVALID_ENTRY
    /\ cache.confirmed = Cardinality(Confirmed(cache))
    /\ \A i, j \in Confirmed(cache) :
         cache.entry[i].comp = cache.entry[j].comp =>
             i = j \/ cache.entry[i].father = j \/ cache.entry[j].father = i

(* Every entry but the root is in the list of an older entry in use, its   *)
(* father.  In the list of a component that a decision is splitting, what  *)
(* the current branch has created comes before what earlier ones left,     *)
(* wherever evictions have put the children of evicted entries: the loop   *)
(* of cleanDescendants() may stop at the first old one.                    *)
ListsOK ==
    /\ \A id \in Live(cache) \ {comps[1].id} :
         LET father == cache.entry[id].father
         IN  /\ father \in Live(cache)
             /\ cache.entry[father].created < cache.entry[id].created
             /\ id \in ToSet(Children(cache, father))
    /\ \A id \in Live(cache) : \A kid \in ToSet(Children(cache, id)) :
         kid \in Live(cache) /\ cache.entry[kid].father = id
    /\ \A d \in Range(decisions) :
         LET kids == Children(cache, comps[d.base].id)
             New(i) == cache.entry[kids[i]].created >= d.split
         IN  \A i, j \in 1 .. Len(kids) : i < j /\ New(j) => New(i)

(* The memory account is the size of what is in use, and the free slots    *)
(* are the entries that are not, each once.                                *)
AccountsOK ==
    /\ cache.memory = Cardinality(Live(cache)) + Cardinality({id \in Live(cache) : cache.entry[id].model})
    /\ ToSet(cache.freeSlots) = Ids(cache) \ Live(cache)
    /\ IsInjective(cache.freeSlots)

(* Where counts of zero are cached or cannot be, no entry lives on that is *)
(* neither on the component stack nor holds a result: it could be neither  *)
(* evicted nor found.                                                      *)
NothingDead ==
    pc \notin {"clean", "refuted"} => Live(cache) \subseteq Confirmed(cache) \cup {x.id : x \in Range(comps)}

(* The component to decide on has a projection variable.  (The assertion   *)
(* that the selector returns one.)                                         *)
DecideHasSVar == pc = "decide" /\ ~ InExists => HasUnprocessedComp(TopDecision) /\ HasSVar(Super)

(* simplify() removes clauses for good that the literals up to the fixed   *)
(* level satisfy: the search goes on above that level only.                *)
FixedIsFinal == pc \in {"main", "exists", "decide"} => Len(decisions) > fixed

(* The search ends.                                                        *)
Termination == <>Ended
-----------------------------------------------------------------------------
(* The pointers as the tree of descendants sees them.                      *)
Ancestors(c, id) ==
    IF id \in Live(c) THEN ToSet(Follow(FatherOf(c), c.entry[id].father)) ELSE {}

AllIds == 1 .. MaxIds
Level(k) == decisions[k + 1]
Depth == Len(decisions) - 1

Tree == INSTANCE DescendantTree WITH
    Id <- AllIds, Root <- 1, MaxDepth <- MaxLevel, MaxTime <- NoSplit,
    live <- Live(cache),
    anc <- [e \in AllIds |-> Ancestors(cache, e)],
    created <- [e \in AllIds |-> IF e \in Ids(cache) THEN cache.entry[e].created ELSE 0],
    confirmed <- Confirmed(cache),
    clock <- cache.clock,
    depth <- Depth,
    super <- [k \in 0 .. MaxLevel |-> IF k <= Depth THEN comps[Level(k).base].id ELSE 1],
    split <- [k \in 0 .. MaxLevel |-> IF k <= Depth THEN Level(k).split ELSE NoSplit],
    second <- [k \in 0 .. MaxLevel |-> k <= Depth /\ Level(k).second],
    pending <- [k \in 0 .. MaxLevel |->
                  IF k > Depth THEN {}
                  ELSE {comps[i].id : i \in Level(k).base + 1 .. Level(k).top}]

(* Every step is a step of the tree of descendants or leaves it as it is,  *)
(* with the witnesses the pointers give.                                   *)
TreeStep ==
    \/ LET new == {e \in Live(cache)' : cache'.entry[e].created >= cache.clock}
           evicted == Confirmed(cache) \ (Live(cache)' \ new)
       IN  Tree!Split(Last(comps).id, new, evicted, cache'.clock, [e \in new |-> cache'.entry[e].created])
    \/ Tree!PushDecision(Last(comps).id)
    \/ Tree!ChangeBranch
    \/ \E stored \in BOOLEAN : Tree!PopDecision(stored)
    \/ Tree!ConfirmSatisfiable(Last(comps).id)
    \/ Tree!CleanBranch
    \/ UNCHANGED Tree!vars

ImplementsTree == Tree!Init /\ [][TreeStep]_vars
=============================================================================
