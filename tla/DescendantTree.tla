--------------------------- MODULE DescendantTree ---------------------------
(***************************************************************************)
(* The bookkeeping that decides which cache entries an unsatisfiable       *)
(* branch takes with it.                                                   *)
(*                                                                         *)
(* Every entry hangs below the entry of the component it was split from    *)
(* (addDescendant), a decision remembers the clock at the first split of   *)
(* its current branch (splitTime), and removeCachePollutions() frees the   *)
(* children of the decision's component stamped since then, with           *)
(* everything below them.  Eviction hands the children of an evicted entry *)
(* to its father.                                                          *)
(*                                                                         *)
(* The father pointers are kept here as their closure: anc[e] is the set   *)
(* of the proper ancestors of e.  ComponentManager has the pointers.       *)
(***************************************************************************)
EXTENDS Naturals, FiniteSets

CONSTANTS
    Id,         \* cache entry ids
    Root,       \* root_id_
    MaxDepth,   \* bound on the decision level: there are finitely many variables
    MaxTime     \* UINT64_MAX: the split time of a branch that has not split

ASSUME IdAssumption == IsFiniteSet(Id) /\ Root \in Id
ASSUME BoundAssumption == MaxDepth \in Nat /\ MaxTime \in Nat \ {0}

VARIABLES
    live,       \* entries in use
    anc,        \* proper ancestors of an entry in the tree of descendants
    created,    \* created_time_
    confirmed,  \* entries with a stored count or the zero mark
    clock,      \* current_time_
    depth,      \* decision level
    super,      \* entry of the component a decision splits
    split,      \* split_time_ of a decision
    second,     \* cur_branch_ of a decision
    pending     \* entries of its components still on the component stack

vars == <<live, anc, created, confirmed, clock, depth, super, split, second, pending>>
treeVars == <<live, anc, created>>
Levels == 0 .. MaxDepth

Pinned == {Root} \cup UNION {pending[k] : k \in Levels}

(* The entry itself and what it hangs below.                               *)
Path(e) == anc[e] \cup {e}

(* c is in the list of descendants of p: no entry lies between them.       *)
ChildOf(p, c) == p \in anc[c] /\ ~ \E b \in anc[c] : p \in anc[b]

(* Mutants: the child stamped at that very time is spared, and only the    *)
(* children are freed, without what hangs below them.                      *)
DescendantsAfter(p, since) ==
    {e \in live : \E c \in Path(e) : ChildOf(p, c) /\ created[c] > since}
DescendantsDirect(p, since) == {e \in live : ChildOf(p, e) /\ created[e] >= since}

(* What cleanDescendants(p, since) frees.                                  *)
Descendants(p, since) ==
    {e \in live : \E c \in Path(e) : ChildOf(p, c) /\ created[c] >= since}

Init ==
    /\ live = {Root}
    /\ anc = [e \in Id |-> {}]
    /\ created = [e \in Id |-> 0]
    /\ confirmed = {}
    /\ clock = 1
    /\ depth = 0
    /\ super = [k \in Levels |-> Root]
    /\ split = [k \in Levels |-> MaxTime]
    /\ second = [k \in Levels |-> k = 0]
    /\ pending = [k \in Levels |-> {}]

(* A decision splits its component when nothing of it is on the component  *)
(* stack yet.  countExists() splits, under the same decision, components   *)
(* that are.                                                               *)
Splittable(p) ==
    \/ p = super[depth] /\ pending[depth] = {}
    \/ p \in pending[depth]

(* Mutant: every split of a branch sets its split time.                    *)
SplitTimeLatest == clock

(* setSplitTime(): only the first split of a branch sets it.               *)
SplitTime == IF split[depth] = MaxTime THEN clock ELSE split[depth]

(* splitComponent(): the components C that the cache does not hold get     *)
(* entries, and newEntry() may evict entries E on the way.  Cache hits     *)
(* only advance the clock.                                                 *)
Split(p, C, E, now, stamp) ==
    /\ clock < MaxTime
    /\ Splittable(p)
    /\ E \subseteq confirmed \ Pinned
    /\ C \cap (live \ E) = {}
    /\ live' = (live \ E) \cup C
    /\ anc' = [e \in Id |-> IF e \in C THEN (anc[p] \cup {p}) \ E
                            ELSE IF e \in E THEN {} ELSE anc[e] \ E]
    /\ created' = [e \in Id |-> IF e \in C THEN stamp[e] ELSE created[e]]
    /\ confirmed' = confirmed \ E
    /\ clock' = now
    /\ split' = [split EXCEPT ![depth] = SplitTime]
    /\ pending' = [pending EXCEPT ![depth] = @ \cup C]
    /\ UNCHANGED <<depth, super, second>>

(* pushDecision(): the next component of the decision becomes the current  *)
(* one.                                                                    *)
PushDecision(p) ==
    /\ depth < MaxDepth
    /\ p \in pending[depth]
    /\ depth' = depth + 1
    /\ super' = [super EXCEPT ![depth + 1] = p]
    /\ UNCHANGED <<treeVars, confirmed, clock, split, second, pending>>

(* changeBranch(): the second branch starts, with no split time.           *)
ChangeBranch ==
    /\ depth > 0
    /\ ~ second[depth]
    /\ pending[depth] = {}
    /\ second' = [second EXCEPT ![depth] = TRUE]
    /\ split' = [split EXCEPT ![depth] = MaxTime]
    /\ UNCHANGED <<treeVars, confirmed, clock, depth, super, pending>>

(* A decision is done, with its second branch or, in countExists(), when   *)
(* the first has a model: store the result of the component or leave its   *)
(* entry without one, popDecision() and popComponent().                    *)
PopDecision(stored) ==
    /\ depth > 0
    /\ pending[depth] = {}
    /\ confirmed' = IF stored THEN confirmed \cup {super[depth]} ELSE confirmed
    /\ clock' = IF stored THEN clock + 1 ELSE clock
    /\ clock' <= MaxTime
    /\ depth' = depth - 1
    /\ super' = [super EXCEPT ![depth] = Root]
    /\ split' = [split EXCEPT ![depth] = MaxTime]
    /\ second' = [second EXCEPT ![depth] = FALSE]
    /\ pending' = [pending EXCEPT ![depth - 1] = @ \ {super[depth]}]
    /\ UNCHANGED treeVars

(* Mutant: the component gets its result and stays on the stack.           *)
ConfirmSatisfiableNoPop(p) ==
    /\ p \in pending[depth]
    /\ clock < MaxTime
    /\ confirmed' = confirmed \cup {p}
    /\ clock' = clock + 1
    /\ UNCHANGED <<treeVars, depth, super, split, second, pending>>

(* A component without projection variables turned out satisfiable: its    *)
(* result is one, with no decision of its own.                             *)
ConfirmSatisfiable(p) ==
    /\ p \in pending[depth]
    /\ clock < MaxTime
    /\ confirmed' = confirmed \cup {p}
    /\ clock' = clock + 1
    /\ pending' = [pending EXCEPT ![depth] = @ \ {p}]
    /\ UNCHANGED <<treeVars, depth, super, split, second>>

(* The current branch is unsatisfiable: pop its components, then           *)
(* removeCachePollutions().                                                *)
CleanBranch ==
    LET gone == Descendants(super[depth], split[depth])
    IN  /\ live' = live \ gone
        /\ anc' = [e \in Id |-> IF e \in gone THEN {} ELSE anc[e]]
        /\ confirmed' = confirmed \ gone
        /\ pending' = [pending EXCEPT ![depth] = {}]
        /\ UNCHANGED <<created, clock, depth, super, split, second>>

Next ==
    \/ \E p \in Id, E \in SUBSET confirmed, C \in SUBSET Id, now \in clock .. MaxTime :
         \E stamp \in [C -> clock .. (now - 1)] : Split(p, C, E, now, stamp)
    \/ \E p \in Id : PushDecision(p)
    \/ ChangeBranch
    \/ \E stored \in BOOLEAN : PopDecision(stored)
    \/ \E p \in Id : ConfirmSatisfiable(p)
    \/ CleanBranch

Spec == Init /\ [][Next]_vars
-----------------------------------------------------------------------------
TypeOK ==
    /\ live \in SUBSET Id
    /\ anc \in [Id -> SUBSET Id]
    /\ created \in [Id -> Nat]
    /\ confirmed \in SUBSET Id
    /\ clock \in 1 .. MaxTime
    /\ depth \in Levels
    /\ super \in [Levels -> Id]
    /\ split \in [Levels -> 0 .. MaxTime]
    /\ second \in [Levels -> BOOLEAN]
    /\ pending \in [Levels -> SUBSET Id]

(* No pointer dangles and the tree is one: everything an entry hangs below *)
(* is in use, is older than it and hangs below the root, which hangs below *)
(* nothing.  (The assertion of removeFromDescendantsTree() that the father *)
(* of an entry is in use.)                                                 *)
TreeOK ==
    /\ Root \in live
    /\ anc[Root] = {}
    /\ \A e \in live :
         /\ created[e] < clock
         /\ e # Root => Root \in anc[e]
         /\ \A a \in anc[e] : /\ a \in live
                              /\ created[a] < created[e]
                              /\ anc[a] \subseteq anc[e]

(* An entry whose component is still on the component stack is never freed *)
(* and never holds a result, whatever is evicted or cleaned meanwhile.     *)
StackEntriesKept ==
    /\ Pinned \subseteq live
    /\ confirmed \subseteq live \ Pinned

(* What removeCachePollutions() would free for a decision on the stack is  *)
(* exactly what has been created since that decision split: no polluted    *)
(* entry escapes through an eviction that moved it in the tree, and none   *)
(* that an earlier branch left is lost.                                    *)
CleanIsExact ==
    \A k \in 0 .. depth :
        Descendants(super[k], split[k]) = {e \in live : created[e] >= split[k]}

(* Why the clean is exact, level by level: the split times order what the  *)
(* decisions hold on the stack, and everything stamped since a decision    *)
(* split hangs below a child of its component that was, too.               *)
LevelsOK ==
    /\ super[0] = Root
    /\ \A k \in 1 .. depth : super[k] \in pending[k - 1]
    /\ \A k \in Levels :
         /\ Root \notin pending[k]
         /\ k > depth => pending[k] = {} /\ split[k] = MaxTime
         /\ split[k] = MaxTime \/ split[k] <= clock
    /\ \A j, k \in Levels : \A p \in pending[j] :
         IF j < k THEN created[p] < split[k] ELSE created[p] >= split[k]
    /\ \A k \in Levels : \A e \in live : created[e] >= split[k] =>
         /\ super[k] \in anc[e]
         /\ \A a \in anc[e] : super[k] \in anc[a] => created[a] >= split[k]

(* The tree implements the contract of the cache.                          *)
Contract == INSTANCE CacheContract WITH pinned <- Pinned
ImplementsContract == Contract!Spec
=============================================================================
