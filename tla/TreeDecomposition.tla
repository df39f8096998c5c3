-------------------------- MODULE TreeDecomposition --------------------------
(***************************************************************************)
(* The tree decomposition behind the branching scores: one is read off an  *)
(* elimination order, others off the cells that a nested dissection of the *)
(* graph leaves when it ends or is stopped, and the narrowest is kept.     *)
(* The variables are then scored by their distance from its centroid.      *)
(*                                                                         *)
(* The elimination orders and the separators are those of flow-cutter:     *)
(* any order, and any separator with a node when the graph is connected.   *)
(* The limits of time are free, the gates before it all are left out.      *)
(***************************************************************************)
EXTENDS Integers, Sequences, FiniteSets, SequencesExt, FiniteSetsExt

CONSTANTS
    Inputs,     \* sequence of records: graphs with the options, see below
    Infinity    \* numeric_limits<int>::max()

VARIABLES
    input,      \* the one that is decomposed
    best,       \* best_bag_size
    td,         \* the decomposition kept
    tried,      \* elimination orders tried
    passes,     \* passes of the dissection begun
    closed,     \* closed_cells
    open,       \* open_cells
    maxClosed,  \* max_closed_bag_size
    maxOpen,    \* max_open_bag_size
    known,      \* smallest_known_treewidth
    begun,      \* materialized_tw
    centroid,   \* the bag the scores start from
    dist,       \* distance
    frontier,   \* the stack of distanceFromCentroid()
    pc

pass == <<passes, closed, open, maxClosed, maxOpen, known, begun>>
score == <<centroid, dist, frontier>>
vars == <<input, best, td, tried, pass, score, pc>>

(* An input: the number of nodes and the edges, how many orders are tried  *)
(* (few or none when the graph is large), a bound on the passes, and below *)
(* which number variables have mass.                                       *)
Nodes == 0 .. Inputs[input].nodes - 1
Graph == Inputs[input].graph
Orders == Inputs[input].orders
MaxPasses == Inputs[input].passes
MassVars == 0 .. Inputs[input].mass - 1

(* What can be reached from x along edges.                                 *)
Joined(E, x) ==
    LET Grow(S) == S \cup UNION {e \in E : e \cap S # {}}
        reach[k \in 0 .. Cardinality(E)] == IF k = 0 THEN {x} ELSE Grow(reach[k - 1])
    IN  reach[Cardinality(E)]
Components(S) ==
    {Joined({e \in Graph : e \subseteq S}, x) : x \in S}

Larger(i, j) == IF i > j THEN i ELSE j
Smaller(i, j) == IF i < j THEN i ELSE j
Largest(S) == IF S = {} THEN 0 ELSE Max(S)

Init ==
    /\ input \in DOMAIN Inputs
    /\ best = Infinity
    /\ td = [bags |-> <<>>, edges |-> {}]
    /\ tried = 0 /\ passes = 0
    /\ closed = <<>> /\ open = {}
    /\ maxClosed = 0 /\ maxOpen = 0 /\ known = 0 /\ begun = 0
    /\ centroid = 0 /\ dist = <<>> /\ frontier = {}
    /\ pc = "orders"
-----------------------------------------------------------------------------
(* compute_chordal_supergraph(): eliminating the nodes in this order joins *)
(* the later neighbours of each.                                           *)
Supergraph(order) ==
    LET Eliminate(E, k) ==
            LET later == {j \in k + 1 .. Len(order) : {order[k], order[j]} \in E}
            IN  E \cup {{order[i], order[j]} : i, j \in later}
        all == [k \in DOMAIN order |-> k]
    IN  {e \in FoldLeft(Eliminate, Graph, all) : Cardinality(e) = 2}

(* The later neighbours of the nodes in order.                             *)
Upper(order) ==
    LET E == Supergraph(order)
    IN  [k \in DOMAIN order |-> {order[j] : j \in {i \in k + 1 .. Len(order) : {order[k], order[i]} \in E}}]

(* compute_max_bag_size_of_order() goes on to the next node before it      *)
(* looks at the number of the one before, and never at the last.  Mutant:  *)
(* the node itself is not counted.                                         *)
MaxUpDegree(order) == Largest({Cardinality(S) : S \in Range(Upper(order))})
MaxBagSizeOfOrder(order) ==
    LET upper == Upper(order)
        tails == {k \in DOMAIN order : upper[k] # {}}
    IN  Largest({Cardinality(upper[k]) : k \in tails \ {Largest(tails)}}) + 1

(* The potential maximal cliques, those of nodes without a later neighbour *)
(* last; one within a bag makes none of its own.                           *)
BagsOfOrder(order) ==
    LET upper == Upper(order)
        Clique(k) == {order[k]} \cup upper[k]
        IsRoot(k) == upper[k] = {}
        all == [k \in DOMAIN order |-> k]
        Add(bags, k) == IF \E b \in Range(bags) : Clique(k) \subseteq b THEN bags ELSE Append(bags, Clique(k))
    IN  FoldLeft(Add, <<>>, SelectSeq(all, LAMBDA k : ~ IsRoot(k)) \o SelectSeq(all, IsRoot))

(* test_new_order()                                                        *)
TryOrder ==
    /\ pc = "orders" /\ tried < Orders
    /\ tried' = tried + 1
    /\ \E order \in SetToSeqs(Nodes) :
         LET size == MaxBagSizeOfOrder(order)
         IN  IF size < best
             THEN best' = size /\ td' = [bags |-> BagsOfOrder(order), edges |-> {}] /\ pc' = "grow"
             ELSE UNCHANGED <<best, td, pc>>
    /\ UNCHANGED <<input, pass, score>>

Bags == DOMAIN td.bags
InTree == {1} \cup UNION td.edges
Weight(b, c) == Cardinality(td.bags[b] \cap td.bags[c])

(* Mutant: the next bag is any that shares a node with the tree.           *)
HeaviestAny(arcs) == arcs
Heaviest(arcs) == {a \in arcs : \A o \in arcs : Weight(o[1], o[2]) <= Weight(a[1], a[2])}

(* The tree takes the bag that shares the most with one of its bags, and   *)
(* when none shares a node, hangs the next below the first.                *)
GrowTree ==
    /\ pc = "grow" /\ InTree # Bags
    /\ LET arcs == {a \in InTree \X (Bags \ InTree) : Weight(a[1], a[2]) > 0}
       IN  \E a \in IF arcs = {} THEN {<<1, Min(Bags \ InTree)>>} ELSE Heaviest(arcs) :
              td' = [td EXCEPT !.edges = @ \cup {{a[1], a[2]}}]
    /\ UNCHANGED <<input, best, tried, pass, score, pc>>

TreeGrown ==
    /\ pc = "grow" /\ InTree = Bags
    /\ pc' = "orders"
    /\ UNCHANGED <<input, best, td, tried, pass, score>>

OrdersTried ==
    /\ pc = "orders" /\ tried = Orders
    /\ pc' = "passes"
    /\ UNCHANGED <<input, best, td, tried, pass, score>>
-----------------------------------------------------------------------------
(* A cell: separator_node_list, which is the whole inside of an open one,  *)
(* boundary_node_list, and the closed cells above it, of which parent_cell *)
(* is the last.                                                            *)
BagOf(cell) == cell.sep \cup cell.bnd
BagSize(cell) == Cardinality(cell.sep) + Cardinality(cell.bnd)
LargestBag(cells) == Largest({BagSize(c) : c \in cells})

StartPass ==
    /\ pc = "passes" /\ passes < MaxPasses
    /\ passes' = passes + 1
    /\ closed' = <<>>
    /\ open' = {[sep |-> Nodes, bnd |-> {}, above |-> {}]}
    /\ maxClosed' = 0 /\ maxOpen' = Cardinality(Nodes)
    /\ known' = Smaller(best, Cardinality(Nodes))
    /\ begun' = best
    /\ pc' = "loop"
    /\ UNCHANGED <<input, best, td, tried, score>>

(* compute_separator() on a part of the graph.                             *)
Separators(S) ==
    IF Cardinality(S) <= 2 THEN {{Min(S)}}
    ELSE IF Cardinality(Components(S)) > 1 THEN {{}}
    ELSE (SUBSET S) \ {{}}

(* What a cell that is split takes to its children: of its boundary and    *)
(* its separator, what has a neighbour in the child.  Mutant: of its       *)
(* separator only.                                                         *)
TouchesOld(cell, sep, S) == {y \in sep : \E e \in Graph : y \in e /\ e \cap S # {}}
Touches(cell, sep, S) == {y \in cell.bnd \cup sep : \E e \in Graph : y \in e /\ e \cap S # {}}

Children(cell, sep) ==
    {[sep |-> S, bnd |-> Touches(cell, sep, S), above |-> cell.above \cup {Len(closed) + 1}] :
        S \in Components(cell.sep \ sep)}

(* Mutant: the largest open bag is only ever raised.                       *)
MaxOpenRaised(cell, rest) == Larger(maxOpen, LargestBag(rest))
MaxOpenAfter(cell, rest) ==
    IF BagSize(cell) = maxOpen THEN LargestBag(rest) ELSE Larger(maxOpen, LargestBag(rest))

(* One round of compute_multilevel_partition(): the cell with the largest  *)
(* bag is closed, and split unless its bag is no larger than a closed one. *)
CloseCell ==
    /\ pc = "loop"
    /\ \E cell \in open :
         /\ \A c \in open : BagSize(c) <= BagSize(cell)
         /\ \E sep \in IF BagSize(cell) > maxClosed THEN Separators(cell.sep) ELSE {cell.sep} :
              LET rest == (open \ {cell}) \cup Children(cell, sep)
                  left == [cell EXCEPT !.sep = sep]
              IN  /\ open' = rest
                  /\ closed' = Append(closed, left)
                  /\ maxClosed' = Larger(maxClosed, BagSize(left))
                  /\ maxOpen' = MaxOpenAfter(cell, rest)
    /\ known' = Smaller(known, Larger(maxClosed', maxOpen'))
    /\ pc' = IF maxClosed' >= known' \/ maxClosed' >= maxOpen' THEN "materialize" ELSE "loop"
    /\ UNCHANGED <<input, best, td, tried, passes, begun, score>>

(* should_stop(), or no cell is left.                                      *)
StopPass ==
    /\ pc = "loop"
    /\ pc' = "materialize"
    /\ UNCHANGED <<input, best, td, tried, pass, score>>

Cells == closed \o SetToSeq(open)
Parent(cell) == Max(cell.above)
TreeOfCells ==
    [bags |-> [i \in DOMAIN Cells |-> BagOf(Cells[i])],
     edges |-> {{i, Parent(Cells[i])} : i \in {j \in DOMAIN Cells : Cells[j].above # {}}}]

(* materialize_best(): the cells as they are make a decomposition that is  *)
(* kept when it is narrower.                                               *)
Materialize ==
    /\ pc = "materialize"
    /\ IF known < begun
       THEN td' = TreeOfCells /\ best' = LargestBag(Range(Cells))
       ELSE UNCHANGED <<td, best>>
    /\ closed' = <<>> /\ open' = {}
    /\ maxClosed' = 0 /\ maxOpen' = 0 /\ known' = 0 /\ begun' = 0
    /\ pc' = "passes"
    /\ UNCHANGED <<input, tried, passes, score>>
-----------------------------------------------------------------------------
(* centroid(): from the first bag, a variable belongs to the bag that is   *)
(* the first to have it.  Mutant: to every bag that has it.                *)
Neighbors(b) == UNION {e \in td.edges : b \in e} \ {b}
Subtree(b) == IF b = 1 THEN Bags ELSE Bags \ Joined({e \in td.edges : b \notin e}, 1)
NewOften(b) == td.bags[b] \cap MassVars
New(b) ==
    {x \in td.bags[b] \cap MassVars : \A p \in Neighbors(b) \ Subtree(b) : x \notin td.bags[p]}
Mass(b) == MapThenSumSet(LAMBDA d : Cardinality(New(d)), Subtree(b))

Heavy(b) == Mass(b) >= Cardinality(MassVars) \div 2

FindCentroid ==
    /\ pc = "passes" /\ td.bags # <<>>
    /\ \E c \in {b \in Bags : Heavy(b) /\ \A d \in Subtree(b) \ {b} : ~ Heavy(d)} :
         /\ centroid' = c
         /\ frontier' = {[bag |-> c, parent |-> 0, depth |-> 0]}
    /\ dist' = [x \in Nodes |-> -1]
    /\ pc' = "walk"
    /\ UNCHANGED <<input, best, td, tried, pass>>

(* A bag that has something new is a step.  Mutant: every bag is.          *)
DepthBelowEvery(item) == item.depth + 1
DepthBelow(item) ==
    IF \E x \in td.bags[item.bag] : dist[x] = -1 THEN item.depth + 1 ELSE item.depth

(* Mutant: the bag that is visited stays on the stack.                     *)
OnwardKept(item) ==
    frontier \cup {[bag |-> b, parent |-> item.bag, depth |-> DepthBelow(item)] :
                    b \in Neighbors(item.bag) \ {item.parent}}
Onward(item) ==
    (frontier \ {item}) \cup
        {[bag |-> b, parent |-> item.bag, depth |-> DepthBelow(item)] :
            b \in Neighbors(item.bag) \ {item.parent}}

(* distanceFromCentroid(): the bags are visited in any order from there.   *)
VisitBag(item) ==
    /\ pc = "walk" /\ item \in frontier
    /\ dist' = [x \in Nodes |-> IF x \in td.bags[item.bag] /\ dist[x] = -1 THEN item.depth ELSE dist[x]]
    /\ frontier' = Onward(item)
    /\ UNCHANGED <<input, best, td, tried, pass, centroid, pc>>

WalkDone ==
    /\ pc = "walk" /\ frontier = {}
    /\ pc' = "scored"
    /\ UNCHANGED <<input, best, td, tried, pass, score>>

(* constructTD() has found nothing.                                        *)
NoDecomposition ==
    /\ pc = "passes" /\ td.bags = <<>>
    /\ pc' = "skipped"
    /\ UNCHANGED <<input, best, td, tried, pass, score>>

Ended == pc \in {"scored", "skipped"}
Done == Ended /\ UNCHANGED vars

Compute ==
    \/ TryOrder \/ GrowTree \/ TreeGrown \/ OrdersTried
    \/ StartPass \/ CloseCell \/ StopPass \/ Materialize
    \/ FindCentroid \/ (\E item \in frontier : VisitBag(item)) \/ WalkDone
    \/ NoDecomposition

Next == Compute \/ Done

(* A loop of one thread that waits for nothing.                            *)
Spec == Init /\ [][Next]_vars /\ WF_vars(Compute)
-----------------------------------------------------------------------------
(* What is kept is a tree decomposition of the graph: a tree whose bags    *)
(* cover every edge, in which the bags of a variable hang together.  It is *)
(* so for every elimination order, and for a dissection stopped anywhere.  *)
(* The size that passes compare with, and the one they end with, is that   *)
(* of its largest bag: the last node need not be looked at, and what is    *)
(* left in the end is as narrow as the narrowest seen on the way.          *)
IsTree(B, E) == Cardinality(E) = Cardinality(B) - 1 /\ \A b \in B : B \subseteq Joined(E, b)
BestIsSize == td.bags # <<>> => best = Largest({Cardinality(td.bags[b]) : b \in Bags})
DecompositionValid ==
    /\ BestIsSize
    /\ pc # "grow" /\ td.bags # <<>> =>
        /\ IsTree(Bags, td.edges)
        /\ \A e \in Graph : \E b \in Bags : e \subseteq td.bags[b]
        /\ \A x \in Nodes :
             LET holders == {b \in Bags : x \in td.bags[b]}
             IN  holders # {} /\ IsTree(holders, {e \in td.edges : e \subseteq holders})

(* check_multilevel_partition_invariants(), which release builds leave     *)
(* out, and the assertions on the largest bags: every node is in one cell, *)
(* edges only join cells of which one is above the other, and the sizes    *)
(* that are kept are those of the cells.                                   *)
PartitionValid ==
    pc \in {"loop", "materialize"} =>
        /\ \A x \in Nodes : Cardinality({i \in DOMAIN Cells : x \in Cells[i].sep}) = 1
        /\ \A i, j \in DOMAIN Cells : \A x \in Cells[i].sep, y \in Cells[j].sep :
             {x, y} \in Graph => i = j \/ i \in Cells[j].above \/ j \in Cells[i].above
        /\ maxClosed = LargestBag(Range(closed))
        /\ maxOpen = LargestBag(open)

(* No part of the tree that the centroid splits off has more than half of  *)
(* the variables with mass outside of the centroid's bag.                  *)
CentroidHalves ==
    pc = "walk" => \A b \in Neighbors(centroid) :
        LET part == Joined({e \in td.edges : centroid \notin e}, b)
            outside == (MassVars \cap UNION {td.bags[d] : d \in part}) \ td.bags[centroid]
        IN  2 * Cardinality(outside) <= Cardinality(MassVars) + 1

(* "distance[x] counts prior bags that introduced a new variable, not      *)
(* including x's own bag" (TreeDecomposition.h:42): those on the way from  *)
(* the centroid, in whatever order the neighbours are visited.             *)
Before(c, b) == {d \in Bags \ {b} : d = c \/ b \notin Joined({e \in td.edges : d \notin e}, c)}
Introduces(c, d) ==
    \E x \in td.bags[d] : \A p \in Before(c, d) \cap Neighbors(d) : x \notin td.bags[p]
DistancesRight ==
    pc = "scored" => \A x \in Nodes : \E b \in Bags :
        /\ x \in td.bags[b]
        /\ \A d \in Before(centroid, b) : x \notin td.bags[d]
        /\ dist[x] = Cardinality({d \in Before(centroid, b) : Introduces(centroid, d)})

(* Whatever separators are found, the computation ends.                    *)
Terminates == <>Ended
=============================================================================
