------------------------- MODULE MCTreeDecomposition -------------------------
(***************************************************************************)
(* Small graphs, with one or two orders, one or two passes, or both: a     *)
(* cycle, a cycle with a triangle on it, two parts, a star with a tail, a  *)
(* line.                                                                   *)
(***************************************************************************)
EXTENDS TreeDecomposition

Line(n) == {{i, i + 1} : i \in 0 .. n - 2}
Cycle(n) == Line(n) \cup {{0, n - 1}}
House == Cycle(5) \cup {{0, 3}}
Parts == {{0, 1}, {1, 2}, {3, 4}}
Star == {{0, 1}, {0, 2}, {0, 3}, {3, 4}}

Input(n, graph, orders, rounds, mass) ==
    [nodes |-> n, graph |-> graph, orders |-> orders, passes |-> rounds, mass |-> mass]

MCInputs == <<
    Input(4, Cycle(4), 2, 1, 3),
    Input(5, House, 1, 0, 5),
    Input(5, Parts, 1, 0, 5),
    Input(5, Cycle(5), 0, 1, 5),
    Input(5, Parts, 0, 2, 4),
    Input(5, Star, 0, 1, 5),
    Input(6, Line(6), 0, 1, 6)>>
=============================================================================
