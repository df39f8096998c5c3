------------------------- MODULE MCComponentManager -------------------------
(***************************************************************************)
(* Small formulas given by what assignments can leave of their components. *)
(***************************************************************************)
EXTENDS ComponentManager

Comp(vs, tag) == [vars |-> vs, tag |-> tag]
NoneComp == Comp({}, 0)
MCRoot == Comp(0 .. 7, 0)

F == Comp(0 .. 6, 0)
P == Comp({1, 2, 3, 6}, 0)
P1 == Comp({1, 2, 3, 6}, 1)
Q == Comp({4, 5}, 0)
A == Comp({6}, 1)
B == Comp({2}, 0)
B1 == Comp({2}, 1)
C == Comp({3}, 0)
D == Comp({5}, 0)
G == Comp({6}, 0)
H == Comp({3, 6}, 0)
X == Comp({3, 4, 5, 6}, 0)
Y == Comp({5, 6}, 0)

(* With variable 6 outside the projection: the components found in one     *)
(* branch come back in another, with existential ones among them.          *)
Shared ==
    [root |-> MCRoot, nsvars |-> 6, maxMemory |-> 6, projected |-> TRUE, weighted |-> FALSE,
     cacheUnsat |-> FALSE, exists |-> FALSE, signals |-> TRUE, maxPolls |-> 2,
     residuals |-> (MCRoot :> {{F}}) @@ (F :> {{P, D}, {H}}) @@ (P :> {{B, G}, {H}})
                   @@ (H :> {{G}}) @@ (B :> {{}}) @@ (D :> {{}}) @@ (G :> {{}})]

(* C is counted on its own and met again behind B, for counts that may be  *)
(* zero: the zero is hit when B is already on the component stack.         *)
Zeros ==
    [root |-> MCRoot, nsvars |-> 6, maxMemory |-> 20, projected |-> TRUE, weighted |-> TRUE,
     cacheUnsat |-> TRUE, exists |-> FALSE, signals |-> FALSE, maxPolls |-> 9,
     residuals |-> (MCRoot :> {{F}}) @@ (F :> {{P}, {C}}) @@ (P :> {{B, C, G}})
                   @@ (B :> {{}}) @@ (C :> {{}}) @@ (G :> {{}})]

(* P and Q are finished in the first branch of F, with A, B and C below P. *)
(* In the second branch B and C are used again before new entries come, so *)
(* P goes, from the middle of the list of F, and leaves B and C there.     *)
Evicting ==
    [root |-> MCRoot, nsvars |-> 8, maxMemory |-> 13, projected |-> FALSE, weighted |-> FALSE,
     cacheUnsat |-> FALSE, exists |-> FALSE, signals |-> FALSE, maxPolls |-> 9,
     residuals |-> (MCRoot :> {{F}}) @@ (F :> {{P, Q}, {P1}}) @@ (P :> {{A, B, C}})
                   @@ (P1 :> {{B, C, G}, {B1, C}}) @@ (Q :> {{}})
                   @@ (A :> {{}}) @@ (B :> {{}}) @@ (B1 :> {{}}) @@ (C :> {{}}) @@ (G :> {{}})]

(* X, Y, C and G lie outside the projection and are left to countExists(), *)
(* which splits X, next to a component that is counted, into others.       *)
Existential ==
    [root |-> MCRoot, nsvars |-> 3, maxMemory |-> 7, projected |-> TRUE, weighted |-> FALSE,
     cacheUnsat |-> TRUE, exists |-> TRUE, signals |-> TRUE, maxPolls |-> 2,
     residuals |-> (MCRoot :> {{F}}) @@ (F :> {{B, X}, {Y}}) @@ (X :> {{C, Y}, {G}})
                   @@ (Y :> {{}}) @@ (B :> {{}}) @@ (C :> {{}}) @@ (G :> {{}})]

MCInputs == <<Shared, Zeros, Evicting, Existential>>

(* Some components collide in every table, some once it has grown.         *)
MCHash ==
    (NoneComp :> 0) @@ (MCRoot :> 0) @@ (F :> 8) @@ (P :> 1) @@ (P1 :> 4) @@ (Q :> 2) @@ (B :> 1) @@ (B1 :> 2)
    @@ (A :> 6) @@ (C :> 5) @@ (D :> 7) @@ (G :> 3) @@ (H :> 5)
    @@ (X :> 4) @@ (Y :> 6)
=============================================================================
