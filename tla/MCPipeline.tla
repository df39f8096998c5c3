------------------------------ MODULE MCPipeline ------------------------------
(***************************************************************************)
(* Small files, in which variables are isolated, fixed, equivalent,        *)
(* defined or without a weight.                                            *)
(***************************************************************************)
EXTENDS Pipeline

File(nvars, clauses, show, weight) ==
    [nvars |-> nvars, clauses |-> clauses, show |-> show, weight |-> weight, mult |-> None, shift |-> 0]
Input(f, projected, weighted) ==
    [file |-> f, mode |-> [projected |-> projected, weighted |-> weighted, complete |-> weighted]]

Unweighted(nvars, clauses) == Input(File(nvars, clauses, {}, <<>>), FALSE, FALSE)
Projected(nvars, clauses, show) == Input(File(nvars, clauses, show, <<>>), TRUE, FALSE)
WeightedOn(nvars, clauses, show, weight) == Input(File(nvars, clauses, show, weight), TRUE, TRUE)
AsGiven(input) == [input EXCEPT !.mode.complete = FALSE]

Xor == {{-1,2,3}, {1,-2,3}, {1,2,-3}, {-1,-2,-3}}

Few == {
    Unweighted(3, {{1,2}, {-1,-2}}),
    Projected(4, {{1,3}, {-1,-3}, {2,3,4}}, {1,2}),
    (* 3 is -1, and 1 has one weight only.                                 *)
    WeightedOn(4, {{1,3}, {-1,-3}, {2,3}, {-2,4}}, {1,2},
               (1 :> <<1,3>>) @@ (2 :> <<2,1>>) @@ (-2 :> <<3,1>>) @@ (4 :> <<5,1>>)),
    (* Each of the three is defined by the other two, and weighs the same. *)
    WeightedOn(3, Xor, {1,2,3}, (1 :> <<2,1>>) @@ (-1 :> <<2,1>>) @@ (2 :> <<3,1>>) @@ (-2 :> <<3,1>>)),
    (* 1, 2 and 3 are one, and so is -4 when 3 has been eliminated.        *)
    WeightedOn(4, {{-1,2}, {-2,3}, {-3,1}, {3,4}, {-1,-4,2}}, {1,2,4},
               (1 :> <<1,3>>) @@ (2 :> <<2,1>>) @@ (-2 :> <<3,1>>) @@ (4 :> <<2,1>>) @@ (-4 :> <<2,1>>)),
    WeightedOn(4, {{1,3}, {1,-3,4}, {-1,2,3}, {-1,2,-3,4}, {2,3,-4}}, {1,2},
               (1 :> <<1,1>>) @@ (-1 :> <<1,1>>) @@ (2 :> <<1,3>>)),
    (* 4 is 1 and 2, and this has been through a preprocessor before.       *)
    [WeightedOn(4, {{-4,1}, {-4,2}, {4,-1,-2}, {3,4}}, {1,2,4}, (1 :> <<1,2>>) @@ (2 :> <<1,3>>))
        EXCEPT !.file.mult = <<5,2>>],
    (* Nothing is left to count.                                           *)
    WeightedOn(3, {{1}, {-1,2}}, {1,2,3}, (1 :> <<1,2>>) @@ (-3 :> <<1,4>>)),
    WeightedOn(2, {{1,2}, {1,-2}, {-1,2}, {-1,-2}}, {1}, 1 :> <<1,2>>),
    (* These are refused, but for the last.                                *)
    WeightedOn(1, {}, {1}, 1 :> <<3,2>>),
    AsGiven(WeightedOn(2, {{1,2}}, {1,2}, (1 :> <<1,2>>) @@ (2 :> <<1,3>>) @@ (-2 :> <<2,3>>))),
    AsGiven(WeightedOn(3, {{1,2}, {1,2,3}, {-1,-3}}, {1},
                       (1 :> <<2,1>>) @@ (-1 :> <<3,1>>) @@ (2 :> <<5,1>>) @@ (-3 :> <<7,1>>)))}

(* All formulas of up to four clauses of two or three variables, with one *)
(* variable that is not projected and one that may be eliminated.          *)
Clauses == {c \in SUBSET Lits(1 .. 3) : Cardinality(c) \in 2 .. 3 /\ ~ Tautology(c)}
All == {WeightedOn(3, {c, d, e, f}, {1,2}, (1 :> <<1,3>>) @@ (2 :> <<1,2>>)) : c, d, e, f \in Clauses}
Every == Few \cup All

(* What is left over from preprocessing: free variables, or a factor, or   *)
(* that there is no model; and a weight that is not to count, on a         *)
(* variable equivalent to one of the projection.                           *)
Free == {Unweighted(4, {{1,2}})}
Units == {WeightedOn(2, {{1}, {2}}, {1,2}, (1 :> <<1,2>>) @@ (2 :> <<1,2>>))}
Stray == {AsGiven(WeightedOn(2, {{1,-2}, {-1,2}}, {1}, (1 :> <<1,2>>) @@ (-1 :> <<1,2>>) @@ (2 :> <<3,1>>)))}
Left == Free \cup Units
NoModels == {Unweighted(2, {{1,2}, {1,-2}, {-1,2}, {-1,-2}})}

(* Any one program, and a file that is preprocessed before it is counted.  *)
Single == {<<"gpmc">>, <<"direct">>, <<"pp", "direct">>}
Once == {<<"gpmc">>}
Twice == {<<"pp", "gpmc">>}
=============================================================================
