---------------------------- MODULE MCCountSearch ----------------------------
(***************************************************************************)
(* Formulas on which the cache can be polluted, units stray and existence  *)
(* checks disturb each other.                                              *)
(***************************************************************************)
EXTENDS CountSearch

(* The weights: all one, or different ones, among them a zero.             *)
One == [l \in -9 .. 9 |-> 1]
Some == [l \in -9 .. 9 |-> CASE l = 1 -> 2 [] l = -2 -> 3 [] l = 3 -> 5 [] l = -4 -> 0 [] OTHER -> 1]

(* Under 1 the component of 3 and 4 has no model; {5, 6} is a component    *)
(* there and under -1, and clauses learnt under 1 propagate in it.         *)
Pollution == {{-1,3,4}, {-1,-3,4}, {-1,3,-4}, {-1,-3,-4}, {2,3,5}, {5,6}}
Unweighted ==
    [formula |-> Pollution, nvars |-> 6, nsvars |-> 6, weight |-> One, lead |-> <<1>>,
     exists |-> FALSE, maxLearnts |-> 1]
Projected == [Unweighted EXCEPT !.nsvars = 4, !.weight = Some, !.lead = <<>>]
RefutedChecked == [Projected EXCEPT !.nsvars = 2, !.lead = <<1,-2,3>>, !.exists = TRUE]

(* 3 is true in every model, and so is 1 or 5, whatever 6 is.              *)
Strays ==
    [formula |-> {{1,2}, {3,4}, {3,-4}, {1,5,6}, {5,-6}}, nvars |-> 6, nsvars |-> 4,
     weight |-> Some, lead |-> <<>>, exists |-> FALSE, maxLearnts |-> 2]
StraysChecked == [Strays EXCEPT !.nsvars = 1, !.exists = TRUE]

(* Under 2, {3, 4} and {5, 6} are components, 5 is not to be refuted and    *)
(* asserted by internalSAT(), and {-5, 3}, learnt earlier, ties them.      *)
Spills ==
    [formula |-> {{1,5}, {2,3,-5}, {-2,3,4}, {-2,3,-4}, {5,6}, {-2,5,-6}}, nvars |-> 6,
     nsvars |-> 4, weight |-> Some, lead |-> <<>>, exists |-> FALSE, maxLearnts |-> 1]

(* Under 3, {4, 5} and {6, 7} are components without projection variables; *)
(* {4, -6}, learnt under -1 and -2, ties them.                             *)
Ties ==
    [formula |-> {{1,-4}, {2,6}, {3,4,-6}, {-3,4,5}, {-3,4,-5}, {6,7}, {6,-7}}, nvars |-> 7,
     nsvars |-> 3, weight |-> One, lead |-> <<-1,-2,3,-6>>, exists |-> TRUE, maxLearnts |-> 1]

(* {6, -8} ties {6, 7} and {8, 9}; {4, 5}, which is checked last, has no   *)
(* model.                                                                  *)
HopelessTies ==
    [Ties EXCEPT !.formula = {{1,-6}, {2,8}, {3,6,-8}, {-3,6,7}, {-3,6,-7}, {8,9}, {8,-9},
                              {-3,4,5}, {-3,4,-5}, {-3,-4,5}, {-3,-4,-5}},
                 !.nvars = 9, !.lead = <<-1,-2,3,-8>>]

(* Under 1, 2 and 3, {7, 8} and {4, 5, 6} are components; {-4, 7}, learnt   *)
(* earlier, ties them: deciding -7 teaches 4, and -4 is decided next.      *)
Unheld ==
    [Unweighted EXCEPT
       !.formula = {{1,-7}, {2,4}, {3,-4,7}, {-3,7,8}, {-3,7,-8}, {4,5}, {4,6}, {-5,-6}},
       !.nvars = 8, !.nsvars = 8, !.lead = <<-1,-2,3,-7,-4,5>>]

Sound == <<Unweighted, Projected, RefutedChecked, Strays, StraysChecked, HopelessTies>>
Spilled == <<Spills>>
Tied == <<Ties>>
Disregarded == <<Unheld>>
=============================================================================
