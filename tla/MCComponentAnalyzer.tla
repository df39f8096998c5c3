------------------------ MODULE MCComponentAnalyzer ------------------------
(***************************************************************************)
(* A formula whose components split again, where a satisfied clause links  *)
(* what is not linked any more and a long clause becomes a binary one.     *)
(***************************************************************************)
EXTENDS ComponentAnalyzer

MCVar == 1 .. 5
P(v) == <<v, TRUE>>
N(v) == <<v, FALSE>>

MCFormula == {{P(1), P(2)}, {P(2), P(3), P(4)}, {N(4), P(5)}}
=============================================================================
