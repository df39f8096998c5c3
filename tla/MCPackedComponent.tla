-------------------------- MODULE MCPackedComponent --------------------------
(***************************************************************************)
(* All components of a few variables and clauses, in words of 4 bits: a    *)
(* number, a width and a difference may each lie across two words, end     *)
(* where a word ends, or begin there.                                      *)
(***************************************************************************)
EXTENDS PackedComponent

MCNumVars == 7
MCNumClauses == 5

AscendingSeq(S) ==
    [k \in 1 .. Cardinality(S) |-> CHOOSE x \in S : Cardinality({y \in S : y < x}) = k - 1]

MCComponent ==
    [vars : {AscendingSeq(S) : S \in {T \in SUBSET (0 .. MCNumVars - 1) : Cardinality(T) >= 2}},
     clauses : {AscendingSeq(S) : S \in SUBSET (0 .. MCNumClauses - 1)}]
=============================================================================
