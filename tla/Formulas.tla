------------------------------- MODULE Formulas -------------------------------
(***************************************************************************)
(* Formulas in conjunctive normal form: a literal is a variable or its     *)
(* negative, a clause a set of literals; and rational numbers to weigh     *)
(* literals with, <<n, d>> in lowest terms.                                *)
(***************************************************************************)
EXTENDS Integers, FiniteSets, FiniteSetsExt, Functions

Var(l) == IF l > 0 THEN l ELSE -l
Negate(L) == {-l : l \in L}
Lits(V) == V \cup Negate(V)
VarsIn(C) == {Var(l) : l \in UNION C}
Tautology(c) == c \cap Negate(c) # {}
Contradictory(L) == L \cap Negate(L) # {}

(* What is left of clauses under some literals.                            *)
Reduce(C, L) == {c \ Negate(L) : c \in {d \in C : d \cap L = {}}}

(* Unit propagation from some literals.                                    *)
Closure(C, L) ==
    LET Forced(A) == UNION {{l \in c : Negate(c \ {l}) \subseteq A} : c \in {d \in C : d \cap A = {}}}
        step[n \in Nat] == IF n = 0 THEN L ELSE step[n-1] \cup Forced(step[n-1])
    IN  step[2 * Cardinality(VarsIn(C))]

(* Elimination of variables by resolution, one after the other.            *)
Resolvents(C, v) ==
    {c \in {(p \ {v}) \cup (q \ {-v}) : p \in {d \in C : v \in d}, q \in {d \in C : -v \in d}} : ~ Tautology(c)}
Without(C, v) == {c \in C : v \notin c /\ -v \notin c} \cup Resolvents(C, v)
Eliminated(C, V) ==
    LET upTo[n \in Nat] ==
            IF n = 0 THEN C ELSE LET D == upTo[n-1] IN IF n \in V THEN Without(D, n) ELSE D
    IN  upTo[Max(V \cup {0})]

Models(C, V) ==
    {M \in {P \cup Negate(V \ P) : P \in SUBSET V} : \A c \in C : c \cap M # {}}

Entailed(C) == LET all == Models(C, VarsIn(C)) IN {l \in UNION all : \A M \in all : l \in M}
-----------------------------------------------------------------------------
Rat(n, d) ==
    LET g == Max({k \in 1 .. d : n % k = 0 /\ d % k = 0}) IN <<n \div g, d \div g>>

Zero == <<0, 1>>
One == <<1, 1>>
Plus(p, q) == Rat(p[1] * q[2] + q[1] * p[2], p[2] * q[2])
Times(p, q) == Rat(p[1] * q[1], p[2] * q[2])
SumOver(S, f(_)) == MapThenFoldSet(Plus, Zero, f, LAMBDA T : CHOOSE x \in T : TRUE, S)
ProductOver(S, f(_)) == MapThenFoldSet(Times, One, f, LAMBDA T : CHOOSE x \in T : TRUE, S)
=============================================================================
