--------------------------- MODULE PackedComponent ---------------------------
(***************************************************************************)
(* The key under which the cache holds a component: the first variable,    *)
(* the width of the differences and the differences of its variables, and  *)
(* likewise its clauses from the next word on, packed into words.  A word  *)
(* is the set of its bits that are 1.  Two keys are equal when they have   *)
(* the same words and the same word for the clauses to begin in, so that a *)
(* component gets the count of another unless its key tells it apart.      *)
(***************************************************************************)
EXTENDS Integers, Sequences, FiniteSets

CONSTANTS
    NumVars,            \* the variables are 0 .. NumVars - 1,
    NumClauses,         \* and the long clauses 0 .. NumClauses - 1
    BPB,                \* bits of a word (32)
    WIDTH_HEADER_BITS,  \* bits that hold a width (5)
    Component           \* components that are packed

pow2[n \in Nat] == IF n = 0 THEN 1 ELSE 2 * pow2[n - 1]

MaxOf(S) == CHOOSE x \in S : \A y \in S : x >= y
CeilLog2(n) == CHOOSE k \in 0 .. n : pow2[k] >= n /\ \A j \in 0 .. k - 1 : pow2[j] < n

Ascending(s) == \A i \in 1 .. Len(s) - 1 : s[i] < s[i + 1]

(* A component has two variables or more, in ascending order like its      *)
(* clauses; the widths of both are less than a word's, and fit their field.*)
ASSUME ComponentAssumption ==
    /\ NumVars \in Nat /\ NumClauses \in Nat
    /\ \A c \in Component :
         /\ c.vars \in Seq(0 .. NumVars - 1) /\ Len(c.vars) >= 2 /\ Ascending(c.vars)
         /\ c.clauses \in Seq(0 .. NumClauses - 1) /\ Ascending(c.clauses)

Cbits(n) == IF n > 1 THEN CeilLog2(n) ELSE 1
BitsFirstVar == Cbits(NumVars)
BitsFirstCls == Cbits(NumClauses)

MaxDiff(s) == MaxOf({1} \cup {s[i + 1] - s[i] : i \in 1 .. Len(s) - 1})

(* Mutant: the width of the largest number below the largest difference.   *)
WidthShort(s) == MaxOf({1, CeilLog2(MaxDiff(s))})

Width(s) == CeilLog2(MaxDiff(s) + 1)

ASSUME WidthAssumption ==
    /\ BPB \in Nat /\ WIDTH_HEADER_BITS \in 1 .. BPB - 1
    /\ BitsFirstVar \in 1 .. BPB - 1 /\ BitsFirstCls \in 1 .. BPB - 1
    /\ \A c \in Component : \A s \in {c.vars, c.clauses} :
         Width(s) \in 1 .. BPB - 1 /\ Width(s) < pow2[WIDTH_HEADER_BITS]

VARIABLES
    comp,       \* the component
    data,       \* the words written, data_
    p, bp,      \* the word and the bit to write next
    i,          \* the variables, or clauses, that are packed
    clausesOfs, \* clauses_ofs_
    pc          \* where the constructor is

vars == <<comp, data, p, bp, i, clausesOfs, pc>>
-----------------------------------------------------------------------------
NVars == Len(comp.vars)
NClauses == Len(comp.clauses)

VarBits(c, n) ==
    IF n = 0 THEN 0 ELSE BitsFirstVar + WIDTH_HEADER_BITS + (n - 1) * Width(c.vars)
ClauseBits(c, n) ==
    IF n = 0 THEN 0
    ELSE IF Len(c.clauses) = 1 THEN BitsFirstCls
    ELSE BitsFirstCls + WIDTH_HEADER_BITS + (n - 1) * Width(c.clauses)

TotalBits(c) == VarBits(c, Len(c.vars)) + ClauseBits(c, Len(c.clauses))

(* Mutant: one word of slack less.                                         *)
WordsTight(c) == TotalBits(c) \div BPB + 3

Words(c) == TotalBits(c) \div BPB + 4

Init ==
    /\ comp \in Component
    /\ data = [k \in 0 .. Words(comp) - 1 |-> {}]
    /\ p = 0 /\ bp = 0 /\ i = 0 /\ clausesOfs = 0
    /\ pc = "vars"

Bits(val) == {k \in 0 .. BPB - 1 : (val \div pow2[k]) % 2 = 1}
ShiftLeft(bits, n) == {k + n : k \in bits} \cap (0 .. BPB - 1)
ShiftRight(bits, n) == {k - n : k \in {j \in bits : j >= n}}

Cursor == [data |-> data, p |-> p, bp |-> bp]

(* Mutant: the carry has the bits from the word's end on, not the value's. *)
PackCarry(c, val, nbits) ==
    LET low == [c.data EXCEPT ![c.p] = @ \cup ShiftLeft(Bits(val), c.bp)]
    IN  IF c.bp + nbits < BPB THEN [data |-> low, p |-> c.p, bp |-> c.bp + nbits]
        ELSE [data |-> [low EXCEPT ![c.p + 1] = ShiftRight(Bits(val), c.bp + nbits - BPB)],
              p |-> c.p + 1, bp |-> c.bp + nbits - BPB]

(* A number is added at the cursor, and carries over to the next word.     *)
Pack(c, val, nbits) ==
    LET low == [c.data EXCEPT ![c.p] = @ \cup ShiftLeft(Bits(val), c.bp)]
    IN  IF c.bp + nbits < BPB THEN [data |-> low, p |-> c.p, bp |-> c.bp + nbits]
        ELSE [data |-> [low EXCEPT ![c.p + 1] = ShiftRight(Bits(val), BPB - c.bp)],
              p |-> c.p + 1, bp |-> c.bp + nbits - BPB]

Written(c) == data' = c.data /\ p' = c.p /\ bp' = c.bp

FirstVar ==
    /\ pc = "vars" /\ i = 0
    /\ Written(Pack(Pack(Cursor, comp.vars[1], BitsFirstVar), Width(comp.vars), WIDTH_HEADER_BITS))
    /\ i' = 1
    /\ UNCHANGED <<comp, clausesOfs, pc>>

NextVar ==
    /\ pc = "vars" /\ i \in 1 .. NVars - 1
    /\ Written(Pack(Cursor, comp.vars[i + 1] - comp.vars[i], Width(comp.vars)))
    /\ i' = i + 1
    /\ UNCHANGED <<comp, clausesOfs, pc>>

NextWord == IF bp > 0 THEN p + 1 ELSE p

(* Mutant: the clauses go on in the word where the variables end.          *)
ClausesFollow ==
    /\ pc = "vars" /\ i = NVars
    /\ clausesOfs' = p
    /\ i' = 0
    /\ pc' = "clauses"
    /\ UNCHANGED <<comp, data, p, bp>>

CloseVars ==
    /\ pc = "vars" /\ i = NVars
    /\ p' = NextWord /\ bp' = 0
    /\ clausesOfs' = NextWord
    /\ i' = 0
    /\ pc' = "clauses"
    /\ UNCHANGED <<comp, data>>

FirstClause ==
    /\ pc = "clauses" /\ i = 0 /\ NClauses > 0
    /\ LET first == Pack(Cursor, comp.clauses[1], BitsFirstCls)
       IN  Written(IF NClauses = 1 THEN first
                   ELSE Pack(first, Width(comp.clauses), WIDTH_HEADER_BITS))
    /\ i' = 1
    /\ UNCHANGED <<comp, clausesOfs, pc>>

NextClause ==
    /\ pc = "clauses" /\ i \in 1 .. NClauses - 1
    /\ Written(Pack(Cursor, comp.clauses[i + 1] - comp.clauses[i], Width(comp.clauses)))
    /\ i' = i + 1
    /\ UNCHANGED <<comp, clausesOfs, pc>>

(* The words written, and two more that are zero, are the key.             *)
Close ==
    /\ pc = "clauses" /\ i = NClauses
    /\ p' = NextWord
    /\ data' = [k \in 0 .. NextWord + 1 |-> IF k < NextWord THEN data[k] ELSE {}]
    /\ pc' = "done"
    /\ UNCHANGED <<comp, bp, i, clausesOfs>>

Done == pc = "done" /\ UNCHANGED vars

Next == FirstVar \/ NextVar \/ CloseVars \/ FirstClause \/ NextClause \/ Close \/ Done

Spec == Init /\ [][Next]_vars
-----------------------------------------------------------------------------
TypeOK ==
    /\ comp \in Component
    /\ data \in [DOMAIN data -> SUBSET (0 .. BPB - 1)]
    /\ p \in Nat /\ bp \in 0 .. BPB - 1
    /\ i \in Nat /\ clausesOfs \in Nat
    /\ pc \in {"vars", "clauses", "done"}

(* The word being written and the next, which takes the carry and at the   *)
(* end a zero, lie in the buffer that was reserved for the key.            *)
InBuffer == p + 1 < Words(comp)

(* Reading a key: a number of some bits, and after a width the differences *)
(* of that width up to a word, until there is no room or one is zero.      *)
NumberAt(at, nbits) ==
    CHOOSE n \in 0 .. pow2[nbits] - 1 :
        Bits(n) = {k \in 0 .. nbits - 1 : (at + k) % BPB \in data[(at + k) \div BPB]}

WidthAt(at, end) ==
    IF at + WIDTH_HEADER_BITS <= end * BPB THEN NumberAt(at, WIDTH_HEADER_BITS) ELSE 0

DiffsAt(at, end) ==
    LET width == WidthAt(at, end)
        diff[j \in Nat] == NumberAt(at + WIDTH_HEADER_BITS + (j - 1) * width, width)
        room == IF width = 0 THEN 0 ELSE (end * BPB - at - WIDTH_HEADER_BITS) \div width
    IN  [j \in 1 .. Cardinality({k \in 1 .. room : diff[k] # 0}) |-> diff[j]]

DiffsOf(s) == [j \in 1 .. Len(s) - 1 |-> s[j + 1] - s[j]]

(* The key tells which component it is of: the words written, and where    *)
(* the clauses begin, give back its variables and its clauses.             *)
KeyTellsComponent ==
    pc = "done" =>
        LET end == Cardinality(DOMAIN data) - 2
            from == clausesOfs * BPB
        IN  /\ comp.vars[1] = NumberAt(0, BitsFirstVar)
            /\ DiffsOf(comp.vars) = DiffsAt(BitsFirstVar, clausesOfs)
            /\ IF end = clausesOfs THEN comp.clauses = <<>>
               ELSE /\ NClauses > 0
                    /\ comp.clauses[1] = NumberAt(from, BitsFirstCls)
                    /\ DiffsOf(comp.clauses) = DiffsAt(from + BitsFirstCls, end)
=============================================================================
