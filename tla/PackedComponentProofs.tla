------------------------ MODULE PackedComponentProofs ------------------------
(***************************************************************************)
(* The key of a component fits the buffer that is reserved for it, and     *)
(* tells which component it is of, for any number of variables and clauses *)
(* and every size of words: proofs.                                        *)
(*                                                                         *)
(* The position in the buffer says how much has been written.  The clauses *)
(* begin in a word of their own, and what they write ends in one: each of  *)
(* these two may take all but one bit of a word in addition.               *)
(*                                                                         *)
(* The words are read as one set of bits, those that are 1.  A number      *)
(* adds its own bits at the cursor, and no bit from the cursor on is 1, so *)
(* that at every moment the set is the union of what each number placed.   *)
(* The places are apart from one another, and a number that fits its width *)
(* is the only one with its bits: reading a place gives back the number.   *)
(***************************************************************************)
EXTENDS PackedComponent, Induction

Position ==
    /\ pc = "vars" => i <= NVars /\ p * BPB + bp = VarBits(comp, i)
    /\ pc = "clauses" => /\ i <= NClauses
                         /\ clausesOfs * BPB <= VarBits(comp, NVars) + (BPB - 1)
                         /\ p * BPB + bp = clausesOfs * BPB + ClauseBits(comp, i)
    /\ pc = "done" => p * BPB <= TotalBits(comp) + 2 * (BPB - 1)

Sized == pc # "done" => DOMAIN data = 0 .. Words(comp) - 1

Inv == TypeOK /\ Sized /\ Position

(* What the widths are, and how many bits are written.                     *)
LEMMA Widths ==
  ASSUME NEW c \in Component
  PROVE  /\ Len(c.vars) \in Nat /\ Len(c.vars) >= 2 /\ Len(c.clauses) \in Nat
         /\ Width(c.vars) \in 1 .. BPB - 1 /\ Width(c.clauses) \in 1 .. BPB - 1
         /\ BPB \in Nat /\ WIDTH_HEADER_BITS \in 1 .. BPB - 1
         /\ BitsFirstVar \in 1 .. BPB - 1 /\ BitsFirstCls \in 1 .. BPB - 1
<1>1. Len(c.vars) \in Nat /\ Len(c.vars) >= 2 /\ Len(c.clauses) \in Nat
  BY ComponentAssumption
<1>2. \A s \in {c.vars, c.clauses} : Width(s) \in 1 .. BPB - 1
  BY WidthAssumption
<1> QED
  BY <1>1, <1>2, WidthAssumption

(* The products of words and bits, and of numbers and widths.              *)
LEMMA Product == \A m, n \in Nat : m * n \in Nat /\ (m + 1) * n = m * n + n
OBVIOUS

(* Products grow with their factors.                                       *)
LEMMA Monotone == \A m, n, w \in Nat : m <= n => m * w <= n * w
OBVIOUS

(* What the variables take, one difference after the other.                *)
LEMMA VarBitsStep ==
  ASSUME NEW c \in Component
  PROVE  /\ VarBits(c, 0) = 0 /\ VarBits(c, 1) = BitsFirstVar + WIDTH_HEADER_BITS
         /\ \A n \in Nat \ {0} : VarBits(c, n + 1) = VarBits(c, n) + Width(c.vars)
         /\ \A n \in Nat : VarBits(c, n) \in Nat
         /\ \A m, n \in Nat : m <= n => VarBits(c, m) <= VarBits(c, n)
<1> DEFINE w == Width(c.vars)
           h == BitsFirstVar + WIDTH_HEADER_BITS
<1>1. w \in Nat /\ h \in Nat
  BY Widths
<1>2. \A n \in Nat : VarBits(c, n) = IF n = 0 THEN 0 ELSE h + (n - 1) * w
  BY DEF VarBits
<1> HIDE DEF w, h
<1>3. \A n \in Nat \ {0} : n - 1 \in Nat /\ (n - 1) * w \in Nat /\ n * w = (n - 1) * w + w
  BY <1>1, Product
<1>4. VarBits(c, 0) = 0 /\ VarBits(c, 1) = h
  BY <1>1, <1>2
<1>5. \A n \in Nat \ {0} : VarBits(c, n + 1) = VarBits(c, n) + w
  BY <1>1, <1>2, <1>3
<1>6. \A n \in Nat : VarBits(c, n) \in Nat
  BY <1>1, <1>2, <1>3
<1>7. ASSUME NEW m \in Nat, NEW n \in Nat, m <= n PROVE VarBits(c, m) <= VarBits(c, n)
  <2>1. CASE m = 0
    BY <1>4, <1>6, <2>1
  <2>2. CASE m # 0
    <3>1. m - 1 \in Nat /\ n - 1 \in Nat /\ m - 1 <= n - 1
      BY <1>7, <2>2
    <3>2. (m - 1) * w <= (n - 1) * w
      BY <1>1, <3>1, Monotone
    <3>3. (m - 1) * w \in Nat /\ (n - 1) * w \in Nat
      BY <1>1, <3>1, Product
    <3> QED
      BY <1>1, <1>2, <1>7, <2>2, <3>2, <3>3
  <2> QED
    BY <2>1, <2>2
<1> QED
  BY <1>4, <1>5, <1>6, <1>7 DEF w, h

(* What the clauses take; one alone has no width.                          *)
LEMMA ClauseBitsStep ==
  ASSUME NEW c \in Component
  PROVE  /\ ClauseBits(c, 0) = 0
         /\ Len(c.clauses) = 1 => ClauseBits(c, 1) = BitsFirstCls
         /\ Len(c.clauses) > 1 => ClauseBits(c, 1) = BitsFirstCls + WIDTH_HEADER_BITS
         /\ \A n \in Nat \ {0} : Len(c.clauses) > 1 =>
              ClauseBits(c, n + 1) = ClauseBits(c, n) + Width(c.clauses)
         /\ \A n \in Nat : ClauseBits(c, n) \in Nat
         /\ \A m, n \in Nat : m <= n => ClauseBits(c, m) <= ClauseBits(c, n)
<1> DEFINE w == Width(c.clauses)
           h == IF Len(c.clauses) = 1 THEN BitsFirstCls ELSE BitsFirstCls + WIDTH_HEADER_BITS
           d == IF Len(c.clauses) = 1 THEN 0 ELSE w
<1>1. w \in Nat /\ h \in Nat /\ d \in Nat
  BY Widths
<1>2. \A n \in Nat : ClauseBits(c, n) = IF n = 0 THEN 0 ELSE h + (n - 1) * d
  BY Widths DEF ClauseBits
<1>3. /\ Len(c.clauses) = 1 => h = BitsFirstCls
      /\ Len(c.clauses) > 1 => h = BitsFirstCls + WIDTH_HEADER_BITS
      /\ Len(c.clauses) > 1 => d = w
  <2>1. \A n \in Nat : n > 1 => n # 1
    OBVIOUS
  <2>2. Len(c.clauses) > 1 => Len(c.clauses) # 1
    BY <2>1, Widths
  <2> HIDE DEF w
  <2> QED
    BY <2>2
<1> HIDE DEF w, h, d
<1>4. \A n \in Nat \ {0} : n - 1 \in Nat /\ (n - 1) * d \in Nat /\ n * d = (n - 1) * d + d
  BY <1>1, Product
<1>5. ClauseBits(c, 0) = 0 /\ ClauseBits(c, 1) = h
  BY <1>1, <1>2
<1>6. \A n \in Nat \ {0} : ClauseBits(c, n + 1) = ClauseBits(c, n) + d
  BY <1>1, <1>2, <1>4
<1>7. \A n \in Nat : ClauseBits(c, n) \in Nat
  BY <1>1, <1>2, <1>4
<1>8. ASSUME NEW m \in Nat, NEW n \in Nat, m <= n PROVE ClauseBits(c, m) <= ClauseBits(c, n)
  <2>1. CASE m = 0
    BY <1>5, <1>7, <2>1
  <2>2. CASE m # 0
    <3>1. m - 1 \in Nat /\ n - 1 \in Nat /\ m - 1 <= n - 1
      BY <1>8, <2>2
    <3>2. (m - 1) * d <= (n - 1) * d
      BY <1>1, <3>1, Monotone
    <3>3. (m - 1) * d \in Nat /\ (n - 1) * d \in Nat
      BY <1>1, <3>1, Product
    <3> QED
      BY <1>1, <1>2, <1>8, <2>2, <3>2, <3>3
  <2> QED
    BY <2>1, <2>2
<1> QED
  BY <1>3, <1>5, <1>6, <1>7, <1>8 DEF w

(* Words at some places.                                                   *)
Data(D) == [D -> SUBSET (0 .. BPB - 1)]

(* A number moves the cursor by its bits, over one word at most.           *)
LEMMA PackMoves ==
  ASSUME NEW c, NEW D, c.data \in Data(D), c.p \in Nat, c.bp \in 0 .. BPB - 1,
         BPB \in Nat, NEW nbits \in 0 .. BPB - 1, NEW val
  PROVE  LET r == Pack(c, val, nbits)
         IN  /\ r.data \in Data(D) /\ r.p \in Nat /\ r.bp \in 0 .. BPB - 1
             /\ r.p * BPB + r.bp = c.p * BPB + c.bp + nbits
<1> DEFINE low == [c.data EXCEPT ![c.p] = @ \cup ShiftLeft(Bits(val), c.bp)]
           high == [low EXCEPT ![c.p + 1] = ShiftRight(Bits(val), BPB - c.bp)]
<1>1. ShiftLeft(Bits(val), c.bp) \in SUBSET (0 .. BPB - 1)
  BY DEF ShiftLeft
<1>2. ShiftRight(Bits(val), BPB - c.bp) \in SUBSET (0 .. BPB - 1)
  BY DEF ShiftRight, Bits
<1>3. low \in Data(D)
  BY <1>1 DEF Data
<1>4. high \in Data(D)
  BY <1>2, <1>3 DEF Data
<1>5. (c.p + 1) * BPB = c.p * BPB + BPB /\ c.p * BPB \in Nat
  BY Product
<1>6. CASE c.bp + nbits < BPB
  BY <1>3, <1>5, <1>6 DEF Pack
<1>7. CASE ~ (c.bp + nbits < BPB)
  <2>1. Pack(c, val, nbits) = [data |-> high, p |-> c.p + 1, bp |-> c.bp + nbits - BPB]
    BY <1>7 DEF Pack
  <2> HIDE DEF low, high
  <2>2. c.bp + nbits - BPB \in 0 .. BPB - 1
    BY <1>7
  <2>3. (c.p + 1) * BPB + (c.bp + nbits - BPB) = c.p * BPB + c.bp + nbits
    BY <1>5
  <2> QED
    BY <1>4, <2>1, <2>2, <2>3
<1> QED
  BY <1>6, <1>7

(* So much in the buffer leaves it two words.                              *)
LEMMA Fits ==
  ASSUME NEW n \in Nat, NEW c \in Component, n * BPB <= TotalBits(c) + 2 * (BPB - 1)
  PROVE  n + 1 < Words(c) /\ Words(c) \in Nat
<1>1. TotalBits(c) \in Nat /\ BPB \in Nat \ {0}
  <2>1. Len(c.vars) \in Nat /\ Len(c.clauses) \in Nat
    BY Widths
  <2>2. VarBits(c, Len(c.vars)) \in Nat
    BY <2>1, VarBitsStep
  <2>3. ClauseBits(c, Len(c.clauses)) \in Nat
    BY <2>1, ClauseBitsStep
  <2>4. BPB \in Nat \ {0}
    BY WidthAssumption
  <2> QED
    BY <2>2, <2>3, <2>4 DEF TotalBits
<1> DEFINE q == TotalBits(c) \div BPB
<1>2. q \in Nat /\ TotalBits(c) <= q * BPB + (BPB - 1)
  BY <1>1
<1>3. Words(c) = q + 4
  BY DEF Words
<1> HIDE DEF q
<1>4. n <= q + 2
  <2> SUFFICES ASSUME n >= q + 3 PROVE FALSE
    BY <1>2
  <2>1. (q + 3) * BPB <= n * BPB
    BY <1>1, <1>2, Monotone
  <2>2. (q + 3) * BPB = q * BPB + 3 * BPB
    BY <1>1, <1>2
  <2> QED
    BY <1>1, <1>2, <2>1, <2>2, Product
<1> QED
  BY <1>2, <1>3, <1>4
-----------------------------------------------------------------------------
(* The word after the cursor begins less than a word further.              *)
LEMMA WordEnds ==
  ASSUME BPB \in Nat \ {0}, p \in Nat, bp \in 0 .. BPB - 1
  PROVE  /\ NextWord \in Nat /\ p * BPB \in Nat
         /\ NextWord * BPB <= p * BPB + bp + (BPB - 1)
<1>1. (p + 1) * BPB = p * BPB + BPB /\ p * BPB \in Nat
  BY Product
<1> QED
  BY <1>1 DEF NextWord

(* At first nothing is written.                                            *)
LEMMA InitInv == Init => Inv
<1> SUFFICES ASSUME Init PROVE Inv
  OBVIOUS
<1>1. comp \in Component
  BY DEF Init
<1>2. BPB \in Nat \ {0} /\ 0 * BPB = 0
  BY WidthAssumption
<1>3. TypeOK
  <2>1. data \in [DOMAIN data -> SUBSET (0 .. BPB - 1)]
    BY DEF Init
  <2> QED
    BY <1>1, <1>2, <2>1 DEF Init, TypeOK
<1>4. Position
  <2>1. NVars \in Nat /\ VarBits(comp, 0) = 0
    BY <1>1, VarBitsStep, Widths DEF NVars
  <2> QED
    BY <1>2, <2>1 DEF Init, Position
<1> QED
  BY <1>3, <1>4 DEF Inv, Init, Sized

(* What the invariant says of the types.                                   *)
LEMMA Facts ==
  ASSUME Inv
  PROVE  /\ comp \in Component /\ BPB \in Nat \ {0} /\ BPB \in Nat
         /\ p \in Nat /\ bp \in 0 .. BPB - 1 /\ i \in Nat /\ clausesOfs \in Nat
         /\ data \in Data(DOMAIN data)
         /\ NVars \in Nat /\ NClauses \in Nat
         /\ Cursor.data = data /\ Cursor.p = p /\ Cursor.bp = bp
<1>1. comp \in Component
  BY DEF Inv, TypeOK
<1>2. NVars \in Nat /\ NClauses \in Nat
  BY <1>1, Widths DEF NVars, NClauses
<1> QED
  BY <1>1, <1>2, WidthAssumption DEF Inv, TypeOK, Data, Cursor

(* The first variable and the width are written.                           *)
LEMMA FirstVarInv ==
  ASSUME Inv, FirstVar
  PROVE  Inv'
<1> DEFINE first == Pack(Cursor, comp.vars[1], BitsFirstVar)
           second == Pack(first, Width(comp.vars), WIDTH_HEADER_BITS)
<1>0. /\ pc = "vars" /\ i = 0 /\ i' = 1 /\ UNCHANGED <<comp, clausesOfs, pc>>
      /\ data' = second.data /\ p' = second.p /\ bp' = second.bp
  BY DEF FirstVar, Written
<1>1. /\ BitsFirstVar \in 1 .. BPB - 1 /\ WIDTH_HEADER_BITS \in 1 .. BPB - 1
      /\ NVars >= 2
  BY Facts, Widths DEF NVars
<1>2. /\ first.data \in Data(DOMAIN data) /\ first.p \in Nat /\ first.bp \in 0 .. BPB - 1
      /\ first.p * BPB + first.bp = p * BPB + bp + BitsFirstVar
  BY <1>1, Facts, PackMoves
<1> HIDE DEF first
<1>3. /\ second.data \in Data(DOMAIN data) /\ second.p \in Nat /\ second.bp \in 0 .. BPB - 1
      /\ second.p * BPB + second.bp = first.p * BPB + first.bp + WIDTH_HEADER_BITS
  BY <1>1, <1>2, Facts, PackMoves
<1> HIDE DEF second
<1>4. p * BPB + bp = 0 /\ VarBits(comp, 1) = BitsFirstVar + WIDTH_HEADER_BITS /\ p * BPB \in Nat
  BY <1>0, Facts, VarBitsStep, Product DEF Inv, Position
<1>5. p' * BPB + bp' = VarBits(comp, 1)
  BY <1>0, <1>1, <1>2, <1>3, <1>4
<1>6. TypeOK'
  BY <1>0, <1>3 DEF Inv, TypeOK, Data
<1>7. Position'
  BY <1>0, <1>1, <1>5 DEF Position, NVars
<1>8. Sized'
  BY <1>0, <1>3 DEF Inv, Sized, Data
<1> QED
  BY <1>6, <1>7, <1>8 DEF Inv

(* A difference of variables is written.                                   *)
LEMMA NextVarInv ==
  ASSUME Inv, NextVar
  PROVE  Inv'
<1> DEFINE diff == comp.vars[i + 1] - comp.vars[i]
           width == Width(comp.vars)
           next == Pack(Cursor, diff, width)
<1>0. /\ pc = "vars" /\ i \in 1 .. NVars - 1 /\ i' = i + 1 /\ UNCHANGED <<comp, clausesOfs, pc>>
      /\ data' = next.data /\ p' = next.p /\ bp' = next.bp
  BY DEF NextVar, Written
<1>1. width \in 0 .. BPB - 1
  BY Facts, Widths
<1>2. VarBits(comp, i + 1) = VarBits(comp, i) + width
  BY <1>0, Facts, VarBitsStep
<1> HIDE DEF diff, width
<1>3. /\ next.data \in Data(DOMAIN data) /\ next.p \in Nat /\ next.bp \in 0 .. BPB - 1
      /\ next.p * BPB + next.bp = p * BPB + bp + width
  BY <1>1, Facts, PackMoves
<1> HIDE DEF next
<1>4. p' * BPB + bp' = VarBits(comp, i')
  BY <1>0, <1>2, <1>3 DEF Inv, Position
<1>5. TypeOK'
  BY <1>0, <1>3, Facts DEF Inv, TypeOK, Data
<1>6. Position'
  BY <1>0, <1>4, Facts DEF Position, NVars
<1>7. Sized'
  BY <1>0, <1>3 DEF Inv, Sized, Data
<1> QED
  BY <1>5, <1>6, <1>7 DEF Inv

(* The clauses begin in a word of their own.                               *)
LEMMA CloseVarsInv ==
  ASSUME Inv, CloseVars
  PROVE  Inv'
<1>0. /\ pc = "vars" /\ i = NVars /\ p' = NextWord /\ bp' = 0 /\ clausesOfs' = NextWord
      /\ i' = 0 /\ pc' = "clauses" /\ UNCHANGED <<comp, data>>
  BY DEF CloseVars
<1>1. NextWord \in Nat /\ NextWord * BPB <= p * BPB + bp + (BPB - 1)
  BY Facts, WordEnds
<1>2. p * BPB + bp = VarBits(comp, NVars)
  BY <1>0 DEF Inv, Position
<1>3. ClauseBits(comp, 0) = 0 /\ NextWord * BPB \in Nat
  BY <1>1, Facts, ClauseBitsStep, Product
<1>4. TypeOK'
  BY <1>0, <1>1, Facts DEF Inv, TypeOK
<1>5. Position'
  BY <1>0, <1>1, <1>2, <1>3, Facts DEF Position, NVars, NClauses
<1>6. Sized'
  BY <1>0 DEF Inv, Sized
<1> QED
  BY <1>4, <1>5, <1>6 DEF Inv

(* The first clause is written, and the width when there are more.         *)
LEMMA FirstClauseInv ==
  ASSUME Inv, FirstClause
  PROVE  Inv'
<1> DEFINE first == Pack(Cursor, comp.clauses[1], BitsFirstCls)
           second == Pack(first, Width(comp.clauses), WIDTH_HEADER_BITS)
           last == IF NClauses = 1 THEN first ELSE second
<1>0. /\ pc = "clauses" /\ i = 0 /\ i' = 1 /\ UNCHANGED <<comp, clausesOfs, pc>> /\ NClauses > 0
      /\ data' = last.data /\ p' = last.p /\ bp' = last.bp
  BY DEF FirstClause, Written
<1>1. BitsFirstCls \in 1 .. BPB - 1 /\ WIDTH_HEADER_BITS \in 1 .. BPB - 1
  BY Facts, Widths
<1>2. /\ first.data \in Data(DOMAIN data) /\ first.p \in Nat /\ first.bp \in 0 .. BPB - 1
      /\ first.p * BPB + first.bp = p * BPB + bp + BitsFirstCls
  BY <1>1, Facts, PackMoves
<1> HIDE DEF first
<1>3. /\ second.data \in Data(DOMAIN data) /\ second.p \in Nat /\ second.bp \in 0 .. BPB - 1
      /\ second.p * BPB + second.bp = first.p * BPB + first.bp + WIDTH_HEADER_BITS
  BY <1>1, <1>2, Facts, PackMoves
<1> HIDE DEF second
<1>4. /\ p * BPB + bp = clausesOfs * BPB /\ p * BPB \in Nat /\ clausesOfs * BPB \in Nat
      /\ first.p * BPB \in Nat
  <2>1. p * BPB \in Nat /\ clausesOfs * BPB \in Nat /\ first.p * BPB \in Nat
    BY <1>2, Facts, Product
  <2>2. p * BPB + bp = clausesOfs * BPB + ClauseBits(comp, 0) /\ ClauseBits(comp, 0) = 0
    BY <1>0, Facts, ClauseBitsStep DEF Inv, Position
  <2> QED
    BY <2>1, <2>2
<1>5. /\ last.data \in Data(DOMAIN data) /\ last.p \in Nat /\ last.bp \in 0 .. BPB - 1
      /\ last.p * BPB + last.bp = clausesOfs * BPB + ClauseBits(comp, 1)
  <2>1. CASE NClauses = 1
    <3>1. ClauseBits(comp, 1) = BitsFirstCls
      BY <2>1, Facts, ClauseBitsStep DEF NClauses
    <3> QED
      BY <1>2, <1>4, <2>1, <3>1
  <2>2. CASE NClauses > 1
    <3>1. ClauseBits(comp, 1) = BitsFirstCls + WIDTH_HEADER_BITS
      BY <2>2, Facts, ClauseBitsStep DEF NClauses
    <3>2. last = second
      BY <2>2
    <3> HIDE DEF last
    <3> QED
      BY <1>1, <1>2, <1>3, <1>4, <3>1, <3>2
  <2> QED
    BY <1>0, <2>1, <2>2, Facts
<1> HIDE DEF last
<1>6. TypeOK'
  BY <1>0, <1>5, Facts DEF Inv, TypeOK, Data
<1>7. Position'
  BY <1>0, <1>5, Facts DEF Inv, Position, NVars, NClauses
<1>8. Sized'
  BY <1>0, <1>5 DEF Inv, Sized, Data
<1> QED
  BY <1>6, <1>7, <1>8 DEF Inv

(* A difference of clauses is written.                                     *)
LEMMA NextClauseInv ==
  ASSUME Inv, NextClause
  PROVE  Inv'
<1> DEFINE diff == comp.clauses[i + 1] - comp.clauses[i]
           width == Width(comp.clauses)
           next == Pack(Cursor, diff, width)
<1>0. /\ pc = "clauses" /\ i \in 1 .. NClauses - 1 /\ i' = i + 1
      /\ UNCHANGED <<comp, clausesOfs, pc>>
      /\ data' = next.data /\ p' = next.p /\ bp' = next.bp
  BY DEF NextClause, Written
<1>1. width \in 0 .. BPB - 1
  BY Facts, Widths
<1>2. ClauseBits(comp, i + 1) = ClauseBits(comp, i) + width
      /\ ClauseBits(comp, i) \in Nat
  <2>1. i \in Nat \ {0} /\ NClauses > 1
    BY <1>0, Facts
  <2> QED
    BY <2>1, Facts, ClauseBitsStep DEF NClauses
<1> HIDE DEF diff, width
<1>3. /\ next.data \in Data(DOMAIN data) /\ next.p \in Nat /\ next.bp \in 0 .. BPB - 1
      /\ next.p * BPB + next.bp = p * BPB + bp + width
  BY <1>1, Facts, PackMoves
<1> HIDE DEF next
<1>4. p' * BPB + bp' = clausesOfs * BPB + ClauseBits(comp, i')
  <2>1. p * BPB + bp = clausesOfs * BPB + ClauseBits(comp, i) /\ clausesOfs * BPB \in Nat
    BY <1>0, Facts, Product DEF Inv, Position
  <2> QED
    BY <1>0, <1>1, <1>2, <1>3, <2>1
<1>5. TypeOK'
  BY <1>0, <1>3, Facts DEF Inv, TypeOK, Data
<1>6. Position'
  BY <1>0, <1>4, Facts DEF Inv, Position, NVars, NClauses
<1>7. Sized'
  BY <1>0, <1>3 DEF Inv, Sized, Data
<1> QED
  BY <1>5, <1>6, <1>7 DEF Inv

(* The words that stay are words of the buffer.                            *)
LEMMA CloseInv ==
  ASSUME Inv, Close
  PROVE  Inv'
<1>0. /\ pc = "clauses" /\ i = NClauses /\ p' = NextWord /\ pc' = "done"
      /\ data' = [k \in 0 .. NextWord + 1 |-> IF k < NextWord THEN data[k] ELSE {}]
      /\ UNCHANGED <<comp, bp, i, clausesOfs>>
  BY DEF Close
<1>1. NextWord \in Nat /\ NextWord * BPB <= p * BPB + bp + (BPB - 1)
  BY Facts, WordEnds
<1>2. NextWord * BPB <= TotalBits(comp) + 2 * (BPB - 1)
  <2>1. /\ p * BPB + bp = clausesOfs * BPB + ClauseBits(comp, NClauses)
        /\ clausesOfs * BPB <= VarBits(comp, NVars) + (BPB - 1)
    BY <1>0 DEF Inv, Position
  <2>2. TotalBits(comp) = VarBits(comp, NVars) + ClauseBits(comp, NClauses)
    BY DEF TotalBits, NVars, NClauses
  <2>3. /\ VarBits(comp, NVars) \in Nat /\ ClauseBits(comp, NClauses) \in Nat
        /\ p * BPB \in Nat /\ clausesOfs * BPB \in Nat /\ NextWord * BPB \in Nat
    BY <1>1, Facts, VarBitsStep, ClauseBitsStep, Product
  <2> QED
    BY <1>1, <2>1, <2>2, <2>3, Facts
<1>3. data' \in [DOMAIN data' -> SUBSET (0 .. BPB - 1)]
  <2>1. NextWord + 1 < Words(comp) /\ Words(comp) \in Nat
    BY <1>1, <1>2, Facts, Fits
  <2>2. \A k \in 0 .. NextWord + 1 : k < NextWord => k \in DOMAIN data
    BY <1>0, <1>1, <2>1 DEF Inv, Sized
  <2>3. \A k \in 0 .. NextWord + 1 : (IF k < NextWord THEN data[k] ELSE {}) \in SUBSET (0 .. BPB - 1)
    BY <2>2, Facts DEF Data
  <2> QED
    BY <1>0, <2>3
<1>4. TypeOK'
  BY <1>0, <1>1, <1>3, Facts DEF Inv, TypeOK
<1>5. Position'
  BY <1>0, <1>2 DEF Position
<1>6. Sized'
  BY <1>0 DEF Sized
<1> QED
  BY <1>4, <1>5, <1>6 DEF Inv

(* Every step keeps the invariant.                                         *)
LEMMA InvStep == Inv /\ [Next]_vars => Inv'
<1> SUFFICES ASSUME Inv, [Next]_vars PROVE Inv'
  OBVIOUS
<1>1. CASE UNCHANGED vars
  BY <1>1 DEF vars, Inv, TypeOK, Sized, Position, NVars, NClauses
<1> QED
  BY <1>1, FirstVarInv, NextVarInv, CloseVarsInv, FirstClauseInv, NextClauseInv, CloseInv
  DEF Next, Done

(* The inductive invariant holds in every state.                           *)
LEMMA Invariant == Spec => []Inv
BY InitInv, InvStep, PTL DEF Spec

(* The cursor stays within a word, and words hold their bits.              *)
THEOREM TypeCorrect == Spec => []TypeOK
<1>1. Inv => TypeOK
  BY DEF Inv
<1> QED
  BY <1>1, Invariant, PTL

(* The cursor and the word after it lie in the buffer.                     *)
LEMMA InvInBuffer ==
  ASSUME Inv
  PROVE  InBuffer
<1>1. /\ VarBits(comp, NVars) \in Nat /\ VarBits(comp, i) \in Nat
      /\ i <= NVars => VarBits(comp, i) <= VarBits(comp, NVars)
  BY Facts, VarBitsStep
<1>2. /\ ClauseBits(comp, NClauses) \in Nat /\ ClauseBits(comp, i) \in Nat
      /\ i <= NClauses => ClauseBits(comp, i) <= ClauseBits(comp, NClauses)
  BY Facts, ClauseBitsStep
<1>3. TotalBits(comp) = VarBits(comp, NVars) + ClauseBits(comp, NClauses)
  BY DEF TotalBits, NVars, NClauses
<1>4. p * BPB \in Nat /\ clausesOfs * BPB \in Nat
  BY Facts, Product
<1>5. p * BPB <= TotalBits(comp) + 2 * (BPB - 1)
  <2>1. CASE pc = "vars"
    BY <1>1, <1>2, <1>3, <1>4, <2>1, Facts DEF Inv, Position
  <2>2. CASE pc = "clauses"
    BY <1>1, <1>2, <1>3, <1>4, <2>2, Facts DEF Inv, Position
  <2>3. CASE pc = "done"
    BY <2>3 DEF Inv, Position
  <2> QED
    BY <2>1, <2>2, <2>3 DEF Inv, TypeOK
<1> QED
  BY <1>5, Facts, Fits DEF InBuffer

(* Nothing is written past the buffer, for any component.                  *)
THEOREM BufferSuffices == Spec => []InBuffer
BY Invariant, InvInBuffer, PTL
-----------------------------------------------------------------------------
(* The quotient and the remainder of a division.                           *)
LEMMA Division ==
  ASSUME NEW m \in Nat, NEW d \in Nat \ {0}
  PROVE  /\ m \div d \in Nat /\ m % d \in 0 .. d - 1
         /\ m = (m \div d) * d + (m % d)
OBVIOUS

(* They are the only ones.                                                 *)
LEMMA DivisionUnique ==
  ASSUME NEW d \in Nat \ {0}, NEW q \in Nat, NEW r \in 0 .. d - 1
  PROVE  (q * d + r) \div d = q /\ (q * d + r) % d = r
<1> DEFINE m == q * d + r
           a == m \div d
           b == m % d
<1>1. m \in Nat /\ q * d \in Nat
  BY Product
<1>2. a \in Nat /\ b \in 0 .. d - 1 /\ m = a * d + b
  <2> HIDE DEF m
  <2> QED
    BY <1>1, Division
<1>3. a * d + b = q * d + r /\ a * d \in Nat
  BY <1>2, Product
<1> HIDE DEF a, b, m
<1>4. ~ (a < q)
  <2> SUFFICES ASSUME a + 1 <= q PROVE FALSE
    BY <1>2
  <2>1. (a + 1) * d <= q * d
    BY <1>2, Monotone
  <2>2. (a + 1) * d = a * d + d
    BY <1>2, Product
  <2> QED
    BY <1>1, <1>2, <1>3, <2>1, <2>2
<1>5. ~ (q < a)
  <2> SUFFICES ASSUME q + 1 <= a PROVE FALSE
    BY <1>2
  <2>1. (q + 1) * d <= a * d
    BY <1>2, Monotone
  <2>2. (q + 1) * d = q * d + d
    BY Product
  <2> QED
    BY <1>1, <1>2, <1>3, <2>1, <2>2
<1>6. a = q
  BY <1>2, <1>4, <1>5
<1>7. b = r
  BY <1>1, <1>2, <1>3, <1>6
<1> QED
  BY <1>6, <1>7 DEF a, b, m

(* A number below the divisor has quotient zero.                           *)
LEMMA DivisionSmall ==
  ASSUME NEW d \in Nat \ {0}, NEW m \in 0 .. d - 1
  PROVE  m \div d = 0 /\ m % d = m
OBVIOUS

(* To divide by two and then by a number is to divide by its double.       *)
LEMMA DivisionTwice ==
  ASSUME NEW m \in Nat, NEW d \in Nat \ {0}
  PROVE  (m \div 2) \div d = m \div (2 * d)
<1> DEFINE e == 2 * d
           q == m \div e
           r == m % e
           s == r \div 2
<1>1. e \in Nat \ {0}
  OBVIOUS
<1> HIDE DEF e
<1>2. q \in Nat /\ r \in 0 .. e - 1 /\ m = q * e + r
  BY <1>1, Division
<1> HIDE DEF q, r
<1>3. s \in 0 .. d - 1 /\ r - 2 * s \in 0 .. 1
  BY <1>2 DEF e
<1> HIDE DEF s
<1>4. q * e = 2 * (q * d) /\ q * d \in Nat
  BY <1>2, Product DEF e
<1>5. m = (q * d + s) * 2 + (r - 2 * s) /\ q * d + s \in Nat
  BY <1>2, <1>3, <1>4
<1>6. m \div 2 = q * d + s
  <2> DEFINE h == q * d + s
             t == r - 2 * s
  <2>1. h \in Nat /\ t \in 0 .. 2 - 1 /\ m = h * 2 + t
    BY <1>3, <1>5
  <2> HIDE DEF h, t
  <2>2. m \div 2 = h
    BY <2>1
  <2> QED
    BY <2>2 DEF h
<1>7. (q * d + s) \div d = q
  BY <1>2, <1>3, DivisionUnique
<1> QED
  BY <1>6, <1>7 DEF q, e
-----------------------------------------------------------------------------
(* The powers of two are what their definition says.                       *)
LEMMA Powers ==
  /\ pow2 \in [Nat -> Nat \ {0}] /\ pow2[0] = 1
  /\ \A n \in Nat : pow2[n + 1] = 2 * pow2[n]
<1> DEFINE P == Nat \ {0}
           step == [m \in Nat |-> [x \in P |-> 2 * x]]
<1>1. PICK f \in [Nat -> P] : \A n \in Nat : f[n] = IF n = 0 THEN 1 ELSE step[n][f[n - 1]]
  <2>1. 1 \in P /\ step \in [Nat -> [P -> P]]
    OBVIOUS
  <2> HIDE DEF step, P
  <2> QED
    BY <2>1, Recursion
<1>2. ASSUME NEW n \in Nat PROVE f[n] = IF n = 0 THEN 1 ELSE 2 * f[n - 1]
  <2>1. n # 0 => f[n - 1] \in P
    OBVIOUS
  <2> QED
    BY <1>1, <2>1
<1>3. f = [n \in Nat |-> IF n = 0 THEN 1 ELSE 2 * f[n - 1]]
  BY <1>1, <1>2
<1>4. pow2 = [n \in Nat |-> IF n = 0 THEN 1 ELSE 2 * pow2[n - 1]]
  BY <1>3, Zenon DEF pow2
<1>5. pow2[0] = 1 /\ \A n \in Nat : pow2[n + 1] = 2 * pow2[n]
  <2>1. \A n \in Nat : n + 1 # 0 /\ n + 1 \in Nat /\ (n + 1) - 1 = n
    OBVIOUS
  <2> QED
    BY <1>4, <2>1
<1>6. \A n \in Nat : pow2[n] \in Nat \ {0}
  <2> DEFINE T == {n \in Nat : pow2[n] \in P}
  <2>1. T \in SUBSET Nat /\ 0 \in T /\ \A n \in T : n + 1 \in T
    BY <1>5
  <2> HIDE DEF T
  <2>2. T = Nat
    BY <2>1, NumberInduction
  <2> QED
    BY <2>2 DEF T
<1>7. pow2 \in [Nat -> Nat \ {0}]
  BY <1>4, <1>6
<1> QED
  BY <1>5, <1>7

(* They grow, and faster than the numbers.                                 *)
LEMMA PowersGrow ==
  /\ \A m, n \in Nat : m <= n => pow2[m] <= pow2[n]
  /\ \A n \in Nat : n < pow2[n]
<1>1. ASSUME NEW m \in Nat, NEW n \in Nat, m <= n PROVE pow2[m] <= pow2[n]
  <2> DEFINE T == {k \in Nat : pow2[m] <= pow2[m + k]}
  <2>1. T \in SUBSET Nat /\ 0 \in T
    BY Powers
  <2>2. ASSUME NEW k \in T PROVE k + 1 \in T
    <3>1. m + k \in Nat /\ m + (k + 1) = (m + k) + 1
      OBVIOUS
    <3>2. pow2[m + (k + 1)] = 2 * pow2[m + k] /\ pow2[m + k] \in Nat /\ pow2[m] \in Nat
      BY <3>1, Powers
    <3> QED
      BY <3>2
  <2>3. T = Nat
    <3> HIDE DEF T
    <3> QED
      BY <2>1, <2>2, NumberInduction
  <2>4. n - m \in Nat /\ m + (n - m) = n
    BY <1>1
  <2>5. n - m \in T
    BY <2>3, <2>4
  <2> QED
    BY <2>4, <2>5
<1>2. \A n \in Nat : n < pow2[n]
  <2> DEFINE T == {n \in Nat : n < pow2[n]}
  <2>1. T \in SUBSET Nat /\ 0 \in T
    BY Powers
  <2>2. ASSUME NEW n \in T PROVE n + 1 \in T
    <3>1. pow2[n + 1] = 2 * pow2[n] /\ pow2[n] \in Nat
      BY Powers
    <3> QED
      BY <3>1
  <2>3. T = Nat
    <3> HIDE DEF T
    <3> QED
      BY <2>1, <2>2, NumberInduction
  <2> QED
    BY <2>3
<1> QED
  BY <1>1, <1>2

(* The rounded logarithm is a number of bits that suffice.                 *)
LEMMA LogSuffices ==
  ASSUME NEW n \in Nat
  PROVE  CeilLog2(n) \in 0 .. n /\ pow2[CeilLog2(n)] >= n
<1> DEFINE T == {k \in Nat : pow2[k] >= n}
           Least(k) == pow2[k] >= n /\ \A j \in 0 .. k - 1 : pow2[j] < n
<1>1. n \in T
  BY PowersGrow, Powers
<1>2. PICK k \in T : \A j \in T : k <= j
  <2> HIDE DEF T
  <2>1. T \in SUBSET Nat
    BY DEF T
  <2> QED
    BY <1>1, <2>1, LeastNumber
<1>3. k \in 0 .. n /\ pow2[k] >= n
  BY <1>1, <1>2
<1>4. ASSUME NEW j \in 0 .. k - 1 PROVE pow2[j] < n
  <2>1. j \in Nat /\ j < k /\ pow2[j] \in Nat
    BY Powers
  <2> QED
    BY <1>2, <2>1
<1>5. \E j \in 0 .. n : Least(j)
  BY <1>3, <1>4
<1> HIDE DEF T
<1> QED
  BY <1>5 DEF CeilLog2

(* The differences of an ascending sequence fit their width.               *)
LEMMA DiffsFit ==
  ASSUME NEW N \in Nat, NEW s \in Seq(0 .. N - 1), Ascending(s)
  PROVE  \A j \in 1 .. Len(s) - 1 : s[j + 1] - s[j] \in 1 .. pow2[Width(s)] - 1
<1> DEFINE D == {1} \cup {s[j + 1] - s[j] : j \in 1 .. Len(s) - 1}
<1>1. ASSUME NEW j \in 1 .. Len(s) - 1
      PROVE  s[j] \in 0 .. N - 1 /\ s[j + 1] \in 0 .. N - 1 /\ s[j] < s[j + 1]
  BY DEF Ascending
<1>2. D \in SUBSET Nat /\ D # {} /\ \A x \in D : x <= N + 1
  BY <1>1
<1>3. \E x \in D : \A y \in D : x >= y
  <2> HIDE DEF D
  <2>1. N + 1 \in Nat
    OBVIOUS
  <2>2. PICK x \in D : \A y \in D : y <= x
    BY <1>2, <2>1, GreatestNumber
  <2>3. \A y \in D : x >= y
    BY <1>2, <2>2
  <2> QED
    BY <2>3
<1>4. MaxDiff(s) \in D /\ \A y \in D : MaxDiff(s) >= y
  <2>1. MaxDiff(s) = CHOOSE x \in D : \A y \in D : x >= y
    BY DEF MaxDiff, MaxOf
  <2> HIDE DEF D
  <2> QED
    BY <1>3, <2>1
<1>5. MaxDiff(s) + 1 \in Nat /\ MaxDiff(s) \in Nat
  BY <1>2, <1>4
<1>6. Width(s) \in Nat /\ pow2[Width(s)] >= MaxDiff(s) + 1
  BY <1>5, LogSuffices DEF Width
<1>7. ASSUME NEW j \in 1 .. Len(s) - 1 PROVE s[j + 1] - s[j] \in 1 .. pow2[Width(s)] - 1
  <2>1. s[j + 1] - s[j] \in D
    OBVIOUS
  <2>2. MaxDiff(s) >= s[j + 1] - s[j] /\ pow2[Width(s)] \in Nat
    BY <1>4, <1>6, <2>1, Powers
  <2> HIDE DEF D
  <2> QED
    BY <1>1, <1>5, <1>6, <2>2, SMTT(30)
<1> QED
  BY <1>7

(* The variables and the clauses fit the bits of the first of them.        *)
LEMMA FirstFits ==
  ASSUME NEW n \in Nat, NEW x \in 0 .. n - 1
  PROVE  x \in 0 .. pow2[Cbits(n)] - 1
<1>1. pow2[CeilLog2(n)] >= n /\ CeilLog2(n) \in Nat
  BY LogSuffices
<1>2. pow2[1] = 2 /\ pow2[CeilLog2(n)] \in Nat
  <2>1. pow2[0 + 1] = 2 * pow2[0] /\ pow2[0] = 1
    BY Powers
  <2> QED
    BY <1>1, <2>1, Powers
<1> QED
  BY <1>1, <1>2 DEF Cbits

(* A number that fits some bits has no other.                              *)
LEMMA BitsBelow ==
  ASSUME BPB \in Nat, NEW nbits \in 0 .. BPB, NEW val \in 0 .. pow2[nbits] - 1
  PROVE  Bits(val) \in SUBSET (0 .. nbits - 1) /\ val \in Nat
<1>1. pow2[nbits] \in Nat /\ val \in Nat
  BY Powers
<1>2. ASSUME NEW k \in 0 .. BPB - 1, k >= nbits PROVE (val \div pow2[k]) % 2 # 1
  <2>0. k \in Nat /\ nbits \in Nat /\ nbits <= k
    BY <1>2
  <2>1. pow2[nbits] <= pow2[k] /\ pow2[k] \in Nat \ {0}
    BY <2>0, Powers, PowersGrow
  <2>2. val \in 0 .. pow2[k] - 1
    BY <1>1, <2>1
  <2>3. val \div pow2[k] = 0
    BY <2>1, <2>2, DivisionSmall
  <2> QED
    BY <2>3
<1>3. ASSUME NEW k \in Bits(val) PROVE k \in 0 .. nbits - 1
  BY <1>2 DEF Bits
<1> QED
  BY <1>1, <1>3

(* Zero has none.                                                          *)
LEMMA BitsOfZero ==
  ASSUME BPB \in Nat
  PROVE  Bits(0) = {}
<1>1. 0 \in 0 .. pow2[0] - 1 /\ 0 \in 0 .. BPB
  BY Powers
<1> QED
  BY <1>1, BitsBelow

(* It is the only one with its bits.                                       *)
LEMMA BitsUnique ==
  ASSUME BPB \in Nat, NEW nbits \in 0 .. BPB,
         NEW m \in 0 .. pow2[nbits] - 1, NEW n \in 0 .. pow2[nbits] - 1, Bits(m) = Bits(n)
  PROVE  m = n
<1> DEFINE Same(k, x, y) == \A j \in 0 .. k - 1 : (x \div pow2[j]) % 2 = (y \div pow2[j]) % 2
           T == {k \in Nat : \A x, y \in 0 .. pow2[k] - 1 : Same(k, x, y) => x = y}
<1>1. 0 \in T
  BY Powers
<1>2. ASSUME NEW k \in T PROVE k + 1 \in T
  <2> SUFFICES ASSUME NEW x \in 0 .. pow2[k + 1] - 1, NEW y \in 0 .. pow2[k + 1] - 1,
                      Same(k + 1, x, y)
               PROVE  x = y
    OBVIOUS
  <2>1. k \in Nat /\ pow2[k] \in Nat \ {0} /\ pow2[k + 1] = 2 * pow2[k] /\ pow2[0] = 1
    BY Powers
  <2>2. x \in Nat /\ y \in Nat /\ x \div 2 \in 0 .. pow2[k] - 1 /\ y \div 2 \in 0 .. pow2[k] - 1
    BY <2>1
  <2>3. x % 2 = y % 2
    <3>1. 0 \in 0 .. (k + 1) - 1
      BY <2>1
    <3>2. (x \div pow2[0]) % 2 = (y \div pow2[0]) % 2
      BY <3>1
    <3> QED
      BY <2>1, <2>2, <3>2
  <2>4. ASSUME NEW j \in 0 .. k - 1
        PROVE  ((x \div 2) \div pow2[j]) % 2 = ((y \div 2) \div pow2[j]) % 2
    <3>1. j + 1 \in 0 .. (k + 1) - 1 /\ pow2[j + 1] = 2 * pow2[j] /\ pow2[j] \in Nat \ {0}
      BY <2>1, Powers
    <3>2. (x \div pow2[j + 1]) % 2 = (y \div pow2[j + 1]) % 2
      BY <3>1
    <3>3. /\ (x \div 2) \div pow2[j] = x \div (2 * pow2[j])
          /\ (y \div 2) \div pow2[j] = y \div (2 * pow2[j])
      BY <2>2, <3>1, DivisionTwice
    <3> QED
      BY <3>1, <3>2, <3>3
  <2>5. x \div 2 = y \div 2
    BY <2>2, <2>4
  <2> QED
    BY <2>2, <2>3, <2>5
<1>3. T = Nat
  <2>1. T \in SUBSET Nat
    OBVIOUS
  <2> HIDE DEF T
  <2> QED
    BY <1>1, <1>2, <2>1, NumberInduction
<1>4. Same(nbits, m, n)
  <2> SUFFICES ASSUME NEW j \in 0 .. nbits - 1
               PROVE  (m \div pow2[j]) % 2 = (n \div pow2[j]) % 2
    OBVIOUS
  <2>1. j \in 0 .. BPB - 1 /\ (j \in Bits(m) <=> j \in Bits(n))
    OBVIOUS
  <2>2. (m \div pow2[j]) % 2 = 1 <=> (n \div pow2[j]) % 2 = 1
    BY <2>1 DEF Bits
  <2>3. m \in Nat /\ n \in Nat /\ pow2[j] \in Nat \ {0}
    BY Powers
  <2>4. m \div pow2[j] \in Nat /\ n \div pow2[j] \in Nat
    BY <2>3, Division
  <2> QED
    BY <2>2, <2>4
<1> QED
  BY <1>3, <1>4
-----------------------------------------------------------------------------
(* The bits that are 1 in some words, and those a number has at a place.   *)
On(d) == {at \in Nat : at \div BPB \in DOMAIN d /\ at % BPB \in d[at \div BPB]}

Placed(at, val) == {at + k : k \in Bits(val)}

(* A bit of a word is on when the word has it.                             *)
LEMMA OnWord ==
  ASSUME BPB \in Nat \ {0}, NEW d, NEW w \in Nat, NEW b \in 0 .. BPB - 1
  PROVE  /\ w * BPB + b \in Nat
         /\ (w * BPB + b) \div BPB = w /\ (w * BPB + b) % BPB = b
         /\ w * BPB + b \in On(d) <=> w \in DOMAIN d /\ b \in d[w]
<1>1. w * BPB + b \in Nat
  BY Product
<1>2. (w * BPB + b) \div BPB = w /\ (w * BPB + b) % BPB = b
  BY DivisionUnique
<1> QED
  BY <1>1, <1>2 DEF On

(* Where a place lies, as a word and a bit of it.                          *)
LEMMA WordOf ==
  ASSUME BPB \in Nat \ {0}, NEW at \in Nat
  PROVE  \E w \in Nat, b \in 0 .. BPB - 1 : at = w * BPB + b
<1>1. /\ at \div BPB \in Nat /\ at % BPB \in 0 .. BPB - 1
      /\ at = (at \div BPB) * BPB + (at % BPB)
  BY Division
<1> QED
  BY <1>1

(* Places are ordered by their words, then by their bits.                  *)
LEMMA Order ==
  ASSUME BPB \in Nat \ {0}, NEW v \in Nat, NEW a \in 0 .. BPB - 1,
         NEW w \in Nat, NEW b \in 0 .. BPB - 1
  PROVE  v * BPB + a < w * BPB + b <=> v < w \/ (v = w /\ a < b)
<1>1. ASSUME NEW x \in Nat, NEW y \in Nat, NEW r \in 0 .. BPB - 1, NEW t \in 0 .. BPB - 1, x < y
      PROVE  x * BPB + r < y * BPB + t
  <2>1. (x + 1) * BPB <= y * BPB /\ (x + 1) * BPB = x * BPB + BPB
    BY <1>1, Monotone, Product
  <2>2. x * BPB \in Nat /\ y * BPB \in Nat
    BY Product
  <2> QED
    BY <2>1, <2>2
<1>2. v * BPB \in Nat /\ w * BPB \in Nat
  BY Product
<1>3. CASE v < w
  BY <1>1, <1>3
<1>4. CASE w < v
  <2>1. w * BPB + b < v * BPB + a
    BY <1>1, <1>4
  <2> QED
    BY <1>2, <1>4, <2>1
<1>5. CASE v = w
  BY <1>2, <1>5
<1> QED
  BY <1>3, <1>4, <1>5

(* Of the number packed at the cursor, and of nothing else, the bits are   *)
(* on in addition to those that were.                                      *)
LEMMA PackAdds ==
  ASSUME NEW c, NEW D, BPB \in Nat \ {0}, c.data \in Data(D), c.p \in Nat, c.bp \in 0 .. BPB - 1,
         c.p \in D, c.p + 1 \in D, NEW nbits \in 0 .. BPB - 1, NEW val,
         Bits(val) \in SUBSET (0 .. nbits - 1),
         \A at \in On(c.data) : at < c.p * BPB + c.bp
  PROVE  On(Pack(c, val, nbits).data) = On(c.data) \cup Placed(c.p * BPB + c.bp, val)
<1> DEFINE cur == c.p * BPB + c.bp
           low == [c.data EXCEPT ![c.p] = @ \cup ShiftLeft(Bits(val), c.bp)]
           high == [low EXCEPT ![c.p + 1] = ShiftRight(Bits(val), BPB - c.bp)]
           r == Pack(c, val, nbits).data
<1>1. DOMAIN c.data = D /\ DOMAIN low = D /\ DOMAIN high = D /\ DOMAIN r = D
  BY DEF Data, Pack
<1>2. c.data[c.p + 1] = {}
  <2> SUFFICES ASSUME NEW b \in c.data[c.p + 1] PROVE FALSE
    OBVIOUS
  <2>1. b \in 0 .. BPB - 1 /\ c.p + 1 \in Nat /\ c.bp \in 0 .. BPB - 1
    BY DEF Data
  <2>2. (c.p + 1) * BPB + b \in On(c.data)
    BY <1>1, <2>1, OnWord
  <2>3. (c.p + 1) * BPB + b < c.p * BPB + c.bp
    BY <2>2
  <2>4. c.p + 1 < c.p \/ (c.p + 1 = c.p /\ b < c.bp)
    BY <2>1, <2>3, Order
  <2> QED
    BY <2>1, <2>4
<1>3. ASSUME NEW w \in D, NEW b \in 0 .. BPB - 1
      PROVE  b \in r[w] <=> \/ b \in c.data[w]
                            \/ w = c.p /\ b - c.bp \in Bits(val)
                            \/ w = c.p + 1 /\ b + BPB - c.bp \in Bits(val)
  <2>1. c.p # c.p + 1 /\ c.bp \in 0 .. BPB - 1
    OBVIOUS
  <2>2. low[w] = IF w = c.p THEN c.data[w] \cup ShiftLeft(Bits(val), c.bp) ELSE c.data[w]
    BY <1>1 DEF Data
  <2>3. high[w] = IF w = c.p + 1 THEN ShiftRight(Bits(val), BPB - c.bp) ELSE low[w]
    BY <1>1
  <2> HIDE DEF low, high
  <2>4. b \in ShiftLeft(Bits(val), c.bp) <=> b - c.bp \in Bits(val)
    BY <2>1 DEF ShiftLeft
  <2>5. b \in ShiftRight(Bits(val), BPB - c.bp) <=> b + BPB - c.bp \in Bits(val)
    BY <2>1 DEF ShiftRight
  <2>6. CASE c.bp + nbits < BPB
    <3>1. r = low
      BY <2>6 DEF Pack, low
    <3>2. b + BPB - c.bp \notin Bits(val)
      BY <2>1, <2>6
    <3> QED
      BY <2>2, <2>4, <3>1, <3>2
  <2>7. CASE ~ (c.bp + nbits < BPB)
    <3>1. r = high
      BY <2>7 DEF Pack, low, high
    <3> HIDE DEF r
    <3>2. CASE w = c.p + 1
      BY <1>2, <2>1, <2>3, <2>5, <3>1, <3>2
    <3>3. CASE w # c.p + 1
      BY <2>1, <2>2, <2>3, <2>4, <3>1, <3>3
    <3> QED
      BY <3>2, <3>3
  <2> QED
    BY <2>6, <2>7
<1> HIDE DEF low, high, r
<1>4. ASSUME NEW at \in Nat
      PROVE  at \in On(r) <=> at \in On(c.data) \/ at \in Placed(cur, val)
  <2>1. PICK w \in Nat, b \in 0 .. BPB - 1 : at = w * BPB + b
    BY WordOf
  <2>2. /\ at \in On(r) <=> w \in D /\ b \in r[w]
        /\ at \in On(c.data) <=> w \in D /\ b \in c.data[w]
    BY <1>1, <2>1, OnWord
  <2>3. at \in Placed(cur, val) <=> \/ w = c.p /\ b - c.bp \in Bits(val)
                                    \/ w = c.p + 1 /\ b + BPB - c.bp \in Bits(val)
    <3>1. at \in Placed(cur, val) <=> at - cur \in Bits(val)
      <4>1. at \in Nat /\ cur \in Nat /\ Bits(val) \in SUBSET Nat
        BY Product
      <4> HIDE DEF cur
      <4> QED
        BY <4>1 DEF Placed
    <3>2. w * BPB \in Nat /\ c.p * BPB \in Nat
      BY Product
    <3>3. CASE w = c.p
      <4>1. at - cur = b - c.bp
        BY <2>1, <3>2, <3>3
      <4> QED
        BY <3>1, <3>3, <4>1
    <3>4. CASE w = c.p + 1
      <4>1. w * BPB = c.p * BPB + BPB
        BY <3>4, Product
      <4>2. at - cur = b + BPB - c.bp
        BY <2>1, <3>2, <4>1
      <4> QED
        BY <3>1, <3>4, <4>2
    <3>5. CASE w < c.p
      <4>1. at < cur
        BY <2>1, <3>5, Order
      <4>2. at - cur \notin 0 .. nbits - 1
        BY <2>1, <3>2, <4>1
      <4> QED
        BY <3>1, <3>5, <4>2
    <3>6. CASE w > c.p + 1
      <4>1. (c.p + 2) * BPB <= w * BPB /\ (c.p + 2) * BPB = c.p * BPB + 2 * BPB
        <5>1. c.p + 2 \in Nat /\ c.p + 2 <= w
          BY <3>6
        <5> QED
          BY <5>1, Monotone, Product
      <4>2. at - cur \notin 0 .. nbits - 1
        BY <2>1, <3>2, <4>1
      <4> QED
        BY <3>1, <3>6, <4>2
    <3>7. w = c.p \/ w = c.p + 1 \/ w < c.p \/ w > c.p + 1
      OBVIOUS
    <3> HIDE DEF cur
    <3> QED
      BY <3>3, <3>4, <3>5, <3>6, <3>7, Zenon
  <2> QED
    BY <1>3, <2>2, <2>3
<1>5. On(r) \in SUBSET Nat /\ On(c.data) \in SUBSET Nat
  BY DEF On
<1>6. Placed(cur, val) \in SUBSET Nat
  BY Product DEF Placed
<1> HIDE DEF cur
<1> QED
  BY <1>4, <1>5, <1>6 DEF r, cur

(* A number that fits its bits is placed within them.                      *)
LEMMA PlacedWithin ==
  ASSUME BPB \in Nat, NEW nbits \in 0 .. BPB, NEW val \in 0 .. pow2[nbits] - 1, NEW at \in Nat
  PROVE  /\ Placed(at, val) \in SUBSET (at .. at + nbits - 1)
         /\ \A k \in 0 .. nbits - 1 : at + k \in Placed(at, val) <=> k \in Bits(val)
<1>1. Bits(val) \in SUBSET (0 .. nbits - 1)
  BY BitsBelow
<1> QED
  BY <1>1 DEF Placed

(* A place that holds the bits of a number gives back the number.          *)
LEMMA Read ==
  ASSUME BPB \in Nat, NEW nbits \in 0 .. BPB, NEW val \in 0 .. pow2[nbits] - 1, NEW at \in Nat,
         \A k \in 0 .. nbits - 1 : (at + k) \div BPB \in DOMAIN data,
         \A k \in 0 .. nbits - 1 : at + k \in On(data) <=> k \in Bits(val)
  PROVE  NumberAt(at, nbits) = val
<1> DEFINE Held == {k \in 0 .. nbits - 1 : (at + k) % BPB \in data[(at + k) \div BPB]}
           Nums == 0 .. pow2[nbits] - 1
<1>1. Bits(val) \in SUBSET (0 .. nbits - 1)
  BY BitsBelow
<1>2. ASSUME NEW k \in 0 .. nbits - 1 PROVE k \in Held <=> k \in Bits(val)
  <2>1. at + k \in Nat
    OBVIOUS
  <2>2. at + k \in On(data) <=> (at + k) % BPB \in data[(at + k) \div BPB]
    BY <2>1 DEF On
  <2> QED
    BY <2>2
<1>3. Held = Bits(val)
  BY <1>1, <1>2
<1>4. NumberAt(at, nbits) = CHOOSE n \in Nums : Bits(n) = Held
  BY DEF NumberAt
<1>5. \A n \in Nums : Bits(n) = Held => n = val
  BY <1>3, BitsUnique
<1> HIDE DEF Held, Nums
<1>6. val \in Nums
  BY DEF Nums
<1> QED
  BY <1>3, <1>4, <1>5, <1>6
-----------------------------------------------------------------------------
(* What is on of a list from its width on, when n of it are packed.        *)
DiffPlace(s, at, j) == at + WIDTH_HEADER_BITS + (j - 1) * Width(s)

ListOn(s, at, n) ==
    Placed(at, Width(s)) \cup
    UNION {Placed(DiffPlace(s, at, j), s[j + 1] - s[j]) : j \in 1 .. n - 1}

(* A list whose width and differences have room.                           *)
Fit(s) ==
    /\ Len(s) \in Nat /\ Len(s) >= 1
    /\ Width(s) \in 1 .. BPB - 1 /\ Width(s) \in 0 .. pow2[WIDTH_HEADER_BITS] - 1
    /\ \A j \in 1 .. Len(s) - 1 : s[j + 1] - s[j] \in 1 .. pow2[Width(s)] - 1
    /\ BPB \in Nat \ {0} /\ WIDTH_HEADER_BITS \in 1 .. BPB - 1

(* The differences lie one after the other.                                *)
LEMMA DiffPlaces ==
  ASSUME NEW s, Fit(s), NEW at \in Nat
  PROVE  /\ \A j \in Nat \ {0} : DiffPlace(s, at, j) \in Nat
         /\ DiffPlace(s, at, 1) = at + WIDTH_HEADER_BITS
         /\ \A j \in Nat \ {0} : DiffPlace(s, at, j + 1) = DiffPlace(s, at, j) + Width(s)
         /\ \A j, k \in Nat \ {0} : j <= k => DiffPlace(s, at, j) <= DiffPlace(s, at, k)
<1> DEFINE w == Width(s)
<1>1. w \in Nat /\ WIDTH_HEADER_BITS \in Nat
  BY DEF Fit
<1> HIDE DEF w
<1>2. \A j \in Nat \ {0} : j - 1 \in Nat /\ (j - 1) * w \in Nat /\ j * w = (j - 1) * w + w
  BY <1>1, Product
<1>3. \A j \in Nat : DiffPlace(s, at, j) = at + WIDTH_HEADER_BITS + (j - 1) * w
  BY DEF DiffPlace, w
<1>4. ASSUME NEW j \in Nat \ {0}, NEW k \in Nat \ {0}, j <= k
      PROVE  DiffPlace(s, at, j) <= DiffPlace(s, at, k)
  <2>1. j - 1 \in Nat /\ k - 1 \in Nat /\ j - 1 <= k - 1
    BY <1>4
  <2>2. (j - 1) * w <= (k - 1) * w /\ (j - 1) * w \in Nat /\ (k - 1) * w \in Nat
    BY <1>1, <2>1, Monotone, Product
  <2> QED
    BY <1>1, <1>3, <2>2
<1>5. \A j \in Nat \ {0} : DiffPlace(s, at, j + 1) = DiffPlace(s, at, j) + w
  BY <1>1, <1>2, <1>3
<1>6. \A j \in Nat \ {0} : DiffPlace(s, at, j) \in Nat
  BY <1>1, <1>2, <1>3
<1>7. DiffPlace(s, at, 1) = at + WIDTH_HEADER_BITS
  BY <1>1, <1>3
<1> QED
  BY <1>4, <1>5, <1>6, <1>7 DEF w

(* A list is packed one difference after the other.                        *)
LEMMA ListStep ==
  ASSUME NEW s, NEW at
  PROVE  /\ ListOn(s, at, 1) = Placed(at, Width(s))
         /\ \A n \in Nat \ {0} : ListOn(s, at, n + 1) =
              ListOn(s, at, n) \cup Placed(DiffPlace(s, at, n), s[n + 1] - s[n])
<1>1. ListOn(s, at, 1) = Placed(at, Width(s))
  BY DEF ListOn
<1>2. ASSUME NEW n \in Nat \ {0}
      PROVE  ListOn(s, at, n + 1) =
               ListOn(s, at, n) \cup Placed(DiffPlace(s, at, n), s[n + 1] - s[n])
  <2>1. 1 .. (n + 1) - 1 = (1 .. n - 1) \cup {n}
    OBVIOUS
  <2> QED
    BY <2>1 DEF ListOn
<1> QED
  BY <1>1, <1>2

(* A stretch is inside of one that begins before and ends after it.        *)
LEMMA Inside ==
  ASSUME NEW width \in Nat, NEW from \in Nat, NEW to \in Nat, NEW first \in Nat,
         NEW a \in Nat, from <= first, first <= a, a + width <= to,
         NEW x \in a .. a + width - 1
  PROVE  x \in from .. to - 1
OBVIOUS

(* Of two stretches of one width, one after the other, neither reaches     *)
(* into the other.                                                         *)
LEMMA Beside ==
  ASSUME NEW width \in Nat, NEW a \in Nat, NEW b \in Nat, a + width <= b \/ b + width <= a,
         NEW k \in 0 .. width - 1
  PROVE  b + k \notin a .. a + width - 1
OBVIOUS

(* Each place of the list holds its number, and no other reaches it.       *)
LEMMA ListHolds ==
  ASSUME NEW s, Fit(s), NEW at \in Nat, NEW n \in 1 .. Len(s)
  PROVE  /\ ListOn(s, at, n) \in SUBSET (at .. DiffPlace(s, at, n) - 1)
         /\ \A k \in 0 .. WIDTH_HEADER_BITS - 1 :
              at + k \in ListOn(s, at, n) <=> k \in Bits(Width(s))
         /\ \A j \in 1 .. n - 1 : \A k \in 0 .. Width(s) - 1 :
              DiffPlace(s, at, j) + k \in ListOn(s, at, n) <=> k \in Bits(s[j + 1] - s[j])
<1> DEFINE w == Width(s)
           P(j) == DiffPlace(s, at, j)
           diff(j) == s[j + 1] - s[j]
<1>1. /\ w \in 1 .. BPB - 1 /\ BPB \in Nat /\ WIDTH_HEADER_BITS \in 1 .. BPB - 1
      /\ w \in 0 .. pow2[WIDTH_HEADER_BITS] - 1
      /\ Len(s) \in Nat /\ n \in Nat
      /\ \A j \in 1 .. n - 1 : diff(j) \in 1 .. pow2[w] - 1
  BY DEF Fit
<1>2. /\ P(1) = at + WIDTH_HEADER_BITS
      /\ \A j \in Nat \ {0} : P(j) \in Nat /\ P(j + 1) = P(j) + w
      /\ \A j, k \in Nat \ {0} : j <= k => P(j) <= P(k)
  BY DiffPlaces
<1>3. /\ Placed(at, w) \in SUBSET (at .. P(1) - 1)
      /\ \A k \in 0 .. WIDTH_HEADER_BITS - 1 : at + k \in Placed(at, w) <=> k \in Bits(w)
  <2> HIDE DEF w, P, diff
  <2>1. WIDTH_HEADER_BITS \in 0 .. BPB
    BY <1>1
  <2>2. /\ Placed(at, w) \in SUBSET (at .. at + WIDTH_HEADER_BITS - 1)
        /\ \A k \in 0 .. WIDTH_HEADER_BITS - 1 : at + k \in Placed(at, w) <=> k \in Bits(w)
    BY <1>1, <2>1, PlacedWithin
  <2>3. P(1) = at + WIDTH_HEADER_BITS
    BY <1>2
  <2>4. P(1) - 1 = at + WIDTH_HEADER_BITS - 1
    BY <1>1, <2>3
  <2> QED
    BY <2>2, <2>4
<1>4. ASSUME NEW j \in 1 .. n - 1
      PROVE  /\ Placed(P(j), diff(j)) \in SUBSET (P(j) .. P(j) + w - 1)
             /\ \A k \in 0 .. w - 1 : P(j) + k \in Placed(P(j), diff(j)) <=> k \in Bits(diff(j))
  <2>1. diff(j) \in 0 .. pow2[w] - 1 /\ w \in 0 .. BPB /\ P(j) \in Nat
    <3> HIDE DEF w, P, diff
    <3>0. j \in Nat \ {0}
      BY <1>1
    <3>1. diff(j) \in 1 .. pow2[w] - 1 /\ P(j) \in Nat
      BY <1>1, <1>2, <3>0
    <3>2. pow2[w] \in Nat
      BY <1>1, Powers
    <3> QED
      BY <1>1, <3>1, <3>2
  <2> HIDE DEF w, P, diff
  <2> QED
    BY <1>1, <2>1, PlacedWithin
<1>5. \A x : x \in ListOn(s, at, n) <=>
        x \in Placed(at, w) \/ \E j \in 1 .. n - 1 : x \in Placed(P(j), diff(j))
  BY DEF ListOn
<1> HIDE DEF w, P, diff
<1>6. ASSUME NEW x \in ListOn(s, at, n) PROVE x \in at .. P(n) - 1
  <2>0. 1 \in Nat \ {0} /\ n \in Nat \ {0} /\ 1 <= n
    BY <1>1
  <2>1. P(1) <= P(n) /\ P(1) \in Nat /\ P(n) \in Nat
    BY <1>2, <2>0
  <2>2. CASE x \in Placed(at, w)
    BY <1>3, <2>1, <2>2
  <2>3. CASE \E j \in 1 .. n - 1 : x \in Placed(P(j), diff(j))
    <3>1. PICK j \in 1 .. n - 1 : x \in Placed(P(j), diff(j))
      BY <2>3
    <3>2. /\ j \in Nat \ {0} /\ j + 1 \in Nat \ {0} /\ n \in Nat \ {0} /\ 1 \in Nat \ {0}
          /\ j + 1 <= n /\ 1 <= j
      BY <1>1
    <3>3. P(1) <= P(j) /\ P(j) \in Nat /\ P(j) + w <= P(n)
      BY <1>2, <3>2
    <3>4. x \in P(j) .. P(j) + w - 1
      BY <1>4, <3>1
    <3>5. at <= P(1) /\ P(1) \in Nat /\ w \in Nat
      BY <1>1, <1>2
    <3> QED
      BY <2>1, <3>3, <3>4, <3>5, Inside
  <2> QED
    BY <1>5, <2>2, <2>3
<1>7. ASSUME NEW k \in 0 .. WIDTH_HEADER_BITS - 1
      PROVE  at + k \in ListOn(s, at, n) <=> k \in Bits(w)
  <2>1. ASSUME NEW j \in 1 .. n - 1 PROVE at + k \notin Placed(P(j), diff(j))
    <3>1. j \in Nat \ {0} /\ 1 \in Nat \ {0} /\ 1 <= j
      BY <1>1
    <3>2. P(1) <= P(j) /\ P(j) \in Nat
      BY <1>2, <3>1
    <3>3. at + k < P(1) /\ P(1) \in Nat
      BY <1>1, <1>2
    <3>4. at + k \notin P(j) .. P(j) + w - 1
      BY <1>1, <3>2, <3>3
    <3> QED
      BY <1>4, <3>4
  <2> QED
    BY <1>3, <1>5, <2>1
<1>8. ASSUME NEW j \in 1 .. n - 1, NEW k \in 0 .. w - 1
      PROVE  P(j) + k \in ListOn(s, at, n) <=> k \in Bits(diff(j))
  <2>0. j \in Nat \ {0} /\ 1 \in Nat \ {0} /\ 1 <= j
    BY <1>1
  <2>1. P(j) \in Nat /\ P(1) <= P(j) /\ P(1) \in Nat
    BY <1>2, <2>0
  <2>2. P(j) + k \notin Placed(at, w)
    <3>1. P(j) + k \notin at .. P(1) - 1
      BY <1>1, <2>1
    <3> QED
      BY <1>3, <3>1
  <2>3. ASSUME NEW l \in 1 .. n - 1, l # j PROVE P(j) + k \notin Placed(P(l), diff(l))
    <3>0. l \in Nat \ {0} /\ j + 1 \in Nat \ {0} /\ l + 1 \in Nat \ {0}
      BY <1>1
    <3>1. P(l) \in Nat
      BY <1>2, <3>0
    <3>2. P(j) + w = P(j + 1) /\ P(l) + w = P(l + 1) /\ P(j + 1) \in Nat /\ P(l + 1) \in Nat
      BY <1>2, <2>0, <3>0
    <3>3. CASE l < j
      <4>1. P(l + 1) <= P(j)
        BY <1>1, <1>2, <2>0, <3>0, <3>3
      <4>2. P(l) + w <= P(j)
        BY <3>2, <4>1
      <4> QED
        BY <1>1, <1>4, <2>1, <3>1, <4>2, Beside
    <3>4. CASE j < l
      <4>1. P(j + 1) <= P(l)
        BY <1>1, <1>2, <2>0, <3>0, <3>4
      <4>2. P(j) + w <= P(l)
        BY <3>2, <4>1
      <4> QED
        BY <1>1, <1>4, <2>1, <3>1, <4>2, Beside
    <3> QED
      BY <2>3, <2>0, <3>0, <3>3, <3>4
  <2> QED
    BY <1>4, <1>5, <2>2, <2>3
<1> QED
  BY <1>6, <1>7, <1>8 DEF w, P, diff

(* A list is read as it was packed: up to the end of its words there is a  *)
(* difference for each of it, and then zeros.                              *)
LEMMA ReadList ==
  ASSUME NEW s, Fit(s), Len(s) >= 2, NEW at \in Nat, NEW end \in Nat,
         0 .. end \in SUBSET DOMAIN data, DiffPlace(s, at, Len(s)) <= end * BPB,
         \A x \in at .. end * BPB - 1 : x \in On(data) <=> x \in ListOn(s, at, Len(s))
  PROVE  DiffsAt(at, end) = DiffsOf(s)
<1> DEFINE w == Width(s)
           H == WIDTH_HEADER_BITS
           L == Len(s)
           P(j) == DiffPlace(s, at, j)
           diff(j) == s[j + 1] - s[j]
           last == end * BPB
           read == [j \in Nat |-> NumberAt(at + H + (j - 1) * w, w)]
           room == (last - at - H) \div w
<1>1. /\ w \in 1 .. BPB - 1 /\ BPB \in Nat \ {0} /\ H \in 1 .. BPB - 1
      /\ w \in 0 .. pow2[H] - 1 /\ L \in Nat /\ L >= 2
      /\ w \in 0 .. BPB /\ H \in 0 .. BPB
      /\ \A j \in 1 .. L - 1 : diff(j) \in 1 .. pow2[w] - 1
  BY DEF Fit
<1>2. /\ P(1) = at + H
      /\ \A j \in Nat \ {0} : P(j) \in Nat /\ P(j + 1) = P(j) + w
      /\ \A j, k \in Nat \ {0} : j <= k => P(j) <= P(k)
  BY DiffPlaces
<1>3. \A j \in Nat : P(j) = at + H + (j - 1) * w /\ read[j] = NumberAt(P(j), w)
  BY DEF DiffPlace
<1>4. /\ ListOn(s, at, L) \in SUBSET (at .. P(L) - 1)
      /\ \A k \in 0 .. H - 1 : at + k \in ListOn(s, at, L) <=> k \in Bits(w)
      /\ \A j \in 1 .. L - 1 : \A k \in 0 .. w - 1 :
           P(j) + k \in ListOn(s, at, L) <=> k \in Bits(diff(j))
  <2>1. L \in 1 .. Len(s)
    BY <1>1
  <2> HIDE DEF L
  <2>2. /\ ListOn(s, at, L) \in SUBSET (at .. DiffPlace(s, at, L) - 1)
        /\ \A k \in 0 .. WIDTH_HEADER_BITS - 1 :
             at + k \in ListOn(s, at, L) <=> k \in Bits(Width(s))
        /\ \A j \in 1 .. L - 1 : \A k \in 0 .. Width(s) - 1 :
             DiffPlace(s, at, j) + k \in ListOn(s, at, L) <=> k \in Bits(s[j + 1] - s[j])
    BY <2>1, ListHolds
  <2> QED
    BY <2>2
<1>5. P(L) <= last /\ last \in Nat /\ P(L) \in Nat /\ P(1) <= P(L) /\ P(1) \in Nat
  <2>1. L \in Nat \ {0} /\ 1 \in Nat \ {0} /\ 1 <= L
    BY <1>1
  <2>2. last \in Nat
    BY <1>1, Product
  <2> HIDE DEF P, L
  <2> QED
    BY <1>2, <2>1, <2>2 DEF P, L
<1>6. \A x \in at .. last - 1 : x \in On(data) <=> x \in ListOn(s, at, L)
  OBVIOUS
<1>7. ASSUME NEW x \in 0 .. last - 1 PROVE x \div BPB \in DOMAIN data
  <2>0. x \in Nat
    OBVIOUS
  <2> HIDE DEF last
  <2>1. PICK v \in Nat, b \in 0 .. BPB - 1 : x = v * BPB + b
    BY <1>1, <2>0, WordOf
  <2>2. x \div BPB = v
    BY <1>1, <2>1, OnWord
  <2>3. 0 \in 0 .. BPB - 1 /\ end * BPB + 0 = last
    BY <1>1, <1>5 DEF last
  <2>4. v < end \/ (v = end /\ b < 0)
    <3>1. v * BPB + b < end * BPB + 0
      BY <1>5, <2>1, <2>3
    <3> QED
      BY <1>1, <2>1, <2>3, <3>1, Order
  <2> QED
    BY <2>1, <2>2, <2>4
<1> HIDE DEF w, H, L, P, diff, last, read, room
<1>8. WidthAt(at, end) = w
  <2>1. at + H <= last
    BY <1>1, <1>2, <1>5
  <2>2. NumberAt(at, H) = w
    <3>1. ASSUME NEW k \in 0 .. H - 1
          PROVE  (at + k) \div BPB \in DOMAIN data /\ (at + k \in On(data) <=> k \in Bits(w))
      <4>1. at + k \in 0 .. last - 1 /\ at + k \in at .. last - 1
        BY <1>1, <1>5, <2>1
      <4> QED
        BY <1>4, <1>6, <1>7, <4>1
    <3> QED
      BY <1>1, <3>1, Read
  <2> QED
    BY <2>1, <2>2 DEF WidthAt, H, last
<1>9. ASSUME NEW j \in 1 .. L - 1 PROVE read[j] = diff(j) /\ diff(j) \in Nat \ {0}
  <2>1. j \in Nat \ {0} /\ j + 1 \in Nat \ {0} /\ L \in Nat \ {0} /\ j + 1 <= L
    BY <1>1
  <2>2. P(j) \in Nat /\ P(j) + w <= P(L)
    BY <1>2, <2>1
  <2>3. at <= P(j)
    <3>1. 1 \in Nat \ {0} /\ 1 <= j
      BY <2>1
    <3>2. P(1) <= P(j)
      BY <1>2, <2>1, <3>1
    <3> QED
      BY <1>1, <1>2, <1>5, <2>2, <3>2
  <2>4. diff(j) \in 0 .. pow2[w] - 1 /\ diff(j) \in Nat \ {0}
    <3>1. w \in Nat
      BY <1>1
    <3>2. pow2[w] \in Nat
      BY <3>1, Powers
    <3> QED
      BY <1>1, <3>2
  <2>5. ASSUME NEW k \in 0 .. w - 1
        PROVE  (P(j) + k) \div BPB \in DOMAIN data /\ (P(j) + k \in On(data) <=> k \in Bits(diff(j)))
    <3>1. P(j) + k \in 0 .. last - 1 /\ P(j) + k \in at .. last - 1
      BY <1>1, <1>5, <2>2, <2>3, SMTT(30)
    <3> QED
      BY <1>4, <1>6, <1>7, <3>1
  <2>6. NumberAt(P(j), w) = diff(j)
    BY <1>1, <2>2, <2>4, <2>5, Read
  <2> QED
    BY <1>3, <2>1, <2>4, <2>6
<1>10. room \in Nat /\ L - 1 <= room /\ \A j \in Nat \ {0} : j <= room => P(j) + w <= last
  <2> DEFINE R == last - at - H
  <2>1. P(L) = at + H + (L - 1) * w /\ L - 1 \in Nat /\ (L - 1) * w \in Nat
    <3>1. L - 1 \in Nat /\ w \in Nat
      BY <1>1
    <3> QED
      BY <1>1, <1>3, <3>1, Product
  <2>2. R \in Nat /\ (L - 1) * w <= R
    BY <1>1, <1>5, <2>1, SMTT(30)
  <2> HIDE DEF R
  <2>3. w \in Nat \ {0}
    BY <1>1
  <2>4. room = R \div w
    BY DEF room, R
  <2>5. room \in Nat /\ R % w \in 0 .. w - 1 /\ R = room * w + (R % w) /\ room * w \in Nat
    BY <2>2, <2>3, <2>4, Division, Product
  <2>6. L - 1 <= room
    <3> SUFFICES ASSUME room + 1 <= L - 1 PROVE FALSE
      BY <2>1, <2>5
    <3>0. room + 1 \in Nat /\ w \in Nat
      BY <2>3, <2>5
    <3>1. (room + 1) * w <= (L - 1) * w /\ (room + 1) * w = room * w + w
      BY <2>1, <2>5, <3>0, Monotone, Product
    <3> QED
      BY <2>1, <2>2, <2>3, <2>5, <3>1
  <2>7. ASSUME NEW j \in Nat \ {0}, j <= room PROVE P(j) + w <= last
    <3>1. j * w <= room * w /\ j * w \in Nat
      BY <2>3, <2>5, <2>7, Monotone, Product
    <3>2. P(j) = at + H + (j - 1) * w /\ j * w = (j - 1) * w + w /\ (j - 1) * w \in Nat
      <4>1. j - 1 \in Nat /\ j = (j - 1) + 1
        OBVIOUS
      <4> QED
        BY <1>3, <2>3, <4>1, Product
    <3>3. j * w <= R
      BY <2>2, <2>3, <2>5, <3>1
    <3>4. at + H + (j - 1) * w + w = at + H + j * w
      BY <1>1, <2>3, <3>2
    <3>5. R = last - at - H
      BY DEF R
    <3> QED
      BY <1>1, <1>5, <3>1, <3>2, <3>3, <3>4, <3>5
  <2> QED
    BY <2>5, <2>6, <2>7
<1>11. ASSUME NEW j \in 1 .. room, j >= L PROVE read[j] = 0
  <2>1. j \in Nat \ {0} /\ L \in Nat \ {0} /\ j <= room /\ L <= j
    BY <1>1, <1>10, <1>11
  <2>2. P(j) \in Nat /\ P(L) <= P(j) /\ P(j) + w <= last
    BY <1>2, <1>10, <2>1
  <2>3. 0 \in 0 .. pow2[w] - 1
    <3>1. w \in Nat
      BY <1>1
    <3>2. pow2[w] \in Nat \ {0}
      BY <3>1, Powers
    <3> QED
      BY <3>2
  <2>4. at <= P(L)
    BY <1>1, <1>2, <1>5
  <2>5. ASSUME NEW k \in 0 .. w - 1
        PROVE  (P(j) + k) \div BPB \in DOMAIN data /\ (P(j) + k \in On(data) <=> k \in Bits(0))
    <3>1. P(j) + k \in 0 .. last - 1 /\ P(j) + k \in at .. last - 1 /\ P(j) + k \notin at .. P(L) - 1
      BY <1>1, <1>5, <2>2, <2>4, SMTT(30)
    <3>2. P(j) + k \notin On(data)
      BY <1>4, <1>6, <3>1
    <3>3. Bits(0) = {}
      BY <1>1, BitsOfZero
    <3> QED
      BY <1>7, <3>1, <3>2, <3>3
  <2>6. NumberAt(P(j), w) = 0
    BY <1>1, <2>2, <2>3, <2>5, Read
  <2> QED
    BY <1>3, <2>1, <2>6
<1>12. {k \in 1 .. room : read[k] # 0} = 1 .. L - 1
  <2>1. ASSUME NEW k \in 1 .. room, read[k] # 0 PROVE k \in 1 .. L - 1
    BY <1>1, <1>10, <1>11, <2>1
  <2>2. ASSUME NEW k \in 1 .. L - 1 PROVE k \in 1 .. room /\ read[k] # 0
    BY <1>1, <1>9, <1>10
  <2> QED
    BY <2>1, <2>2
<1>13. Cardinality(1 .. L - 1) = L - 1
  <2>1. L - 1 \in Nat /\ 1 \in Int /\ 1 <= L - 1
    BY <1>1
  <2>2. Cardinality(1 .. L - 1) = (L - 1) - 1 + 1
    BY <2>1, FS_Interval
  <2> QED
    BY <2>1, <2>2
<1>14. DiffsAt(at, end) =
         [j \in 1 .. Cardinality({k \in 1 .. room : read[k] # 0}) |-> read[j]]
  <2>1. w # 0
    BY <1>1
  <2> QED
    BY <1>8, <2>1 DEF DiffsAt, read, room, H, last
<1>15. DiffsAt(at, end) = [j \in 1 .. L - 1 |-> read[j]]
  BY <1>12, <1>13, <1>14
<1>16. DiffsOf(s) = [j \in 1 .. L - 1 |-> diff(j)]
  BY DEF DiffsOf, L, diff
<1> QED
  BY <1>9, <1>15, <1>16
-----------------------------------------------------------------------------
(* What is on when n of the variables, or of the clauses, are packed.      *)
VarsOn(c, n) ==
    IF n = 0 THEN {} ELSE Placed(0, c.vars[1]) \cup ListOn(c.vars, BitsFirstVar, n)

ClausesOn(c, from, n) ==
    IF n = 0 THEN {}
    ELSE IF Len(c.clauses) = 1 THEN Placed(from, c.clauses[1])
    ELSE Placed(from, c.clauses[1]) \cup ListOn(c.clauses, from + BitsFirstCls, n)

KeyOn(c, from) == VarsOn(c, Len(c.vars)) \cup ClausesOn(c, from, Len(c.clauses))

(* The words hold what is packed and nothing else, and the key ends where  *)
(* the clauses end: in the word where they would begin when there are none.*)
Contents ==
    /\ pc = "vars" => On(data) = VarsOn(comp, i)
    /\ pc = "clauses" =>
         /\ On(data) = VarsOn(comp, NVars) \cup ClausesOn(comp, clausesOfs * BPB, i)
         /\ VarBits(comp, NVars) <= clausesOfs * BPB
    /\ pc = "done" =>
         /\ On(data) = KeyOn(comp, clausesOfs * BPB)
         /\ VarBits(comp, NVars) <= clausesOfs * BPB
         /\ clausesOfs * BPB + ClauseBits(comp, NClauses) <= p * BPB
         /\ NClauses = 0 => p = clausesOfs
         /\ DOMAIN data = 0 .. p + 1

KeyInv == Inv /\ Contents

(* The numbers of a component fit their places.                            *)
LEMMA ComponentFits ==
  ASSUME NEW c \in Component
  PROVE  /\ Fit(c.vars) /\ c.vars[1] \in 0 .. pow2[BitsFirstVar] - 1
         /\ Len(c.clauses) > 0 =>
              Fit(c.clauses) /\ c.clauses[1] \in 0 .. pow2[BitsFirstCls] - 1
<1>1. ASSUME NEW N \in Nat, NEW s \in Seq(0 .. N - 1), s \in {c.vars, c.clauses},
             Ascending(s), Len(s) > 0
      PROVE  Fit(s) /\ s[1] \in 0 .. pow2[Cbits(N)] - 1
  <2>1. Len(s) \in Nat /\ Len(s) >= 1 /\ s[1] \in 0 .. N - 1
    BY <1>1
  <2>2. Width(s) \in 1 .. BPB - 1 /\ Width(s) < pow2[WIDTH_HEADER_BITS]
        /\ BPB \in Nat \ {0} /\ WIDTH_HEADER_BITS \in 1 .. BPB - 1
    BY <1>1, WidthAssumption
  <2>3. pow2[WIDTH_HEADER_BITS] \in Nat /\ Width(s) \in 0 .. pow2[WIDTH_HEADER_BITS] - 1
    <3>1. WIDTH_HEADER_BITS \in Nat
      BY <2>2
    <3>2. pow2[WIDTH_HEADER_BITS] \in Nat
      BY <3>1, Powers
    <3> QED
      BY <2>2, <3>2
  <2>4. \A j \in 1 .. Len(s) - 1 : s[j + 1] - s[j] \in 1 .. pow2[Width(s)] - 1
    BY <1>1, DiffsFit
  <2>5. s[1] \in 0 .. pow2[Cbits(N)] - 1
    BY <2>1, FirstFits
  <2> QED
    BY <2>1, <2>2, <2>3, <2>4, <2>5 DEF Fit
<1>2. /\ NumVars \in Nat /\ c.vars \in Seq(0 .. NumVars - 1) /\ Ascending(c.vars)
      /\ Len(c.vars) > 0
  BY ComponentAssumption, Widths
<1>3. /\ NumClauses \in Nat /\ c.clauses \in Seq(0 .. NumClauses - 1) /\ Ascending(c.clauses)
  BY ComponentAssumption
<1> QED
  BY <1>1, <1>2, <1>3 DEF BitsFirstVar, BitsFirstCls

(* What is packed lies before what comes next.                             *)
LEMMA PackedBefore ==
  ASSUME NEW c \in Component
  PROVE  /\ \A n \in 0 .. Len(c.vars) : VarsOn(c, n) \in SUBSET (0 .. VarBits(c, n) - 1)
         /\ \A n \in 0 .. Len(c.clauses), from \in Nat :
              ClausesOn(c, from, n) \in SUBSET (from .. from + ClauseBits(c, n) - 1)
<1>1. /\ BPB \in Nat /\ WIDTH_HEADER_BITS \in 1 .. BPB - 1
      /\ BitsFirstVar \in 1 .. BPB - 1 /\ BitsFirstCls \in 1 .. BPB - 1
      /\ Len(c.vars) \in Nat /\ Len(c.clauses) \in Nat
      /\ Width(c.vars) \in 1 .. BPB - 1 /\ Width(c.clauses) \in 1 .. BPB - 1
  BY Widths
<1>2. ASSUME NEW n \in 1 .. Len(c.vars)
      PROVE  VarsOn(c, n) \in SUBSET (0 .. VarBits(c, n) - 1)
  <2> DEFINE first == Placed(0, c.vars[1])
             list == ListOn(c.vars, BitsFirstVar, n)
             next == DiffPlace(c.vars, BitsFirstVar, n)
  <2>1. first \in SUBSET (0 .. 0 + BitsFirstVar - 1)
    <3>1. BitsFirstVar \in 0 .. BPB
      BY <1>1
    <3> QED
      BY <1>1, <3>1, ComponentFits, PlacedWithin
  <2>2. list \in SUBSET (BitsFirstVar .. next - 1)
    <3>1. BitsFirstVar \in Nat
      BY <1>1
    <3> QED
      BY <3>1, ComponentFits, ListHolds
  <2>3. next = VarBits(c, n)
    BY <1>1 DEF DiffPlace, VarBits
  <2>4. next >= BitsFirstVar /\ next \in Nat
    <3>1. 1 \in Nat \ {0} /\ n \in Nat \ {0} /\ 1 <= n /\ BitsFirstVar \in Nat
      BY <1>1
    <3> HIDE DEF next
    <3>2. /\ DiffPlace(c.vars, BitsFirstVar, 1) = BitsFirstVar + WIDTH_HEADER_BITS
          /\ DiffPlace(c.vars, BitsFirstVar, 1) <= DiffPlace(c.vars, BitsFirstVar, n)
          /\ DiffPlace(c.vars, BitsFirstVar, n) \in Nat
      BY <3>1, ComponentFits, DiffPlaces
    <3> QED
      BY <1>1, <3>2 DEF next
  <2>5. VarsOn(c, n) = first \cup list
    BY DEF VarsOn
  <2> HIDE DEF first, list, next
  <2> QED
    BY <1>1, <2>1, <2>2, <2>3, <2>4, <2>5
<1>3. VarsOn(c, 0) = {} /\ \A from \in Nat : ClausesOn(c, from, 0) = {}
  BY DEF VarsOn, ClausesOn
<1>4. ASSUME NEW n \in 1 .. Len(c.clauses), NEW from \in Nat
      PROVE  ClausesOn(c, from, n) \in SUBSET (from .. from + ClauseBits(c, n) - 1)
  <2> DEFINE first == Placed(from, c.clauses[1])
             at == from + BitsFirstCls
             list == ListOn(c.clauses, at, n)
             next == DiffPlace(c.clauses, at, n)
  <2>0. Len(c.clauses) > 0
    BY <1>1
  <2>1. first \in SUBSET (from .. from + BitsFirstCls - 1)
    <3>1. BitsFirstCls \in 0 .. BPB
      BY <1>1
    <3> QED
      BY <1>1, <2>0, <3>1, ComponentFits, PlacedWithin
  <2>2. CASE Len(c.clauses) = 1
    <3>1. ClauseBits(c, n) = BitsFirstCls /\ ClausesOn(c, from, n) = first
      BY <2>2 DEF ClauseBits, ClausesOn
    <3> HIDE DEF first
    <3> QED
      BY <2>1, <3>1
  <2>3. CASE Len(c.clauses) # 1
    <3>1. at \in Nat
      BY <1>1
    <3> HIDE DEF at
    <3>2. list \in SUBSET (at .. next - 1)
      BY <2>0, <3>1, ComponentFits, ListHolds
    <3>3. next >= at /\ next \in Nat
      <4>1. 1 \in Nat \ {0} /\ n \in Nat \ {0} /\ 1 <= n
        BY <1>1
      <4> HIDE DEF next
      <4>2. /\ DiffPlace(c.clauses, at, 1) = at + WIDTH_HEADER_BITS
            /\ DiffPlace(c.clauses, at, 1) <= DiffPlace(c.clauses, at, n)
            /\ DiffPlace(c.clauses, at, n) \in Nat
        BY <2>0, <3>1, <4>1, ComponentFits, DiffPlaces
      <4> QED
        BY <1>1, <3>1, <4>2 DEF next
    <3>4. next = from + ClauseBits(c, n)
      <4>1. ClauseBits(c, n) = BitsFirstCls + WIDTH_HEADER_BITS + (n - 1) * Width(c.clauses)
        BY <2>3 DEF ClauseBits
      <4>2. n - 1 \in Nat /\ Width(c.clauses) \in Nat
        BY <1>1
      <4>3. (n - 1) * Width(c.clauses) \in Nat
        BY <4>2, Product
      <4> QED
        BY <1>1, <4>1, <4>3 DEF DiffPlace, at
    <3>5. ClausesOn(c, from, n) = first \cup list
      BY <2>3 DEF ClausesOn, at
    <3>6. at = from + BitsFirstCls
      BY DEF at
    <3> HIDE DEF first, list, next
    <3>7. ClauseBits(c, n) \in Nat
      BY ClauseBitsStep
    <3> QED
      BY <1>1, <2>1, <3>1, <3>2, <3>3, <3>4, <3>5, <3>6, <3>7, SMTT(30)
  <2> QED
    BY <2>2, <2>3
<1>5. ASSUME NEW n \in 0 .. Len(c.vars) PROVE VarsOn(c, n) \in SUBSET (0 .. VarBits(c, n) - 1)
  <2>1. n = 0 \/ n \in 1 .. Len(c.vars)
    BY <1>1
  <2> QED
    BY <1>2, <1>3, <2>1
<1>6. ASSUME NEW n \in 0 .. Len(c.clauses), NEW from \in Nat
      PROVE  ClausesOn(c, from, n) \in SUBSET (from .. from + ClauseBits(c, n) - 1)
  <2>1. n = 0 \/ n \in 1 .. Len(c.clauses)
    BY <1>1
  <2> QED
    BY <1>3, <1>4, <2>1
<1> QED
  BY <1>5, <1>6
-----------------------------------------------------------------------------
(* What the invariant says of the types.                                   *)
LEMMA KeyFacts ==
  ASSUME KeyInv
  PROVE  /\ comp \in Component /\ BPB \in Nat /\ BPB \in Nat \ {0}
         /\ p \in Nat /\ bp \in 0 .. BPB - 1 /\ i \in Nat /\ clausesOfs \in Nat
         /\ clausesOfs * BPB \in Nat /\ p * BPB \in Nat
         /\ data \in Data(DOMAIN data)
         /\ NVars \in Nat /\ NVars >= 2 /\ NClauses \in Nat
         /\ NVars = Len(comp.vars) /\ NClauses = Len(comp.clauses)
         /\ Cursor.data = data /\ Cursor.p = p /\ Cursor.bp = bp
         /\ VarBits(comp, NVars) \in Nat /\ ClauseBits(comp, NClauses) \in Nat
         /\ BitsFirstVar \in 1 .. BPB - 1 /\ BitsFirstCls \in 1 .. BPB - 1
         /\ WIDTH_HEADER_BITS \in 1 .. BPB - 1
<1>1. Inv
  BY DEF KeyInv
<1>2. /\ NVars >= 2 /\ BitsFirstVar \in 1 .. BPB - 1 /\ BitsFirstCls \in 1 .. BPB - 1
      /\ WIDTH_HEADER_BITS \in 1 .. BPB - 1
  BY <1>1, Facts, Widths DEF NVars
<1>3. VarBits(comp, NVars) \in Nat /\ ClauseBits(comp, NClauses) \in Nat
  BY <1>1, Facts, VarBitsStep, ClauseBitsStep
<1>4. clausesOfs * BPB \in Nat /\ p * BPB \in Nat
  BY <1>1, Facts, Product
<1> QED
  BY <1>1, <1>2, <1>3, <1>4, Facts DEF NVars, NClauses

(* A word that begins where something is packed is in the buffer, and so   *)
(* is the next.                                                            *)
LEMMA Room ==
  ASSUME KeyInv, pc # "done", NEW n \in Nat,
         pc = "vars" => n * BPB <= VarBits(comp, NVars),
         pc = "clauses" => n * BPB <= clausesOfs * BPB + ClauseBits(comp, NClauses)
  PROVE  n \in DOMAIN data /\ n + 1 \in DOMAIN data
<1>1. TotalBits(comp) = VarBits(comp, NVars) + ClauseBits(comp, NClauses)
  BY DEF TotalBits, NVars, NClauses
<1>2. n * BPB <= TotalBits(comp) + 2 * (BPB - 1)
  <2>1. /\ n * BPB \in Nat /\ clausesOfs * BPB \in Nat /\ BPB - 1 \in Nat
        /\ VarBits(comp, NVars) \in Nat /\ ClauseBits(comp, NClauses) \in Nat
    BY KeyFacts, Product, SMTT(30)
  <2> DEFINE at == n * BPB
             from == clausesOfs * BPB
             varBits == VarBits(comp, NVars)
             clsBits == ClauseBits(comp, NClauses)
             total == TotalBits(comp)
  <2>a. /\ at \in Nat /\ from \in Nat /\ BPB - 1 \in Nat /\ varBits \in Nat /\ clsBits \in Nat
        /\ total = varBits + clsBits
    BY <1>1, <2>1
  <2>2. CASE pc = "vars"
    <3>1. at <= varBits
      BY <2>2
    <3> HIDE DEF at, from, varBits, clsBits, total
    <3>2. at <= total + 2 * (BPB - 1)
      BY <2>a, <3>1
    <3> QED
      BY <3>2 DEF at, total
  <2>3. CASE pc = "clauses"
    <3>1. from <= varBits + (BPB - 1) /\ at <= from + clsBits
      BY <2>3 DEF KeyInv, Inv, Position
    <3> HIDE DEF at, from, varBits, clsBits, total
    <3>2. at <= total + 2 * (BPB - 1)
      BY <2>a, <3>1
    <3> QED
      BY <3>2 DEF at, total
  <2> QED
    BY <2>2, <2>3 DEF KeyInv, Inv, TypeOK
<1>3. n + 1 < Words(comp) /\ Words(comp) \in Nat
  BY <1>2, KeyFacts, Fits
<1> QED
  BY <1>3 DEF KeyInv, Inv, Sized

(* So are the word of the cursor and the next.                             *)
LEMMA CursorRoom ==
  ASSUME KeyInv, pc # "done"
  PROVE  /\ p \in DOMAIN data /\ p + 1 \in DOMAIN data
         /\ 0 .. p + 1 \in SUBSET DOMAIN data
<1>1. p + 1 < Words(comp) /\ Words(comp) \in Nat
  <2>1. InBuffer
    BY InvInBuffer DEF KeyInv
  <2>2. Words(comp) \in Nat
    <3>1. 0 * BPB <= TotalBits(comp) + 2 * (BPB - 1)
      <4>1. TotalBits(comp) = VarBits(comp, NVars) + ClauseBits(comp, NClauses)
        BY DEF TotalBits, NVars, NClauses
      <4> QED
        BY <4>1, KeyFacts, SMTT(30)
    <3> QED
      BY <3>1, KeyFacts, Fits
  <2> QED
    BY <2>1, <2>2 DEF InBuffer
<1> QED
  BY <1>1, KeyFacts, SMTT(40) DEF KeyInv, Inv, Sized

(* Nothing is on from the cursor on.                                       *)
LEMMA NothingAhead ==
  ASSUME KeyInv, pc # "done"
  PROVE  \A at \in On(data) : at < p * BPB + bp
<1> SUFFICES ASSUME NEW at \in On(data) PROVE at < p * BPB + bp
  OBVIOUS
<1>1. CASE pc = "vars"
  <2>1. i \in 0 .. Len(comp.vars) /\ p * BPB + bp = VarBits(comp, i)
    BY <1>1, KeyFacts, SMTT(30) DEF KeyInv, Inv, Position
  <2>2. at \in 0 .. VarBits(comp, i) - 1
    BY <1>1, <2>1, KeyFacts, PackedBefore DEF KeyInv, Contents
  <2>3. VarBits(comp, i) \in Nat
    BY KeyFacts, VarBitsStep
  <2> QED
    BY <2>1, <2>2, <2>3
<1>2. CASE pc = "clauses"
  <2> DEFINE from == clausesOfs * BPB
  <2>1. i \in 0 .. Len(comp.clauses) /\ p * BPB + bp = from + ClauseBits(comp, i)
    BY <1>2, KeyFacts, SMTT(30) DEF KeyInv, Inv, Position
  <2>2. /\ On(data) = VarsOn(comp, NVars) \cup ClausesOn(comp, from, i)
        /\ VarBits(comp, NVars) <= from
    BY <1>2 DEF KeyInv, Contents
  <2>3. ClauseBits(comp, i) \in Nat /\ from \in Nat
    BY KeyFacts, ClauseBitsStep
  <2> HIDE DEF from
  <2>4. ClausesOn(comp, from, i) \in SUBSET (from .. from + ClauseBits(comp, i) - 1)
    BY <2>1, <2>3, KeyFacts, PackedBefore
  <2>5. NVars \in 0 .. Len(comp.vars)
    BY KeyFacts, SMTT(30)
  <2>6. VarsOn(comp, NVars) \in SUBSET (0 .. VarBits(comp, NVars) - 1)
    BY <2>5, KeyFacts, PackedBefore
  <2>7. VarBits(comp, NVars) \in Nat
    BY KeyFacts
  <2>8. \/ at \in 0 .. VarBits(comp, NVars) - 1
        \/ at \in from .. from + ClauseBits(comp, i) - 1
    BY <2>2, <2>4, <2>6
  <2>9. at < from + ClauseBits(comp, i)
    BY <2>2, <2>3, <2>7, <2>8
  <2> QED
    BY <2>1, <2>9
<1> QED
  BY <1>1, <1>2 DEF KeyInv, Inv, TypeOK

(* At first nothing is on.                                                 *)
LEMMA InitContents == Init => Contents
<1> SUFFICES ASSUME Init PROVE Contents
  OBVIOUS
<1>1. \A k \in DOMAIN data : data[k] = {}
  BY DEF Init
<1>2. On(data) = {}
  BY <1>1 DEF On
<1> QED
  BY <1>2 DEF Init, Contents, VarsOn

(* The first variable and the width are on.                                *)
LEMMA FirstVarContents ==
  ASSUME KeyInv, FirstVar
  PROVE  Contents'
<1> DEFINE x == comp.vars[1]
           w == Width(comp.vars)
           first == Pack(Cursor, x, BitsFirstVar)
           second == Pack(first, w, WIDTH_HEADER_BITS)
           D == DOMAIN data
<1>0. /\ pc = "vars" /\ i = 0 /\ i' = 1 /\ UNCHANGED <<comp, clausesOfs, pc>>
      /\ data' = second.data
  BY DEF FirstVar, Written
<1>1. p * BPB + bp = 0 /\ On(data) = {}
  BY <1>0, KeyFacts, VarBitsStep DEF KeyInv, Inv, Position, Contents, VarsOn
<1>2. /\ x \in 0 .. pow2[BitsFirstVar] - 1 /\ w \in 0 .. pow2[WIDTH_HEADER_BITS] - 1
      /\ BitsFirstVar \in 0 .. BPB - 1 /\ BitsFirstVar \in 0 .. BPB
      /\ WIDTH_HEADER_BITS \in 0 .. BPB - 1 /\ WIDTH_HEADER_BITS \in 0 .. BPB
  BY KeyFacts, ComponentFits, SMTT(30) DEF Fit
<1>3. /\ Bits(x) \in SUBSET (0 .. BitsFirstVar - 1)
      /\ Bits(w) \in SUBSET (0 .. WIDTH_HEADER_BITS - 1)
      /\ Placed(0, x) \in SUBSET (0 .. 0 + BitsFirstVar - 1)
  <2> HIDE DEF x, w
  <2>1. 0 \in Nat
    OBVIOUS
  <2> QED
    BY <1>2, <2>1, KeyFacts, BitsBelow, PlacedWithin
<1> HIDE DEF x, w
<1>4. Cursor.p * BPB + Cursor.bp = 0
  BY <1>1, KeyFacts
<1>5. On(first.data) = On(Cursor.data) \cup Placed(Cursor.p * BPB + Cursor.bp, x)
  <2>1. pc # "done" /\ Cursor.data \in Data(D)
    BY <1>0, KeyFacts
  <2>2. Cursor.p \in D /\ Cursor.p + 1 \in D
    BY <1>0, <2>1, KeyFacts, CursorRoom
  <2>3. \A at \in On(Cursor.data) : at < Cursor.p * BPB + Cursor.bp
    BY <1>1, KeyFacts
  <2> QED
    BY <1>2, <1>3, <2>1, <2>2, <2>3, KeyFacts, PackAdds
<1>6. /\ first.data \in Data(D) /\ first.p \in Nat /\ first.bp \in 0 .. BPB - 1
      /\ first.p * BPB + first.bp = BitsFirstVar
  <2>1. Cursor.data \in Data(D)
    BY KeyFacts
  <2>2. /\ first.data \in Data(D) /\ first.p \in Nat /\ first.bp \in 0 .. BPB - 1
        /\ first.p * BPB + first.bp = Cursor.p * BPB + Cursor.bp + BitsFirstVar
    BY <1>2, <2>1, KeyFacts, PackMoves
  <2> HIDE DEF first
  <2> QED
    BY <1>2, <1>4, <2>2, KeyFacts
<1>7. On(first.data) = Placed(0, x)
  BY <1>1, <1>4, <1>5, KeyFacts
<1> HIDE DEF first
<1>8. On(second.data) = Placed(0, x) \cup Placed(BitsFirstVar, w)
  <2>1. first.p * BPB <= VarBits(comp, NVars)
    <3>1. 1 \in Nat /\ 1 <= NVars /\ NVars \in Nat /\ comp \in Component
      BY KeyFacts
    <3>2. /\ VarBits(comp, 1) = BitsFirstVar + WIDTH_HEADER_BITS
          /\ VarBits(comp, 1) <= VarBits(comp, NVars) /\ VarBits(comp, NVars) \in Nat
      BY <3>1, VarBitsStep
    <3>3. first.p * BPB \in Nat /\ first.bp \in Nat
      <4>1. BPB \in Nat
        BY KeyFacts
      <4> QED
        BY <1>6, <4>1, Product
    <3> QED
      BY <1>2, <1>6, <3>2, <3>3
  <2>2. first.p \in D /\ first.p + 1 \in D
    BY <1>0, <1>6, <2>1, Room
  <2>3. \A at \in On(first.data) : at < first.p * BPB + first.bp
    BY <1>2, <1>3, <1>6, <1>7
  <2>4. On(second.data) = On(first.data) \cup Placed(first.p * BPB + first.bp, w)
    BY <1>2, <1>3, <1>6, <2>2, <2>3, KeyFacts, PackAdds
  <2> QED
    BY <1>6, <1>7, <2>4
<1>9. VarsOn(comp, 1) = Placed(0, x) \cup Placed(BitsFirstVar, w)
  BY ListStep DEF VarsOn, x, w
<1> QED
  BY <1>0, <1>8, <1>9 DEF Contents

(* A difference of variables is on.                                        *)
LEMMA NextVarContents ==
  ASSUME KeyInv, NextVar
  PROVE  Contents'
<1> DEFINE x == comp.vars[i + 1] - comp.vars[i]
           w == Width(comp.vars)
           next == Pack(Cursor, x, w)
           D == DOMAIN data
<1>0. /\ pc = "vars" /\ i \in 1 .. NVars - 1 /\ i' = i + 1 /\ UNCHANGED <<comp, clausesOfs, pc>>
      /\ data' = next.data
  BY DEF NextVar, Written
<1>1. /\ x \in 1 .. pow2[w] - 1 /\ w \in 1 .. BPB - 1
      /\ i \in Nat \ {0} /\ i + 1 # 0
  <2>1. Fit(comp.vars) /\ NVars \in Nat /\ NVars = Len(comp.vars)
    BY KeyFacts, ComponentFits
  <2>2. i \in Nat \ {0} /\ i + 1 # 0 /\ i \in 1 .. Len(comp.vars) - 1
    BY <1>0, <2>1
  <2>3. x \in 1 .. pow2[w] - 1 /\ w \in 1 .. BPB - 1
    BY <2>1, <2>2 DEF Fit
  <2> QED
    BY <2>2, <2>3
<1>2. p * BPB + bp = VarBits(comp, i)
  BY <1>0 DEF KeyInv, Inv, Position
<1>3. VarBits(comp, i) = DiffPlace(comp.vars, BitsFirstVar, i)
  BY <1>1 DEF VarBits, DiffPlace
<1> HIDE DEF x, w
<1>4. Bits(x) \in SUBSET (0 .. w - 1) /\ w \in 0 .. BPB - 1
  <2>1. w \in 0 .. BPB /\ w \in Nat /\ w \in 0 .. BPB - 1
    BY <1>1, KeyFacts
  <2>2. pow2[w] \in Nat
    BY <2>1, Powers
  <2>3. x \in 0 .. pow2[w] - 1
    BY <1>1, <2>2
  <2> QED
    BY <2>1, <2>3, KeyFacts, BitsBelow
<1>5. On(next.data) = On(Cursor.data) \cup Placed(Cursor.p * BPB + Cursor.bp, x)
  <2>1. pc # "done" /\ Cursor.data \in Data(D)
    BY <1>0, KeyFacts
  <2>2. Cursor.p \in D /\ Cursor.p + 1 \in D
    BY <2>1, KeyFacts, CursorRoom
  <2>3. \A at \in On(Cursor.data) : at < Cursor.p * BPB + Cursor.bp
    BY <2>1, KeyFacts, NothingAhead
  <2> QED
    BY <1>4, <2>1, <2>2, <2>3, KeyFacts, PackAdds
<1> HIDE DEF next
<1>6. On(data') = On(data) \cup Placed(DiffPlace(comp.vars, BitsFirstVar, i), x)
  BY <1>0, <1>2, <1>3, <1>5, KeyFacts
<1>7. On(data) = VarsOn(comp, i)
  BY <1>0 DEF KeyInv, Contents
<1>8. VarsOn(comp, i + 1) =
        VarsOn(comp, i) \cup Placed(DiffPlace(comp.vars, BitsFirstVar, i), x)
  <2>1. ListOn(comp.vars, BitsFirstVar, i + 1) =
          ListOn(comp.vars, BitsFirstVar, i) \cup Placed(DiffPlace(comp.vars, BitsFirstVar, i), x)
    BY <1>1, ListStep DEF x
  <2>2. i # 0 /\ i + 1 # 0
    BY <1>1
  <2> QED
    BY <2>1, <2>2 DEF VarsOn
<1> QED
  BY <1>0, <1>6, <1>7, <1>8 DEF Contents

(* The next word begins behind all that is packed.                         *)
LEMMA WordFollows ==
  ASSUME KeyInv
  PROVE  /\ NextWord \in Nat /\ NextWord * BPB \in Nat
         /\ p * BPB + bp <= NextWord * BPB
<1>1. p \in Nat /\ BPB \in Nat /\ bp \in 0 .. BPB - 1
  BY KeyFacts
<1>2. (p + 1) * BPB = p * BPB + BPB /\ p * BPB \in Nat /\ p + 1 \in Nat
  BY <1>1, Product
<1> QED
  BY <1>1, <1>2 DEF NextWord

(* The clauses begin behind the variables.                                 *)
LEMMA CloseVarsContents ==
  ASSUME KeyInv, CloseVars
  PROVE  Contents'
<1>0. /\ pc = "vars" /\ i = NVars /\ clausesOfs' = NextWord
      /\ i' = 0 /\ pc' = "clauses" /\ UNCHANGED <<comp, data>>
  BY DEF CloseVars
<1>1. On(data) = VarsOn(comp, NVars) /\ p * BPB + bp = VarBits(comp, NVars)
  BY <1>0 DEF KeyInv, Contents, Inv, Position
<1>2. VarBits(comp, NVars) <= NextWord * BPB
  BY <1>1, WordFollows
<1>3. ClausesOn(comp, NextWord * BPB, 0) = {}
  BY DEF ClausesOn
<1> QED
  BY <1>0, <1>1, <1>2, <1>3 DEF Contents, NVars

(* The first clause is on, and the width when there are more.              *)
LEMMA FirstClauseContents ==
  ASSUME KeyInv, FirstClause
  PROVE  Contents'
<1> DEFINE x == comp.clauses[1]
           w == Width(comp.clauses)
           first == Pack(Cursor, x, BitsFirstCls)
           second == Pack(first, w, WIDTH_HEADER_BITS)
           D == DOMAIN data
           from == clausesOfs * BPB
<1>0. /\ pc = "clauses" /\ i = 0 /\ i' = 1 /\ UNCHANGED <<comp, clausesOfs, pc>> /\ NClauses > 0
      /\ data' = (IF NClauses = 1 THEN first ELSE second).data
  BY DEF FirstClause, Written
<1>1. /\ On(data) = VarsOn(comp, NVars) /\ VarBits(comp, NVars) <= from
      /\ p * BPB + bp = from
  <2>1. ClauseBits(comp, 0) = 0 /\ from \in Nat
    BY KeyFacts, ClauseBitsStep
  <2>2. p * BPB + bp = from + ClauseBits(comp, 0)
    BY <1>0 DEF KeyInv, Inv, Position
  <2> QED
    BY <1>0, <2>1, <2>2 DEF KeyInv, Contents, ClausesOn
<1>2. /\ x \in 0 .. pow2[BitsFirstCls] - 1 /\ w \in 0 .. pow2[WIDTH_HEADER_BITS] - 1
      /\ BitsFirstCls \in 0 .. BPB - 1 /\ BitsFirstCls \in 0 .. BPB
      /\ WIDTH_HEADER_BITS \in 0 .. BPB - 1 /\ WIDTH_HEADER_BITS \in 0 .. BPB
  <2>1. comp \in Component /\ Len(comp.clauses) > 0
    BY <1>0, KeyFacts
  <2>2. Fit(comp.clauses) /\ comp.clauses[1] \in 0 .. pow2[BitsFirstCls] - 1
    BY <2>1, ComponentFits
  <2>3. BPB \in Nat /\ BitsFirstCls \in 1 .. BPB - 1 /\ WIDTH_HEADER_BITS \in 1 .. BPB - 1
    BY KeyFacts
  <2> QED
    BY <2>2, <2>3 DEF Fit
<1>3. /\ Bits(x) \in SUBSET (0 .. BitsFirstCls - 1)
      /\ Bits(w) \in SUBSET (0 .. WIDTH_HEADER_BITS - 1)
      /\ Placed(from, x) \in SUBSET (from .. from + BitsFirstCls - 1)
  <2>1. from \in Nat
    BY KeyFacts
  <2> HIDE DEF x, w, from
  <2> QED
    BY <1>2, <2>1, KeyFacts, BitsBelow, PlacedWithin
<1> HIDE DEF x, w
<1>4. Cursor.p * BPB + Cursor.bp = from /\ from \in Nat
  BY <1>1, KeyFacts
<1>5. \A at \in On(Cursor.data) : at < Cursor.p * BPB + Cursor.bp
  BY <1>0, KeyFacts, NothingAhead
<1>6. On(first.data) = On(Cursor.data) \cup Placed(Cursor.p * BPB + Cursor.bp, x)
  <2>1. pc # "done" /\ Cursor.data \in Data(D)
    BY <1>0, KeyFacts
  <2>2. Cursor.p \in D /\ Cursor.p + 1 \in D
    BY <2>1, KeyFacts, CursorRoom
  <2> QED
    BY <1>2, <1>3, <1>5, <2>1, <2>2, KeyFacts, PackAdds
<1>7. /\ first.data \in Data(D) /\ first.p \in Nat /\ first.bp \in 0 .. BPB - 1
      /\ first.p * BPB + first.bp = from + BitsFirstCls
  <2>1. Cursor.data \in Data(D)
    BY KeyFacts
  <2>2. /\ first.data \in Data(D) /\ first.p \in Nat /\ first.bp \in 0 .. BPB - 1
        /\ first.p * BPB + first.bp = Cursor.p * BPB + Cursor.bp + BitsFirstCls
    BY <1>2, <2>1, KeyFacts, PackMoves
  <2>3. Cursor.p * BPB \in Nat /\ Cursor.bp \in Nat /\ BitsFirstCls \in Nat
    BY <1>2, KeyFacts, SMTT(30)
  <2> HIDE DEF first, from
  <2> QED
    BY <1>4, <2>2, <2>3
<1>8. On(first.data) = VarsOn(comp, NVars) \cup Placed(from, x)
  BY <1>1, <1>4, <1>6, KeyFacts
<1>9. \A at \in On(first.data) : at < from + BitsFirstCls /\ at \in Nat
  <2>1. \A at \in VarsOn(comp, NVars) : at < from /\ at \in Nat
    <3>1. VarsOn(comp, NVars) = On(Cursor.data)
      BY <1>1, KeyFacts
    <3> HIDE DEF from
    <3> QED
      BY <1>4, <1>5, <3>1 DEF On
  <2> HIDE DEF from, first
  <2> QED
    BY <1>2, <1>3, <1>4, <1>8, <2>1
<1> HIDE DEF first
<1>10. CASE NClauses = 1
  <2>1. On(data') = VarsOn(comp, NVars) \cup Placed(from, x)
    BY <1>0, <1>8, <1>10
  <2>2. ClausesOn(comp, from, 1) = Placed(from, x)
    BY <1>10 DEF ClausesOn, NClauses, x
  <2> QED
    BY <1>0, <1>1, <2>1, <2>2 DEF Contents, NVars
<1>11. CASE NClauses # 1
  <2>1. first.p * BPB <= from + ClauseBits(comp, NClauses)
    <3>1. 1 \in Nat /\ 1 <= NClauses /\ NClauses \in Nat /\ comp \in Component
          /\ Len(comp.clauses) > 1
      BY <1>0, <1>11, KeyFacts
    <3>2. /\ ClauseBits(comp, 1) = BitsFirstCls + WIDTH_HEADER_BITS
          /\ ClauseBits(comp, 1) <= ClauseBits(comp, NClauses) /\ ClauseBits(comp, NClauses) \in Nat
      BY <3>1, ClauseBitsStep
    <3>3. first.p * BPB \in Nat /\ first.bp \in Nat
      <4>1. BPB \in Nat
        BY KeyFacts
      <4> QED
        BY <1>7, <4>1, Product
    <3> HIDE DEF from
    <3> QED
      BY <1>2, <1>4, <1>7, <3>2, <3>3
  <2>2. first.p \in D /\ first.p + 1 \in D
    BY <1>0, <1>7, <2>1, Room
  <2>3. \A at \in On(first.data) : at < first.p * BPB + first.bp
    BY <1>7, <1>9
  <2>4. On(second.data) = On(first.data) \cup Placed(first.p * BPB + first.bp, w)
    BY <1>2, <1>3, <1>7, <2>2, <2>3, KeyFacts, PackAdds
  <2> HIDE DEF second
  <2>5. On(data') = VarsOn(comp, NVars) \cup Placed(from, x) \cup Placed(from + BitsFirstCls, w)
    BY <1>0, <1>7, <1>8, <1>11, <2>4
  <2>6. ClausesOn(comp, from, 1) = Placed(from, x) \cup Placed(from + BitsFirstCls, w)
    BY <1>11, ListStep DEF ClausesOn, NClauses, x, w
  <2> QED
    BY <1>0, <1>1, <2>5, <2>6 DEF Contents, NVars
<1> QED
  BY <1>10, <1>11

(* A difference of clauses is on.                                          *)
LEMMA NextClauseContents ==
  ASSUME KeyInv, NextClause
  PROVE  Contents'
<1> DEFINE x == comp.clauses[i + 1] - comp.clauses[i]
           w == Width(comp.clauses)
           next == Pack(Cursor, x, w)
           D == DOMAIN data
           from == clausesOfs * BPB
           at0 == from + BitsFirstCls
<1>0. /\ pc = "clauses" /\ i \in 1 .. NClauses - 1 /\ i' = i + 1
      /\ UNCHANGED <<comp, clausesOfs, pc>> /\ data' = next.data
  BY DEF NextClause, Written
<1>1. /\ x \in 1 .. pow2[w] - 1 /\ w \in 1 .. BPB - 1
      /\ i \in Nat \ {0} /\ i + 1 # 0 /\ Len(comp.clauses) # 1
  <2>1. Len(comp.clauses) \in Nat /\ i \in Nat /\ Len(comp.clauses) > 0
    BY <1>0, KeyFacts, SMTT(30)
  <2>2. Fit(comp.clauses) /\ NClauses = Len(comp.clauses)
    BY <2>1, KeyFacts, ComponentFits
  <2>3. /\ i \in Nat \ {0} /\ i + 1 # 0 /\ i \in 1 .. Len(comp.clauses) - 1
        /\ Len(comp.clauses) # 1
    BY <1>0, <2>1, <2>2
  <2>4. x \in 1 .. pow2[w] - 1 /\ w \in 1 .. BPB - 1
    BY <2>2, <2>3 DEF Fit
  <2> QED
    BY <2>3, <2>4
<1>2. p * BPB + bp = from + ClauseBits(comp, i)
  BY <1>0 DEF KeyInv, Inv, Position
<1>3. from + ClauseBits(comp, i) = DiffPlace(comp.clauses, at0, i)
  <2>1. ClauseBits(comp, i) = BitsFirstCls + WIDTH_HEADER_BITS + (i - 1) * Width(comp.clauses)
    BY <1>1 DEF ClauseBits
  <2>2. i - 1 \in Nat /\ w \in Nat
    BY <1>1
  <2>3. (i - 1) * w \in Nat
    BY <2>2, Product
  <2>4. from \in Nat /\ BitsFirstCls \in Nat /\ WIDTH_HEADER_BITS \in Nat
    BY KeyFacts
  <2>5. DiffPlace(comp.clauses, at0, i) = at0 + WIDTH_HEADER_BITS + (i - 1) * w
    BY DEF DiffPlace
  <2> HIDE DEF from
  <2> QED
    BY <2>1, <2>3, <2>4, <2>5
<1> HIDE DEF x, w, from
<1>4. Bits(x) \in SUBSET (0 .. w - 1) /\ w \in 0 .. BPB - 1
  <2>1. w \in 0 .. BPB /\ w \in Nat /\ w \in 0 .. BPB - 1
    BY <1>1, KeyFacts
  <2>2. pow2[w] \in Nat
    BY <2>1, Powers
  <2>3. x \in 0 .. pow2[w] - 1
    BY <1>1, <2>2
  <2> QED
    BY <2>1, <2>3, KeyFacts, BitsBelow
<1>5. On(next.data) = On(Cursor.data) \cup Placed(Cursor.p * BPB + Cursor.bp, x)
  <2>1. pc # "done" /\ Cursor.data \in Data(D)
    BY <1>0, KeyFacts
  <2>2. Cursor.p \in D /\ Cursor.p + 1 \in D
    BY <2>1, KeyFacts, CursorRoom
  <2>3. \A at \in On(Cursor.data) : at < Cursor.p * BPB + Cursor.bp
    BY <2>1, KeyFacts, NothingAhead
  <2> QED
    BY <1>4, <2>1, <2>2, <2>3, KeyFacts, PackAdds
<1> HIDE DEF next, at0
<1>6. On(data') = On(data) \cup Placed(DiffPlace(comp.clauses, at0, i), x)
  BY <1>0, <1>2, <1>3, <1>5, KeyFacts
<1>7. /\ On(data) = VarsOn(comp, NVars) \cup ClausesOn(comp, from, i)
      /\ VarBits(comp, NVars) <= from
  BY <1>0 DEF KeyInv, Contents, from
<1>8. ClausesOn(comp, from, i + 1) =
        ClausesOn(comp, from, i) \cup Placed(DiffPlace(comp.clauses, at0, i), x)
  <2>1. ListOn(comp.clauses, at0, i + 1) =
          ListOn(comp.clauses, at0, i) \cup Placed(DiffPlace(comp.clauses, at0, i), x)
    BY <1>1, ListStep DEF x
  <2>2. i # 0 /\ i + 1 # 0
    BY <1>1
  <2> QED
    BY <1>1, <2>1, <2>2 DEF ClausesOn, at0
<1> QED
  BY <1>0, <1>6, <1>7, <1>8 DEF Contents, NVars, from

(* The words that are kept have all that is on.                            *)
LEMMA CloseContents ==
  ASSUME KeyInv, Close
  PROVE  Contents'
<1> DEFINE from == clausesOfs * BPB
<1>0. /\ pc = "clauses" /\ i = NClauses /\ p' = NextWord /\ pc' = "done"
      /\ data' = [k \in 0 .. NextWord + 1 |-> IF k < NextWord THEN data[k] ELSE {}]
      /\ UNCHANGED <<comp, clausesOfs>>
  BY DEF Close
<1>1. NextWord \in Nat /\ NextWord * BPB \in Nat /\ p * BPB + bp <= NextWord * BPB
  BY WordFollows
<1>2. p * BPB + bp = from + ClauseBits(comp, NClauses)
  BY <1>0 DEF KeyInv, Inv, Position
<1>3. DOMAIN data' = 0 .. NextWord + 1
  BY <1>0
<1>4. NClauses = 0 => NextWord = clausesOfs
  <2> SUFFICES ASSUME NClauses = 0 PROVE NextWord = clausesOfs
    OBVIOUS
  <2>1. ClauseBits(comp, 0) = 0 /\ from \in Nat /\ p * BPB \in Nat
    BY KeyFacts, ClauseBitsStep
  <2>2. p * BPB + bp = clausesOfs * BPB + 0 /\ 0 \in 0 .. BPB - 1
    BY <1>2, <2>1, KeyFacts, SMTT(30)
  <2>3. ~ (p * BPB + bp < clausesOfs * BPB + 0) /\ ~ (clausesOfs * BPB + 0 < p * BPB + bp)
    BY <2>1, <2>2
  <2>4. ~ (p < clausesOfs \/ (p = clausesOfs /\ bp < 0)) /\ ~ (clausesOfs < p \/ (clausesOfs = p /\ 0 < bp))
    BY <2>2, <2>3, KeyFacts, Order
  <2>5. p = clausesOfs /\ bp = 0
    BY <2>4, KeyFacts
  <2> QED
    BY <2>5 DEF NextWord
<1>5. ASSUME NEW at \in Nat PROVE at \in On(data') <=> at \in On(data)
  <2>1. PICK v \in Nat, b \in 0 .. BPB - 1 : at = v * BPB + b
    BY KeyFacts, WordOf
  <2>2. /\ at \in On(data) <=> v \in DOMAIN data /\ b \in data[v]
        /\ at \in On(data') <=> v \in DOMAIN data' /\ b \in data'[v]
    BY <2>1, KeyFacts, OnWord
  <2>3. CASE v < NextWord
    <3>1. v \in DOMAIN data
      <4>1. 0 .. p + 1 \in SUBSET DOMAIN data /\ p \in Nat
        BY <1>0, KeyFacts, CursorRoom
      <4>2. v \in 0 .. p + 1
        BY <2>3, <4>1 DEF NextWord
      <4> QED
        BY <4>1, <4>2
    <3>2. v \in 0 .. NextWord + 1
      BY <1>1, <2>3
    <3> QED
      BY <1>0, <2>2, <2>3, <3>1, <3>2
  <2>4. CASE ~ (v < NextWord)
    <3>1. at \notin On(data')
      BY <1>0, <2>2, <2>4
    <3>2. at \notin On(data)
      <4> SUFFICES ASSUME at \in On(data) PROVE FALSE
        OBVIOUS
      <4>1. v * BPB + b < p * BPB + bp
        BY <1>0, <2>1, NothingAhead
      <4>2. v < p \/ (v = p /\ b < bp)
        BY <4>1, KeyFacts, Order
      <4>3. p \in Nat /\ bp \in Nat /\ b \in Nat
        BY KeyFacts
      <4> QED
        BY <2>4, <4>2, <4>3 DEF NextWord
    <3> QED
      BY <3>1, <3>2
  <2> QED
    BY <2>3, <2>4
<1>6. On(data') = On(data)
  <2>1. On(data') \in SUBSET Nat /\ On(data) \in SUBSET Nat
    BY DEF On
  <2> QED
    BY <1>5, <2>1
<1>7. /\ On(data) = VarsOn(comp, NVars) \cup ClausesOn(comp, from, NClauses)
      /\ VarBits(comp, NVars) <= from
  BY <1>0 DEF KeyInv, Contents
<1>8. from + ClauseBits(comp, NClauses) <= NextWord * BPB
  BY <1>1, <1>2
<1>9. On(data') = KeyOn(comp, from)
  BY <1>6, <1>7 DEF KeyOn, NVars, NClauses
<1> QED
  BY <1>0, <1>3, <1>4, <1>7, <1>8, <1>9 DEF Contents, NVars, NClauses

(* Every step keeps the invariant.                                         *)
LEMMA KeyInvStep == KeyInv /\ [Next]_vars => KeyInv'
<1> SUFFICES ASSUME KeyInv, [Next]_vars PROVE KeyInv'
  OBVIOUS
<1>1. Inv'
  BY InvStep DEF KeyInv
<1>2. Contents'
  <2>1. CASE UNCHANGED vars
    BY <2>1 DEF vars, KeyInv, Contents, NVars, NClauses
  <2> QED
    BY <2>1, FirstVarContents, NextVarContents, CloseVarsContents, FirstClauseContents,
       NextClauseContents, CloseContents
    DEF Next, Done
<1> QED
  BY <1>1, <1>2 DEF KeyInv

(* The first clause takes its bits at least.                               *)
LEMMA FirstClauseBits ==
  ASSUME NEW c \in Component, Len(c.clauses) > 0
  PROVE  ClauseBits(c, 1) >= BitsFirstCls
<1>1. /\ BitsFirstCls \in Nat /\ WIDTH_HEADER_BITS \in Nat /\ Len(c.clauses) \in Nat
      /\ BitsFirstCls + WIDTH_HEADER_BITS >= BitsFirstCls
  BY Widths
<1>2. Len(c.clauses) = 1 \/ Len(c.clauses) > 1
  <2>1. \A n \in Nat : n > 0 => n = 1 \/ n > 1
    OBVIOUS
  <2> QED
    BY <1>1, <2>1
<1>3. ClauseBits(c, 1) = BitsFirstCls \/ ClauseBits(c, 1) = BitsFirstCls + WIDTH_HEADER_BITS
  BY <1>2, ClauseBitsStep
<1>4. BitsFirstCls >= BitsFirstCls
  BY <1>1
<1> QED
  BY <1>1, <1>3, <1>4

(* The variables are read from the key.                                    *)
LEMMA ReadVars ==
  ASSUME KeyInv, pc = "done"
  PROVE  comp.vars[1] = NumberAt(0, BitsFirstVar) /\ DiffsOf(comp.vars) = DiffsAt(BitsFirstVar, clausesOfs)
<1> DEFINE x == comp.vars[1]
           from == clausesOfs * BPB
           list == ListOn(comp.vars, BitsFirstVar, NVars)
           cls == ClausesOn(comp, from, NClauses)
<1>1. /\ On(data) = KeyOn(comp, from) /\ VarBits(comp, NVars) <= from
      /\ from + ClauseBits(comp, NClauses) <= p * BPB /\ DOMAIN data = 0 .. p + 1
  BY DEF KeyInv, Contents
<1>2. /\ Fit(comp.vars) /\ x \in 0 .. pow2[BitsFirstVar] - 1
      /\ BitsFirstVar \in Nat /\ BitsFirstVar \in 1 .. BPB - 1 /\ BitsFirstVar \in 0 .. BPB
      /\ WIDTH_HEADER_BITS \in Nat /\ from \in Nat /\ p \in Nat /\ BPB \in Nat \ {0}
      /\ NVars \in Nat \ {0} /\ NVars >= 2 /\ NVars = Len(comp.vars)
  BY KeyFacts, ComponentFits, SMTT(30)
<1>3. On(data) = Placed(0, x) \cup list \cup cls
  BY <1>1, <1>2 DEF KeyOn, VarsOn, NClauses
<1>4. DiffPlace(comp.vars, BitsFirstVar, NVars) = VarBits(comp, NVars)
  BY <1>2 DEF DiffPlace, VarBits
<1>5. /\ Placed(0, x) \in SUBSET (0 .. 0 + BitsFirstVar - 1)
      /\ \A k \in 0 .. BitsFirstVar - 1 : 0 + k \in Placed(0, x) <=> k \in Bits(x)
  <2>1. 0 \in Nat /\ BPB \in Nat
    BY <1>2
  <2> HIDE DEF x
  <2> QED
    BY <1>2, <2>1, PlacedWithin
<1>6. list \in SUBSET (BitsFirstVar .. VarBits(comp, NVars) - 1) /\ BitsFirstVar <= VarBits(comp, NVars)
  <2>1. NVars \in 1 .. Len(comp.vars) /\ 1 \in Nat \ {0} /\ 1 <= NVars
    BY <1>2
  <2>2. list \in SUBSET (BitsFirstVar .. DiffPlace(comp.vars, BitsFirstVar, NVars) - 1)
    BY <1>2, <2>1, ListHolds
  <2>3. /\ DiffPlace(comp.vars, BitsFirstVar, 1) = BitsFirstVar + WIDTH_HEADER_BITS
        /\ DiffPlace(comp.vars, BitsFirstVar, 1) <= DiffPlace(comp.vars, BitsFirstVar, NVars)
    BY <1>2, <2>1, DiffPlaces
  <2>4. VarBits(comp, NVars) \in Nat
    BY KeyFacts
  <2> QED
    BY <1>2, <1>4, <2>2, <2>3, <2>4
<1>7. cls \in SUBSET (from .. from + ClauseBits(comp, NClauses) - 1)
  <2>1. NClauses \in 0 .. Len(comp.clauses) /\ comp \in Component
    BY KeyFacts
  <2> HIDE DEF from
  <2> QED
    BY <1>2, <2>1, PackedBefore
<1>8. VarBits(comp, NVars) \in Nat /\ ClauseBits(comp, NClauses) \in Nat /\ p * BPB \in Nat
  BY KeyFacts
<1> HIDE DEF x, list, cls
<1>9. x = NumberAt(0, BitsFirstVar)
  <2>1. ASSUME NEW k \in 0 .. BitsFirstVar - 1
        PROVE  (0 + k) \div BPB \in DOMAIN data /\ (0 + k \in On(data) <=> k \in Bits(x))
    <3>1. k \in 0 .. BPB - 1 /\ 0 + k = k /\ k \notin BitsFirstVar .. VarBits(comp, NVars) - 1
          /\ k \notin from .. from + ClauseBits(comp, NClauses) - 1
      <4> HIDE DEF from
      <4> QED
        BY <1>1, <1>2, <1>6, <1>8
    <3>2. k \div BPB = 0
      BY <1>2, <3>1, DivisionSmall
    <3> QED
      BY <1>1, <1>2, <1>3, <1>5, <1>6, <1>7, <3>1, <3>2
  <2>2. NumberAt(0, BitsFirstVar) = x
    <3>1. 0 \in Nat /\ BPB \in Nat
      BY <1>2
    <3> QED
      BY <1>2, <2>1, <3>1, Read
  <2> QED
    BY <2>2
<1>10. clausesOfs <= p /\ clausesOfs \in Nat
  <2> SUFFICES ASSUME p < clausesOfs PROVE FALSE
    BY <1>2, KeyFacts
  <2>1. 0 \in 0 .. BPB - 1 /\ clausesOfs \in Nat
    BY <1>2, KeyFacts
  <2>2. p * BPB + 0 < clausesOfs * BPB + 0
    BY <1>2, <2>1, Order
  <2> QED
    BY <1>1, <1>2, <1>8, <2>2
<1>11. DiffsAt(BitsFirstVar, clausesOfs) = DiffsOf(comp.vars)
  <2>1. 0 .. clausesOfs \in SUBSET DOMAIN data
    BY <1>1, <1>2, <1>10
  <2>2. ASSUME NEW y \in BitsFirstVar .. from - 1
        PROVE  y \in On(data) <=> y \in ListOn(comp.vars, BitsFirstVar, Len(comp.vars))
    <3>1. y \notin 0 .. 0 + BitsFirstVar - 1 /\ y \notin from .. from + ClauseBits(comp, NClauses) - 1
      <4> HIDE DEF from
      <4> QED
        BY <1>2, <1>8
    <3>2. y \notin Placed(0, x) /\ y \notin cls
      BY <1>5, <1>7, <3>1
    <3> QED
      BY <1>2, <1>3, <3>2 DEF list
  <2>3. DiffPlace(comp.vars, BitsFirstVar, Len(comp.vars)) <= clausesOfs * BPB
    BY <1>1, <1>2, <1>4
  <2>4. Len(comp.vars) >= 2
    BY <1>2
  <2> QED
    BY <1>2, <1>10, <2>1, <2>2, <2>3, <2>4, ReadList
<1> QED
  BY <1>9, <1>11 DEF x

(* The clauses are read from the key, when there are any.                  *)
LEMMA ReadClauses ==
  ASSUME KeyInv, pc = "done", NClauses > 0
  PROVE  /\ comp.clauses[1] = NumberAt(clausesOfs * BPB, BitsFirstCls)
         /\ DiffsOf(comp.clauses) = DiffsAt(clausesOfs * BPB + BitsFirstCls, p)
<1> DEFINE x == comp.clauses[1]
           from == clausesOfs * BPB
           at0 == from + BitsFirstCls
           list == ListOn(comp.clauses, at0, NClauses)
           vs == VarsOn(comp, NVars)
<1>1. /\ On(data) = KeyOn(comp, from) /\ VarBits(comp, NVars) <= from
      /\ from + ClauseBits(comp, NClauses) <= p * BPB /\ DOMAIN data = 0 .. p + 1
  BY DEF KeyInv, Contents
<1>2. /\ comp \in Component /\ NVars \in 0 .. Len(comp.vars)
      /\ BitsFirstCls \in Nat /\ BitsFirstCls \in 1 .. BPB - 1 /\ BitsFirstCls \in 0 .. BPB
      /\ WIDTH_HEADER_BITS \in 1 .. BPB - 1 /\ WIDTH_HEADER_BITS \in 0 .. BPB
      /\ from \in Nat /\ p \in Nat /\ BPB \in Nat \ {0} /\ BPB \in Nat
      /\ NClauses \in Nat \ {0} /\ NClauses = Len(comp.clauses) /\ Len(comp.clauses) > 0
      /\ VarBits(comp, NVars) \in Nat /\ ClauseBits(comp, NClauses) \in Nat /\ p * BPB \in Nat
  BY KeyFacts, SMTT(30)
<1>3. Fit(comp.clauses) /\ x \in 0 .. pow2[BitsFirstCls] - 1
  BY <1>2, ComponentFits
<1>4. vs \in SUBSET (0 .. VarBits(comp, NVars) - 1)
  BY <1>2, PackedBefore
<1>5. /\ Placed(from, x) \in SUBSET (from .. from + BitsFirstCls - 1)
      /\ \A k \in 0 .. BitsFirstCls - 1 : from + k \in Placed(from, x) <=> k \in Bits(x)
  <2> HIDE DEF x, from
  <2> QED
    BY <1>2, <1>3, PlacedWithin
<1>6. at0 \in Nat /\ at0 <= from + ClauseBits(comp, NClauses)
  <2>1. 1 \in Nat /\ 1 <= NClauses
    BY <1>2
  <2>2. ClauseBits(comp, 1) <= ClauseBits(comp, NClauses) /\ ClauseBits(comp, 1) \in Nat
    BY <1>2, <2>1, ClauseBitsStep
  <2>3. ClauseBits(comp, 1) >= BitsFirstCls
    BY <1>2, FirstClauseBits
  <2> HIDE DEF from
  <2> QED
    BY <1>2, <2>2, <2>3
<1>7. /\ NClauses = 1 => On(data) = Placed(from, x) \cup vs
      /\ NClauses # 1 => On(data) = Placed(from, x) \cup list \cup vs
  BY <1>1, <1>2 DEF KeyOn, ClausesOn, NVars
<1>8. NClauses # 1 => /\ list \in SUBSET (at0 .. DiffPlace(comp.clauses, at0, NClauses) - 1)
                      /\ DiffPlace(comp.clauses, at0, NClauses) = from + ClauseBits(comp, NClauses)
  <2> SUFFICES ASSUME NClauses # 1
               PROVE  /\ list \in SUBSET (at0 .. DiffPlace(comp.clauses, at0, NClauses) - 1)
                      /\ DiffPlace(comp.clauses, at0, NClauses) = from + ClauseBits(comp, NClauses)
    OBVIOUS
  <2>1. NClauses \in 1 .. Len(comp.clauses)
    BY <1>2
  <2>2. list \in SUBSET (at0 .. DiffPlace(comp.clauses, at0, NClauses) - 1)
    <3> HIDE DEF at0
    <3> QED
      BY <1>3, <1>6, <2>1, ListHolds
  <2>3. ClauseBits(comp, NClauses)
          = BitsFirstCls + WIDTH_HEADER_BITS + (NClauses - 1) * Width(comp.clauses)
    BY <1>2 DEF ClauseBits
  <2>4. NClauses - 1 \in Nat /\ Width(comp.clauses) \in Nat
    BY <1>2, <1>3 DEF Fit
  <2>5. (NClauses - 1) * Width(comp.clauses) \in Nat
    BY <2>4, Product
  <2>6. DiffPlace(comp.clauses, at0, NClauses)
          = at0 + WIDTH_HEADER_BITS + (NClauses - 1) * Width(comp.clauses)
    BY DEF DiffPlace
  <2>7. at0 = from + BitsFirstCls /\ WIDTH_HEADER_BITS \in Nat
    BY <1>2
  <2> HIDE DEF at0, from
  <2> QED
    BY <1>2, <2>2, <2>3, <2>5, <2>6, <2>7
<1> HIDE DEF x, list, vs
<1>9. ASSUME NEW y \in 0 .. p * BPB - 1 PROVE y \div BPB \in DOMAIN data
  <2>1. PICK v \in Nat, b \in 0 .. BPB - 1 : y = v * BPB + b
    <3>1. y \in Nat
      BY <1>2
    <3> QED
      BY <1>2, <3>1, WordOf
  <2>2. y \div BPB = v
    BY <1>2, <2>1, OnWord
  <2>3. 0 \in 0 .. BPB - 1 /\ v * BPB + b < p * BPB + 0
    BY <1>2, <2>1
  <2>4. v < p \/ (v = p /\ b < 0)
    BY <1>2, <2>3, Order
  <2> QED
    BY <1>1, <1>2, <2>2, <2>4
<1>10. x = NumberAt(from, BitsFirstCls)
  <2>1. ASSUME NEW k \in 0 .. BitsFirstCls - 1
        PROVE  (from + k) \div BPB \in DOMAIN data /\ (from + k \in On(data) <=> k \in Bits(x))
    <3>1. from + k \in 0 .. p * BPB - 1 /\ from + k < at0 /\ from <= from + k
      <4> HIDE DEF from
      <4>1. at0 = from + BitsFirstCls
        BY DEF at0
      <4> HIDE DEF at0
      <4> QED
        BY <1>1, <1>2, <1>6, <4>1
    <3>2. from + k \notin vs
      <4> HIDE DEF from
      <4> QED
        BY <1>1, <1>2, <1>4, <3>1
    <3>3. NClauses # 1 => from + k \notin list
      <4> HIDE DEF from, at0
      <4> QED
        BY <1>2, <1>6, <1>8, <3>1
    <3> QED
      BY <1>5, <1>7, <1>9, <3>1, <3>2, <3>3
  <2>2. NumberAt(from, BitsFirstCls) = x
    <3> HIDE DEF from
    <3> QED
      BY <1>2, <1>3, <2>1, Read DEF x
  <2> QED
    BY <2>2
<1>11. 0 .. p \in SUBSET DOMAIN data
  BY <1>1, <1>2
<1>12. ASSUME NEW y \in at0 .. p * BPB - 1 PROVE y \notin Placed(from, x) /\ y \notin vs /\ y \in Nat
  <2>1. at0 = from + BitsFirstCls
    OBVIOUS
  <2> HIDE DEF from, at0
  <2>2. y \notin from .. from + BitsFirstCls - 1 /\ y \notin 0 .. VarBits(comp, NVars) - 1 /\ y \in Nat
    BY <1>1, <1>2, <1>6, <2>1
  <2> QED
    BY <1>4, <1>5, <2>2
<1>13. CASE NClauses = 1
  <2>1. WidthAt(at0, p) = 0
    <3>1. CASE at0 + WIDTH_HEADER_BITS <= p * BPB
      <4>1. ASSUME NEW k \in 0 .. WIDTH_HEADER_BITS - 1
            PROVE  (at0 + k) \div BPB \in DOMAIN data /\ (at0 + k \in On(data) <=> k \in Bits(0))
        <5> HIDE DEF at0, from
        <5>1. at0 + k \in at0 .. p * BPB - 1 /\ at0 + k \in 0 .. p * BPB - 1
          BY <1>2, <1>6, <3>1
        <5> QED
          BY <1>2, <1>7, <1>9, <1>12, <1>13, <5>1, BitsOfZero
      <4>2. 0 \in 0 .. pow2[WIDTH_HEADER_BITS] - 1
        <5>1. WIDTH_HEADER_BITS \in Nat
          BY <1>2
        <5>2. pow2[WIDTH_HEADER_BITS] \in Nat \ {0}
          BY <5>1, Powers
        <5> QED
          BY <5>2
      <4> HIDE DEF at0
      <4>3. NumberAt(at0, WIDTH_HEADER_BITS) = 0
        BY <1>2, <1>6, <4>1, <4>2, Read
      <4> QED
        BY <3>1, <4>3 DEF WidthAt
    <3>2. CASE ~ (at0 + WIDTH_HEADER_BITS <= p * BPB)
      BY <3>2 DEF WidthAt
    <3> QED
      BY <3>1, <3>2
  <2>2. DiffsOf(comp.clauses) = << >>
    BY <1>2, <1>13 DEF DiffsOf
  <2>3. DiffsAt(at0, p) = << >>
    <3> HIDE DEF at0
    <3>1. \A f : {k \in 1 .. 0 : f[k] # 0} = {}
      OBVIOUS
    <3>2. Cardinality({}) = 0
      BY FS_EmptySet
    <3>3. \A f : [j \in 1 .. 0 |-> f[j]] = << >>
      OBVIOUS
    <3> QED
      BY <2>1, <3>1, <3>2, <3>3 DEF DiffsAt
  <2> QED
    BY <1>10, <2>2, <2>3 DEF x
<1>14. CASE NClauses # 1
  <2>1. ASSUME NEW y \in at0 .. p * BPB - 1
        PROVE  y \in On(data) <=> y \in ListOn(comp.clauses, at0, Len(comp.clauses))
    BY <1>2, <1>7, <1>12, <1>14 DEF list
  <2>2. DiffPlace(comp.clauses, at0, Len(comp.clauses)) <= p * BPB
    BY <1>1, <1>2, <1>8, <1>14
  <2>3. Len(comp.clauses) >= 2
    <3>1. \A n \in Nat \ {0} : n # 1 => n >= 2
      OBVIOUS
    <3> QED
      BY <1>2, <1>14, <3>1
  <2> HIDE DEF at0
  <2>4. DiffsAt(at0, p) = DiffsOf(comp.clauses)
    BY <1>2, <1>3, <1>6, <1>11, <2>1, <2>2, <2>3, ReadList
  <2> QED
    BY <1>10, <2>4 DEF x, at0
<1> QED
  BY <1>13, <1>14

(* No two components share a key: what is packed of a component gives back *)
(* its variables and its clauses, whatever their numbers and the words.    *)
THEOREM KeyTells == Spec => []KeyTellsComponent
<1>1. Init => KeyInv
  BY InitInv, InitContents DEF KeyInv
<1>2. ASSUME KeyInv PROVE KeyTellsComponent
  <2> SUFFICES ASSUME pc = "done" PROVE KeyTellsComponent
    BY DEF KeyTellsComponent
  <2>1. Cardinality(DOMAIN data) - 2 = p
    <3>1. DOMAIN data = 0 .. p + 1 /\ p \in Nat
      BY <1>2, KeyFacts DEF KeyInv, Contents
    <3>2. Cardinality(0 .. p + 1) = (p + 1) - 0 + 1
      BY <3>1, FS_Interval
    <3> QED
      BY <3>1, <3>2
  <2>2. CASE NClauses = 0
    <3>1. p = clausesOfs
      BY <1>2, <2>2 DEF KeyInv, Contents
    <3>2. comp.clauses = << >>
      BY <1>2, <2>2, KeyFacts, ComponentAssumption
    <3> QED
      BY <1>2, <2>1, <3>1, <3>2, ReadVars DEF KeyTellsComponent
  <2>3. CASE NClauses > 0
    <3>1. p # clausesOfs
      <4>1. clausesOfs * BPB + ClauseBits(comp, NClauses) <= p * BPB
        BY <1>2 DEF KeyInv, Contents
      <4>2. 1 \in Nat /\ 1 <= NClauses /\ NClauses \in Nat /\ comp \in Component
            /\ BitsFirstCls \in 1 .. BPB - 1 /\ clausesOfs * BPB \in Nat
            /\ WIDTH_HEADER_BITS \in 1 .. BPB - 1
        BY <1>2, <2>3, KeyFacts
      <4>3. ClauseBits(comp, 1) <= ClauseBits(comp, NClauses) /\ ClauseBits(comp, 1) \in Nat
            /\ ClauseBits(comp, NClauses) \in Nat
        BY <4>2, ClauseBitsStep
      <4>4. ClauseBits(comp, 1) >= BitsFirstCls
        BY <1>2, <2>3, <4>2, KeyFacts, FirstClauseBits
      <4> QED
        BY <4>1, <4>2, <4>3, <4>4
    <3> QED
      BY <1>2, <2>1, <2>3, <3>1, ReadVars, ReadClauses DEF KeyTellsComponent
  <2> QED
    BY <1>2, <2>2, <2>3, KeyFacts
<1> QED
  BY <1>1, <1>2, KeyInvStep, PTL DEF Spec
=============================================================================
