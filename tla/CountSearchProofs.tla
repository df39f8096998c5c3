-------------------------- MODULE CountSearchProofs --------------------------
(***************************************************************************)
(* Proofs about the search.  The stacks of levels, of trail segments and   *)
(* of components grow and shrink together, and what lies below the fixed   *)
(* level is never touched again; so the clauses removed there are          *)
(* satisfied for the rest of the search, whatever the heuristics do and    *)
(* whatever is learnt.                                                     *)
(***************************************************************************)
EXTENDS CountSearch, Induction, FiniteSetTheorems, SequenceTheorems

(* A sequence, of whatever.                                                *)
Listed(s) == Len(s) \in Nat /\ s = [i \in 1 .. Len(s) |-> s[i]]

(* A decision has its fields; its components are those from base to top.   *)
Decided(d) ==
    /\ d = [dec |-> d.dec, base |-> d.base, top |-> d.top, second |-> d.second,
            models |-> d.models, weight |-> d.weight, dvars |-> d.dvars]
    /\ d.base \in Nat \ {0} /\ d.top \in Nat /\ d.base <= d.top

Stacks ==
    /\ Listed(trail) /\ Listed(comps) /\ Listed(decisions)
    /\ Len(trail) = Len(decisions)
    /\ Len(decisions) > 0
    /\ \A k \in 1 .. Len(decisions) : Decided(decisions[k])
    /\ \A i \in 1 .. Len(comps) : comps[i].vars \subseteq Vars

(* A decision splits the component on top, so its components begin where   *)
(* those of the level below end; a level that is decided or finished has,  *)
(* or has no, component left.                                              *)
Frames ==
    /\ Len(comps) = TopDecision.top
    /\ \A k \in 1 .. Len(decisions) - 1 :
          decisions[k].base < decisions[k].top /\ decisions[k + 1].base = decisions[k].top
    /\ pc = "decide" => TopDecision.base < TopDecision.top
    /\ pc \in {"main", "split", "conflict", "backtrack"} /\ ~ AtEntry =>
          TopDecision.top = TopDecision.base

(* The levels below the fixed one are in their second branch with a single *)
(* component, the one of the next level; once the search is back there, it *)
(* goes on backtracking.                                                   *)
FixedLevels ==
    /\ fixed \in Nat /\ preLevel \in Int
    /\ \A k \in 1 .. Len(decisions) : k <= fixed =>
          /\ decisions[k].second
          /\ decisions[k].top = decisions[k].base + (IF k < Len(decisions) THEN 1 ELSE 0)
    /\ pc \notin {"backtrack", "clean", "exit"} => fixed <= Level
    /\ InExists => fixed <= preLevel /\ preLevel <= Level

Removed ==
    fixed <= Level => \A c \in Formula \ clauses : c \cap AssignedUpTo(fixed - 1) # {}

Inv == Stacks /\ Frames /\ FixedLevels /\ Removed /\ input \in DOMAIN Inputs
-----------------------------------------------------------------------------
(* Sequences of whatever: what appending, cutting, joining and changing    *)
(* one element make of them.                                               *)
LEMMA ListedSeq ==
  ASSUME NEW s, Listed(s)
  PROVE  \E S : s \in Seq(S) /\ \A i \in 1 .. Len(s) : s[i] \in S
<1> DEFINE S == {s[i] : i \in 1 .. Len(s)}
<1>1. [i \in 1 .. Len(s) |-> s[i]] \in [1 .. Len(s) -> S]
  OBVIOUS
<1>2. s \in Seq(S)
  BY <1>1, IsASeq DEF Listed
<1> QED BY <1>2

LEMMA SeqListed ==
  ASSUME NEW S, NEW s \in Seq(S)
  PROVE  Listed(s)
BY LenProperties DEF Listed

LEMMA ListedFunction ==
  ASSUME NEW n \in Nat, NEW S, NEW f \in [1 .. n -> S]
  PROVE  Listed(f) /\ Len(f) = n
<1>1. f \in Seq(S)
  BY IsASeq
<1>2. Len(f) = n
  BY <1>1, LenProperties
<1> QED BY <1>1, <1>2, SeqListed

LEMMA ListedAppend ==
  ASSUME NEW s, Listed(s), NEW e
  PROVE  /\ Listed(Append(s, e)) /\ Len(Append(s, e)) = Len(s) + 1
         /\ \A i \in 1 .. Len(s) : Append(s, e)[i] = s[i]
         /\ Append(s, e)[Len(s) + 1] = e
<1>1. PICK S : s \in Seq(S)
  BY ListedSeq
<1> DEFINE T == S \cup {e}
<1>2. s \in Seq(T) /\ e \in T
  BY <1>1, SeqMonotonic
<1> HIDE DEF T
<1>3. Append(s, e) \in Seq(T)
  BY <1>2, AppendProperties
<1>4. Listed(Append(s, e))
  BY <1>3, SeqListed
<1>5. /\ Len(Append(s, e)) = Len(s) + 1
      /\ \A i \in 1 .. Len(s) : Append(s, e)[i] = s[i]
      /\ Append(s, e)[Len(s) + 1] = e
  BY <1>2, AppendProperties
<1> QED BY <1>4, <1>5

LEMMA ListedSubSeq ==
  ASSUME NEW s, Listed(s), NEW n \in 0 .. Len(s)
  PROVE  /\ Listed(SubSeq(s, 1, n)) /\ Len(SubSeq(s, 1, n)) = n
         /\ \A i \in 1 .. n : SubSeq(s, 1, n)[i] = s[i]
<1>1. PICK S : s \in Seq(S) /\ \A i \in 1 .. Len(s) : s[i] \in S
  BY ListedSeq
<1>2. Len(s) \in Nat
  BY DEF Listed
<1>3. SubSeq(s, 1, n) = [i \in 1 .. n |-> s[i]]
  BY <1>1, <1>2
<1>4. [i \in 1 .. n |-> s[i]] \in [1 .. n -> S] /\ n \in Nat
  BY <1>1, <1>2
<1>5. Listed([i \in 1 .. n |-> s[i]]) /\ Len([i \in 1 .. n |-> s[i]]) = n
  BY <1>4, ListedFunction
<1> QED BY <1>3, <1>5, Zenon

LEMMA ListedFront ==
  ASSUME NEW s, Listed(s), Len(s) > 0
  PROVE  /\ Listed(Front(s)) /\ Len(Front(s)) = Len(s) - 1
         /\ \A i \in 1 .. Len(s) - 1 : Front(s)[i] = s[i]
<1>1. Len(s) - 1 \in 0 .. Len(s)
  BY DEF Listed
<1> QED BY <1>1, ListedSubSeq DEF Front

LEMMA ListedConcat ==
  ASSUME NEW s, Listed(s), NEW t, Listed(t)
  PROVE  /\ Listed(s \o t) /\ Len(s \o t) = Len(s) + Len(t)
         /\ \A i \in 1 .. Len(s) : (s \o t)[i] = s[i]
         /\ \A i \in 1 .. Len(t) : (s \o t)[Len(s) + i] = t[i]
<1>1. PICK S : s \in Seq(S)
  BY ListedSeq
<1>2. PICK T : t \in Seq(T)
  BY ListedSeq
<1>3. s \in Seq(S \cup T) /\ t \in Seq(S \cup T)
  BY <1>1, <1>2, SeqMonotonic
<1>4. s \o t \in Seq(S \cup T) /\ Len(s \o t) = Len(s) + Len(t)
  BY <1>3, ConcatProperties
<1>5. \A i \in 1 .. Len(s) + Len(t) : (s \o t)[i] = IF i <= Len(s) THEN s[i] ELSE t[i - Len(s)]
  BY <1>3, ConcatProperties
<1>6. Len(s) \in Nat /\ Len(t) \in Nat
  BY DEF Listed
<1>7. ASSUME NEW i \in 1 .. Len(s) PROVE (s \o t)[i] = s[i]
  BY <1>5, <1>6
<1>8. ASSUME NEW i \in 1 .. Len(t) PROVE (s \o t)[Len(s) + i] = t[i]
  <2>1. Len(s) + i \in 1 .. Len(s) + Len(t) /\ ~ Len(s) + i <= Len(s) /\ (Len(s) + i) - Len(s) = i
    BY <1>6
  <2> QED BY <2>1, <1>5
<1> QED BY <1>4, <1>7, <1>8, SeqListed

LEMMA ListedExcept ==
  ASSUME NEW s, Listed(s), NEW n \in 1 .. Len(s), NEW e
  PROVE  LET t == [s EXCEPT ![n] = e]
         IN  /\ Listed(t) /\ Len(t) = Len(s) /\ t[n] = e
             /\ \A i \in 1 .. Len(s) : i # n => t[i] = s[i]
<1> DEFINE t == [s EXCEPT ![n] = e]
<1>1. PICK S : s \in Seq(S) /\ \A i \in 1 .. Len(s) : s[i] \in S
  BY ListedSeq
<1>2. Len(s) \in Nat
  BY DEF Listed
<1>3. s \in [1 .. Len(s) -> S]
  BY <1>1, LenProperties
<1>4. t \in [1 .. Len(s) -> S \cup {e}]
  BY <1>3
<1>5. Listed(t) /\ Len(t) = Len(s)
  BY <1>2, <1>4, ListedFunction
<1> QED BY <1>3, <1>5
-----------------------------------------------------------------------------
(* Counting does not touch the components and the branch of a decision.    *)
Same(e, d) ==
    Decided(e) /\ e.base = d.base /\ e.top = d.top /\ e.second = d.second /\ e.dec = d.dec

LEMMA CountingKeeps ==
  ASSUME NEW d, Decided(d), NEW val
  PROVE  /\ Same(d, d)
         /\ Same(IncreaseModels(d, val), d)
         /\ Same(MarkBranchUnsat(d), d)
         /\ Same([d EXCEPT !.weight = val], d)
         /\ Same([d EXCEPT !.dvars = val], d)
<1>1. Same(IncreaseModels(d, val), d)
  <2> DEFINE m == [d.models EXCEPT ![Branch(d)] = IF @ = <<>> THEN <<val>> ELSE <<@[1] * val>>]
  <2>1. IncreaseModels(d, val) = [d EXCEPT !.models = m]
    BY DEF IncreaseModels
  <2> HIDE DEF m
  <2> QED BY <2>1 DEF Same, Decided
<1>2. Same(MarkBranchUnsat(d), d)
  <2> DEFINE m == [d.models EXCEPT ![Branch(d)] = <<>>]
  <2>1. MarkBranchUnsat(d) = [d EXCEPT !.models = m]
    BY DEF MarkBranchUnsat
  <2> HIDE DEF m
  <2> QED BY <2>1 DEF Same, Decided
<1>3. Same([d EXCEPT !.weight = val], d) /\ Same([d EXCEPT !.dvars = val], d) /\ Same(d, d)
  BY DEF Same, Decided
<1> QED BY <1>1, <1>2, <1>3

LEMMA TopMoves ==
  ASSUME NEW d, Decided(d), NEW t \in Nat, d.base <= t
  PROVE  LET e == [d EXCEPT !.top = t]
         IN  Decided(e) /\ e.base = d.base /\ e.top = t /\ e.second = d.second /\ e.dec = d.dec
BY DEF Decided

LEMMA NextCompMoves ==
  ASSUME NEW d, Decided(d), d.base < d.top
  PROVE  /\ Decided(NextComp(d)) /\ NextComp(d).base = d.base
         /\ NextComp(d).top = d.top - 1 /\ NextComp(d).second = d.second /\ NextComp(d).dec = d.dec
<1>1. d.top - 1 \in Nat /\ d.base <= d.top - 1
  BY DEF Decided
<1>2. NextComp(d) = [d EXCEPT !.top = d.top - 1]
  BY DEF NextComp
<1> QED BY <1>1, <1>2, TopMoves

LEMMA SecondStarts ==
  ASSUME NEW d, Decided(d), NEW w
  PROVE  LET e == [d EXCEPT !.second = TRUE, !.weight = w]
         IN  Decided(e) /\ e.base = d.base /\ e.top = d.top /\ e.dec = d.dec
<1> DEFINE f == [d EXCEPT !.second = TRUE]
<1>1. Decided(f) /\ f.base = d.base /\ f.top = d.top /\ f.dec = d.dec
  <2>1. ASSUME NEW v
        PROVE  LET e == [d EXCEPT !.second = v]
               IN  Decided(e) /\ e.base = d.base /\ e.top = d.top /\ e.dec = d.dec
    BY DEF Decided
  <2> QED BY <2>1
<1> HIDE DEF f
<1>2. Same([f EXCEPT !.weight = w], f)
  BY <1>1, CountingKeeps
<1> QED BY <1>1, <1>2 DEF f, Same

LEMMA LitsWeightsKeeps ==
  ASSUME NEW d, Decided(d)
  PROVE  Same(MulLitsWeights(d), d)
BY CountingKeeps DEF MulLitsWeights

LEMMA SameTwice ==
  ASSUME NEW d, NEW e, NEW f, Same(f, e), Same(e, d)
  PROVE  Same(f, d)
BY DEF Same

(* Exchanging the decision on top.                                         *)
LEMMA SetTopExchanges ==
  ASSUME Stacks, NEW d, Decided(d)
  PROVE  /\ Listed(SetTop(d)) /\ Len(SetTop(d)) = Len(decisions)
         /\ SetTop(d)[Len(decisions)] = d
         /\ \A k \in 1 .. Len(decisions) - 1 : SetTop(d)[k] = decisions[k]
         /\ \A k \in 1 .. Len(decisions) : Decided(SetTop(d)[k])
<1>1. Len(decisions) \in 1 .. Len(decisions) /\ Listed(decisions) /\ Len(decisions) \in Nat
  BY DEF Stacks, Listed
<1>2. /\ Listed(SetTop(d)) /\ Len(SetTop(d)) = Len(decisions)
      /\ SetTop(d)[Len(decisions)] = d
      /\ \A k \in 1 .. Len(decisions) : k # Len(decisions) => SetTop(d)[k] = decisions[k]
  BY <1>1, ListedExcept DEF SetTop
<1>3. ASSUME NEW k \in 1 .. Len(decisions) PROVE Decided(SetTop(d)[k])
  BY <1>2, SMTT(30) DEF Stacks
<1> QED BY <1>1, <1>2, <1>3

(* Exchanging the decision below it, and leaving the one on top out.       *)
LEMMA PopExchanges ==
  ASSUME Stacks, Len(decisions) > 1, NEW d
  PROVE  LET n == Len(decisions)
             t == Append(SubSeq(decisions, 1, n - 2), d)
         IN  /\ Listed(t) /\ Len(t) = n - 1 /\ t[n - 1] = d
             /\ \A k \in 1 .. n - 2 : t[k] = decisions[k]
<1> DEFINE n == Len(decisions)
           s == SubSeq(decisions, 1, n - 2)
<1>1. Listed(decisions) /\ n \in Nat /\ n - 2 \in 0 .. n /\ (n - 2) + 1 = n - 1
  BY DEF Stacks, Listed
<1>2. Listed(s) /\ Len(s) = n - 2 /\ \A k \in 1 .. n - 2 : s[k] = decisions[k]
  BY <1>1, ListedSubSeq
<1> HIDE DEF s
<1>3. /\ Listed(Append(s, d)) /\ Len(Append(s, d)) = (n - 2) + 1
      /\ \A i \in 1 .. n - 2 : Append(s, d)[i] = s[i]
      /\ Append(s, d)[(n - 2) + 1] = d
  BY <1>2, ListedAppend
<1> QED BY <1>1, <1>2, <1>3 DEF s

(* Exchanging the literals of the current level.                           *)
SetTrail(L) == [trail EXCEPT ![Level + 1] = L]

LEMMA SetTrailExchanges ==
  ASSUME Stacks, NEW L
  PROVE  /\ Listed(SetTrail(L)) /\ Len(SetTrail(L)) = Len(trail)
         /\ SetTrail(L)[Len(trail)] = L
         /\ \A i \in 1 .. Len(trail) - 1 : SetTrail(L)[i] = trail[i]
<1>1. Level + 1 = Len(trail)
  BY DEF Stacks, Listed, Level
<1>2. SetTrail(L) = [trail EXCEPT ![Len(trail)] = L]
  BY <1>1 DEF SetTrail
<1> DEFINE t == [trail EXCEPT ![Len(trail)] = L]
<1>3. Listed(trail) /\ Len(trail) \in 1 .. Len(trail) /\ Len(trail) \in Nat
  BY DEF Stacks, Listed
<1>4. /\ Listed(t) /\ Len(t) = Len(trail) /\ t[Len(trail)] = L
      /\ \A i \in 1 .. Len(trail) : i # Len(trail) => t[i] = trail[i]
  BY <1>3, ListedExcept
<1> HIDE DEF t
<1>5. SetTrail(L) = t
  BY <1>2 DEF t
<1> QED BY <1>3, <1>4, <1>5

LEMMA TopIsDecided ==
  ASSUME Stacks
  PROVE  /\ Decided(TopDecision) /\ TopDecision = decisions[Len(decisions)]
         /\ Len(decisions) \in Nat \ {0} /\ Level \in Nat /\ Level = Len(decisions) - 1
BY DEF Stacks, Listed, TopDecision, Last, Level
-----------------------------------------------------------------------------
(* Literals that are only added to satisfy what they satisfied before.     *)
LEMMA RemovedKept ==
  ASSUME Inv, input' = input, clauses' = clauses, fixed' = fixed,
         fixed <= Level, \A i \in 1 .. fixed : trail[i] \subseteq trail'[i]
  PROVE  Removed'
<1> SUFFICES ASSUME NEW c \in Formula \ clauses
             PROVE  c \cap UNION {trail'[i] : i \in 1 .. fixed} # {}
  BY DEF Removed, AssignedUpTo, Formula, Inv, FixedLevels
<1>1. c \cap UNION {trail[i] : i \in 1 .. fixed} # {}
  BY DEF Removed, AssignedUpTo, Inv, FixedLevels
<1>2. PICK i \in 1 .. fixed : c \cap trail[i] # {}
  BY <1>1
<1> QED BY <1>2

(* A step that keeps the components and the control of the decisions, and  *)
(* adds literals to the current level if any.                              *)
Quiet ==
    /\ input' = input /\ clauses' = clauses /\ fixed' = fixed /\ comps' = comps
    /\ decisions' = decisions \/ \E d : Same(d, TopDecision) /\ decisions' = SetTop(d)
    /\ trail' = trail \/ \E L : trail' = SetTrail(trail[Level + 1] \cup L)

LEMMA QuietDecisions ==
  ASSUME Stacks, decisions' = decisions \/ \E d : Same(d, TopDecision) /\ decisions' = SetTop(d)
  PROVE  /\ Listed(decisions') /\ Len(decisions') = Len(decisions)
         /\ \A k \in 1 .. Len(decisions) : Same(decisions'[k], decisions[k])
         /\ Level' = Level /\ Same(TopDecision', TopDecision)
<1>1. Len(decisions) \in Nat \ {0} /\ TopDecision = decisions[Len(decisions)]
  BY TopIsDecided
<1>2. CASE decisions' = decisions
  BY <1>1, <1>2 DEF Stacks, Same, Level, TopDecision, Last
<1>3. CASE \E d : Same(d, TopDecision) /\ decisions' = SetTop(d)
  <2>1. PICK d : Same(d, TopDecision) /\ decisions' = SetTop(d)
    BY <1>3
  <2>2. Decided(d)
    BY <2>1 DEF Same
  <2>3. /\ Listed(decisions') /\ Len(decisions') = Len(decisions)
        /\ decisions'[Len(decisions)] = d
        /\ \A k \in 1 .. Len(decisions) - 1 : decisions'[k] = decisions[k]
    BY <2>1, <2>2, SetTopExchanges
  <2>4. ASSUME NEW k \in 1 .. Len(decisions) PROVE Same(decisions'[k], decisions[k])
    <3>1. CASE k = Len(decisions)
      BY <1>1, <2>1, <2>3, <3>1
    <3>2. CASE k # Len(decisions)
      <4>1. k \in 1 .. Len(decisions) - 1
        BY <1>1, <3>2
      <4> QED BY <2>3, <4>1 DEF Stacks, Same
    <3> QED BY <3>1, <3>2
  <2>5. Level' = Level /\ TopDecision' = decisions'[Len(decisions)]
    BY <2>3 DEF Level, TopDecision, Last
  <2> QED BY <1>1, <2>1, <2>3, <2>4, <2>5
<1> QED BY <1>2, <1>3

LEMMA QuietTrail ==
  ASSUME Stacks, trail' = trail \/ \E L : trail' = SetTrail(trail[Level + 1] \cup L)
  PROVE  /\ Listed(trail') /\ Len(trail') = Len(trail)
         /\ \A i \in 1 .. Len(trail) : trail[i] \subseteq trail'[i]
<1>1. CASE trail' = trail
  BY <1>1 DEF Stacks
<1>2. CASE \E L : trail' = SetTrail(trail[Level + 1] \cup L)
  <2>1. PICK L : trail' = SetTrail(trail[Level + 1] \cup L)
    BY <1>2
  <2>2. Level + 1 = Len(trail) /\ Len(trail) \in Nat
    BY TopIsDecided DEF Stacks
  <2>3. /\ Listed(trail') /\ Len(trail') = Len(trail)
        /\ trail'[Len(trail)] = trail[Len(trail)] \cup L
        /\ \A i \in 1 .. Len(trail) - 1 : trail'[i] = trail[i]
    BY <2>1, <2>2, SetTrailExchanges
  <2>4. ASSUME NEW i \in 1 .. Len(trail) PROVE trail[i] \subseteq trail'[i]
    <3>1. i = Len(trail) \/ i \in 1 .. Len(trail) - 1
      BY <2>2
    <3> QED BY <2>3, <3>1
  <2> QED BY <2>3, <2>4
<1> QED BY <1>1, <1>2

LEMMA QuietStep ==
  ASSUME Inv, Quiet,
         preLevel' \in Int, preLevel' >= 0 => fixed <= preLevel' /\ preLevel' <= Level,
         pc' = "decide" => TopDecision.base < TopDecision.top,
         pc' \in {"main", "split", "conflict", "backtrack"} /\ ~ AtEntry' =>
             TopDecision.top = TopDecision.base,
         pc' \notin {"backtrack", "clean", "exit"} => fixed <= Level
  PROVE  Inv'
<1> USE DEF Inv
<1>1. /\ Listed(decisions') /\ Len(decisions') = Len(decisions)
      /\ \A k \in 1 .. Len(decisions) : Same(decisions'[k], decisions[k])
      /\ Level' = Level /\ Same(TopDecision', TopDecision)
  BY QuietDecisions DEF Quiet
<1>2. /\ Listed(trail') /\ Len(trail') = Len(trail)
      /\ \A i \in 1 .. Len(trail) : trail[i] \subseteq trail'[i]
  BY QuietTrail DEF Quiet
<1>3. Len(decisions) \in Nat \ {0} /\ Level = Len(decisions) - 1 /\ Level \in Nat
  BY TopIsDecided
<1>4. Stacks'
  <2>1. \A k \in 1 .. Len(decisions') : Decided(decisions'[k])
    BY <1>1 DEF Same
  <2>2. \A i \in 1 .. Len(comps') : comps'[i].vars \subseteq Vars'
    BY DEF Quiet, Stacks, Vars
  <2> QED BY <1>1, <1>2, <2>1, <2>2 DEF Stacks, Quiet
<1>5. Frames'
  <2>1. Len(comps') = TopDecision'.top
    BY <1>1 DEF Frames, Quiet, Same
  <2>2. ASSUME NEW k \in 1 .. Len(decisions') - 1
        PROVE  decisions'[k].base < decisions'[k].top /\ decisions'[k + 1].base = decisions'[k].top
    <3>1. k \in 1 .. Len(decisions) /\ k + 1 \in 1 .. Len(decisions) /\ k \in 1 .. Len(decisions) - 1
      BY <1>1, <1>3
    <3> QED BY <1>1, <3>1 DEF Frames, Same
  <2> QED BY <1>1, <2>1, <2>2 DEF Frames, Same
<1>6. FixedLevels'
  <2>1. ASSUME NEW k \in 1 .. Len(decisions'), k <= fixed'
        PROVE  decisions'[k].second /\
               decisions'[k].top = decisions'[k].base + (IF k < Len(decisions') THEN 1 ELSE 0)
    BY <1>1, <2>1 DEF FixedLevels, Same, Quiet
  <2> QED BY <1>1, <2>1 DEF FixedLevels, Quiet, InExists
<1>7. Removed'
  <2>1. CASE fixed <= Level
    <3>1. \A i \in 1 .. fixed : i \in 1 .. Len(trail)
      BY <1>3, <2>1 DEF FixedLevels, Stacks
    <3> QED BY <1>2, <2>1, <3>1, RemovedKept DEF Quiet
  <2>2. CASE ~ fixed <= Level
    BY <1>1, <2>2 DEF Removed, Quiet
  <2> QED BY <2>1, <2>2
<1> QED BY <1>4, <1>5, <1>6, <1>7 DEF Quiet
-----------------------------------------------------------------------------
LEMMA PropagationStep == ASSUME Inv, Propagation PROVE Inv'
<1>1. PICK new :
        /\ trail' = [trail EXCEPT ![Level + 1] = @ \cup new]
        /\ decisions' = IF Level = 0 \/ InExists THEN decisions
                        ELSE SetTop([TopDecision EXCEPT !.weight = @ * WeightOf(Counted(new))])
        /\ pc' \in {"conflict", "split"}
  BY DEF Propagation
<1>2. trail' = SetTrail(trail[Level + 1] \cup new)
  BY <1>1 DEF SetTrail
<1>3. decisions' = decisions \/ \E d : Same(d, TopDecision) /\ decisions' = SetTop(d)
  <2>1. Decided(TopDecision)
    BY TopIsDecided DEF Inv
  <2>2. \A w : Same([TopDecision EXCEPT !.weight = w], TopDecision)
    BY <2>1, CountingKeeps
  <2> DEFINE w == TopDecision.weight * WeightOf(Counted(new))
  <2>3. decisions' = decisions \/ decisions' = SetTop([TopDecision EXCEPT !.weight = w])
    BY <1>1
  <2> HIDE DEF w
  <2> QED BY <2>2, <2>3
<1>4. Quiet
  BY <1>2, <1>3 DEF Quiet, Propagation
<1>5. pc = "main" /\ preLevel' = preLevel /\ Level' = Level
  BY <1>3, QuietDecisions DEF Propagation, Inv
<1> QED BY <1>1, <1>4, <1>5, QuietStep DEF Inv, FixedLevels, Frames, InExists, AtEntry

LEMMA ConflictStep == ASSUME Inv, Conflict PROVE Inv'
<1>1. Decided(TopDecision)
  BY TopIsDecided DEF Inv
<1>2. decisions' = decisions \/ decisions' = SetTop(MarkBranchUnsat(TopDecision))
  BY DEF Conflict
<1>3. decisions' = decisions \/ \E d : Same(d, TopDecision) /\ decisions' = SetTop(d)
  BY <1>1, <1>2, CountingKeeps
<1>4. Quiet
  BY <1>3 DEF Quiet, Conflict
<1>5. /\ pc = "conflict" /\ ~ AtEntry /\ pc' \in {"exit", "backtrack"}
      /\ preLevel' = preLevel /\ Level' = Level
  BY <1>3, QuietDecisions DEF Conflict, Inv
<1> QED BY <1>4, <1>5, QuietStep DEF Inv, FixedLevels, Frames, InExists, AtEntry

LEMMA ConflictAtEntryStep == ASSUME Inv, ConflictAtEntry PROVE Inv'
<1>1. Quiet
  BY DEF Quiet, ConflictAtEntry
<1>2. pc = "conflict" /\ preLevel' = -1 /\ pc' = "refuted"
  BY DEF ConflictAtEntry
<1> QED BY <1>1, <1>2, QuietStep DEF Inv, FixedLevels

LEMMA StartExistsStep == ASSUME Inv, StartExists PROVE Inv'
<1>1. Quiet
  BY DEF Quiet, StartExists, search
<1>2. /\ pc = "exists" /\ preLevel' = Level /\ pc' = "main"
      /\ TopDecision.base < TopDecision.top /\ Level' = Level /\ Level \in Nat
  BY TopIsDecided DEF StartExists, Unprojected, HasUnprocessedComp, Level, Inv
<1>3. AtEntry'
  BY <1>2 DEF AtEntry, InExists
<1> QED BY <1>1, <1>2, <1>3, QuietStep DEF Inv, FixedLevels

LEMMA ExistsDoneStep == ASSUME Inv, ExistsDone PROVE Inv'
<1>1. Quiet
  BY DEF Quiet, ExistsDone, search
<1>2. /\ pc = "exists" /\ preLevel' = preLevel
      /\ pc' = IF TopDecision.base < TopDecision.top THEN "decide" ELSE "backtrack"
  BY DEF ExistsDone, HasUnprocessedComp
<1>3. TopDecision.base \in Nat /\ TopDecision.top \in Nat /\ TopDecision.base <= TopDecision.top
  BY TopIsDecided DEF Decided, Inv
<1> QED BY <1>1, <1>2, <1>3, QuietStep DEF Inv, FixedLevels, InExists

LEMMA ExistsFalseStep == ASSUME Inv, ExistsFalse PROVE Inv'
<1>1. Decided(TopDecision)
  BY TopIsDecided DEF Inv
<1>2. decisions' = SetTop(MarkBranchUnsat(TopDecision))
  BY DEF ExistsFalse
<1>3. trail' = trail \/ \E L : trail' = SetTrail(trail[Level + 1] \cup L)
  BY DEF ExistsFalse, InternalSATFalse, InternalSAT, LearnBelow, SetTrail
<1>4. Quiet
  BY <1>1, <1>2, <1>3, CountingKeeps DEF Quiet, ExistsFalse
<1>5. pc' = "clean" /\ preLevel' = preLevel
  BY DEF ExistsFalse
<1> QED BY <1>4, <1>5, QuietStep DEF Inv, FixedLevels, InExists

LEMMA BacktrackRootStep == ASSUME Inv, BacktrackRoot PROVE Inv'
<1>1. Quiet
  BY DEF Quiet, BacktrackRoot, search
<1>2. pc' = "exit" /\ preLevel' = preLevel
  BY DEF BacktrackRoot
<1> QED BY <1>1, <1>2, QuietStep DEF Inv, FixedLevels, InExists

LEMMA BacktrackEntryStep == ASSUME Inv, BacktrackEntry PROVE Inv'
<1>1. Quiet
  BY DEF Quiet, BacktrackEntry, search
<1>2. pc' = "refuted" /\ preLevel' = -1 /\ fixed <= Level
  BY DEF BacktrackEntry, AtEntry, InExists, Inv, FixedLevels
<1> QED BY <1>1, <1>2, QuietStep
-----------------------------------------------------------------------------
(* The components found are made of variables of the component being       *)
(* split, and there are finitely many.                                     *)
LEMMA ComponentOnTop ==
  ASSUME Inv
  PROVE  /\ Len(comps) \in Nat \ {0} /\ Super = comps[Len(comps)]
         /\ Super.vars \subseteq Vars /\ IsFiniteSet(Vars)
<1>1. Len(comps) \in Nat \ {0}
  BY TopIsDecided DEF Inv, Frames, Stacks, Listed, Decided
<1>2. Inputs[input].nvars \in Nat
  BY InputsAssumption DEF Inv
<1>3. IsFiniteSet(Vars)
  BY <1>2, FS_Interval DEF Vars
<1> QED BY <1>1, <1>3 DEF Super, Last, Inv, Stacks

LEMMA ReachWithin ==
  ASSUME NEW v \in Active, IsFiniteSet(Active)
  PROVE  Reach(v) \in SUBSET Active
<1> DEFINE P == SUBSET Active
           step == [n \in Nat |-> [V \in P |-> V \cup Neighbours(V)]]
           within[n \in Nat] == IF n = 0 THEN {v} ELSE within[n - 1] \cup Neighbours(within[n - 1])
<1>1. \A V \in P : V \cup Neighbours(V) \in P
  BY DEF Neighbours
<1>2. {v} \in P /\ step \in [Nat -> [P -> P]]
  BY <1>1
<1>3. \A n \in Nat, V \in P : step[n][V] = V \cup Neighbours(V)
  OBVIOUS
<1> HIDE DEF P, step, within
<1>4. PICK f \in [Nat -> P] : \A n \in Nat : f[n] = IF n = 0 THEN {v} ELSE step[n][f[n - 1]]
  <2>1. ASSUME NEW first \in P, NEW up \in [Nat -> [P -> P]]
        PROVE  \E f \in [Nat -> P] : \A n \in Nat : f[n] = IF n = 0 THEN first ELSE up[n][f[n - 1]]
    BY Recursion, Z3
  <2> QED BY <1>2, <2>1
<1>5. ASSUME NEW n \in Nat PROVE f[n] = IF n = 0 THEN {v} ELSE f[n - 1] \cup Neighbours(f[n - 1])
  <2>1. n # 0 => f[n - 1] \in P
    OBVIOUS
  <2> QED BY <1>3, <1>4, <2>1
<1>6. f = [n \in Nat |-> IF n = 0 THEN {v} ELSE f[n - 1] \cup Neighbours(f[n - 1])]
  BY <1>4, <1>5
<1>7. within = [n \in Nat |-> IF n = 0 THEN {v} ELSE within[n - 1] \cup Neighbours(within[n - 1])]
  BY <1>6, Zenon DEF within
<1>8. Reach(v) = within[Cardinality(Active)] /\ Cardinality(Active) \in Nat
  BY FS_CardinalityType DEF Reach, within
<1> DEFINE N == {n \in Nat : within[n] \in P}
<1>9. N = Nat
  <2>1. N \in SUBSET Nat /\ 0 \in N
    BY <1>2, <1>7
  <2>2. ASSUME NEW n \in N PROVE n + 1 \in N
    <3>1. n + 1 \in Nat /\ n + 1 # 0 /\ (n + 1) - 1 = n
      OBVIOUS
    <3>2. within[n + 1] = within[n] \cup Neighbours(within[n])
      BY <1>7, <3>1
    <3> QED BY <1>1, <3>1, <3>2 DEF P
  <2> HIDE DEF N
  <2> QED BY <2>1, <2>2, NumberInduction
<1> QED BY <1>8, <1>9 DEF P

LEMMA FoundWithin ==
  ASSUME Inv
  PROVE  IsFiniteSet(Found) /\ \A c \in Found : c.vars \subseteq Vars
<1>1. Active \subseteq Vars /\ IsFiniteSet(Active)
  BY ComponentOnTop, FS_Subset DEF Active
<1> DEFINE comp(V) == [vars |-> V, cls |-> {c \in ActiveClauses : Cardinality(c) > 2 /\ VarsOf(c) \cap V # {}}]
           All == {comp(V) : V \in SUBSET Active}
           f == [V \in SUBSET Active |-> comp(V)]
<1>2. ASSUME NEW c \in Found PROVE c \in All
  <2>1. PICK v \in UNION {VarsOf(d) \cap Active : d \in ActiveClauses} : c = comp(Reach(v))
    BY DEF Found
  <2>2. Reach(v) \in SUBSET Active
    BY <1>1, <2>1, ReachWithin
  <2> HIDE DEF comp
  <2> QED BY <2>1, <2>2
<1>3. \A c \in All : c.vars \subseteq Active
  OBVIOUS
<1>4. IsFiniteSet(All)
  <2>1. IsFiniteSet(SUBSET Active)
    BY <1>1, FS_SUBSET
  <2>2. f \in Surjection(SUBSET Active, All)
    <3> HIDE DEF comp
    <3> QED BY DEF Surjection
  <2> HIDE DEF f, All
  <2> QED BY <2>1, <2>2, FS_Surjection
<1> HIDE DEF All
<1> QED BY <1>1, <1>2, <1>3, <1>4, FS_Subset

(* What splitComponent() pushes is a sequence of them.                     *)
LEMMA AscendingIsListed ==
  ASSUME NEW C, IsFiniteSet(C), NEW new \in Ascending(C)
  PROVE  Listed(new) /\ \A i \in 1 .. Len(new) : new[i] \in C
<1>1. Cardinality(C) \in Nat /\ new \in [1 .. Cardinality(C) -> C]
  BY FS_CardinalityType DEF Ascending
<1>2. Listed(new) /\ Len(new) = Cardinality(C)
  BY <1>1, ListedFunction
<1> QED BY <1>1, <1>2
-----------------------------------------------------------------------------
(* A step that exchanges the decision on top, the literals of its level    *)
(* and the components above those of the level below.                      *)
LEMMA TopStep ==
  ASSUME Inv, NEW d, Decided(d), d.base = TopDecision.base, decisions' = SetTop(d),
         input' = input, clauses' = clauses, fixed' = fixed, preLevel' = preLevel,
         Listed(comps'), Len(comps') = d.top, \A i \in 1 .. Len(comps') : comps'[i].vars \subseteq Vars,
         Listed(trail'), Len(trail') = Len(trail), \A i \in 1 .. Len(trail) - 1 : trail'[i] = trail[i],
         Level < fixed => d.second /\ d.top = d.base,
         pc' = "decide" => d.base < d.top,
         pc' \in {"main", "split", "conflict", "backtrack"} /\ ~ AtEntry => d.top = d.base,
         pc' \notin {"backtrack", "clean", "exit"} => fixed <= Level
  PROVE  Inv'
<1> USE DEF Inv
<1>1. /\ Listed(decisions') /\ Len(decisions') = Len(decisions)
      /\ decisions'[Len(decisions)] = d
      /\ \A k \in 1 .. Len(decisions) - 1 : decisions'[k] = decisions[k]
      /\ \A k \in 1 .. Len(decisions) : Decided(decisions'[k])
  BY SetTopExchanges
<1>2. /\ Len(decisions) \in Nat \ {0} /\ Level = Len(decisions) - 1 /\ Level \in Nat
      /\ TopDecision = decisions[Len(decisions)] /\ Len(trail) = Len(decisions)
  BY TopIsDecided DEF Stacks
<1>3. Level' = Level /\ TopDecision' = d /\ AtEntry' = AtEntry /\ InExists' = InExists
  BY <1>1 DEF Level, TopDecision, Last, AtEntry, InExists
<1>4. Stacks'
  BY <1>1, <1>2 DEF Stacks, Vars
<1>5. Frames'
  <2>1. ASSUME NEW k \in 1 .. Len(decisions') - 1
        PROVE  decisions'[k].base < decisions'[k].top /\ decisions'[k + 1].base = decisions'[k].top
    <3>1. k \in 1 .. Len(decisions) - 1 /\ decisions'[k] = decisions[k]
      BY <1>1, <1>2
    <3>2. decisions[k].base < decisions[k].top /\ decisions[k + 1].base = decisions[k].top
      BY <3>1 DEF Frames
    <3>3. CASE k + 1 = Len(decisions)
      BY <1>1, <1>2, <3>1, <3>2, <3>3
    <3>4. CASE k + 1 # Len(decisions)
      <4>1. k + 1 \in 1 .. Len(decisions) - 1
        BY <1>2, <3>1, <3>4
      <4> QED BY <1>1, <3>1, <3>2, <4>1
    <3> QED BY <3>3, <3>4
  <2> QED BY <1>3, <2>1 DEF Frames
<1>6. FixedLevels'
  <2>1. ASSUME NEW k \in 1 .. Len(decisions'), k <= fixed'
        PROVE  decisions'[k].second /\
               decisions'[k].top = decisions'[k].base + (IF k < Len(decisions') THEN 1 ELSE 0)
    <3>1. CASE k = Len(decisions)
      <4>1. d.second /\ d.top = d.base /\ d.base \in Nat
        BY <1>2, <2>1, <3>1 DEF FixedLevels, Decided
      <4> QED BY <1>1, <1>2, <3>1, <4>1
    <3>2. CASE k # Len(decisions)
      <4>1. k \in 1 .. Len(decisions) - 1 /\ k < Len(decisions)
        BY <1>1, <1>2, <3>2
      <4> QED BY <1>1, <1>2, <2>1, <4>1 DEF FixedLevels
    <3> QED BY <3>1, <3>2
  <2> QED BY <1>3, <2>1 DEF FixedLevels
<1>7. Removed'
  <2>1. CASE fixed <= Level
    <3>1. \A i \in 1 .. fixed : i \in 1 .. Len(trail) - 1
      BY <1>2, <2>1 DEF FixedLevels
    <3> QED BY <2>1, <3>1, RemovedKept
  <2>2. CASE ~ fixed <= Level
    BY <1>3, <2>2 DEF Removed
  <2> QED BY <2>1, <2>2
<1> QED BY <1>4, <1>5, <1>6, <1>7

LEMMA SplitComponentStep == ASSUME Inv, SplitComponent PROVE Inv'
<1>1. PICK kept \in {cache, {}} :
        \E new \in Ascending({c \in Found : \A e \in kept : e.comp # c}) :
           /\ comps' = comps \o new
           /\ \E val :
                decisions' = SetTop([TopDecision EXCEPT !.top = Len(comps) + Len(new)])
                \/ decisions' = SetTop(IncreaseModels([TopDecision EXCEPT !.top = Len(comps) + Len(new)], val))
           /\ \/ new = <<>> /\ pc' = "backtrack"
              \/ new # <<>> /\ pc' \in {"decide", "exists"}
  BY DEF SplitComponent
<1> DEFINE C == {c \in Found : \A e \in kept : e.comp # c}
<1>2. IsFiniteSet(C) /\ \A c \in C : c.vars \subseteq Vars
  BY FoundWithin, FS_Subset
<1>3. PICK new \in Ascending(C) :
           /\ comps' = comps \o new
           /\ \E val :
                decisions' = SetTop([TopDecision EXCEPT !.top = Len(comps) + Len(new)])
                \/ decisions' = SetTop(IncreaseModels([TopDecision EXCEPT !.top = Len(comps) + Len(new)], val))
           /\ \/ new = <<>> /\ pc' = "backtrack"
              \/ new # <<>> /\ pc' \in {"decide", "exists"}
  BY <1>1
<1> HIDE DEF C
<1>4. Listed(new) /\ \A i \in 1 .. Len(new) : new[i].vars \subseteq Vars
  BY <1>2, AscendingIsListed
<1>5. /\ Listed(comps) /\ Len(comps) = TopDecision.top /\ Decided(TopDecision)
      /\ \A i \in 1 .. Len(comps) : comps[i].vars \subseteq Vars
  BY TopIsDecided DEF Inv, Stacks, Frames
<1>6. Len(new) \in Nat /\ Len(comps) \in Nat
  BY <1>4, <1>5 DEF Listed
<1>7. /\ Listed(comps') /\ Len(comps') = Len(comps) + Len(new)
      /\ \A i \in 1 .. Len(comps') : comps'[i].vars \subseteq Vars
  <2>1. /\ Listed(comps') /\ Len(comps') = Len(comps) + Len(new)
        /\ \A i \in 1 .. Len(comps) : comps'[i] = comps[i]
        /\ \A i \in 1 .. Len(new) : comps'[Len(comps) + i] = new[i]
    <3>1. comps' = comps \o new /\ Listed(comps) /\ Listed(new)
      BY <1>3, <1>4, <1>5
    <3> QED BY <3>1, ListedConcat
  <2>2. ASSUME NEW i \in 1 .. Len(comps') PROVE comps'[i].vars \subseteq Vars
    <3>1. CASE i <= Len(comps)
      BY <1>5, <1>6, <2>1, <3>1
    <3>2. CASE ~ i <= Len(comps)
      <4>1. i - Len(comps) \in 1 .. Len(new) /\ Len(comps) + (i - Len(comps)) = i
        BY <1>6, <2>1, <3>2
      <4>2. comps'[i] = new[i - Len(comps)]
        BY <2>1, <4>1
      <4> QED BY <1>4, <4>1, <4>2
    <3> QED BY <3>1, <3>2
  <2> QED BY <2>1, <2>2
<1> DEFINE d0 == [TopDecision EXCEPT !.top = Len(comps) + Len(new)]
<1>8. Decided(d0) /\ d0.base = TopDecision.base /\ d0.top = Len(comps) + Len(new)
  BY <1>5, <1>6 DEF Decided
<1>9. PICK d : /\ Decided(d) /\ d.base = TopDecision.base /\ d.top = Len(comps) + Len(new)
               /\ decisions' = SetTop(d)
  <2> HIDE DEF d0
  <2>1. Same(d0, d0) /\ \A val : Same(IncreaseModels(d0, val), d0)
    BY <1>8, CountingKeeps
  <2>2. decisions' = SetTop(d0) \/ \E val : decisions' = SetTop(IncreaseModels(d0, val))
    BY <1>3 DEF d0
  <2> QED BY <1>8, <2>1, <2>2 DEF Same
<1>10. /\ pc = "split" /\ trail' = trail /\ input' = input /\ clauses' = clauses
       /\ fixed' = fixed /\ preLevel' = preLevel
  BY DEF SplitComponent, search
<1>11. fixed <= Level /\ (~ AtEntry => TopDecision.top = TopDecision.base)
  BY <1>10 DEF Inv, FixedLevels, Frames
<1>12. ~ Level < fixed
  BY <1>11, TopIsDecided DEF Inv, FixedLevels
<1>13. new = <<>> => Len(new) = 0
  OBVIOUS
<1>14. new # <<>> => Len(new) > 0
  BY <1>4, <1>6 DEF Listed
<1>15. /\ pc' = "decide" => d.base < d.top
       /\ pc' = "backtrack" /\ ~ AtEntry => d.top = d.base
       /\ pc' \in {"decide", "exists", "backtrack"}
  BY <1>3, <1>5, <1>6, <1>9, <1>11, <1>13, <1>14 DEF Decided
<1>16. /\ Listed(trail') /\ Len(trail') = Len(trail)
       /\ \A i \in 1 .. Len(trail) - 1 : trail'[i] = trail[i]
  BY <1>10 DEF Inv, Stacks
<1> QED BY <1>7, <1>9, <1>10, <1>11, <1>12, <1>15, <1>16, TopStep

LEMMA ExistsTrueStep == ASSUME Inv, ExistsTrue PROVE Inv'
<1>1. /\ Decided(TopDecision) /\ TopDecision.base < TopDecision.top
      /\ Listed(comps) /\ Len(comps) = TopDecision.top
      /\ \A i \in 1 .. Len(comps) : comps[i].vars \subseteq Vars
  BY TopIsDecided DEF Inv, Stacks, Frames, ExistsTrue, Unprojected, HasUnprocessedComp
<1> DEFINE d == NextComp(IncreaseModels(TopDecision, 1))
<1>2. Decided(d) /\ d.base = TopDecision.base /\ d.top = TopDecision.top - 1
  <2> DEFINE e == IncreaseModels(TopDecision, 1)
  <2>1. Same(e, TopDecision)
    BY <1>1, CountingKeeps
  <2>2. Decided(e) /\ e.base = TopDecision.base /\ e.top = TopDecision.top
    BY <2>1 DEF Same
  <2> HIDE DEF e
  <2>3. e.base < e.top
    BY <1>1, <2>2
  <2>4. Decided(NextComp(e)) /\ NextComp(e).base = e.base /\ NextComp(e).top = e.top - 1
    BY <2>2, <2>3, NextCompMoves
  <2>5. d = NextComp(e)
    BY DEF e
  <2> QED BY <2>2, <2>4, <2>5
<1>3. /\ decisions' = SetTop(d) /\ comps' = Front(comps) /\ pc' = "exists" /\ input' = input
      /\ clauses' = clauses /\ fixed' = fixed /\ preLevel' = preLevel
      /\ pc \in {"exists", "found"}
  BY DEF ExistsTrue, InternalSATTrue
<1>4. trail' = trail \/ \E L : trail' = SetTrail(trail[Level + 1] \cup L)
  BY DEF ExistsTrue, InternalSATTrue, InternalSAT, LearnBelow, SetTrail
<1> HIDE DEF d
<1>5. /\ Listed(comps') /\ Len(comps') = d.top
      /\ \A i \in 1 .. Len(comps') : comps'[i].vars \subseteq Vars
  <2>1. Len(comps) > 0 /\ Len(comps) \in Nat
    BY <1>1 DEF Decided
  <2>2. /\ Listed(comps') /\ Len(comps') = Len(comps) - 1
        /\ \A i \in 1 .. Len(comps) - 1 : comps'[i] = comps[i]
    BY <1>1, <1>3, <2>1, ListedFront
  <2> QED BY <1>1, <1>2, <2>1, <2>2
<1>6. /\ Listed(trail') /\ Len(trail') = Len(trail)
      /\ \A i \in 1 .. Len(trail) - 1 : trail'[i] = trail[i]
  <2>1. CASE trail' = trail
    BY <2>1 DEF Inv, Stacks
  <2>2. CASE \E L : trail' = SetTrail(trail[Level + 1] \cup L)
    BY <2>2, SetTrailExchanges DEF Inv
  <2> QED BY <1>4, <2>1, <2>2
<1>7. fixed <= Level /\ ~ Level < fixed
  BY <1>3, TopIsDecided DEF Inv, FixedLevels
<1> QED BY <1>2, <1>3, <1>5, <1>6, <1>7, TopStep

LEMMA CleanStep == ASSUME Inv, Clean PROVE Inv'
<1>1. /\ Decided(TopDecision) /\ Listed(comps) /\ Len(comps) = TopDecision.top
      /\ \A i \in 1 .. Len(comps) : comps[i].vars \subseteq Vars
  BY TopIsDecided DEF Inv, Stacks, Frames
<1> DEFINE d == [TopDecision EXCEPT !.top = TopDecision.base]
<1>2. Decided(d) /\ d.base = TopDecision.base /\ d.top = TopDecision.base /\ d.second = TopDecision.second
  BY <1>1 DEF Decided
<1>3. /\ decisions' = SetTop(d) /\ comps' = SubSeq(comps, 1, TopDecision.base) /\ pc' = "backtrack"
      /\ input' = input /\ clauses' = clauses /\ fixed' = fixed /\ preLevel' = preLevel /\ trail' = trail
  BY DEF Clean, search
<1> HIDE DEF d
<1>4. /\ Listed(comps') /\ Len(comps') = d.top
      /\ \A i \in 1 .. Len(comps') : comps'[i].vars \subseteq Vars
  <2>1. TopDecision.base \in 0 .. Len(comps) /\ Len(comps) \in Nat
    BY <1>1 DEF Decided
  <2>2. /\ Listed(comps') /\ Len(comps') = TopDecision.base
        /\ \A i \in 1 .. TopDecision.base : comps'[i] = comps[i]
    BY <1>1, <1>3, <2>1, ListedSubSeq
  <2> QED BY <1>1, <1>2, <2>1, <2>2
<1>5. /\ Listed(trail') /\ Len(trail') = Len(trail)
      /\ \A i \in 1 .. Len(trail) - 1 : trail'[i] = trail[i]
  BY <1>3 DEF Inv, Stacks
<1>6. Level < fixed => d.second
  BY <1>2, TopIsDecided DEF Inv, FixedLevels
<1> QED BY <1>2, <1>3, <1>4, <1>5, <1>6, TopStep

(* A level below the fixed one is in its second branch.                    *)
LEMMA FlipBranchStep == ASSUME Inv, FlipBranch PROVE Inv'
<1>1. /\ Decided(TopDecision) /\ Listed(comps) /\ Len(comps) = TopDecision.top
      /\ \A i \in 1 .. Len(comps) : comps[i].vars \subseteq Vars
      /\ pc = "backtrack" /\ ~ AtEntry /\ ~ TopDecision.second
  BY TopIsDecided DEF Inv, Stacks, Frames, FlipBranch, Backtracking, ToFlip
<1>2. TopDecision.top = TopDecision.base
  BY <1>1 DEF Inv, Frames
<1>3. PICK d : Decided(d) /\ d.base = TopDecision.base /\ d.top = TopDecision.top /\ decisions' = SetTop(d)
  <2> DEFINE m == MulLitsWeights(TopDecision)
             w == IF InExists THEN m.weight ELSE Weight[-TopDecision.dec]
  <2>1. Same(m, TopDecision)
    BY <1>1, LitsWeightsKeeps
  <2>2. decisions' = SetTop([m EXCEPT !.second = TRUE, !.weight = w])
    BY DEF FlipBranch
  <2> HIDE DEF m, w
  <2> DEFINE d == [m EXCEPT !.second = TRUE, !.weight = w]
  <2>3. Decided(d) /\ d.base = m.base /\ d.top = m.top
    BY <2>1, SecondStarts DEF Same
  <2> QED BY <2>1, <2>2, <2>3 DEF Same
<1>4. /\ trail' = SetTrail({-TopDecision.dec}) /\ comps' = comps /\ pc' = "main"
      /\ input' = input /\ clauses' = clauses /\ fixed' = fixed /\ preLevel' = preLevel
  BY DEF FlipBranch, search, SetTrail
<1>5. /\ Listed(trail') /\ Len(trail') = Len(trail)
      /\ \A i \in 1 .. Len(trail) - 1 : trail'[i] = trail[i]
  BY <1>4, SetTrailExchanges DEF Inv
<1>6. fixed <= Level /\ ~ Level < fixed
  BY <1>1, TopIsDecided DEF Inv, FixedLevels
<1> QED BY <1>1, <1>2, <1>3, <1>4, <1>5, <1>6, TopStep

(* Back at the level below, whose component on top has been counted.       *)
LEMMA FinishLevelStep == ASSUME Inv, FinishLevel PROVE Inv'
<1> DEFINE n == Len(decisions)
           prev == decisions[n - 1]
<1>1. /\ pc = "backtrack" /\ ~ AtEntry /\ n \in Nat /\ n > 1 /\ Level = n - 1 /\ n - 1 \in 1 .. n
      /\ Len(trail) = n /\ Listed(trail) /\ Listed(decisions) /\ Listed(comps)
  BY TopIsDecided DEF FinishLevel, Backtracking, Inv, Stacks
<1>2. PICK below :
        /\ \E d : Same(d, prev) /\ below = NextComp(d)
        /\ decisions' = Append(SubSeq(decisions, 1, n - 2), below)
        /\ \/ /\ InExists /\ Level - 1 = preLevel
              /\ preLevel' = -1 /\ pc' \in {"found", "refuted"}
           \/ /\ ~ (InExists /\ Level - 1 = preLevel)
              /\ preLevel' = preLevel
              /\ \/ pc' = "clean"
                 \/ pc' = "decide" /\ below.base < below.top
                 \/ pc' = "backtrack" /\ ~ below.base < below.top
        /\ trail' = Front(trail) /\ comps' = Front(comps)
        /\ input' = input /\ clauses' = clauses /\ fixed' = fixed
  <2> DEFINE d == MulLitsWeights(TopDecision)
             val == TotalModels(d)
             e == IF HasModel(d) THEN IncreaseModels(prev, val) ELSE MarkBranchUnsat(prev)
  <2>1. Decided(prev)
    BY <1>1 DEF Inv, Stacks
  <2>2. Same(e, prev)
    BY <2>1, CountingKeeps
  <2> DEFINE below == NextComp(e)
  <2>3. /\ decisions' = Append(SubSeq(decisions, 1, n - 2), below)
        /\ preLevel' = IF InExists /\ Level - 1 = preLevel THEN -1 ELSE preLevel
        /\ trail' = Front(trail) /\ comps' = Front(comps)
        /\ input' = input /\ clauses' = clauses /\ fixed' = fixed
    BY DEF FinishLevel, search
  <2>4. pc' = CASE InExists /\ Level - 1 = preLevel -> IF val > 0 THEN "found" ELSE "refuted"
                [] ~ (InExists /\ Level - 1 = preLevel) /\ IsUnsat(below) -> "clean"
                [] ~ (InExists /\ Level - 1 = preLevel) /\ ~ IsUnsat(below) /\ HasUnprocessedComp(below) -> "decide"
                [] OTHER -> "backtrack"
    BY DEF FinishLevel
  <2> HIDE DEF e, val
  <2> QED BY <2>2, <2>3, <2>4 DEF HasUnprocessedComp
<1>3. /\ Decided(prev) /\ prev.base < prev.top /\ TopDecision.base = prev.top
      /\ Len(comps) = TopDecision.top /\ TopDecision.top = TopDecision.base
  <2>1. (n - 1) + 1 = n /\ n - 1 \in 1 .. n - 1
    BY <1>1
  <2> QED BY <1>1, <2>1, TopIsDecided DEF Inv, Stacks, Frames
<1>4. /\ Decided(below) /\ below.base = prev.base /\ below.top = prev.top - 1
      /\ below.second = prev.second
  <2>1. PICK d : Same(d, prev) /\ below = NextComp(d)
    BY <1>2
  <2>2. Decided(d) /\ d.base < d.top
    BY <1>3, <2>1 DEF Same
  <2> QED BY <2>1, <2>2, NextCompMoves DEF Same
<1>5. /\ Listed(decisions') /\ Len(decisions') = n - 1 /\ decisions'[n - 1] = below
      /\ \A k \in 1 .. n - 2 : decisions'[k] = decisions[k]
  BY <1>1, <1>2, PopExchanges DEF Inv
<1>6. /\ Listed(trail') /\ Len(trail') = n - 1
      /\ \A i \in 1 .. n - 1 : trail'[i] = trail[i]
  BY <1>1, <1>2, ListedFront
<1>7. /\ Listed(comps') /\ Len(comps') = below.top
      /\ \A i \in 1 .. Len(comps') : comps'[i].vars \subseteq Vars
  <2>1. Len(comps) \in Nat /\ Len(comps) > 0 /\ below.top = Len(comps) - 1
    BY <1>3, <1>4, TopIsDecided DEF Inv, Decided
  <2>2. /\ Listed(comps') /\ Len(comps') = Len(comps) - 1
        /\ \A i \in 1 .. Len(comps) - 1 : comps'[i] = comps[i]
    BY <1>1, <1>2, <2>1, ListedFront
  <2> QED BY <2>1, <2>2 DEF Inv, Stacks
<1>8. Level' = Level - 1 /\ TopDecision' = below
  BY <1>1, <1>5 DEF Level, TopDecision, Last
<1>9. Stacks'
  <2>1. ASSUME NEW k \in 1 .. Len(decisions') PROVE Decided(decisions'[k])
    <3>1. k = n - 1 \/ k \in 1 .. n - 2
      BY <1>1, <1>5
    <3> QED BY <1>1, <1>4, <1>5, <3>1 DEF Inv, Stacks
  <2> QED BY <1>1, <1>2, <1>5, <1>6, <1>7, <2>1 DEF Stacks, Vars
<1>10. Frames'
  <2>1. ASSUME NEW k \in 1 .. Len(decisions') - 1
        PROVE  decisions'[k].base < decisions'[k].top /\ decisions'[k + 1].base = decisions'[k].top
    <3>1. k \in 1 .. n - 2 /\ k \in 1 .. n - 1
      BY <1>1, <1>5
    <3>2. decisions[k].base < decisions[k].top /\ decisions[k + 1].base = decisions[k].top
      BY <3>1 DEF Inv, Frames
    <3>3. decisions'[k] = decisions[k] /\ decisions'[k + 1].base = decisions[k + 1].base
      <4>1. k + 1 = n - 1 \/ k + 1 \in 1 .. n - 2
        BY <1>1, <3>1
      <4> QED BY <1>4, <1>5, <3>1, <4>1
    <3> QED BY <3>2, <3>3
  <2>2. pc' = "decide" => below.base < below.top
    BY <1>2
  <2>3. pc' = "backtrack" => below.top = below.base
    BY <1>2, <1>4 DEF Decided
  <2>4. pc' \notin {"main", "split", "conflict"}
    BY <1>2
  <2> QED BY <1>7, <1>8, <2>1, <2>2, <2>3, <2>4 DEF Frames
<1>11. FixedLevels'
  <2>1. ASSUME NEW k \in 1 .. Len(decisions'), k <= fixed'
        PROVE  decisions'[k].second /\
               decisions'[k].top = decisions'[k].base + (IF k < Len(decisions') THEN 1 ELSE 0)
    <3>1. k \in 1 .. n - 1 /\ k \in 1 .. n /\ k < n /\ k <= fixed
      BY <1>1, <1>2, <1>5, <2>1
    <3>2. decisions[k].second /\ decisions[k].top = decisions[k].base + 1
      BY <3>1 DEF Inv, FixedLevels
    <3>3. CASE k = n - 1
      BY <1>3, <1>4, <1>5, <3>2, <3>3 DEF Decided
    <3>4. CASE k # n - 1
      <4>1. k \in 1 .. n - 2 /\ k < n - 1
        BY <1>1, <3>1, <3>4
      <4> QED BY <1>5, <3>2, <4>1
    <3> QED BY <3>3, <3>4
  <2>2. pc' \notin {"backtrack", "clean", "exit"} => fixed <= Level - 1
    <3>1. CASE pc' \in {"found", "refuted"}
      BY <1>2, <3>1 DEF Inv, FixedLevels
    <3>2. CASE pc' = "decide"
      <4>1. below.base < below.top
        BY <1>2, <3>2
      <4>2. CASE n - 1 <= fixed
        <5>1. prev.top = prev.base + 1
          BY <1>1, <4>2 DEF Inv, FixedLevels
        <5> QED BY <1>3, <1>4, <4>1, <5>1 DEF Decided
      <4>3. CASE ~ n - 1 <= fixed
        BY <1>1, <4>3 DEF Inv, FixedLevels
      <4> QED BY <4>2, <4>3
    <3> QED BY <1>2, <3>1, <3>2
  <2>3. InExists' => fixed <= preLevel' /\ preLevel' <= Level - 1
    BY <1>1, <1>2 DEF Inv, FixedLevels, InExists, AtEntry
  <2>4. fixed' \in Nat /\ preLevel' \in Int
    BY <1>2 DEF Inv, FixedLevels
  <2> QED BY <1>2, <1>8, <2>1, <2>2, <2>3, <2>4 DEF FixedLevels
<1>12. Removed'
  <2>1. CASE fixed <= Level - 1
    <3>1. fixed <= Level /\ \A i \in 1 .. fixed : i \in 1 .. n - 1
      BY <1>1, <2>1 DEF Inv, FixedLevels
    <3> QED BY <1>2, <1>6, <3>1, RemovedKept
  <2>2. CASE ~ fixed <= Level - 1
    BY <1>2, <1>8, <2>2 DEF Removed
  <2> QED BY <2>1, <2>2
<1> QED BY <1>2, <1>9, <1>10, <1>11, <1>12 DEF Inv

(* A new level on top of the component that is decided on.                 *)
LEMMA NewLevel ==
  ASSUME Inv, pc = "decide", NEW d, Decided(d), d.base = Len(comps), d.top = Len(comps), NEW L,
         decisions' = Append(decisions, d), trail' = Append(trail, L), comps' = comps,
         input' = input, preLevel' = preLevel, pc' = "main",
         \/ fixed' = fixed /\ clauses' = clauses
         \/ /\ fixed' = fixed + 1 /\ fixed = Level /\ ~ InExists
            /\ TopDecision.second /\ TopDecision.top - TopDecision.base = 1
            /\ clauses' = clauses \/ clauses' = {c \in clauses : c \cap Assigned = {}}
  PROVE  Inv'
<1> DEFINE n == Len(decisions)
<1>1. /\ n \in Nat \ {0} /\ Level = n - 1 /\ TopDecision = decisions[n] /\ Decided(TopDecision)
      /\ Len(trail) = n /\ Listed(trail) /\ Listed(decisions) /\ Len(comps) = TopDecision.top
      /\ fixed <= Level /\ fixed \in Nat /\ TopDecision.base < TopDecision.top
  BY TopIsDecided DEF Inv, Stacks, Frames, FixedLevels
<1>2. /\ Listed(decisions') /\ Len(decisions') = n + 1 /\ decisions'[n + 1] = d
      /\ \A k \in 1 .. n : decisions'[k] = decisions[k]
  BY <1>1, ListedAppend
<1>3. /\ Listed(trail') /\ Len(trail') = n + 1 /\ \A k \in 1 .. n : trail'[k] = trail[k]
  BY <1>1, ListedAppend
<1>4. Level' = Level + 1 /\ TopDecision' = d
  BY <1>1, <1>2 DEF Level, TopDecision, Last
<1>5. Stacks'
  <2>1. ASSUME NEW k \in 1 .. Len(decisions') PROVE Decided(decisions'[k])
    <3>1. k = n + 1 \/ k \in 1 .. n
      BY <1>1, <1>2, SMTT(30)
    <3> QED BY <1>2, <3>1 DEF Inv, Stacks
  <2> QED BY <1>1, <1>2, <1>3, <2>1, SMTT(30) DEF Inv, Stacks, Vars
<1>6. Frames'
  <2>1. ASSUME NEW k \in 1 .. Len(decisions') - 1
        PROVE  decisions'[k].base < decisions'[k].top /\ decisions'[k + 1].base = decisions'[k].top
    <3>1. k \in 1 .. n
      BY <1>1, <1>2
    <3>2. CASE k = n
      BY <1>1, <1>2, <3>1, <3>2
    <3>3. CASE k # n
      <4>1. k \in 1 .. n - 1 /\ k + 1 \in 1 .. n
        BY <1>1, <3>1, <3>3
      <4> QED BY <1>2, <3>1, <4>1 DEF Inv, Frames
    <3> QED BY <3>2, <3>3
  <2> QED BY <1>4, <2>1 DEF Frames
<1>7. FixedLevels'
  <2>1. ASSUME NEW k \in 1 .. Len(decisions'), k <= fixed'
        PROVE  decisions'[k].second /\
               decisions'[k].top = decisions'[k].base + (IF k < Len(decisions') THEN 1 ELSE 0)
    <3>1. k \in 1 .. n /\ k < n + 1
      BY <1>1, <1>2, <2>1
    <3>2. CASE k <= fixed
      BY <1>1, <1>2, <3>1, <3>2 DEF Inv, FixedLevels
    <3>3. CASE ~ k <= fixed
      <4>1. k = n /\ TopDecision.second /\ TopDecision.top - TopDecision.base = 1
        BY <1>1, <2>1, <3>1, <3>3
      <4>2. TopDecision.top = TopDecision.base + 1
        BY <1>1, <4>1 DEF Decided
      <4> QED BY <1>1, <1>2, <3>1, <4>1, <4>2
    <3> QED BY <3>2, <3>3
  <2>2. fixed' \in Nat /\ preLevel' \in Int /\ fixed' <= Level + 1
    BY <1>1 DEF Inv, FixedLevels
  <2>3. InExists' => fixed' <= preLevel' /\ preLevel' <= Level + 1
    BY <1>1 DEF Inv, FixedLevels, InExists
  <2> QED BY <1>4, <2>1, <2>2, <2>3 DEF FixedLevels
<1>8. Removed'
  <2>1. CASE fixed' = fixed /\ clauses' = clauses
    <3>1. \A i \in 1 .. fixed : i \in 1 .. n
      BY <1>1
    <3> QED BY <1>1, <1>3, <2>1, <3>1, RemovedKept
  <2>2. CASE /\ fixed' = fixed + 1 /\ fixed = Level
             /\ clauses' = clauses \/ clauses' = {c \in clauses : c \cap Assigned = {}}
    <3> SUFFICES ASSUME NEW c \in Formula \ clauses'
                 PROVE  c \cap UNION {trail'[i] : i \in 1 .. fixed'} # {}
      BY <1>1, <2>2 DEF Removed, AssignedUpTo, Formula
    <3>1. PICK i \in 1 .. n : c \cap trail[i] # {}
      <4>1. CASE c \in clauses
        <5>1. c \cap UNION {trail[i] : i \in 1 .. Level + 1} # {}
          BY <2>2, <4>1 DEF Assigned, AssignedUpTo
        <5> QED BY <1>1, <5>1
      <4>2. CASE c \notin clauses
        <5>1. c \cap UNION {trail[i] : i \in 1 .. (fixed - 1) + 1} # {}
          BY <1>1, <4>2 DEF Inv, Removed, AssignedUpTo
        <5> QED BY <1>1, <5>1, SMTT(30)
      <4> QED BY <4>1, <4>2
    <3>2. i \in 1 .. fixed' /\ trail'[i] = trail[i]
      BY <1>1, <1>3, <2>2
    <3> QED BY <3>1, <3>2
  <2> QED BY <2>1, <2>2
<1> QED BY <1>5, <1>6, <1>7, <1>8 DEF Inv

LEMMA NewDecisionIsDecided ==
  ASSUME Inv, NEW lit
  PROVE  LET d == NewDecision(lit) IN Decided(d) /\ d.base = Len(comps) /\ d.top = Len(comps)
BY ComponentOnTop DEF NewDecision, Decided

LEMMA DecideStep == ASSUME Inv, Decide PROVE Inv'
<1>1. PICK lit : /\ decisions' = Append(decisions, NewDecision(lit))
                 /\ trail' = Append(trail, {lit})
  BY DEF Decide
<1>2. /\ Decided(NewDecision(lit)) /\ NewDecision(lit).base = Len(comps)
      /\ NewDecision(lit).top = Len(comps)
  BY NewDecisionIsDecided
<1>3. /\ pc = "decide" /\ comps' = comps /\ input' = input /\ preLevel' = preLevel /\ pc' = "main"
      /\ \/ fixed' = fixed /\ clauses' = clauses
         \/ /\ fixed' = fixed + 1 /\ fixed = Level /\ ~ InExists
            /\ TopDecision.second /\ TopDecision.top - TopDecision.base = 1
            /\ clauses' = clauses \/ clauses' = {c \in clauses : c \cap Assigned = {}}
  BY DEF Decide, AtFixedLevel
<1> QED BY <1>1, <1>2, <1>3, NewLevel

LEMMA DecideExistsStep == ASSUME Inv, DecideExists PROVE Inv'
<1>1. PICK lit : /\ decisions' = Append(decisions, [NewDecision(lit) EXCEPT !.weight = 1, !.dvars = {}])
                 /\ trail' = Append(trail, {lit})
  BY DEF DecideExists
<1> DEFINE d == [NewDecision(lit) EXCEPT !.weight = 1, !.dvars = {}]
<1>2. Decided(d) /\ d.base = Len(comps) /\ d.top = Len(comps)
  <2> DEFINE e == NewDecision(lit)
             f == [e EXCEPT !.weight = 1]
  <2>1. Decided(e) /\ e.base = Len(comps) /\ e.top = Len(comps)
    BY NewDecisionIsDecided
  <2> HIDE DEF e
  <2>2. Same(f, e)
    BY <2>1, CountingKeeps
  <2> HIDE DEF f
  <2>3. Same([f EXCEPT !.dvars = {}], f)
    BY <2>2, CountingKeeps DEF Same
  <2>4. d = [f EXCEPT !.dvars = {}]
    BY DEF e, f
  <2> HIDE DEF d
  <2> QED BY <2>1, <2>2, <2>3, <2>4 DEF Same
<1>3. /\ pc = "decide" /\ comps' = comps /\ input' = input /\ preLevel' = preLevel /\ pc' = "main"
      /\ fixed' = fixed /\ clauses' = clauses
  BY DEF DecideExists, search
<1> HIDE DEF d
<1>4. decisions' = Append(decisions, d)
  BY <1>1 DEF d
<1> QED BY <1>1, <1>2, <1>3, <1>4, NewLevel
-----------------------------------------------------------------------------
(* The stacks of the search are what its operations take them for, a level *)
(* below the fixed one is not split, flipped or decided again, and the     *)
(* clauses removed are satisfied there: count_main(), countExists(),       *)
(* backtrack() and simplify() keep all this for every formula.             *)
THEOREM Invariant == Spec => []Inv
<1>1. Init => Inv
  <2> SUFFICES ASSUME Init PROVE Inv
    OBVIOUS
  <2> DEFINE root == [dec |-> 0, base |-> 1, top |-> 1, second |-> TRUE,
                      models |-> << <<>>, <<>> >>, weight |-> 1, dvars |-> {}]
  <2>1. Decided(root) /\ root.base = 1 /\ root.top = 1
    BY DEF Decided
  <2>2. /\ decisions = <<root>> /\ trail = << {} >> /\ comps = <<RootComp>>
        /\ fixed = 0 /\ preLevel = -1 /\ pc = "main" /\ clauses = Formula /\ input \in DOMAIN Inputs
    BY DEF Init
  <2> HIDE DEF root
  <2>3. Listed(decisions) /\ Len(decisions) = 1 /\ decisions[1] = root
    BY <2>2 DEF Listed
  <2>4. Listed(trail) /\ Len(trail) = 1
    BY <2>2 DEF Listed
  <2>5. Listed(comps) /\ Len(comps) = 1 /\ comps[1] = RootComp
    BY <2>2 DEF Listed
  <2>6. TopDecision = root /\ Level = 0
    BY <2>3 DEF TopDecision, Last, Level
  <2>7. Stacks
    BY <2>1, <2>3, <2>4, <2>5 DEF Stacks, RootComp
  <2>8. Frames
    BY <2>1, <2>2, <2>3, <2>5, <2>6 DEF Frames
  <2>9. FixedLevels
    BY <2>2, <2>6 DEF FixedLevels, InExists
  <2>10. Removed
    BY <2>2 DEF Removed
  <2> QED BY <2>2, <2>7, <2>8, <2>9, <2>10 DEF Inv
<1>2. Inv /\ [Next]_vars => Inv'
  <2> SUFFICES ASSUME Inv, [Next]_vars PROVE Inv'
    OBVIOUS
  <2>1. CASE UNCHANGED vars
    BY <2>1 DEF vars, Inv, Stacks, Frames, FixedLevels, Removed, Vars, Formula, Level, TopDecision,
                AtEntry, InExists, AssignedUpTo
  <2>2. CASE Propagation
    BY <2>2, PropagationStep
  <2>3. CASE Conflict
    BY <2>3, ConflictStep
  <2>4. CASE ConflictAtEntry
    BY <2>4, ConflictAtEntryStep
  <2>5. CASE SplitComponent
    BY <2>5, SplitComponentStep
  <2>6. CASE StartExists
    BY <2>6, StartExistsStep
  <2>7. CASE ExistsTrue
    BY <2>7, ExistsTrueStep
  <2>8. CASE ExistsFalse
    BY <2>8, ExistsFalseStep
  <2>9. CASE ExistsDone
    BY <2>9, ExistsDoneStep
  <2>10. CASE Clean
    BY <2>10, CleanStep
  <2>11. CASE BacktrackRoot
    BY <2>11, BacktrackRootStep
  <2>12. CASE BacktrackEntry
    BY <2>12, BacktrackEntryStep
  <2>13. CASE FlipBranch
    BY <2>13, FlipBranchStep
  <2>14. CASE FinishLevel
    BY <2>14, FinishLevelStep
  <2>15. CASE Decide
    BY <2>15, DecideStep
  <2>16. CASE DecideExists
    BY <2>16, DecideExistsStep
  <2>17. CASE Done
    BY <2>1, <2>17 DEF Done
  <2> QED BY <2>1, <2>2, <2>3, <2>4, <2>5, <2>6, <2>7, <2>8, <2>9, <2>10, <2>11, <2>12, <2>13,
             <2>14, <2>15, <2>16, <2>17 DEF Next
<1> QED BY <1>1, <1>2, PTL DEF Spec

(* The clauses that simplify() removes at a fixed level are satisfied by   *)
(* the literals of that level and those below whenever the search goes     *)
(* forward, however it has moved in between.                               *)
THEOREM RemovedClauses == Spec => []RemovedStaySatisfied
<1>1. Inv => RemovedStaySatisfied
  <2> SUFFICES ASSUME Inv, pc \in {"main", "split", "exists", "decide"}, NEW c \in Formula \ clauses
               PROVE  c \cap AssignedUpTo(Min({fixed, Level})) # {}
    BY DEF RemovedStaySatisfied
  <2>1. fixed <= Level /\ fixed \in Nat /\ Level \in Nat
    BY TopIsDecided DEF Inv, FixedLevels
  <2>2. Min({fixed, Level}) = fixed
    BY <2>1 DEF Min
  <2>3. c \cap UNION {trail[i] : i \in 1 .. (fixed - 1) + 1} # {}
    BY <2>1 DEF Inv, Removed, AssignedUpTo
  <2>4. PICK i \in 1 .. (fixed - 1) + 1 : c \cap trail[i] # {}
    BY <2>3
  <2>5. i \in 1 .. fixed + 1
    BY <2>1
  <2> QED BY <2>2, <2>4, <2>5 DEF AssignedUpTo
<1> QED BY <1>1, Invariant, PTL
-----------------------------------------------------------------------------
(* Literals, and the models of the formula: a model has one of every       *)
(* literal and its negation, and one of every clause.                      *)
LEMMA Literals ==
  ASSUME Inv
  PROVE  /\ Vars \subseteq Nat \ {0} /\ IsFiniteSet(Lits)
         /\ \A l \in Lits : l \in Int /\ -l \in Lits /\ - (-l) = l
         /\ Formula \subseteq SUBSET Lits
<1>1. Inputs[input].nvars \in Nat /\ Formula \subseteq SUBSET Lits
  BY InputsAssumption DEF Inv, Formula, Lits, Vars
<1>2. Vars \subseteq Nat \ {0} /\ IsFiniteSet(Vars)
  <2>1. Vars \subseteq Nat \ {0}
    BY <1>1 DEF Vars
  <2>2. IsFiniteSet(1 .. Inputs[input].nvars)
    BY <1>1, FS_Interval
  <2> QED BY <2>1, <2>2 DEF Vars
<1>3. ASSUME NEW l \in Lits PROVE l \in Int /\ -l \in Lits /\ - (-l) = l
  <2>1. PICK v \in Vars : l = v \/ l = -v
    BY DEF Lits
  <2>2. v \in Int /\ v \in Lits /\ -v \in Lits /\ -v \in Int /\ - (-v) = v /\ - (- (-v)) = -v
    BY <1>2 DEF Lits
  <2> QED BY <2>1, <2>2
<1>4. IsFiniteSet(Lits)
  <2> DEFINE N == {-v : v \in Vars}
             f == [v \in Vars |-> -v]
  <2>1. f \in Surjection(Vars, N)
    BY DEF Surjection
  <2> HIDE DEF f, N
  <2>2. IsFiniteSet(N)
    BY <1>2, <2>1, FS_Surjection
  <2>3. IsFiniteSet(Vars \cup N)
    BY <1>2, <2>2, FS_Union
  <2> QED BY <2>3 DEF N, Lits
<1> QED BY <1>1, <1>2, <1>3, <1>4

(* A set with one of every literal and its negation.                       *)
Total(M) == M \subseteq Lits /\ \A l \in Lits : (l \in M) # (-l \in M)

LEMMA ModelsTotal ==
  ASSUME Inv, NEW M \in AllModels
  PROVE  Total(M) /\ \A c \in Formula : c \cap M # {}
<1>1. AllModels = Models(Formula, Vars, {})
  BY DEF AllModels, ModelsOf, Formula, Vars, Inv
<1>2. PICK P \in SUBSET Vars : M = {IF v \in P THEN v ELSE -v : v \in Vars}
  BY <1>1 DEF Models
<1>3. \A c \in Formula : c \cap M # {}
  BY <1>1 DEF Models
<1>4. Vars \subseteq Nat \ {0}
  BY Literals
<1>5. M \subseteq Lits
  BY <1>2 DEF Lits
<1>6. ASSUME NEW v \in Vars PROVE (v \in M <=> v \in P) /\ (-v \in M <=> v \notin P)
  <2>1. ASSUME NEW w \in Vars PROVE v # -w /\ (-v = -w => v = w) /\ -v # w
    BY <1>4
  <2>2. \A x \in M : \E w \in Vars : (w \in P /\ x = w) \/ (w \notin P /\ x = -w)
    BY <1>2
  <2>3. v \in P => v \in M
    BY <1>2
  <2>4. v \notin P => -v \in M
    BY <1>2
  <2> QED BY <2>1, <2>2, <2>3, <2>4
<1>7. ASSUME NEW l \in Lits PROVE (l \in M) # (-l \in M)
  <2>1. PICK v \in Vars : l = v \/ l = -v
    BY DEF Lits
  <2>2. - (-v) = v
    BY <1>4
  <2> QED BY <1>6, <2>1, <2>2
<1> QED BY <1>3, <1>5, <1>7 DEF Total
-----------------------------------------------------------------------------
(* Propagate() is what its recursion says: the sets that propagation goes  *)
(* through from L, up to one that it leaves alone, are those from L and    *)
(* what L forces, if that is more.                                         *)
Through(C, L) ==
    {X \in SUBSET Lits :
        \A S \in SUBSET (SUBSET Lits) :
            L \in S /\ (\A Y \in S : Y \cup Forced(C, Y) \in S) => X \in S}

Closing(C, f) ==
    /\ \A L \in SUBSET Lits :
          f[L] = IF Forced(C, L) \subseteq L THEN L ELSE f[L \cup Forced(C, L)]
    /\ \A A : Propagate(C, A) = f[A]

LEMMA ForcedIsLits ==
  ASSUME NEW C \in SUBSET (SUBSET Lits), NEW A
  PROVE  Forced(C, A) \subseteq Lits
<1>1. \A c \in C : c \subseteq Lits
  OBVIOUS
<1>2. ASSUME NEW l \in Forced(C, A) PROVE \E c \in C : l \in c
  BY <1>2, ZenonT(60) DEF Forced
<1> QED BY <1>1, <1>2

LEMMA ThroughMoves ==
  ASSUME NEW C \in SUBSET (SUBSET Lits), NEW L \in SUBSET Lits
  PROVE  /\ Forced(C, L) \subseteq L => Through(C, L) = {L}
         /\ Through(C, L) = {L} \cup Through(C, L \cup Forced(C, L))
<1> DEFINE U == L \cup Forced(C, L)
           Closed(S) == \A Y \in S : Y \cup Forced(C, Y) \in S
<1>1. U \in SUBSET Lits
  BY ForcedIsLits
<1>2. ASSUME NEW X \in Through(C, U) PROVE X \in Through(C, L)
  <2> SUFFICES ASSUME NEW S \in SUBSET (SUBSET Lits), L \in S, Closed(S) PROVE X \in S
    BY <1>2 DEF Through
  <2>1. U \in S
    OBVIOUS
  <2> HIDE DEF U
  <2> QED BY <1>2, <2>1 DEF Through
<1>3. L \in Through(C, L)
  BY DEF Through
<1>4. ASSUME NEW X \in Through(C, L), X # L PROVE X \in Through(C, U)
  <2> SUFFICES ASSUME NEW S \in SUBSET (SUBSET Lits), U \in S, Closed(S) PROVE X \in S
    BY <1>4 DEF Through
  <2> DEFINE T == S \cup {L}
  <2>1. T \in SUBSET (SUBSET Lits) /\ L \in T
    OBVIOUS
  <2>2. Closed(T)
    OBVIOUS
  <2> HIDE DEF T, U
  <2>3. X \in T
    BY <1>4, <2>1, <2>2 DEF Through
  <2> QED BY <1>4, <2>3 DEF T
<1>5. ASSUME Forced(C, L) \subseteq L PROVE Through(C, L) = {L}
  <2>1. Closed({L}) /\ {L} \in SUBSET (SUBSET Lits) /\ L \in {L}
    BY <1>5
  <2>2. ASSUME NEW X \in Through(C, L) PROVE X \in {L}
    BY <2>1 DEF Through
  <2> QED BY <1>3, <2>2
<1> HIDE DEF U
<1>6. Through(C, L) = {L} \cup Through(C, U)
  BY <1>2, <1>3, <1>4
<1> QED BY <1>5, <1>6 DEF U

LEMMA PropagateIs ==
  ASSUME NEW C \in SUBSET (SUBSET Lits)
  PROVE  \E f : Closing(C, f)
<1> DEFINE P == SUBSET Lits
           Ends(L) == {X \in Through(C, L) : Forced(C, X) \subseteq X}
           f == [L \in P |-> IF Forced(C, L) \subseteq L THEN L ELSE CHOOSE X : X \in Ends(L)]
           closure[L \in SUBSET Lits] ==
               LET new == Forced(C, L) IN IF new \subseteq L THEN L ELSE closure[L \cup new]
<1>1. ASSUME NEW L \in P, ~ Forced(C, L) \subseteq L
      PROVE  f[L] = f[L \cup Forced(C, L)]
  <2> DEFINE U == L \cup Forced(C, L)
  <2>1. U \in P
    BY ForcedIsLits
  <2>2. Through(C, L) = {L} \cup Through(C, U)
    BY ThroughMoves
  <2> HIDE DEF U
  <2>3. Ends(L) = Ends(U)
    BY <1>1, <2>2
  <2>4. f[L] = CHOOSE X : X \in Ends(L)
    BY <1>1
  <2>5. CASE Forced(C, U) \subseteq U
    <3>1. Through(C, U) = {U}
      BY <2>1, <2>5, ThroughMoves
    <3>2. Ends(U) = {U}
      BY <2>5, <3>1
    <3>3. f[U] = U
      BY <2>1, <2>5
    <3> HIDE DEF Ends, f
    <3> QED BY <2>3, <2>4, <3>2, <3>3 DEF U
  <2>6. CASE ~ Forced(C, U) \subseteq U
    <3>1. f[U] = CHOOSE X : X \in Ends(U)
      BY <2>1, <2>6
    <3> HIDE DEF Ends, f
    <3> QED BY <2>3, <2>4, <3>1 DEF U
  <2> QED BY <2>5, <2>6
<1>2. f = [L \in SUBSET Lits |-> IF Forced(C, L) \subseteq L THEN L ELSE f[L \cup Forced(C, L)]]
  <2>1. ASSUME NEW L \in P PROVE f[L] = IF Forced(C, L) \subseteq L THEN L ELSE f[L \cup Forced(C, L)]
    <3>1. Forced(C, L) \subseteq L => f[L] = L
      OBVIOUS
    <3>2. ~ Forced(C, L) \subseteq L => f[L] = f[L \cup Forced(C, L)]
      BY <1>1, Zenon
    <3> HIDE DEF f
    <3> QED BY <3>1, <3>2
  <2>2. f = [L \in P |-> f[L]]
    OBVIOUS
  <2> HIDE DEF f
  <2> QED BY <2>1, <2>2
<1> HIDE DEF f, closure
<1>3. closure = [L \in SUBSET Lits |-> IF Forced(C, L) \subseteq L THEN L ELSE closure[L \cup Forced(C, L)]]
  BY <1>2, Zenon DEF closure
<1>4. \A A : Propagate(C, A) = closure[A]
  BY Zenon DEF Propagate, closure
<1>5. \A L \in SUBSET Lits : closure[L] = IF Forced(C, L) \subseteq L THEN L ELSE closure[L \cup Forced(C, L)]
  BY <1>3
<1>6. Closing(C, closure)
  BY <1>4, <1>5, Zenon DEF Closing
<1> QED BY <1>6, Zenon

(* What is forced in a set that a model of the clauses contains is in the  *)
(* model, hence all that propagation reaches from the set.                 *)
Agrees(C, M) == Total(M) /\ \A c \in C : c \cap M # {}

LEMMA ForcedAgrees ==
  ASSUME Inv, NEW C \in SUBSET (SUBSET Lits), NEW M, Agrees(C, M), NEW A, A \subseteq M
  PROVE  Forced(C, A) \subseteq M
<1> SUFFICES ASSUME NEW l \in Forced(C, A) PROVE l \in M
  OBVIOUS
<1>0. PICK c \in C : l \in c /\ Negate(c \ {l}) \subseteq A
  BY DEF Forced
<1>1. PICK k \in c : k \in M
  BY DEF Agrees
<1>2. k \in Lits
  OBVIOUS
<1>3. CASE k # l
  <2>1. -k \in M
    BY <1>0, <1>3 DEF Negate
  <2> QED BY <1>1, <1>2, <2>1 DEF Agrees, Total
<1> QED BY <1>1, <1>3

LEMMA PropagateKeeps ==
  ASSUME Inv, NEW C \in SUBSET (SUBSET Lits), NEW Q \in SUBSET (SUBSET Lits),
         \A L \in Q : L \cup Forced(C, L) \in Q, NEW A \in Q
  PROVE  Propagate(C, A) \in Q
<1>1. PICK f : Closing(C, f)
  BY PropagateIs
<1>2. IsFiniteSet(Lits)
  BY Literals
<1> DEFINE Open(L) == Cardinality(Lits \ L)
           Bad == {n \in Nat : \E L \in Q : f[L] \notin Q /\ Open(L) = n}
<1>3. ASSUME NEW L \in Q PROVE Open(L) \in Nat
  BY <1>2, FS_Subset, FS_CardinalityType
<1>4. Bad = {}
  <2> SUFFICES ASSUME Bad # {} PROVE FALSE
    OBVIOUS
  <2>1. PICK n \in Bad : \A m \in Bad : n <= m
    <3>1. Bad \in SUBSET Nat
      OBVIOUS
    <3> HIDE DEF Bad
    <3> QED BY <3>1, LeastNumber
  <2>2. PICK L \in Q : f[L] \notin Q /\ Open(L) = n
    OBVIOUS
  <2> DEFINE U == L \cup Forced(C, L)
  <2>3. ~ Forced(C, L) \subseteq L /\ f[L] = f[U] /\ U \in Q
    BY <1>1, <2>2 DEF Closing
  <2>4. Open(U) < Open(L)
    <3>1. IsFiniteSet(Lits \ L) /\ Lits \ U \subseteq Lits \ L
      BY <1>2, FS_Subset
    <3>2. Lits \ U # Lits \ L
      <4>1. U \in SUBSET Lits
        BY <2>3
      <4>2. PICK l \in U : l \notin L
        BY <2>3
      <4> QED BY <4>1, <4>2
    <3>3. Open(L) \in Nat /\ Open(U) \in Nat
      BY <1>3, <2>3
    <3>4. ASSUME NEW S, IsFiniteSet(S), NEW T \in SUBSET S, T # S
          PROVE  Cardinality(T) <= Cardinality(S) /\ Cardinality(T) # Cardinality(S)
      BY <3>4, FS_Subset
    <3> HIDE DEF U
    <3>5. Cardinality(Lits \ U) <= Cardinality(Lits \ L) /\ Cardinality(Lits \ U) # Cardinality(Lits \ L)
      BY <3>1, <3>2, <3>4
    <3> QED BY <3>3, <3>5
  <2> HIDE DEF U, Open
  <2>5. Open(U) \in Bad
    BY <1>3, <2>2, <2>3
  <2>6. Open(U) \in Nat /\ Open(L) \in Nat /\ n <= Open(U)
    BY <1>3, <2>1, <2>3, <2>5
  <2> QED BY <2>2, <2>4, <2>6
<1>5. f[A] \in Q
  <2>1. f[A] \in Q \/ Open(A) \in Bad
    BY <1>3
  <2> QED BY <1>4, <2>1
<1> QED BY <1>1, <1>5 DEF Closing

LEMMA PropagateSound ==
  ASSUME Inv, NEW C \in SUBSET (SUBSET Lits), NEW A \in SUBSET Lits
  PROVE  /\ Propagate(C, A) \in SUBSET Lits
         /\ \A M : Agrees(C, M) /\ A \subseteq M => Propagate(C, A) \subseteq M
<1>1. Propagate(C, A) \in SUBSET Lits
  <2>1. \A L \in SUBSET Lits : L \cup Forced(C, L) \in SUBSET Lits
    BY ForcedIsLits
  <2> DEFINE Q == SUBSET Lits
  <2>2. Q \in SUBSET (SUBSET Lits) /\ A \in Q /\ \A L \in Q : L \cup Forced(C, L) \in Q
    BY <2>1
  <2> HIDE DEF Q
  <2>3. Propagate(C, A) \in Q
    BY <2>2, PropagateKeeps
  <2> QED BY <2>3 DEF Q
<1>2. ASSUME NEW M, Agrees(C, M), A \subseteq M PROVE Propagate(C, A) \subseteq M
  <2> DEFINE Q == SUBSET M
  <2>1. Q \in SUBSET (SUBSET Lits) /\ A \in Q
    BY <1>2 DEF Agrees, Total
  <2>2. \A L \in Q : L \cup Forced(C, L) \in Q
    BY <1>2, ForcedAgrees
  <2> HIDE DEF Q
  <2>3. Propagate(C, A) \in Q
    BY <2>1, <2>2, PropagateKeeps
  <2> QED BY <2>3 DEF Q
<1> QED BY <1>1, <1>2

(* What the propagator refutes, no model of the clauses contains.          *)
LEMMA RefutedSound ==
  ASSUME Inv, NEW C \in SUBSET (SUBSET Lits), NEW A \in SUBSET Lits, Refuted(C, A),
         NEW M, Agrees(C, M)
  PROVE  ~ A \subseteq M
<1> SUFFICES ASSUME A \subseteq M PROVE FALSE
  OBVIOUS
<1>1. Propagate(C, A) \subseteq M
  BY PropagateSound
<1>2. PICK c \in C : Negate(c) \subseteq Propagate(C, A)
  BY DEF Refuted, Falsified
<1>3. PICK l \in c : l \in M
  BY DEF Agrees
<1>4. -l \in M /\ l \in Lits
  BY <1>1, <1>2 DEF Negate
<1> QED BY <1>3, <1>4 DEF Agrees, Total
-----------------------------------------------------------------------------
(* What the search knows about the models: the clauses it has kept or      *)
(* learnt hold in every model of the formula, and so do the units and the  *)
(* literals of level 0.                                                    *)
Learning ==
    /\ clauses \subseteq Formula
    /\ units \subseteq Lits /\ learnts \subseteq SUBSET Lits
    /\ \A i \in 1 .. Len(trail) : trail[i] \subseteq Lits
    /\ \A k \in 2 .. Len(decisions) : decisions[k].dec \in Lits
    /\ LearntImplied
    /\ \A M \in AllModels : trail[1] \subseteq M

LEMMA TrailIs ==
  ASSUME Inv, Learning
  PROVE  /\ Assigned \subseteq Lits /\ trail[1] \subseteq Assigned /\ trail[Level + 1] \subseteq Lits
         /\ \A L \in SUBSET Lits : Negate(L) \subseteq Lits
         /\ Level = 0 => Assigned = trail[1]
<1>1. Len(trail) \in Nat \ {0} /\ Level + 1 = Len(trail) /\ Level \in Nat
  BY TopIsDecided DEF Inv, Stacks
<1>2. Assigned = UNION {trail[i] : i \in 1 .. Len(trail)}
  BY <1>1 DEF Assigned, AssignedUpTo
<1>3. \A i \in 1 .. Len(trail) : trail[i] \subseteq Lits
  BY DEF Learning
<1>4. Assigned \subseteq Lits /\ trail[1] \subseteq Assigned /\ trail[Level + 1] \subseteq Lits
  BY <1>1, <1>2, <1>3
<1>5. ASSUME Level = 0 PROVE Assigned = trail[1]
  <2>1. 1 .. Len(trail) = {1}
    BY <1>1, <1>5
  <2> QED BY <1>2, <2>1
<1>6. ASSUME NEW L \in SUBSET Lits PROVE Negate(L) \subseteq Lits
  BY Literals DEF Negate
<1> QED BY <1>4, <1>5, <1>6

LEMMA ModelsAgree ==
  ASSUME Inv, Learning, NEW fired \in SUBSET learnts
  PROVE  /\ clauses \cup fired \in SUBSET (SUBSET Lits)
         /\ \A M \in AllModels : Agrees(clauses \cup fired, M)
<1>1. clauses \subseteq Formula /\ Formula \subseteq SUBSET Lits /\ learnts \subseteq SUBSET Lits
  BY Literals DEF Learning
<1>2. ASSUME NEW M \in AllModels PROVE Agrees(clauses \cup fired, M)
  <2>1. Total(M) /\ \A c \in Formula : c \cap M # {}
    BY ModelsTotal
  <2>2. \A c \in learnts : c \cap M # {}
    BY DEF Learning, LearntImplied
  <2> QED BY <1>1, <2>1, <2>2 DEF Agrees
<1> QED BY <1>1, <1>2

(* The parts of the next state.                                            *)
LearntsSound ==
    /\ units' \subseteq Lits /\ learnts' \subseteq SUBSET Lits
    /\ \A M \in AllModels : units' \subseteq M /\ \A c \in learnts' : c \cap M # {}
TrailSound ==
    /\ \A i \in 1 .. Len(trail') : trail'[i] \subseteq Lits
    /\ \A M \in AllModels : trail'[1] \subseteq M
DecisionsSound == \A k \in 2 .. Len(decisions') : decisions'[k].dec \in Lits

LEMMA LearningStep ==
  ASSUME Learning, input' = input, clauses' \subseteq clauses, LearntsSound, TrailSound, DecisionsSound
  PROVE  Learning'
<1>1. AllModels' = AllModels /\ Lits' = Lits /\ Formula' = Formula
  BY DEF AllModels, Lits, Vars, Formula
<1> QED BY <1>1 DEF Learning, LearntsSound, TrailSound, DecisionsSound, LearntImplied

LEMMA FewerLearnts ==
  ASSUME Learning, units' \subseteq units, learnts' \subseteq learnts
  PROVE  LearntsSound
BY DEF Learning, LearntImplied, LearntsSound

LEMMA SameTrail ==
  ASSUME Learning, trail' = trail
  PROVE  TrailSound
BY DEF Learning, TrailSound

LEMMA MoreTrail ==
  ASSUME Inv, Learning, NEW L \in SUBSET Lits,
         trail' = SetTrail(L), Level = 0 => \A M \in AllModels : L \subseteq M
  PROVE  TrailSound
<1>1. Len(trail) \in Nat \ {0} /\ Level + 1 = Len(trail) /\ Level \in Nat
  BY TopIsDecided DEF Inv, Stacks
<1>2. /\ Len(trail') = Len(trail) /\ trail'[Len(trail)] = L
      /\ \A i \in 1 .. Len(trail) - 1 : trail'[i] = trail[i]
  BY SetTrailExchanges DEF Inv
<1>3. ASSUME NEW i \in 1 .. Len(trail') PROVE trail'[i] \subseteq Lits
  <2>1. i = Len(trail) \/ i \in 1 .. Len(trail) - 1
    BY <1>1, <1>2
  <2> QED BY <1>1, <1>2, <2>1 DEF Learning
<1>4. ASSUME NEW M \in AllModels PROVE trail'[1] \subseteq M
  <2>1. CASE Level = 0
    BY <1>1, <1>2, <2>1, SMTT(30)
  <2>2. CASE Level # 0
    <3>1. 1 \in 1 .. Len(trail) - 1
      BY <1>1, <2>2
    <3> QED BY <1>2, <3>1 DEF Learning
  <2> QED BY <2>1, <2>2
<1> QED BY <1>3, <1>4 DEF TrailSound

LEMMA SameDecisions ==
  ASSUME Learning, decisions' = decisions
  PROVE  DecisionsSound
BY DEF Learning, DecisionsSound

LEMMA TopDecisions ==
  ASSUME Inv, Learning, NEW d, Decided(d), d.dec = TopDecision.dec, decisions' = SetTop(d)
  PROVE  DecisionsSound
<1>1. Len(decisions) \in Nat \ {0} /\ TopDecision = decisions[Len(decisions)]
  BY TopIsDecided DEF Inv
<1>2. /\ Len(decisions') = Len(decisions) /\ decisions'[Len(decisions)] = d
      /\ \A k \in 1 .. Len(decisions) - 1 : decisions'[k] = decisions[k]
  BY SetTopExchanges DEF Inv
<1>3. ASSUME NEW k \in 2 .. Len(decisions') PROVE decisions'[k].dec \in Lits
  <2>1. k \in 2 .. Len(decisions) /\ (k = Len(decisions) \/ k \in 1 .. Len(decisions) - 1)
    BY <1>1, <1>2
  <2>2. decisions[k].dec \in Lits
    BY <2>1 DEF Learning
  <2> QED BY <1>1, <1>2, <2>1, <2>2
<1> QED BY <1>3 DEF DecisionsSound
-----------------------------------------------------------------------------
(* What is kept of a clause that every model has a literal of.             *)
LEMMA KeepSound ==
  ASSUME Inv, Learning, NEW L \in SUBSET Lits, \A M \in AllModels : L \cap M # {}, Keep(L)
  PROVE  LearntsSound
<1>1. CASE IsUnit(L)
  <2>1. units' = units \cup L /\ learnts' = learnts
    BY <1>1 DEF Keep
  <2>2. PICK l : L = {l}
    <3>1. IsFiniteSet(L) /\ Cardinality(L) = 1
      BY <1>1, Literals, FS_Subset DEF IsUnit
    <3> QED BY <3>1, FS_Singleton
  <2>3. \A M \in AllModels : L \subseteq M
    BY <2>2
  <2> QED BY <2>1, <2>3 DEF Learning, LearntImplied, LearntsSound
<1>2. CASE ~ IsUnit(L)
  <2>1. units' = units /\ learnts' \subseteq learnts \cup {L}
    BY <1>2 DEF Keep
  <2> QED BY <2>1 DEF Learning, LearntImplied, LearntsSound
<1> QED BY <1>1, <1>2

LEMMA NotContained ==
  ASSUME Inv, NEW L \in SUBSET Lits, NEW M, Total(M), ~ Negate(L) \subseteq M
  PROVE  L \cap M # {}
<1>1. PICK l \in L : -l \notin M
  BY DEF Negate
<1> QED BY <1>1 DEF Total

LEMMA FalseClausesLits ==
  ASSUME Inv, Learning, NEW L \in FalseClauses
  PROVE  L \in SUBSET Lits /\ Negate(L) \in SUBSET Lits
BY TrailIs DEF FalseClauses

(* The literals taken for those of level 0 are in every model, provided    *)
(* that none of them is the negation of a unit.                            *)
LEMMA LevelZeroImplied ==
  ASSUME Inv, Learning, units \cap Negate(Assigned) = {}
  PROVE  LevelZero \in SUBSET Lits /\ \A M \in AllModels : LevelZero \subseteq M
<1>1. Assigned \subseteq Lits
  BY TrailIs
<1>2. LevelZero \subseteq Assigned
  BY DEF LevelZero
<1>3. ASSUME NEW M \in AllModels, NEW l \in LevelZero PROVE l \in M
  <2>1. CASE l \in trail[1]
    BY <2>1 DEF Learning
  <2>2. CASE Var(l) \in VarsOf(units)
    <3>1. PICK u \in units : Var(l) = Var(u)
      BY <2>2 DEF VarsOf
    <3>2. u \in Lits /\ l \in Lits /\ u \in M
      BY <1>1, <1>2 DEF Learning, LearntImplied
    <3>3. u \in Int /\ l \in Int
      BY <3>2, Literals
    <3>4. l = u \/ u = -l
      BY <3>1, <3>3 DEF Var
    <3>5. u # -l
      BY <1>2 DEF Negate
    <3> QED BY <3>2, <3>4, <3>5
  <2> QED BY <2>1, <2>2 DEF LevelZero
<1> QED BY <1>1, <1>2, <1>3

LEMMA LearnSound ==
  ASSUME Inv, Learning, units \cap Negate(Assigned) = {}, Learn
  PROVE  LearntsSound
<1>1. PICK L \in Learnable : Keep(L)
  BY DEF Learn
<1> DEFINE A == Negate(L) \cup LevelZero
           C == clauses \cup learnts
<1>2. L \in FalseClauses /\ Refuted(C, A)
  BY DEF Learnable
<1>3. L \in SUBSET Lits /\ Negate(L) \in SUBSET Lits
  BY <1>2, FalseClausesLits
<1>4. LevelZero \in SUBSET Lits /\ \A M \in AllModels : LevelZero \subseteq M
  BY LevelZeroImplied
<1>5. A \in SUBSET Lits /\ C \in SUBSET (SUBSET Lits)
  BY <1>3, <1>4, ModelsAgree
<1>6. ASSUME NEW M \in AllModels PROVE L \cap M # {}
  <2>1. Agrees(C, M)
    BY ModelsAgree
  <2> HIDE DEF A, C
  <2>2. ~ A \subseteq M
    BY <1>2, <1>5, <2>1, RefutedSound
  <2>3. ~ Negate(L) \subseteq M
    BY <1>4, <2>2 DEF A
  <2> QED BY <1>3, <2>1, <2>3, NotContained DEF Agrees
<1> QED BY <1>1, <1>3, <1>6, KeepSound

LEMMA LearnBelowSound ==
  ASSUME Inv, Learning, NEW l \in Lits, NEW why \in SUBSET (Assigned \ LevelZero), LearnBelow(l, why)
  PROVE  LearntsSound /\ TrailSound
<1>1. Assigned \subseteq Lits /\ trail[Level + 1] \subseteq Lits
  BY TrailIs
<1>2. \A M \in AllModels : why \subseteq M => l \in M
  BY DEF LearnBelow, Implies
<1>3. LearntsSound
  <2>1. CASE why = {}
    <3>1. units' = units \cup {l} /\ learnts' = learnts
      BY <2>1 DEF LearnBelow
    <3>2. \A M \in AllModels : l \in M
      BY <1>2, <2>1
    <3> QED BY <3>1, <3>2 DEF Learning, LearntImplied, LearntsSound
  <2>2. CASE why # {}
    <3> DEFINE c == {l} \cup Negate(why)
    <3>1. units' = units /\ learnts' \subseteq learnts \cup {c}
      BY <2>2 DEF LearnBelow
    <3>2. why \in SUBSET Lits /\ Negate(why) \subseteq Lits
      BY <1>1, TrailIs
    <3>3. ASSUME NEW M \in AllModels PROVE c \cap M # {}
      <4>1. Total(M)
        BY ModelsTotal
      <4>2. CASE why \subseteq M
        BY <1>2, <4>2
      <4>3. CASE ~ why \subseteq M
        <5>1. PICK w \in why : w \notin M
          BY <4>3
        <5>2. w \in Lits /\ -w \in Negate(why)
          BY <3>2 DEF Negate
        <5> QED BY <4>1, <5>1, <5>2 DEF Total
      <4> QED BY <4>2, <4>3
    <3> HIDE DEF c
    <3>4. c \in SUBSET Lits
      BY <3>2 DEF c
    <3> QED BY <3>1, <3>3, <3>4 DEF Learning, LearntImplied, LearntsSound
  <2> QED BY <2>1, <2>2
<1>4. PICK fired \in SUBSET learnts :
        trail' = SetTrail(trail[Level + 1] \cup (Propagate(clauses \cup fired, Assigned \cup {l}) \ Assigned))
  BY DEF LearnBelow, SetTrail
<1> DEFINE new == Propagate(clauses \cup fired, Assigned \cup {l}) \ Assigned
<1>5. Assigned \cup {l} \in SUBSET Lits
  BY <1>1
<1>6. clauses \cup fired \in SUBSET (SUBSET Lits) /\ \A M \in AllModels : Agrees(clauses \cup fired, M)
  BY ModelsAgree
<1>7. new \subseteq Lits
  BY <1>5, <1>6, PropagateSound
<1>8. ASSUME Level = 0, NEW M \in AllModels PROVE trail[Level + 1] \cup new \subseteq M
  <2>1. Assigned = trail[1] /\ trail[1] \subseteq M /\ trail[Level + 1] = trail[1]
    BY <1>8, TrailIs DEF Learning
  <2>2. why = {}
    BY <2>1 DEF LevelZero
  <2>3. Assigned \cup {l} \subseteq M
    BY <1>2, <2>1, <2>2
  <2>4. new \subseteq M
    BY <1>5, <1>6, <2>3, PropagateSound
  <2> HIDE DEF new
  <2> QED BY <2>1, <2>4
<1> HIDE DEF new
<1>9. trail[Level + 1] \cup new \in SUBSET Lits
  BY <1>1, <1>7
<1>10. TrailSound
  BY <1>4, <1>8, <1>9, MoreTrail DEF new
<1> QED BY <1>3, <1>10
-----------------------------------------------------------------------------
LEMMA PropagationLearning == ASSUME Inv, Learning, Propagation PROVE Learning'
<1>1. PICK fired \in SUBSET learnts :
        LET new == Propagate(clauses \cup fired, Enqueued) \ (Assigned \cup Negate(Enqueued))
        IN  /\ trail' = [trail EXCEPT ![Level + 1] = @ \cup new]
            /\ units' = IF Level = 0 THEN {} ELSE units
            /\ decisions' = IF Level = 0 \/ InExists THEN decisions
                            ELSE SetTop([TopDecision EXCEPT !.weight = @ * WeightOf(Counted(new))])
            /\ input' = input /\ clauses' = clauses /\ learnts' = learnts
  BY DEF Propagation
<1> DEFINE new == Propagate(clauses \cup fired, Enqueued) \ (Assigned \cup Negate(Enqueued))
           w == TopDecision.weight * WeightOf(Counted(new))
<1>2. Assigned \subseteq Lits /\ trail[Level + 1] \subseteq Lits /\ Enqueued \in SUBSET Lits
  BY TrailIs DEF Enqueued, Learning
<1>3. clauses \cup fired \in SUBSET (SUBSET Lits) /\ \A M \in AllModels : Agrees(clauses \cup fired, M)
  BY ModelsAgree
<1>4. new \subseteq Lits
  BY <1>2, <1>3, PropagateSound
<1>5. ASSUME Level = 0, NEW M \in AllModels PROVE trail[Level + 1] \cup new \subseteq M
  <2>1. Assigned = trail[1] /\ trail[1] \subseteq M /\ trail[Level + 1] = trail[1] /\ units \subseteq M
    BY <1>5, TrailIs DEF Learning, LearntImplied
  <2>2. Enqueued \subseteq M
    BY <2>1 DEF Enqueued
  <2>3. new \subseteq M
    BY <1>2, <1>3, <2>2, PropagateSound
  <2> HIDE DEF new
  <2> QED BY <2>1, <2>3
<1>6. /\ trail' = SetTrail(trail[Level + 1] \cup new)
      /\ decisions' = decisions \/ decisions' = SetTop([TopDecision EXCEPT !.weight = w])
      /\ units' \subseteq units /\ input' = input /\ clauses' = clauses /\ learnts' = learnts
  BY <1>1 DEF SetTrail
<1> HIDE DEF new, w
<1>7. trail[Level + 1] \cup new \in SUBSET Lits
  BY <1>2, <1>4
<1>8. TrailSound
  BY <1>5, <1>6, <1>7, MoreTrail
<1>9. Decided(TopDecision)
  BY TopIsDecided DEF Inv
<1>10. Same([TopDecision EXCEPT !.weight = w], TopDecision)
  BY <1>9, CountingKeeps
<1>11. DecisionsSound
  <2>1. CASE decisions' = decisions
    BY <2>1, SameDecisions
  <2>2. CASE decisions' = SetTop([TopDecision EXCEPT !.weight = w])
    BY <1>10, <2>2, TopDecisions DEF Same
  <2> QED BY <1>6, <2>1, <2>2
<1> QED BY <1>6, <1>8, <1>11, FewerLearnts, LearningStep

LEMMA ConflictLearning ==
  ASSUME Inv, Learning, UnitsHold, Conflict \/ ConflictAtEntry
  PROVE  Learning'
<1>1. /\ units \cap Negate(Assigned) = {}
      /\ Learn \/ (units' = units /\ learnts' = learnts)
      /\ input' = input /\ clauses' = clauses /\ trail' = trail
      /\ decisions' = decisions \/ decisions' = SetTop(MarkBranchUnsat(TopDecision))
  BY DEF Conflict, ConflictAtEntry, UnitsHold
<1>2. LearntsSound
  BY <1>1, LearnSound, FewerLearnts
<1>3. Same(MarkBranchUnsat(TopDecision), TopDecision)
  BY TopIsDecided, CountingKeeps DEF Inv
<1>4. DecisionsSound
  BY <1>1, <1>3, SameDecisions, TopDecisions DEF Same
<1> QED BY <1>1, <1>2, <1>4, SameTrail, LearningStep

LEMMA InternalSATSound ==
  ASSUME Inv, Learning, InternalSAT
  PROVE  LearntsSound /\ TrailSound
<1>1. CASE UNCHANGED <<units, learnts, trail>>
  BY <1>1, FewerLearnts, SameTrail
<1>2. CASE \E l \in Super.vars \cup Negate(Super.vars), why \in SUBSET (Assigned \ LevelZero) : LearnBelow(l, why)
  <2>1. PICK l \in Super.vars \cup Negate(Super.vars), why \in SUBSET (Assigned \ LevelZero) :
          LearnBelow(l, why)
    BY <1>2
  <2>2. Super.vars \subseteq Vars
    BY ComponentOnTop
  <2>3. Super.vars \subseteq Lits /\ Negate(Super.vars) \subseteq Lits
    BY <2>2, TrailIs DEF Lits
  <2> QED BY <2>1, <2>3, LearnBelowSound
<1> QED BY <1>1, <1>2 DEF InternalSAT

LEMMA ExistsTrueLearning == ASSUME Inv, Learning, ExistsTrue PROVE Learning'
<1>1. /\ InternalSAT \/ UNCHANGED <<units, learnts, trail>>
      /\ input' = input /\ clauses' = clauses
      /\ decisions' = SetTop(NextComp(IncreaseModels(TopDecision, 1)))
  BY DEF ExistsTrue, InternalSATTrue
<1>2. LearntsSound /\ TrailSound
  BY <1>1, InternalSATSound, FewerLearnts, SameTrail
<1>3. Decided(TopDecision) /\ TopDecision.base < TopDecision.top
  BY TopIsDecided DEF Inv, ExistsTrue, Unprojected, HasUnprocessedComp
<1>4. Same(IncreaseModels(TopDecision, 1), TopDecision)
  BY <1>3, CountingKeeps
<1>5. /\ Decided(NextComp(IncreaseModels(TopDecision, 1)))
      /\ NextComp(IncreaseModels(TopDecision, 1)).dec = TopDecision.dec
  BY <1>3, <1>4, NextCompMoves DEF Same
<1> QED BY <1>1, <1>2, <1>5, TopDecisions, LearningStep

LEMMA ExistsFalseLearning == ASSUME Inv, Learning, ExistsFalse PROVE Learning'
<1>1. /\ \/ InternalSAT
         \/ trail' = trail /\ \E L \in FalseClauses : ~ Satisfiable(Negate(L)) /\ Keep(L)
         \/ UNCHANGED <<units, learnts, trail>>
      /\ input' = input /\ clauses' = clauses
      /\ decisions' = SetTop(MarkBranchUnsat(TopDecision))
  BY DEF ExistsFalse, InternalSATFalse
<1>2. ASSUME trail' = trail, NEW L \in FalseClauses, ~ Satisfiable(Negate(L)), Keep(L)
      PROVE  LearntsSound /\ TrailSound
  <2>1. L \in SUBSET Lits /\ Negate(L) \in SUBSET Lits
    BY FalseClausesLits
  <2>2. ASSUME NEW M \in AllModels PROVE L \cap M # {}
    <3>1. ~ Negate(L) \subseteq M /\ Total(M)
      BY <1>2, ModelsTotal DEF Satisfiable
    <3> QED BY <2>1, <3>1, NotContained
  <2> QED BY <1>2, <2>1, <2>2, KeepSound, SameTrail
<1>3. LearntsSound /\ TrailSound
  BY <1>1, <1>2, InternalSATSound, FewerLearnts, SameTrail
<1>4. Same(MarkBranchUnsat(TopDecision), TopDecision)
  BY TopIsDecided, CountingKeeps DEF Inv
<1> QED BY <1>1, <1>3, <1>4, TopDecisions, LearningStep DEF Same

LEMMA SplitComponentLearning == ASSUME Inv, Learning, SplitComponent PROVE Learning'
<1>1. PICK kept \in {cache, {}} :
        \E new \in Ascending({c \in Found : \A e \in kept : e.comp # c}) : \E val :
           \/ decisions' = SetTop([TopDecision EXCEPT !.top = Len(comps) + Len(new)])
           \/ decisions' = SetTop(IncreaseModels([TopDecision EXCEPT !.top = Len(comps) + Len(new)], val))
  BY DEF SplitComponent
<1> DEFINE C == {c \in Found : \A e \in kept : e.comp # c}
<1>2. IsFiniteSet(C) /\ \A c \in C : c.vars \subseteq Vars
  BY FoundWithin, FS_Subset
<1>3. PICK new \in Ascending(C) : \E val :
           \/ decisions' = SetTop([TopDecision EXCEPT !.top = Len(comps) + Len(new)])
           \/ decisions' = SetTop(IncreaseModels([TopDecision EXCEPT !.top = Len(comps) + Len(new)], val))
  BY <1>1
<1> HIDE DEF C
<1>4. Listed(new) /\ Len(comps) = TopDecision.top /\ Decided(TopDecision)
  BY <1>2, AscendingIsListed, TopIsDecided DEF Inv, Frames
<1> DEFINE t == Len(comps) + Len(new)
           d == [TopDecision EXCEPT !.top = t]
<1>5. t \in Nat /\ TopDecision.base <= t
  BY <1>4 DEF Listed, Decided
<1>6. decisions' = SetTop(d) \/ \E val : decisions' = SetTop(IncreaseModels(d, val))
  BY <1>3
<1> HIDE DEF t
<1>7. Decided(d) /\ d.dec = TopDecision.dec
  BY <1>4, <1>5, TopMoves
<1> HIDE DEF d
<1>8. Same(d, d) /\ \A val : Same(IncreaseModels(d, val), d)
  BY <1>7, CountingKeeps
<1>9. DecisionsSound
  BY <1>6, <1>7, <1>8, TopDecisions DEF Same
<1>10. input' = input /\ clauses' = clauses /\ units' = units /\ learnts' = learnts /\ trail' = trail
  BY DEF SplitComponent, search
<1> QED BY <1>9, <1>10, FewerLearnts, SameTrail, LearningStep

LEMMA CleanLearning == ASSUME Inv, Learning, Clean PROVE Learning'
<1>1. /\ decisions' = SetTop([TopDecision EXCEPT !.top = TopDecision.base])
      /\ input' = input /\ clauses' = clauses /\ units' = units /\ learnts' = learnts /\ trail' = trail
  BY DEF Clean, search
<1>2. Decided(TopDecision) /\ TopDecision.base \in Nat /\ TopDecision.base <= TopDecision.base
  BY TopIsDecided DEF Inv, Decided
<1> DEFINE d == [TopDecision EXCEPT !.top = TopDecision.base]
<1>3. Decided(d) /\ d.dec = TopDecision.dec
  BY <1>2, TopMoves
<1> HIDE DEF d
<1>4. decisions' = SetTop(d)
  BY <1>1 DEF d
<1>5. DecisionsSound
  BY <1>3, <1>4, TopDecisions
<1> QED BY <1>1, <1>5, FewerLearnts, SameTrail, LearningStep

(* The flipped literal is that of a decision above level 0.                *)
LEMMA FlipBranchLearning == ASSUME Inv, Learning, FlipBranch PROVE Learning'
<1>1. /\ trail' = SetTrail({-TopDecision.dec}) /\ Level > 0
      /\ input' = input /\ clauses' = clauses /\ units' = units /\ learnts' = learnts
  BY DEF FlipBranch, Backtracking, search, SetTrail
<1>2. /\ Decided(TopDecision) /\ TopDecision = decisions[Len(decisions)]
      /\ Len(decisions) \in 2 .. Len(decisions) /\ Level # 0
  BY <1>1, TopIsDecided DEF Inv
<1>3. -TopDecision.dec \in Lits
  BY <1>2, Literals DEF Learning
<1>4. TrailSound
  <2>1. {-TopDecision.dec} \in SUBSET Lits
    BY <1>3
  <2> QED BY <1>1, <1>2, <2>1, MoreTrail
<1>5. DecisionsSound
  <2> DEFINE m == MulLitsWeights(TopDecision)
             w == IF InExists THEN m.weight ELSE Weight[-TopDecision.dec]
  <2>1. Same(m, TopDecision)
    BY <1>2, LitsWeightsKeeps
  <2>2. decisions' = SetTop([m EXCEPT !.second = TRUE, !.weight = w])
    BY DEF FlipBranch
  <2> HIDE DEF m, w
  <2> DEFINE d == [m EXCEPT !.second = TRUE, !.weight = w]
  <2>3. Decided(d) /\ d.dec = m.dec
    BY <2>1, SecondStarts DEF Same
  <2>4. d.dec = TopDecision.dec
    BY <2>1, <2>3 DEF Same
  <2> HIDE DEF d
  <2> QED BY <2>2, <2>3, <2>4, TopDecisions DEF d
<1> QED BY <1>1, <1>4, <1>5, FewerLearnts, LearningStep

LEMMA FinishLevelLearning == ASSUME Inv, Learning, FinishLevel PROVE Learning'
<1> DEFINE n == Len(decisions)
           prev == decisions[n - 1]
<1>1. /\ n \in Nat /\ n > 1 /\ n - 1 \in 1 .. n - 1 /\ (n - 1) + 1 = n
      /\ Len(trail) = n /\ Listed(trail) /\ Decided(prev) /\ prev.base < prev.top
  <2>1. n \in Nat /\ n > 1 /\ Len(trail) = n /\ Listed(trail)
    BY TopIsDecided DEF FinishLevel, Backtracking, Inv, Stacks
  <2>2. n - 1 \in 1 .. n - 1 /\ n - 1 \in 1 .. n /\ (n - 1) + 1 = n
    BY <2>1
  <2> QED BY <2>1, <2>2 DEF Inv, Stacks, Frames
<1>2. PICK d : /\ Same(d, prev) /\ decisions' = Append(SubSeq(decisions, 1, n - 2), NextComp(d))
               /\ trail' = Front(trail)
               /\ input' = input /\ clauses' = clauses /\ units' = units /\ learnts' = learnts
  <2> DEFINE val == TotalModels(MulLitsWeights(TopDecision))
             e == IF HasModel(MulLitsWeights(TopDecision)) THEN IncreaseModels(prev, val)
                  ELSE MarkBranchUnsat(prev)
  <2>1. Same(e, prev)
    BY <1>1, CountingKeeps
  <2>2. /\ decisions' = Append(SubSeq(decisions, 1, n - 2), NextComp(e))
        /\ trail' = Front(trail)
        /\ input' = input /\ clauses' = clauses /\ units' = units /\ learnts' = learnts
    BY DEF FinishLevel, search
  <2> HIDE DEF e
  <2> QED BY <2>1, <2>2
<1>3. NextComp(d).dec = prev.dec
  <2>1. Decided(d) /\ d.base < d.top
    BY <1>1, <1>2 DEF Same
  <2> QED BY <1>2, <2>1, NextCompMoves DEF Same
<1>4. /\ Len(decisions') = n - 1 /\ decisions'[n - 1] = NextComp(d)
      /\ \A k \in 1 .. n - 2 : decisions'[k] = decisions[k]
  BY <1>1, <1>2, PopExchanges DEF Inv
<1>5. DecisionsSound
  <2>1. ASSUME NEW k \in 2 .. Len(decisions') PROVE decisions'[k].dec \in Lits
    <3>1. k \in 2 .. n /\ (k = n - 1 \/ k \in 1 .. n - 2)
      <4>1. n \in Nat /\ k \in 2 .. (n - 1)
        BY <1>1, <1>4
      <4> HIDE DEF n
      <4> QED BY <4>1
    <3>2. decisions[k].dec \in Lits
      BY <3>1 DEF Learning
    <3> QED BY <1>3, <1>4, <3>1, <3>2
  <2> QED BY <2>1 DEF DecisionsSound
<1>6. /\ Len(trail') = n - 1 /\ \A i \in 1 .. n - 1 : trail'[i] = trail[i]
  <2>1. Listed(trail) /\ Len(trail) > 0 /\ Len(trail) = n
    BY <1>1
  <2>2. /\ Len(Front(trail)) = Len(trail) - 1
        /\ \A i \in 1 .. Len(trail) - 1 : Front(trail)[i] = trail[i]
    BY <2>1, ListedFront
  <2> QED BY <1>2, <2>1, <2>2
<1>7. 1 \in 1 .. n - 1 /\ \A i \in 1 .. n - 1 : i \in 1 .. n
  BY <1>1
<1>8. TrailSound
  BY <1>1, <1>6, <1>7 DEF Learning, TrailSound
<1> QED BY <1>2, <1>5, <1>8, FewerLearnts, LearningStep

(* A new level holds the literal that is decided.                          *)
LEMMA NewLevelLearning ==
  ASSUME Inv, Learning, NEW lit \in Lits, NEW d, d.dec = lit,
         decisions' = Append(decisions, d), trail' = Append(trail, {lit})
  PROVE  DecisionsSound /\ TrailSound
<1>1. Listed(decisions) /\ Listed(trail) /\ Len(trail) = Len(decisions) /\ Len(decisions) \in Nat \ {0}
  BY TopIsDecided DEF Inv, Stacks
<1>2. /\ Len(decisions') = Len(decisions) + 1 /\ decisions'[Len(decisions) + 1] = d
      /\ \A k \in 1 .. Len(decisions) : decisions'[k] = decisions[k]
  BY <1>1, ListedAppend
<1>3. /\ Len(trail') = Len(trail) + 1 /\ trail'[Len(trail) + 1] = {lit}
      /\ \A k \in 1 .. Len(trail) : trail'[k] = trail[k]
  BY <1>1, ListedAppend
<1>4. ASSUME NEW k \in 2 .. Len(decisions') PROVE decisions'[k].dec \in Lits
  <2>1. k = Len(decisions) + 1 \/ (k \in 1 .. Len(decisions) /\ k \in 2 .. Len(decisions))
    BY <1>1, <1>2
  <2> QED BY <1>2, <2>1 DEF Learning
<1>5. ASSUME NEW k \in 1 .. Len(trail') PROVE trail'[k] \subseteq Lits
  <2>1. k = Len(trail) + 1 \/ k \in 1 .. Len(trail)
    BY <1>1, <1>3
  <2> QED BY <1>3, <2>1 DEF Learning
<1>6. trail'[1] = trail[1]
  BY <1>1, <1>3
<1> QED BY <1>4, <1>5, <1>6 DEF DecisionsSound, TrailSound, Learning

LEMMA DecidableLits ==
  ASSUME NEW V \in SUBSET Vars
  PROVE  Decidable(V) \subseteq Lits
BY DEF Decidable, Lits, Negate

LEMMA DecideLearning == ASSUME Inv, Learning, Decide PROVE Learning'
<1>1. PICK lit \in Decidable(Super.vars \cap SVars) :
        decisions' = Append(decisions, NewDecision(lit)) /\ trail' = Append(trail, {lit})
  BY DEF Decide
<1>2. Super.vars \subseteq Vars
  BY ComponentOnTop
<1>3. lit \in Lits /\ NewDecision(lit).dec = lit
  BY <1>1, <1>2, DecidableLits DEF NewDecision
<1>4. clauses' \subseteq clauses /\ learnts' \subseteq learnts /\ units' = units /\ input' = input
  BY DEF Decide
<1> QED BY <1>1, <1>3, <1>4, NewLevelLearning, FewerLearnts, LearningStep

LEMMA DecideExistsLearning == ASSUME Inv, Learning, DecideExists PROVE Learning'
<1>1. PICK lit \in Decidable(Super.vars \ VarsOf(Assigned)) :
        /\ decisions' = Append(decisions, [NewDecision(lit) EXCEPT !.weight = 1, !.dvars = {}])
        /\ trail' = Append(trail, {lit})
  BY DEF DecideExists
<1>2. Super.vars \subseteq Vars
  BY ComponentOnTop
<1> DEFINE d == [NewDecision(lit) EXCEPT !.weight = 1, !.dvars = {}]
<1>3. lit \in Lits /\ d.dec = lit
  BY <1>1, <1>2, DecidableLits DEF NewDecision
<1>4. clauses' = clauses /\ learnts' = learnts /\ units' = units /\ input' = input
  BY DEF DecideExists, search
<1>5. decisions' = Append(decisions, d)
  BY <1>1
<1> HIDE DEF d
<1> QED BY <1>1, <1>3, <1>4, <1>5, NewLevelLearning, FewerLearnts, LearningStep

(* The other steps learn and assign nothing.                               *)
LEMMA QuietLearning ==
  ASSUME Learning, UNCHANGED <<search, trail, decisions>>
  PROVE  Learning'
BY FewerLearnts, SameTrail, SameDecisions, LearningStep DEF search

LEMMA LearningInit == ASSUME Init PROVE Learning
<1>1. /\ clauses = Formula /\ learnts = {} /\ units = {} /\ trail = << {} >> /\ Len(decisions) = 1
  BY DEF Init
<1>2. /\ Len(trail) = 1 /\ trail[1] = {} /\ 1 .. 1 = {1} /\ 2 .. 1 = {}
  BY <1>1
<1> QED BY <1>1, <1>2 DEF Learning, LearntImplied
-----------------------------------------------------------------------------
LEMMA LearningHolds == Spec /\ []UnitsHold => [](Inv /\ Learning)
<1>1. Init => Learning
  BY LearningInit
<1>2. Inv /\ UnitsHold /\ Learning /\ [Next]_vars => Learning'
  <2> SUFFICES ASSUME Inv, UnitsHold, Learning, [Next]_vars PROVE Learning'
    OBVIOUS
  <2>1. CASE \/ UNCHANGED vars \/ Done \/ StartExists \/ ExistsDone \/ BacktrackRoot \/ BacktrackEntry
    <3>1. UNCHANGED <<search, trail, decisions>>
      BY <2>1 DEF vars, Done, StartExists, ExistsDone, BacktrackRoot, BacktrackEntry, search
    <3> QED BY <3>1, QuietLearning
  <2>2. CASE Propagation
    BY <2>2, PropagationLearning
  <2>3. CASE Conflict \/ ConflictAtEntry
    BY <2>3, ConflictLearning
  <2>4. CASE SplitComponent
    BY <2>4, SplitComponentLearning
  <2>5. CASE ExistsTrue
    BY <2>5, ExistsTrueLearning
  <2>6. CASE ExistsFalse
    BY <2>6, ExistsFalseLearning
  <2>7. CASE Clean
    BY <2>7, CleanLearning
  <2>8. CASE FlipBranch
    BY <2>8, FlipBranchLearning
  <2>9. CASE FinishLevel
    BY <2>9, FinishLevelLearning
  <2>10. CASE Decide
    BY <2>10, DecideLearning
  <2>11. CASE DecideExists
    BY <2>11, DecideExistsLearning
  <2> QED BY <2>1, <2>2, <2>3, <2>4, <2>5, <2>6, <2>7, <2>8, <2>9, <2>10, <2>11 DEF Next
<1> QED BY <1>1, <1>2, Invariant, PTL DEF Spec

(* The clauses and units that analyzeMC() learns hold in every model of    *)
(* the formula, whatever is decided, found in the cache, removed by        *)
(* simplify() or counted as of level 0, as long as no conflict is analysed *)
(* under the negation of a unit.                                           *)
THEOREM LearningIsSound == Spec /\ []UnitsHold => []LearntImplied
<1>1. Learning => LearntImplied
  BY DEF Learning
<1> QED BY <1>1, LearningHolds, PTL

(* Then, if the formula has a model, a conflict that analyzeMC() is given  *)
(* involves a literal above level 0, and its walk back along the trail     *)
(* stops there.                                                            *)
THEOREM AnalysisStops == Spec /\ []UnitsHold => [](AllModels # {} => ConflictAboveZero)
<1>1. ASSUME Inv, Learning, UnitsHold, NEW M \in AllModels PROVE ConflictAboveZero
  <2> SUFFICES ASSUME pc = "conflict", Refuted(clauses \cup learnts, LevelZero) PROVE FALSE
    BY DEF ConflictAboveZero
  <2>1. LevelZero \in SUBSET Lits /\ LevelZero \subseteq M
    BY <1>1, LevelZeroImplied DEF UnitsHold
  <2>2. clauses \cup learnts \in SUBSET (SUBSET Lits) /\ Agrees(clauses \cup learnts, M)
    BY <1>1, ModelsAgree
  <2> QED BY <1>1, <2>1, <2>2, RefutedSound
<1>2. Inv /\ Learning /\ UnitsHold => (AllModels # {} => ConflictAboveZero)
  BY <1>1
<1> QED BY <1>2, LearningHolds, PTL
=============================================================================
