--------------------------- MODULE CacheContract ---------------------------
(***************************************************************************)
(* What the component cache promises to the search of count_main(),        *)
(* without the tables, lists and pointers that implement it.               *)
(*                                                                         *)
(* The cache is a set of entries, each stamped with the clock at its       *)
(* creation.  The entries of components still on the component stack are   *)
(* pinned.  An entry leaves the cache in one of two ways only: it is       *)
(* evicted, when it holds a result and is not pinned, or the search finds  *)
(* a branch unsatisfiable and rolls the cache back to the moment the       *)
(* branch split its component.  The rollback is exact: nothing created     *)
(* since that moment survives and nothing older is touched.  Counts that   *)
(* were computed below an unsatisfiable branch are unreliable, because     *)
(* clauses learnt there may rest on the contradiction, so this is the      *)
(* promise that keeps the cache sound.                                     *)
(***************************************************************************)
EXTENDS Naturals

CONSTANTS
    Id,         \* cache entry ids
    Root,       \* the entry of the whole formula
    MaxTime     \* bound on the access clock

VARIABLES
    live,       \* entries in use
    created,    \* creation stamp of every entry
    confirmed,  \* entries that hold a result
    pinned,     \* entries of the components on the component stack
    clock       \* access clock

vars == <<live, created, confirmed, pinned, clock>>

Init ==
    /\ live = {Root}
    /\ created = [e \in Id |-> 0]
    /\ confirmed = {}
    /\ pinned = {Root}
    /\ clock = 1

(* A split enters the components C it has not found, after the eviction of *)
(* some of the entries that hold a result and are not in use.              *)
Create(C, E, now, stamp) ==
    /\ E \subseteq confirmed \ pinned
    /\ C \cap (live \ E) = {}
    /\ live' = (live \ E) \cup C
    /\ created' = [e \in Id |-> IF e \in C THEN stamp[e] ELSE created[e]]
    /\ confirmed' = confirmed \ E
    /\ pinned' = pinned \cup C
    /\ clock' = now

(* A component leaves the stack, with its result or without one.           *)
Release(e, result) ==
    /\ e \in pinned \ {Root}
    /\ pinned' = pinned \ {e}
    /\ confirmed' = confirmed \cup result
    /\ UNCHANGED <<live, created>>

(* An unsatisfiable branch is undone: what it created is gone, and nothing *)
(* else is.                                                                *)
Rollback(since) ==
    LET Old == {e \in live : created[e] < since}
    IN  /\ live' = Old
        /\ confirmed' = confirmed \cap Old
        /\ pinned' = pinned \cap Old
        /\ UNCHANGED <<created, clock>>

Next ==
    \/ \E C \in SUBSET Id, E \in SUBSET Id, now \in clock .. MaxTime :
         \E stamp \in [C -> clock .. (now - 1)] : Create(C, E, now, stamp)
    \/ \E e \in Id : /\ \E result \in {{}, {e}} : Release(e, result)
                     /\ clock' \in {clock, clock + 1}
    \/ \E since \in 1 .. MaxTime : Rollback(since)

Spec == Init /\ [][Next]_vars
=============================================================================
