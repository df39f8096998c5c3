--------------------------- MODULE ComponentCache ---------------------------
(***************************************************************************)
(* The component cache: its hash table, the tree of descendants threaded   *)
(* through the entries, the free slots, the access clock and the memory    *)
(* account, with one operator per method.  An operator maps the cache it   *)
(* is given to the cache the method leaves; ComponentManager composes them *)
(* into the steps of the search.                                           *)
(*                                                                         *)
(* A component is an opaque value and its hash a number.  A stored count   *)
(* is present or absent.  An entry takes one unit of memory, its count     *)
(* another.                                                                *)
(***************************************************************************)
EXTENDS Integers, Sequences, FiniteSets, SequencesExt

CONSTANTS
    Hash,       \* hash of every component
    NoComp,     \* the component of the root entry and of free ones
    InitTable,  \* initial size of the table
    PollEvery   \* the eviction sweep polls the stop flag every so many ids

INVALID_ENTRY == 0

Max0(S) == Max(S \cup {INVALID_ENTRY})

FreshEntry ==
    [comp |-> NoComp, model |-> FALSE, zero |-> FALSE, delete |-> FALSE, used |-> 1,
     father |-> INVALID_ENTRY, first |-> INVALID_ENTRY, next |-> INVALID_ENTRY,
     chain |-> INVALID_ENTRY, created |-> 0, free |-> TRUE]

EmptyCache(max) ==
    [entry |-> <<>>, table |-> [s \in 0 .. InitTable - 1 |-> INVALID_ENTRY],
     freeSlots |-> <<>>, clock |-> 1, maxMemory |-> max, memory |-> 0, confirmed |-> 0]

Ids(c) == 1 .. Len(c.entry)
Live(c) == {id \in Ids(c) : ~ c.entry[id].free}
Confirmed(c) == {id \in Live(c) : c.entry[id].model \/ c.entry[id].zero}
Slot(c, id) == Hash[c.entry[id].comp] % Cardinality(DOMAIN c.table)
SizeInBytes(e) == IF e.model THEN 2 ELSE 1

(* The list that starts at id and goes on through pointers.                *)
Follow(pointer, id) ==
    LET from[n \in Nat] ==
            [e \in DOMAIN pointer \cup {INVALID_ENTRY} |->
               IF n = 0 \/ e = INVALID_ENTRY THEN <<>> ELSE <<e>> \o from[n-1][pointer[e]]]
    IN  from[Cardinality(DOMAIN pointer)][id]

ChainOf(c) == [e \in Ids(c) |-> c.entry[e].chain]
NextOf(c) == [e \in Ids(c) |-> c.entry[e].next]
FatherOf(c) == [e \in Ids(c) |-> c.entry[e].father]
Bucket(c, slot) == Follow(ChainOf(c), c.table[slot])
Children(c, id) == Follow(NextOf(c), c.entry[id].first)
-----------------------------------------------------------------------------
(* The entry that holds the component, or INVALID_ENTRY.                   *)
Find(c, comp) ==
    LET bucket == Bucket(c, Hash[comp] % Cardinality(DOMAIN c.table))
        i == SelectInSeq(bucket, LAMBDA id : c.entry[id].comp = comp)
    IN  IF i = 0 THEN INVALID_ENTRY ELSE bucket[i]

(* lookup(): a hit is the youngest use of its entry.                       *)
Lookup(c, comp) ==
    LET id == Find(c, comp)
    IN  IF id = INVALID_ENTRY THEN c
        ELSE [c EXCEPT !.entry[id].used = c.clock, !.clock = @ + 1]

AllocId(c) == IF c.freeSlots = <<>> THEN Len(c.entry) + 1 ELSE Last(c.freeSlots)

AllocEntry(c) ==
    IF c.freeSlots = <<>> THEN [c EXCEPT !.entry = Append(@, FreshEntry)]
    ELSE [c EXCEPT !.freeSlots = Front(@)]

(* Mutant: the size is taken after the count has been reset.               *)
FreeEntryResetFirst(c, id) ==
    [c EXCEPT !.memory = @ - 1, !.freeSlots = Append(@, id),
              !.entry[id] = [FreshEntry EXCEPT !.used = @]]

FreeEntry(c, id) ==
    [c EXCEPT !.memory = @ - SizeInBytes(c.entry[id]),
              !.freeSlots = Append(@, id),
              !.entry[id] = [@ EXCEPT !.comp = NoComp, !.model = FALSE, !.free = TRUE,
                                      !.father = INVALID_ENTRY, !.first = INVALID_ENTRY,
                                      !.next = INVALID_ENTRY, !.chain = INVALID_ENTRY]]

(* A doubled table is filled in the order of the ids, each at the head.    *)
GrowTableIfNeeded(c) ==
    LET size == 2 * Cardinality(DOMAIN c.table)
        In(slot) == {id \in Confirmed(c) : Hash[c.entry[id].comp] % size = slot}
        Older(id) == {j \in In(Hash[c.entry[id].comp] % size) : j < id}
    IN  IF c.confirmed <= Cardinality(DOMAIN c.table) THEN c
        ELSE [c EXCEPT
                !.table = [s \in 0 .. size - 1 |-> Max0(In(s))],
                !.entry = [id \in Ids(c) |->
                             IF id \in Confirmed(c) THEN [@[id] EXCEPT !.chain = Max0(Older(id))]
                             ELSE @[id]]]

LinkIntoTable(c, id) ==
    LET slot == Slot(c, id)
    IN  GrowTableIfNeeded([c EXCEPT !.entry[id].chain = c.table[slot],
                                    !.table[slot] = id,
                                    !.confirmed = @ + 1])

(* Mutant: the entry is unlinked as if it were the first of its bucket.    *)
RemoveFromTableHead(c, id) ==
    IF id \notin ToSet(Bucket(c, Slot(c, id))) THEN c
    ELSE [c EXCEPT !.table[Slot(c, id)] = c.entry[id].chain, !.confirmed = @ - 1,
                   !.entry[id].chain = INVALID_ENTRY]

(* An entry without a result is in no bucket and none is changed.          *)
RemoveFromTable(c, id) ==
    LET slot == Slot(c, id)
        bucket == Bucket(c, slot)
        i == SelectInSeq(bucket, LAMBDA x : x = id)
        next == c.entry[id].chain
        unlinked == [c EXCEPT !.confirmed = @ - 1, !.entry[id].chain = INVALID_ENTRY]
    IN  CASE i = 0 -> c
          [] i = 1 -> [unlinked EXCEPT !.table[slot] = next]
          [] i > 1 -> [unlinked EXCEPT !.entry[bucket[i - 1]].chain = next]
-----------------------------------------------------------------------------
AddDescendant(c, parent, child) ==
    [c EXCEPT !.entry[child].father = parent,
              !.entry[child].next = c.entry[parent].first,
              !.entry[parent].first = child]

(* Mutant: the children go to the head of the list of the father.          *)
RemoveFromDescendantsTreeHead(c, id) ==
    LET father == c.entry[id].father
        kids == Children(c, id)
        rest == SelectSeq(Children(c, father), LAMBDA e : e # id)
        list == kids \o rest
        Behind(e) == LET i == SelectInSeq(list, LAMBDA x : x = e)
                     IN  IF i = Len(list) THEN INVALID_ENTRY ELSE list[i + 1]
    IN  [c EXCEPT !.entry = [e \in Ids(c) |->
           CASE e = father -> [@[e] EXCEPT !.first = IF list = <<>> THEN INVALID_ENTRY
                                                     ELSE Head(list)]
             [] e \in ToSet(list) -> [@[e] EXCEPT !.father = father, !.next = Behind(e)]
             [] e = id -> [@[e] EXCEPT !.first = INVALID_ENTRY]
             [] OTHER -> @[e]]]

(* The children of the entry take its place in the list of its father.     *)
RemoveFromDescendantsTree(c, id) ==
    LET father == c.entry[id].father
        kids == Children(c, id)
        after == c.entry[id].next
        replacement == IF kids = <<>> THEN after ELSE Head(kids)
        siblings == Children(c, father)
        i == SelectInSeq(siblings, LAMBDA x : x = id)
        moved == [c EXCEPT !.entry = [e \in Ids(c) |->
                    IF e \notin ToSet(kids) THEN c.entry[e]
                    ELSE [c.entry[e] EXCEPT !.father = father,
                                            !.next = IF e = Last(kids) THEN after ELSE @]]]
        detached == [moved EXCEPT !.entry[id].first = INVALID_ENTRY]
    IN  IF i = 1 THEN [detached EXCEPT !.entry[father].first = replacement]
        ELSE [detached EXCEPT !.entry[siblings[i - 1]].next = replacement]

(* The entry and everything below it, in the order cleanPollutions() frees *)
(* them: children before their father, the last child first.               *)
FreeOrder(c, id) ==
    LET walk[n \in Nat] ==
            IF n = 0 THEN [seen |-> <<>>, todo |-> <<id>>]
            ELSE LET w == walk[n-1]
                 IN  IF w.todo = <<>> THEN w
                     ELSE [seen |-> <<Head(w.todo)>> \o w.seen,
                           todo |-> Children(c, Head(w.todo)) \o Tail(w.todo)]
    IN  walk[Len(c.entry)].seen

CleanPollutions(c, id) ==
    LET order == FreeOrder(c, id)
        freed[n \in 0 .. Len(order)] ==
            IF n = 0 THEN c ELSE FreeEntry(RemoveFromTable(freed[n-1], order[n]), order[n])
    IN  freed[Len(order)]

(* Where in the list the loop of cleanDescendants() stops: at the first    *)
(* child older than the given time.                                        *)
(* Mutant: the child created at that very time is taken for an old one.    *)
FirstNotYounger(c, kids, since) ==
    SelectInSeq(kids, LAMBDA e : c.entry[e].created <= since)

FirstOld(c, kids, since) == SelectInSeq(kids, LAMBDA e : c.entry[e].created < since)

CleanDescendants(c, id, since) ==
    LET kids == Children(c, id)
        old == FirstOld(c, kids, since)
        n == IF old = 0 THEN Len(kids) ELSE old - 1
        cleaned[k \in 0 .. n] == IF k = 0 THEN c ELSE CleanPollutions(cleaned[k-1], kids[k])
    IN  [cleaned[n] EXCEPT !.entry[id].first = IF old = 0 THEN INVALID_ENTRY ELSE kids[old]]
-----------------------------------------------------------------------------
Evictable(c) == {id \in Confirmed(c) : c.entry[id].delete}

(* The last use that half of the evictable entries precede.                *)
Cutoff(c) ==
    LET half == Cardinality(Evictable(c)) \div 2
        Before(t) == Cardinality({id \in Evictable(c) : c.entry[id].used < t})
        Until(t) == Cardinality({id \in Evictable(c) : c.entry[id].used <= t})
    IN  CHOOSE t \in {c.entry[id].used : id \in Evictable(c)} :
            Before(t) <= half /\ half < Until(t)

(* Where the sweep ends when its polls see the stop flag clear so many     *)
(* times and set after that.                                               *)
SweepEnd(c, clear) ==
    IF (clear + 1) * PollEvery > Len(c.entry) THEN Len(c.entry)
    ELSE (clear + 1) * PollEvery - 1

(* The entries the sweep removes are fixed before it starts: removing one  *)
(* makes no other evictable.                                               *)
Evict(c, id) == FreeEntry(RemoveFromTable(RemoveFromDescendantsTree(c, id), id), id)

EvictIfNeeded(c, clear) ==
    IF c.memory <= c.maxMemory \/ Evictable(c) = {} THEN c
    ELSE LET old == {id \in Evictable(c) : c.entry[id].used <= Cutoff(c) /\ id <= SweepEnd(c, clear)}
             swept[id \in 0 .. Len(c.entry)] ==
                 IF id = 0 THEN c
                 ELSE IF id \in old THEN Evict(swept[id-1], id) ELSE swept[id-1]
         IN  swept[Len(c.entry)]

(* How many of the polls are left after an insertion into the cache c.     *)
PollsLeft(c, clear) ==
    IF c.memory < c.maxMemory \/ Evictable(c) = {} THEN clear
    ELSE clear - SweepEnd(AllocEntry(c), clear) \div PollEvery

NewEntry(c, comp, clear) ==
    LET id == AllocId(c)
        d == AllocEntry(c)
        created == [d EXCEPT !.entry[id] = [@ EXCEPT !.comp = comp, !.zero = FALSE,
                                                     !.delete = FALSE, !.used = 1,
                                                     !.free = FALSE, !.created = d.clock],
                             !.clock = @ + 1,
                             !.memory = @ + 1]
    IN  EvictIfNeeded(created, clear)

NewRootEntry(c) ==
    LET d == AllocEntry(c)
    IN  [d EXCEPT !.entry[AllocId(c)].free = FALSE, !.memory = @ + 1]

Store(c, id) ==
    LinkIntoTable([c EXCEPT !.entry[id].model = TRUE, !.entry[id].used = c.clock,
                            !.clock = @ + 1, !.memory = @ + 1], id)

(* Mutant: the entry is marked and not linked into the table.              *)
StoreZeroUnlinked(c, id) ==
    [c EXCEPT !.entry[id].zero = TRUE, !.entry[id].used = c.clock,
              !.entry[id].delete = TRUE, !.clock = @ + 1]

StoreZero(c, id) ==
    LinkIntoTable([c EXCEPT !.entry[id].zero = TRUE, !.entry[id].used = c.clock,
                            !.entry[id].delete = TRUE, !.clock = @ + 1], id)

SetDeletePermitted(c, id, b) == [c EXCEPT !.entry[id].delete = b]
=============================================================================
