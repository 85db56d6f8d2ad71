------------------------------ MODULE VecBody ------------------------------
(***************************************************************************)
(* The body of a VecDB handle (struct VecDB of vecdb.c) and what single    *)
(* calls do to it: slots filled in order and never reused, tombstones, the *)
(* id map, doubling growth.  VecDB and Persistence are state machines over *)
(* such bodies.                                                            *)
(***************************************************************************)
EXTENDS Integers, FiniteSets, Sequences

CONSTANTS
    Ids,         \* external 64-bit ids
    Vecs,        \* vector payloads
    Garbage,     \* contents of storage that was never written
    InitialCap,  \* initial_capacity of the configuration
    DefaultCap   \* 1024: the capacity when none is asked for

Slot == [id : Ids, vec : Vecs, dead : BOOLEAN]

NoSlot == -1     \* UINT32_MAX

Items == [id : Ids, vec : Vecs]

Fresh(c) == [cap |-> c, count |-> 0, alive |-> 0,
             slot |-> [s \in 0 .. c - 1 |-> Garbage],
             map |-> [id \in Ids |-> NoSlot]]

Absent(d, id) == d.map[id] = NoSlot

IsLive(d, s) == d.slot[s] \in Slot /\ ~ d.slot[s].dead

LiveSlots(d) == {s \in 0 .. d.count - 1 : IsLive(d, s)}

\* grow(): the capacity doubles, the new storage is uninitialised.
Grow(d) == [cap |-> d.cap * 2, count |-> d.count, alive |-> d.alive,
            slot |-> [s \in 0 .. d.cap * 2 - 1 |->
                         IF s < d.cap THEN d.slot[s] ELSE Garbage],
            map |-> d.map]

\* Writing one slot and its id map entry, without touching the counters.
Fill(d, s, id, v) ==
    [cap |-> d.cap, count |-> d.count, alive |-> d.alive,
     slot |-> [q \in 0 .. d.cap - 1 |->
                  IF q = s THEN [id |-> id, vec |-> v, dead |-> FALSE]
                           ELSE d.slot[q]],
     map |-> [k \in Ids |-> IF k = id THEN s ELSE d.map[k]]]

Count(d, n) == [cap |-> d.cap, count |-> d.count + n, alive |-> d.alive + n,
                slot |-> d.slot, map |-> d.map]

AddToLate(d, id, v) ==   \* mutant: grows one insert too late
    LET g == IF d.count > d.cap THEN Grow(d) ELSE d
    IN  IF Absent(g, id) THEN Count(Fill(g, g.count, id, v), 1) ELSE g

AddToReuse(d, id, v) ==   \* mutant: a tombstone's slot is used again
    LET g == IF d.count = d.cap THEN Grow(d) ELSE d
        free == {s \in 0 .. g.count - 1 : ~ IsLive(g, s)}
    IN  IF ~ Absent(g, id) THEN g
        ELSE IF free = {} THEN Count(Fill(g, g.count, id, v), 1)
        ELSE Fill(g, CHOOSE s \in free : TRUE, id, v)

\* vecdb_add grows before it looks for a duplicate.
AddTo(d, id, v) ==
    LET g == IF d.count = d.cap THEN Grow(d) ELSE d
    IN  IF Absent(g, id) THEN Count(Fill(g, g.count, id, v), 1) ELSE g

BuryUncounted(d, id) ==   \* mutant: alive is not decremented
    [d EXCEPT !.slot[d.map[id]].dead = TRUE, !.map[id] = NoSlot]

\* vecdb_delete of a present id: a tombstone, and the id is free again.
Bury(d, id) ==
    [cap |-> d.cap, count |-> d.count, alive |-> d.alive - 1,
     slot |-> [s \in 0 .. d.cap - 1 |->
                  IF s = d.map[id]
                  THEN [id |-> d.slot[s].id, vec |-> d.slot[s].vec, dead |-> TRUE]
                  ELSE d.slot[s]],
     map |-> [k \in Ids |-> IF k = id THEN NoSlot ELSE d.map[k]]]

DuplicateStored(d, b) ==   \* mutant: repetitions in the batch are missed
    \E j \in 1 .. Len(b) : ~ Absent(d, b[j].id)

\* bulk_insert refuses ids already stored and ids repeated in the batch.
Duplicate(d, b) == \/ \E j \in 1 .. Len(b) : ~ Absent(d, b[j].id)
                   \/ \E j, k \in 1 .. Len(b) : j # k /\ b[j].id = b[k].id

CompactCapInitial(d) == InitialCap   \* mutant: not sized to the live vectors

\* The capacity of the database a compaction fills.
CompactCap(d) == IF d.alive = 0 THEN DefaultCap ELSE d.alive

\* The shape of a body.
IsBody(d) == /\ d.cap \in Nat /\ d.count \in Nat /\ d.alive \in Nat
             /\ d = [cap |-> d.cap, count |-> d.count, alive |-> d.alive,
                     slot |-> d.slot, map |-> d.map]
             /\ d.slot \in [0 .. d.cap - 1 -> Slot \cup {Garbage}]
             /\ d.map \in [Ids -> Int]

\* The first n slots as the id map must know them.
Mapped(d, n) == {s \in 0 .. n - 1 : IsLive(d, s)}
MapExactFor(d, n) ==
    /\ \A id \in Ids : d.map[id] # NoSlot =>
          d.map[id] \in Mapped(d, n) /\ d.slot[d.map[id]].id = id
    /\ \A s \in Mapped(d, n) : d.map[d.slot[s].id] = s
=============================================================================
