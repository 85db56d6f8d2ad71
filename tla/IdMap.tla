------------------------------- MODULE IdMap -------------------------------
(***************************************************************************)
(* The id -> slot hash map inside VecDB (map_put, map_get, map_del and     *)
(* map_rehash of vecdb.c): open addressing with linear probing, erased     *)
(* cells ("graves") that keep probe chains intact, and a table that        *)
(* doubles when the number of live entries reaches 70% of it.              *)
(*                                                                         *)
(* The three parallel arrays map_state, map_keys and map_vals are one      *)
(* function "cell"; the stale key and value of an erased cell are never    *)
(* read and are left out.  A rehash moves one cell per step, as the loop   *)
(* in map_rehash does.  A probe that meets neither its key nor an empty    *)
(* cell goes round the table for ever: that call is the state "spin".      *)
(***************************************************************************)
EXTENDS Naturals, FiniteSets

CONSTANTS
    Keys,      \* the 64-bit ids
    Vals,      \* the slots stored as values
    NoVal,     \* UINT32_MAX, the "absent" result of map_get
    Empty,     \* map_state = 0
    Erased,    \* map_state = 2
    InitCap,   \* capacity of the first table (2048 in the code)
    Hash       \* hash_u64, an arbitrary function here

Entry == [key : Keys, val : Vals]

ASSUME IdMapAssumption ==
    /\ NoVal \notin Vals
    /\ Empty # Erased
    /\ Empty \notin Entry
    /\ Erased \notin Entry
    /\ InitCap \in Nat /\ InitCap >= 2
    /\ Hash \in [Keys -> Nat]

VARIABLES
    table,     \* the table the VecDB points to: [cap, used, cell]
    drained,   \* the table a rehash is draining
    cursor,    \* the loop index of map_rehash
    pending,   \* the key and value of the map_put that triggered the rehash
    phase,     \* "idle", "rehash", or "spin"
    got        \* the result of the last completed map_get

mapVars == <<table, drained, cursor, pending, phase, got>>
-----------------------------------------------------------------------------
(***************************************************************************)
(* Tables and probing.                                                     *)
(***************************************************************************)
Cells(t) == 0 .. t.cap - 1

NewTable(c) == [cap |-> c, used |-> 0, cell |-> [p \in 0 .. c - 1 |-> Empty]]

NoTable == NewTable(0)

Used(t) == {p \in Cells(t) : t.cell[p] \in Entry}

IsHit(t, k, p) == t.cell[p] \in Entry /\ t.cell[p].key = k

Home(t, k) == Hash[k] % t.cap

\* How many probes key k needs to reach cell p: the wrap-around of "& m".
Dist(t, k, p) == IF p >= Home(t, k) THEN p - Home(t, k)
                                    ELSE p - Home(t, k) + t.cap

\* The cells at which the probe loop of key k ends.
StopsAtGrave(t, k) ==   \* mutant: a grave ends the probe
    {p \in Cells(t) : t.cell[p] \in {Empty, Erased} \/ IsHit(t, k, p)}

Stops(t, k) == {p \in Cells(t) : t.cell[p] = Empty \/ IsHit(t, k, p)}

\* The first cell of S the probe sequence of k meets.
First(t, k, S) == CHOOSE p \in S : \A q \in S : Dist(t, k, p) <= Dist(t, k, q)

Stop(t, k) == First(t, k, Stops(t, k))

\* Erased cells the probe passes before it stops at cell s.
Graves(t, k, s) == {p \in Cells(t) : t.cell[p] = Erased
                                     /\ Dist(t, k, p) < Dist(t, k, s)}

\* Where map_put writes an absent key: the first grave on the way, or the
\* empty cell that ended the probe.
PutCell(t, k) == LET s == Stop(t, k)
                     g == Graves(t, k, s)
                 IN  IF g = {} THEN s ELSE First(t, k, g)

\* The growth test of map_put.  It counts live entries only: graves are free.
Overloaded(t) == (t.used + 1) * 10 >= t.cap * 7

NextCapSame(t) ==   \* mutant: a rehash only clears the graves
    IF t.cap = 0 THEN InitCap ELSE t.cap

NextCap(t) == IF t.cap = 0 THEN InitCap ELSE t.cap * 2

WithCell(t, p, c, u) ==
    [cap |-> t.cap, used |-> u,
     cell |-> [q \in Cells(t) |-> IF q = p THEN c ELSE t.cell[q]]]

PutCountsUpdate(t, k, v) ==     \* mutant: an update counts as an insertion
    LET s == Stop(t, k)
    IN  WithCell(t, IF IsHit(t, k, s) THEN s ELSE PutCell(t, k),
                 [key |-> k, val |-> v], t.used + 1)

\* The body of map_put after the growth test.
PutInto(t, k, v) ==
    LET s == Stop(t, k)
        e == [key |-> k, val |-> v]
    IN  IF IsHit(t, k, s) THEN WithCell(t, s, e, t.used)
                          ELSE WithCell(t, PutCell(t, k), e, t.used + 1)

\* What map_get returns when its probe ends.
Lookup(t, k) == IF t.cap = 0 THEN NoVal
                ELSE LET s == Stop(t, k)
                     IN  IF IsHit(t, k, s) THEN t.cell[s].val ELSE NoVal

EraseToEmpty(t, k) ==   \* mutant: no grave is left
    IF t.cap = 0 THEN t
    ELSE LET s == Stop(t, k)
         IN  IF IsHit(t, k, s) THEN WithCell(t, s, Empty, t.used - 1) ELSE t

EraseUnchecked(t, k) ==   \* mutant: the counter drops for an absent key too
    IF t.cap = 0 THEN t
    ELSE LET s == Stop(t, k)
         IN  WithCell(t, s, IF IsHit(t, k, s) THEN Erased ELSE Empty, t.used - 1)

\* What map_del leaves: the entry becomes a grave, never an empty cell.
Erase(t, k) == IF t.cap = 0 THEN t
               ELSE LET s == Stop(t, k)
                    IN  IF IsHit(t, k, s) THEN WithCell(t, s, Erased, t.used - 1)
                                          ELSE t
-----------------------------------------------------------------------------
MapInit == /\ table = NoTable
           /\ drained = NoTable
           /\ cursor = 0
           /\ pending = <<>>
           /\ phase = "idle"
           /\ got = NoVal

Idle == phase = "idle" /\ UNCHANGED <<drained, cursor, pending, phase>>

\* map_put, no growth needed.
Put(k, v) == /\ ~ Overloaded(table)
             /\ Stops(table, k) # {}
             /\ Idle
             /\ table' = PutInto(table, k, v)
             /\ UNCHANGED got

StartRehashLate(k, v) ==   \* mutant: the loop starts at the second cell
    /\ phase = "idle" /\ Overloaded(table)
    /\ phase' = "rehash" /\ drained' = table /\ table' = NewTable(NextCap(table))
    /\ cursor' = (IF table.cap = 0 THEN 0 ELSE 1)
    /\ pending' = <<k, v>>
    /\ UNCHANGED got

\* map_put reaches its load limit and enters map_rehash.
StartRehash(k, v) == /\ phase = "idle"
                     /\ Overloaded(table)
                     /\ phase' = "rehash"
                     /\ drained' = table
                     /\ table' = NewTable(NextCap(table))
                     /\ cursor' = 0
                     /\ pending' = <<k, v>>
                     /\ UNCHANGED got

\* One iteration of the loop of map_rehash: a live cell is put again, an empty
\* or an erased one is dropped.  The inner map_put runs its own growth test.
RehashCell == /\ phase = "rehash"
              /\ cursor < drained.cap
              /\ IF drained.cell[cursor] \in Entry
                 THEN /\ ~ Overloaded(table)
                      /\ Stops(table, drained.cell[cursor].key) # {}
                      /\ table' = PutInto(table, drained.cell[cursor].key, drained.cell[cursor].val)
                 ELSE table' = table
              /\ cursor' = cursor + 1
              /\ UNCHANGED <<drained, pending, phase, got>>

\* map_rehash is done and map_put goes on in the new table.
FinishPut == /\ phase = "rehash"
             /\ cursor = drained.cap
             /\ Stops(table, pending[1]) # {}
             /\ table' = PutInto(table, pending[1], pending[2])
             /\ drained' = NoTable
             /\ cursor' = 0
             /\ pending' = <<>>
             /\ phase' = "idle"
             /\ UNCHANGED got

Get(k) == /\ table.cap = 0 \/ Stops(table, k) # {}
          /\ Idle
          /\ got' = Lookup(table, k)
          /\ UNCHANGED table

Del(k) == /\ table.cap = 0 \/ Stops(table, k) # {}
          /\ Idle
          /\ table' = Erase(table, k)
          /\ UNCHANGED got

\* The probe of an absent key in a table without an empty cell: map_get,
\* map_del and map_put (which does not grow the table) all loop for ever.
Hang(k) == /\ phase = "idle"
           /\ table.cap > 0
           /\ Stops(table, k) = {}
           /\ phase' = "spin"
           /\ UNCHANGED <<table, drained, cursor, pending, got>>

Spin == phase = "spin" /\ UNCHANGED mapVars

MapNext == \/ \E k \in Keys, v \in Vals : Put(k, v) \/ StartRehash(k, v)
           \/ RehashCell
           \/ FinishPut
           \/ \E k \in Keys : Get(k) \/ Del(k) \/ Hang(k)
           \/ Spin

MapSpec == MapInit /\ [][MapNext]_mapVars
-----------------------------------------------------------------------------
(***************************************************************************)
(* Properties.                                                             *)
(***************************************************************************)
IsTable(t) == /\ t.cap \in Nat
              /\ t.used \in Nat
              /\ t = [cap |-> t.cap, used |-> t.used, cell |-> t.cell]
              /\ t.cell \in [Cells(t) -> Entry \cup {Empty, Erased}]

\* Types of the two tables and of the state of a rehash.
MapTypeOK == /\ IsTable(table)
             /\ IsTable(drained)
             /\ phase \in {"idle", "rehash", "spin"}
             /\ cursor \in 0 .. drained.cap
             /\ phase # "rehash" => pending = <<>> /\ drained = NoTable
             /\ phase = "rehash" => pending \in Keys \X Vals
             /\ got \in Vals \cup {NoVal}

\* No key occupies two cells of a table.  map_put remembers the first grave
\* but must go on probing past it: the key may live further along.
UniqueIn(t) == \A p, q \in Used(t) : t.cell[p].key = t.cell[q].key => p = q
UniqueKeys == UniqueIn(table) /\ UniqueIn(drained)

\* The probe sequence of a stored key meets no empty cell before the key, so
\* neither a delete nor the reuse of a grave cuts a chain.
ReachableIn(t) == \A p \in Used(t), q \in Cells(t) :
                     t.cell[q] = Empty =>
                        Dist(t, t.cell[p].key, p) < Dist(t, t.cell[p].key, q)
ProbeReachable == ReachableIn(table) /\ ReachableIn(drained)

\* map_used is the number of live entries after any mix of put, update,
\* delete, reuse of graves and rehash; the growth test depends on it.
CountIn(t) == t.used = Cardinality(Used(t))
UsedCount == CountIn(table) /\ CountIn(drained)

\* "<70% load": no call leaves live entries filling 70% of the table.
LoadBound == table.cap > 0 => table.used * 10 < table.cap * 7

\* The recursion map_rehash -> map_put -> map_rehash never nests: while cells
\* are moved, and when the pending put resumes, the new table has room and
\* the probe ends.
NoNestedRehash ==
    phase = "rehash" =>
        /\ \E p \in Cells(table) : table.cell[p] = Empty
        /\ cursor \in Used(drained) => ~ Overloaded(table)

\* The map as its callers see it: the table being drained while a rehash runs.
Live == IF phase = "rehash" THEN drained ELSE table

Mapping == [k \in Keys |->
              IF \E p \in Used(Live) : Live.cell[p].key = k
              THEN Live.cell[CHOOSE p \in Used(Live) : Live.cell[p].key = k].val
              ELSE NoVal]

\* The hash table implements the abstract map: every get returns the last
\* value put and not deleted, across collisions, graves and rehashes.
Table == INSTANCE IdTable WITH tab <- Mapping, ret <- got
TableSpec == Table!Spec

\* Every map call returns ("returns slot or UINT32_MAX", vecdb.c:254).
NeverSpins == phase # "spin"
=============================================================================
