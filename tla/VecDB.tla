------------------------------- MODULE VecDB -------------------------------
(***************************************************************************)
(* The storage side of a VecDB handle (vecdb.c): slots that are filled in  *)
(* order and never reused, tombstone deletes, the id map, doubling growth, *)
(* bulk insertion in phases, and compaction into a fresh database that     *)
(* replaces the old body.  The graph over the slots is modelled in Hnsw    *)
(* and ConcurrentBuild; the id map is used through what IdTable promises.  *)
(*                                                                         *)
(* One client: the header asks callers to exclude writes from everything   *)
(* else.  The loops of bulk_insert and vecdb_compact take one step per     *)
(* iteration.                                                              *)
(***************************************************************************)
EXTENDS VecBody

CONSTANTS
    NoVec,       \* used by the abstract store only
    MaxSlots,    \* bound on the slots ever filled
    MaxBatch     \* bound on the length of a bulk batch

ASSUME VecDBAssumption ==
    /\ Garbage \notin Slot
    /\ NoVec \notin Vecs
    /\ InitialCap \in Nat \ {0}
    /\ DefaultCap \in Nat \ {0}
    /\ MaxSlots \in Nat
    /\ MaxBatch \in Nat

VARIABLES
    db,          \* [cap, count, alive, slot, map]
    nd,          \* the database vecdb_compact is filling
    batch,       \* the ids and vectors of the bulk insert under way
    i,           \* loop index of the bulk insert or of the compaction
    pc,          \* "idle", "grow", "store" or "compact"
    ret          \* outcome of the last call, named for the call that succeeded

vars == <<db, nd, batch, i, pc, ret>>

\* 0 or -1 in the code; the caller knows which call returned it.
Outcomes == {"none", "added", "bulk", "deleted", "compacted", "fail"}
-----------------------------------------------------------------------------
Init == /\ db = Fresh(InitialCap)
        /\ nd = Fresh(0)
        /\ batch = <<>>
        /\ i = 0
        /\ pc = "idle"
        /\ ret = "none"

\* A call that is one step.
Call == pc = "idle" /\ UNCHANGED <<nd, batch, i, pc>>

Return(r) == /\ pc' = "idle"
             /\ nd' = Fresh(0)
             /\ batch' = <<>>
             /\ i' = 0
             /\ ret' = r

\* vecdb_add; a duplicate fails after the growth it caused.
Add(id, v) == /\ Call
              /\ db.count < MaxSlots
              /\ db' = AddTo(db, id, v)
              /\ ret' = IF Absent(db, id) THEN "added" ELSE "fail"

DeleteUnchecked(id) ==   \* mutant: an absent id is counted as deleted
    Call /\ ret' = "deleted" /\ db' = Bury(db, id)

\* vecdb_delete.
Delete(id) == /\ Call
              /\ IF Absent(db, id)
                 THEN ret' = "fail" /\ UNCHANGED db
                 ELSE ret' = "deleted" /\ db' = Bury(db, id)

\* bulk_insert is called with a batch.
BulkBegin(b) == /\ pc = "idle"
                /\ db.count + Len(b) <= MaxSlots
                /\ pc' = "grow"
                /\ batch' = b
                /\ UNCHANGED <<db, nd, i, ret>>

BulkShort == pc = "grow" /\ db.count + Len(batch) > db.cap

\* One growth of the reservation loop.
BulkGrow == /\ BulkShort
            /\ db' = Grow(db)
            /\ UNCHANGED <<nd, batch, i, pc, ret>>

\* realloc fails: the call gives up and keeps the capacity reached so far.
BulkNoMemory == BulkShort /\ Return("fail") /\ UNCHANGED db

\* Duplicates are rejected before anything is stored.
BulkReject == /\ pc = "grow" /\ ~ BulkShort
              /\ Duplicate(db, batch)
              /\ Return("fail")
              /\ UNCHANGED db

BulkAccept == /\ pc = "grow" /\ ~ BulkShort
              /\ ~ Duplicate(db, batch)
              /\ pc' = "store"
              /\ UNCHANGED <<db, nd, batch, i, ret>>

\* Phase 1a, one vector: its slot lies past count until the batch is counted.
BulkStore == /\ pc = "store" /\ i < Len(batch)
             /\ db' = Fill(db, db.count + i, batch[i + 1].id, batch[i + 1].vec)
             /\ i' = i + 1
             /\ UNCHANGED <<nd, batch, pc, ret>>

BulkFinish == /\ pc = "store" /\ i = Len(batch)
              /\ db' = Count(db, Len(batch))
              /\ Return("bulk")

\* vecdb_compact with no tombstone.
CompactNothing == /\ Call
                  /\ db.alive = db.count
                  /\ ret' = "compacted"
                  /\ UNCHANGED db

CompactBegin == /\ pc = "idle"
                /\ db.alive # db.count
                /\ pc' = "compact"
                /\ nd' = Fresh(CompactCap(db))
                /\ UNCHANGED <<db, batch, i, ret>>

\* One iteration: skip a tombstone, re-add a live vector; if that add fails
\* the new database is freed and the call fails.
CompactStep == /\ pc = "compact" /\ i < db.count
               /\ IF IsLive(db, i) /\ ~ Absent(nd, db.slot[i].id)
                  THEN Return("fail")
                  ELSE /\ nd' = IF IsLive(db, i)
                                THEN AddTo(nd, db.slot[i].id, db.slot[i].vec)
                                ELSE nd
                       /\ i' = i + 1
                       /\ UNCHANGED <<batch, pc, ret>>
               /\ UNCHANGED db

CompactSwapEarly ==   \* mutant: the last slot is not copied
    /\ pc = "compact" /\ i >= db.count - 1
    /\ db' = nd
    /\ Return("compacted")

\* The bodies are swapped and the old one is freed.
CompactSwap == /\ pc = "compact" /\ i = db.count
               /\ db' = nd
               /\ Return("compacted")

Next == \/ \E id \in Ids, v \in Vecs : Add(id, v)
        \/ \E id \in Ids : Delete(id)
        \/ \E n \in 1 .. MaxBatch : \E b \in [1 .. n -> Items] : BulkBegin(b)
        \/ BulkGrow \/ BulkNoMemory \/ BulkReject \/ BulkAccept
        \/ BulkStore \/ BulkFinish
        \/ CompactNothing \/ CompactBegin \/ CompactStep \/ CompactSwap

Spec == Init /\ [][Next]_vars

\* vecdb_add ignores the result of grow(): when memory is short a vector is
\* written to the slot just past the storage, and counted.
AddNoMemory(id) == /\ Call
                   /\ db.count = db.cap /\ db.count < MaxSlots
                   /\ Absent(db, id)
                   /\ db' = Count([db EXCEPT !.map[id] = db.count], 1)
                   /\ ret' = "added"

LowMemoryNext == Next \/ \E id \in Ids : AddNoMemory(id)
LowMemorySpec == Init /\ [][LowMemoryNext]_vars
-----------------------------------------------------------------------------
(***************************************************************************)
(* Properties.                                                             *)
(***************************************************************************)
TypeOK == /\ IsBody(db) /\ IsBody(nd)
          /\ batch \in Seq(Items)
          /\ i \in Nat
          /\ pc \in {"idle", "grow", "store", "compact"}
          /\ ret \in Outcomes

\* Storage is never counted beyond what was allocated, and every counted slot
\* was written: vec_at(i), ids[i], dead[i] are defined for every i < count.
CountWithinCap == /\ db.count <= db.cap /\ nd.count <= nd.cap
                  /\ \A s \in 0 .. db.count - 1 : db.slot[s] \in Slot
                  /\ \A s \in 0 .. nd.count - 1 : nd.slot[s] \in Slot

\* vecdb_count is the number of slots without a tombstone, after any mix of
\* adds, bulk adds, deletes and compactions.
AliveExact == /\ db.alive = Cardinality(LiveSlots(db))
              /\ nd.alive = Cardinality(LiveSlots(nd))

\* A bulk insert has written slots that it has not counted yet.
Written == IF pc = "store" THEN db.count + i ELSE db.count

\* The id map names exactly the live slots, each under its own id: a deleted
\* id can be added again, and no id owns two live slots.
MapExact == MapExactFor(db, Written) /\ MapExactFor(nd, nd.count)

\* While vecdb_compact runs, the new database holds the live vectors passed so
\* far and has room for the rest: its adds never fail and never grow it.
CompactFits ==
    pc = "compact" =>
        /\ nd.count = Cardinality({s \in LiveSlots(db) : s < i})
        /\ \A s \in LiveSlots(db) : s >= i =>
              Absent(nd, db.slot[s].id) /\ nd.count < nd.cap

\* Slots are not reused and never edited: between compactions a counted slot
\* keeps its id and vector and a tombstone stays one.  The graph, which names
\* vectors by slot, depends on it.
SlotsStable ==
    [][pc = "compact" \/ \A s \in 0 .. db.count - 1 :
          /\ db'.count > s
          /\ db'.slot[s].id = db.slot[s].id /\ db'.slot[s].vec = db.slot[s].vec
          /\ db.slot[s].dead => db'.slot[s].dead]_vars

\* The vectors a scan of the live slots finds under each id.
Content == [id \in Ids |->
              IF \E s \in LiveSlots(db) : db.slot[s].id = id
              THEN db.slot[CHOOSE s \in LiveSlots(db) : db.slot[s].id = id].vec
              ELSE NoVec]

\* The slots, tombstones, growth and compaction implement the abstract store:
\* every call takes effect as a whole or not at all.
Store == INSTANCE VecStore WITH store <- Content, size <- db.alive
StoreSpec == Store!Spec
=============================================================================
