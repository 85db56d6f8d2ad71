# vecdb in TLA+

Specifications, TLC model checks and TLAPS proofs for vecdb, a vector database
in C: `vecdb.c` (storage, id map, HNSW graph, exact scan, persistence),
`turboquant.c` (compressed codes), `hybrid.c` (HNSW over codes) and the Python
bindings `pyvecdb.py`. Every definition is translated from the source;
`PROJECT.json` gives, for each one, the lines it stands for.

## 1. The system

| component | state | operations | talks to |
|---|---|---|---|
| id map (`map_*`) | `map_keys/vals/state`, `map_cap`, `map_used` | put, get, delete, rehash | used by every call that takes an id |
| storage | `vecs`, `vnorms`, `ids`, `dead`, `count`, `cap`, `alive` | `vecdb_add`, `bulk_insert`, `vecdb_delete`, `grow`, `vecdb_compact` | id map; the graph names its slots |
| HNSW graph | `l0`, `upper`, `node_level`, `entry`, `max_level` | `wire_node`, `shrink_links`, `greedy_step`, `search_layer` | slots, tombstones, masks, visited marks, heaps |
| visited marks | thread-local `tls_vis`, `tls_vis_cap`, `tls_epoch` | `visited_acquire` | every layer search of a thread, of every database |
| concurrent build | per-node locks `clk`, flags `pub`, lock `glk` | `cwire`, `cgreedy`, `csearch`, `csnap`, `clink` | OpenMP threads share the graph |
| heaps, flat scan, top-k | per call | `heap_push/pop`, `flat_batch_impl`, `emit_topk` | slots, masks |
| masks | byte array owned by the caller | `vecdb_slots`, `vecdb_make_mask` | id map; consumed by filtered searches |
| persistence | a file | `vecdb_save`, `vecdb_load` | everything above |
| thread setting | the OpenMP thread count of the calling thread | `vecdb_set_threads`; also `bulk_insert` | every parallel loop |
| distance kernels | none | `l2sq`, `dots_block`, `tq_dot*`, one version per instruction set | every search |
| TurboQuant | codes, norms, sums, ids, sign bits | `tq_add`, `tq_search`, query contexts | kernels, hybrid index |
| hybrid index | graph, codes, fp32 copies | `hybrid_add`, `hybrid_search` | TurboQuant |
| Python bindings | handle | batches, default ids, list deletes, masks, padding | the C calls, thread setting |

What is hard in it:

* **Long histories.** The id map never empties an erased cell except by a rehash,
  slots are never reused, the epoch counter wraps after 2^32 searches, `alive`,
  `count` and `map_used` are kept by hand in several places.
* **Interleaving.** `vecdb_add_bulk_mt` lets threads mutate one graph under
  per-node locks, with a published flag per node and decisions taken on an old
  `max_level`. All other writes are single-threaded: the header asks callers for
  exclusion, searches only touch thread-local state.
* **Partial failure.** Growth that fails, a bulk insert rejected half-way, a
  compaction that fills a second database, a save that runs out of disk.
* **Packed storage and instruction sets.** Codes share bytes, sums are kept so that
  scores can be taken apart, and what a score is computed from depends on build, bits
  and dimension.
* **Graph structure.** Pruning makes links one-way; tombstones and masks must
  filter results without cutting paths.

`PROJECT.json` lists each hazard at its line with the properties that cover it.

## 2. Modules

| module | models | builds on |
|---|---|---|
| `IdTable` | what the id map promises: a total function id -> slot | |
| `IdMap` | the hash table and its rehash, implements `IdTable` | `IdTable` |
| `VecStore` | what storage promises: id -> vector, all-or-nothing calls | |
| `VecBody` | the database body and what add, delete, growth do to it, as operators | the map as in `IdTable` |
| `VecDB` | the calls on a body: add, delete, bulk insert, compaction; implements `VecStore` | `VecBody`, `VecStore` |
| `Heaps` | the heap arrays and `emit_topk` | |
| `Scan` | masks and the exact scan over a body | `VecBody`, `Heaps` |
| `ScanProofs` | what every proof about vectors rests on: heaps, bodies, masks and the exact scan, for every array and every body | `Scan`, `FoldFacts` |
| `VecSearch` | filtered exact search in every state of `VecDB` | `VecDB`, `Scan` |
| `VecDBProofs` | safety of the id map, of the storage and of its scans, for every instance | `IdMap`, `VecSearch`, `ScanProofs` |
| `Persistence` | saving, loading, crash, full disk | `VecBody` |
| `Visited` | the epoch trick of `visited_acquire` | |
| `HnswOps` | the graph algorithms as operators (folds, no recursion) | |
| `FoldFacts` | induction over a loop, for any body and invariant | |
| `HnswOpsProofs` | what selection, pruning, descent, layer search and wiring return, for every graph | `HnswOps`, `FoldFacts` |
| `BeamSearch` | `search_layer` loop by loop, on heap arrays and marks; computes `HnswOps!SearchLayer` | `Visited`, `Heaps`, `HnswOps` |
| `Hnsw` | the single-writer index: add with any level, delete; searches as state predicates | `HnswOps` |
| `SearchProofs` | safety of the index, and that `BeamSearch` computes its search with exact marks, for every instance | `Hnsw`, `BeamSearch`, `ScanProofs`, `HnswOpsProofs` |
| `ConcurrentBuild` | parallel construction, one step per shared access | `HnswOps` |
| `ConcurrentBuildProofs` | its safety, for every instance | `ConcurrentBuild`, `HnswOpsProofs` |
| `Kernels` | the loops of the distance kernels: which coordinates every build reads | |
| `TurboQuant` | rotation, quantization, packed codes and signs, scores, the code scan | `Heaps`, `Kernels` |
| `CodeIndex` | the TurboQuant index by itself: vectors are added, a scan of the codes answers queries | `TurboQuant` |
| `Hybrid` | the graph over code distances with exact ranking, on such a code index | `HnswOps` twice, `CodeIndex` |
| `HybridProofs` | the code index and its scan, the hybrid index and its searches, and the kernels, for every instance | `Hybrid`, `ScanProofs`, `HnswOpsProofs` twice |
| `Bindings` | the `VecDB` class of `pyvecdb.py` and the thread setting; implements `VecStore` | `Scan`, `VecStore` |
| `HandleProofs` | safety of `Persistence` and of `Bindings`, which share the database body | `Persistence`, `Bindings`, `ScanProofs` |
| `MC*` | instances for TLC | |

The definitions marked "mutant" are faulty variants of the definition that follows
them; no specification uses them. They show which fault each property catches.
Where one proof module speaks of two components, their variables, initial states and
next-state relations have names of their own (`MapInit`, `MarksNext`, `PySpec`).

### IdMap
`table` is the table `db` points to, `drained`/`cursor` the arrays and loop index of
`map_rehash`, `pending` the put that triggered it. Each of `Put`, `Get`, `Del` is the
whole C call; a rehash is `StartRehash`, one `RehashCell` per loop iteration, and
`FinishPut`, the rest of the put in the new table. A probe is described by where
it stops: `Stops` is the set of cells that end the loop, `First` picks the one met
first from the home cell. If there is none the C loop never ends: that call is
`Hang`, and the caller stays in `phase = "spin"`. `Hash` is an arbitrary constant and
`InitCap` stands for 2048. Not modelled: failing `malloc` in `map_rehash`.

### VecBody, VecDB
A body is `[cap, count, alive, slot, map]`. `vecdb_add`, `vecdb_delete` and an
idle compaction are one step, as one client calls them with nothing in between;
the loops of `bulk_insert` (grow, check, store, count) and of `vecdb_compact` take
a step per iteration, so that the properties speak about the states in between:
slots written past `count`, ids mapped to slots not yet counted, a half-filled
second body. `ret` names the call that succeeded, so that `VecStore` cannot take
a compaction that loses a vector for a delete. `BulkNoMemory` is a failing
`realloc` in `bulk_insert`. An empty bulk insert is not modelled: it returns 0 at once and
changes nothing. In `vecdb_add` a failing `realloc` is a code fault
(finding 2) and lives in `LowMemorySpec`.

### Heaps, Scan, VecSearch
`Heaps` has the arrays of `heap_push` and `heap_pop` with their sift loops as folds.
`FlatScan` is `flat_batch_impl` for one query (the queries of a block only share
loads of vectors; blocks and the rows of the output are in `Bindings`) and `MakeMask` is
`vecdb_make_mask`. `FilteredExact` compares them, in every state of `VecDB`, with
`IsTopK`, which knows neither slots in order nor heaps; with a mask made just now and
with one made before a delete, which is the only stale use the code supports.

### Persistence
One process, one handle, one file. A file is the sequence of the values written: an
id, a vector, a level, a list length, a link or a tombstone byte is one entry, the
fixed header one entry; so a crash or a full disk may cut it between any two
values. `SaveWrite` writes the next entry, `DiskFull` loses the rest unnoticed,
`Crash` ends the process anywhere. `Load` is one step: nothing else happens to the
file meanwhile. `Loadable` and `Loaded` read the sequence as `vecdb_load` does, with its
checks of length, link count and link range, and rebuild `alive` and the id map. A file
of version 1 or 2 may be there at the start, of any index in `Old`, which need only be one that
add and delete can rely on (`HandleSound`). Wiring a new node (`Wired`) needs no search here:
which neighbours are selected (`Picks`) and which links a list over its cap gives up
(`Shrunk`) is a matter of distances, and any choice is possible that keeps to their number. So
saved graphs have full lists, pruned lists and one-way links. `AddsAt` bounds at which sizes
vectors are added. Not modelled: files not written by `vecdb_save`, data the operating system loses.

### Visited, BeamSearch
`Visited` is one thread's buffer; `W` stands for 2^32, `seen` is the set the marks
are meant to represent. `BeamSearch` runs one layer search after another over graphs of
different capacity on that buffer, with both heaps as arrays, one step per loop
iteration; slots are their own vectors, and every slot of the capacity is filled.

### HnswOps, Hnsw
A node is its vector; `D` is any distance in which no two distances from one point
are equal, so that heap order among ties plays no part. Loops are folds over enough
rounds. `SearchLayer` keeps candidates, results and marks of `search_layer` as sets;
`ok` is "not dead and permitted by the mask". `Diverse` is the first pass of
`select_neighbors`, written as the set it keeps. `WireLevel` is one round of the loop of
`wire_node`: search, select, link, link back, prune, next entry. `Hnsw!Add` takes any
level up to `MaxLevel`, whatever the generator would draw. Searches change nothing;
`SearchNeverShort` and `WideBeamExact` evaluate them for every query and mask.

### ConcurrentBuild
`call` is what was wired before and the batch of this call. Threads take iterations
off the loop (`Claim`), read `entry` and `max_level` together under `glk`, descend and
search over copies of lists taken under the owner's lock (`GreedySnap`, `BeamSnap`),
read published flags one at a time (`GreedyScan`, `BeamScan`), link in both directions
(`LinkAppend`/`LinkRelease`, `BackAppend`/`BackRelease`: append, then prune and unlock),
publish, and go for the entry point (`TopLock`, `SetEntry`, `TopUnlock`: the two writes
are two steps). Memory is sequentially consistent: the flag is release/acquire in the
code and all else is read and written under a lock or by its owner alone.

### Kernels, TurboQuant, Hybrid
A kernel is a sequence of stages over one index: full registers (`Chunks`), a masked rest
(`Masked`), or whole registers without a look at the rest (`Blind`). `Reads` is the list of coordinates it reads,
`ScanKernel` and its like the choice by build, bits and dimension. What is done with the
coordinates is a sum.

`TurboQuant` does arithmetic on integers of a common scale, so that sums are exact: a
rotated coordinate is kept times Pdim^(3/2) (three Hadamard transforms without their
scale), a score times `Scale`. The code's own roundings, int8 codes and int8
queries, round here too. `Quantize` is the binary search of `quantize_coord`, `Encode`
what `tq_add` computes before it writes, `Encoded` the whole call. Storage is bytes, each
the set of its set bits: `CodesWritten` clears the bytes of a slot and ors two codes into
each, `SignsWritten` one sign per bit, `Filed` puts one encoded vector in its slot; what `realloc` hands out is `Unwritten`, all
ones. Readers (`CodeOf`, `SignOf`) go back through the bytes. `Begun` is
`tq_query_begin`, `Score` is `tq_score_code` with its ways to a cross term (float, int8
with the offset of the unsigned query taken out again, int8 without on NEON) and the QJL
estimate. On NEON 4-bit codes are scanned in int8 as well: `GridOf` looks the code word up in
`l8` (`L8`), the code words on the int8 grid. `Unit` is such that the largest code word is a
multiple of 127 units, so that a step of that grid (`GridStep`) is a whole number. `Modes`
lists the configurations a run goes through: AVX-512 with 4 bits, with 4 bits and QJL, with 8
bits; NEON with 4 and with 8 bits. `Tabled` only has TLC compute a table once.

`CodeIndex` is the state machine of `turboquant.h`: `vecs` are the vectors added, in order,
`codec` the index of their codes, which grows from `CodecCap`. Any vector may be added, equal
ones and the same one again. `near` is `C[codec.mode]`, the score of every vector's code in an
index of its own, in the configuration the index was created with. `AreNearest`
says what the k nearest are without a word on which of two at the same distance comes first.

`Hybrid` is a graph beside a `CodeIndex` (`Add` is `CodeAdd` and wiring). It instantiates
`HnswOps` a second time (`Coded`), with the code distances `near` for descent and layer search.
Its own selection and pruning mix both distances as `sel_neighbors` and `shrink` do. As all
graph models it leaves out ties: `CodesApart` says that no two codes of a configuration are at
the same distance of a query. `vecs` and `codec` are the two stores that must agree on slot
numbers; they grow independently, from `FirstCap` and `CodecCap`.

### Bindings
`d` is the database of `VecBody`, `team` the number of threads the next parallel loop
starts, `job` the list delete that is under way or just over. `Add` numbers its vectors
from the number of live ones, `AddBulk` takes ids and a thread count, and both are one
step (`VecDB` has the loops of `bulk_insert`). `DeleteBegin` and `DeleteStep` are the loop
in Python that deletes one id after the other and stops at the first error. `FlatBatch` is
`flat_batch_impl` for a batch: blocks of `QB` queries (`ScanBlock`), each row of which
(`PutRow`) is padded with the id 2^64 - 1; `SearchRows` what Python makes of it. Approximate search, saving and the
classes around TurboQuant and the hybrid index hand their arguments on.

## 3. What TLC checks

| run | instance | shows |
|---|---|---|
| `idmap` | 4 keys, 2 values, tables of 2 to 8 cells, colliding and wrapping homes | type, unique keys, reachable keys, exact count, no nested rehash, implements `IdTable` |
| `idmap_spin` | 4 keys, 4 cells | finding 1 |
| `vecdb` | 3 ids, 2 vectors, first capacity 1, at most 4 slots before a compaction, batches up to 2; every mask, k up to 2 | counters, map and slots consistent; compaction never fails; implements `VecStore`; filtered scans exact |
| `vecdb_low_memory` | the same with failing growth in `vecdb_add` | finding 2 |
| `beam` | graphs of 2, 4 and 7 slots, three masks, beams of 1 to 4, 4 epochs | marks exact over wraps and changes of database; heaps ordered and the code's search that of `HnswOps` |
| `hnsw` | 6 vectors, M = 2, levels 0 and 1, at most 1 tombstone; searches while the graph is within 4 of the vectors | lists on level and within cap, entry on top, connected until pruned; searches under every mask never short, with ef = k and with ef beyond the index; exact with a wide beam |
| `concurrent` | 2 threads; a seed and 3 vectors, and 4 wired nodes and 2 vectors; levels 0 and 1; copies of up to 4 links | published-only traversal, sound lists and whole copies, entry point, completeness, termination |
| `concurrent_serial` | a seed and 3 vectors | finding 4 |
| `persistence` | 2 ids, 2 vectors, M = 2, levels 0 and 1; an index of up to 2 slots built by adds, or an old one of 2, 4 or 5; any number of deletes, saves, loads and crashes | a loaded index is the saved one and sound; complete files load |
| `persistence_full` | the same | finding 3 |
| `hybrid` | 6 vectors of 11 coordinates padded to 16, in 5 configurations (up to 6 vectors at once with 4 bits, 4 with 4 bits on NEON, 3 with QJL or 8 bits), M = 2, levels 0 and 1, first capacities 2 and 3; searches and scores while the index is within 4 of the vectors; kernels to dimension 130 and padded dimensions 2 to 256 | codes, sums and signs read back as stored; scores are distances; lists, entry point and slots sound; ranking and code scan exact; kernels read every coordinate once |
| `bindings` | 3 ids, 2 vectors, 3 slots before a compaction, batches and lists up to 2, blocks of 2 queries, 2 processors | default ids free, list deletes stop cleanly, rows of a batch right and padded, thread count kept, implements `VecStore` |

Why the bounds suffice. *idmap*: with a first table of two cells the second put
already rehashes, two or three rehashes occur, three keys share or neighbour a home
and one home is the last cell; the proofs cover every other instance. *vecdb*: every
add may grow, ids can be deleted and added again before and after compactions,
batches repeat ids; with k = 1 and 2 the result heap is smaller and larger than what a mask
permits. *beam*: three searches suffice for a wrap, each epoch value is reused, a
hub fills the heaps to the third level, one graph lacks a link back. *hnsw*, *hybrid*:
M = 2 is the least the code accepts; six nodes are the least that overflow a level-0 list
(M0 = 4), four nodes overflow a level-1 list, and with four nodes there are waypoints
that are not results. In *hybrid*, 4-bit codes are coarse enough for exact and code distances to
disagree on who is nearer (with 8 bits they agree: few vectors, fine codes); padding occurs;
16 is the least padded dimension at which NEON takes int8 queries and AVX-512 its
registers; both stores grow, at different times; the 8-bit code words share cells of the int8 grid near 0, as
Lloyd-Max levels do. The kernels' widest step is 64 coordinates, so 130 covers two steps
and every rest. *bindings*: after one delete the default ids collide, a batch can name
an id twice, the last block of three queries is not full, k exceeds what is live and
what a filter lets through; asking for 0 threads gives 2 from `set_threads` and 1 from an
insert, which is all the property tells apart. *concurrent*: with levels drawn freely,
two tall nodes race for the entry point and descents through an upper level
happen; in the second call both new nodes link to one whose full list overflows
and is pruned while the other thread reads or waits. Chunks of one iteration are
more interleavings than the 32 of the code; copies hold M0 links, as they do in the code for
every M up to 64. *persistence*: two slots are the least
for an id with a tombstone and a live slot, for links both ways, and for links
that a wrong range check would refuse; of the old indexes (`MCOld`) the one of four slots has a
list that was pruned and a link without the way back, the one of five has every list exactly at
its cap, where a wrong length check would refuse it, and in both an id owns several
tombstones. `MCPersistence` also evaluates that any pruning keeps lists within their caps
(`PruningSound`).

`MaxSlots`, `MaxBatch`, `MaxNodes`, `AddsAt`, `Old`, `MaxDead`, `MaxLevel`, `MaxCap`, `MaxEf`,
`MaxK`, `Searched`, `MaxDim` and `PaddedDims` are the only bounds, all in guards or ranges.
`Hnsw` and `Hybrid` stop when all vectors are in, so their runs do not check deadlock;
all others do.

Symmetry: `vecdb` and `persistence` permute the ids (no liveness is checked there).

Fairness: only `concurrent` checks liveness, under weak fairness of each thread's
steps. The parallel loop joins all threads, the operating system runs them, and
each lock is held for two steps; a thread competes for a lock with finitely many
operations, so no strong fairness is needed.

## 4. What is proved

Theorems hold for all values of the constants that the named assumptions allow:

| assumption | asks |
|---|---|
| `IdMapAssumption` | any keys, any hash function into the naturals, a first capacity of at least 2 |
| `VecDBAssumption`, `VecSearchAssumption` | positive capacities; any integer distance |
| `VisitedAssumption` | at least two epochs |
| `HnswOpsAssumption` | finitely many vectors, any integer distance in which no two distances from one point are equal, M and ef_construction as `vecdb_create` leaves them |
| `HnswAssumption` | nothing but the types of the bounds |
| `ConcurrentAssumption` | a call never names a vector twice, and follows at least one add |
| `BeamAssumption` | slots are numbered from 0 and lists stay inside the graph, which `SearchProofs` shows of every graph the index builds |
| `PersistenceAssumption` | positive capacities, M at least 2; indexes of earlier runs are such as add and delete can rely on (`HandleSound`): any number of slots, any lists of slots within the caps, any tombstones |
| `BindingsAssumption` | positive capacities, block size and processor count, any integer distance, sets of ids as filters |
| `TurboQuantAssumption` | any dimension, padded to what `next_pow2` gives (`Pdim`), code books in ascending order with words of either sign up to the same size, in a unit of which the largest is a multiple of 127 (a unit can always be chosen so), signs of the rotation, integer projections; QJL only with a padded dimension of 8 or more, where its signs fill whole bytes |
| `CodeIndexAssumption` | scores are integers, as sums of integers are (a fact about recursion the provers lack) |
| `HybridAssumption` | nodes are the vectors; padded dimensions of kernels are even, as powers of two above 1 are |

Distances without ties are asked for by the theorems about graphs only: by
`HnswOpsAssumption` of exact ones, by the hypothesis `CodesApart` of `HybridInvariance`,
`HybridSound` and `RerankAlways` of code distances. The scans, of vectors and of codes, are
proved with ties.

*IdMap.* The invariant `MapInv` says of both tables that they are well typed,
have unique keys, unbroken probe chains and an exact count, that the current one is
below its load limit, and, during a rehash, that the entries of the new table are
exactly those of the cells already passed, so its count is at most that of the old
table. None of the parts is inductive alone: uniqueness of a put needs the chains
(an existing key must be found), the chains of a put into a grave need
uniqueness of the stopping cell, and "no nested rehash" needs the count of what
was moved: the old table was below 70% before the put, the new one has twice
the cells. Lemmas about `First`, `Dist`, `PutCell` and `WithCell` carry the work.
`ImplementsTable` is the refinement of `IdTable`: an id's value is that of the one cell
that holds it, a rehash step moves an entry and changes no value.

*VecDB.* `IndInv` is `MapExact`, `AliveExact` and `CountWithinCap` for both bodies
with, between calls, written slots equal to counted ones; in a bulk insert, ids of the
rest of the batch absent and room for it; in a compaction, the count of copied
slots. `CompactNeverFails` needs the cardinality argument that live slots not yet
passed fit into what remains of the capacity. `ImplementsStore` is the refinement of
`VecStore`; it needs two more invariants, what of the batch (`Batched`) and of the old body
(`Copied`) the slots written so far hold, so that the step that publishes them is one step of
the abstract store.

*Loops.* Most of what the graph algorithms and the heaps do is done in loops, which the
models write as folds. `FoldFacts` proves induction over any loop: the
least turn at which an invariant could fail does not exist. Its body `Op` and its
invariant `Inv` are constants of the module; a module that has a loop to reason about
instantiates it with its own. `FoldEmpty`, `FoldHead` and `FoldShift` say that a loop is
its first turn followed by the rest.

*Heaps and scans.* For every array that is a heap, whatever the items: a push and a pop keep
the order and the items, the root is the best, a bounded heap holds the k best of what it was
offered, and `emit_topk` empties it in ascending order (`ScanProofs`). The loop
invariants say where the order may be broken while an item sifts: at one place, and never
between that place's parent and its children. From that and the invariant of `VecDB` follows
`FilteredAlways`: the scan returns the k nearest permitted live vectors.

*BeamSearch.* `BeamInd` says that between any two steps the heaps hold the sets of some beam
of `SearchLayer`, that the marks are its visited nodes, and that the rest of `SearchLayer`, run
from that beam, gives the answer and has turns enough left (each turn expands a node not
expanded before). At the end nothing is left, so the result heap holds the answer
(`ComputesAlways`). Marks are at most the epoch, in an idle state as well as in a search
(`MarksAreExact`, `MarksAlways`).

*Hnsw.* The invariant is `Built`: lists name nodes of their level, without repetition and
within their cap; the entry point is on the top level; and while no list of the bottom layer
can have overflowed (at most M0 + 1 nodes) that layer is symmetric and no proper part of it is
closed under its links, which is connectedness in a form that one more node keeps. That
gives `SoundAlways`. The search theorems rest on the
invariant of `SearchLayer` (`BeamInv`): as long as the beam is not full nothing was turned
away, so when the candidates run out everything reachable was looked at.
`NeverShortAlways` and `WideBeamAlways` follow for every mask and any number of tombstones.

*ConcurrentBuild.* The invariant `Good` has eight parts, none of which is kept alone.
`ShapeOK`: types. `ThreadOK`: a thread stands on published nodes of its level, and its
own node is linked on every level it has passed; a copy of a list is all of one level.
`SplitOK`: each vector of the batch is published, unclaimed, or on the hands of exactly one
thread (otherwise two threads could publish, or claim, one node). `LocksOK`: a lock is
held exactly inside the critical section that took it. `EntryOK`: entry point and top level
differ only while their lock is held, and a node taller than the top has a thread about to
raise it. `ListsOK`: a list is over its cap, by one, only under its owner's lock.
`KeptOK`: published nodes keep a link on every level the graph had before. `BottomOK`: on a
small bottom layer every link has its way back or a thread about to make it, unpublished
nodes are linked to published ones only, and the published ones hang together. The six
theorems are the six invariants of the run. The attempt to prove an earlier form of
`PublishedIsWired` failed for a reason: with three levels, two tall nodes wired at the
same time can leave a level above the old top without links, so the property now speaks of levels that
existed before the batch.

*Persistence.* `HandleInv` says that the handle and the index the file was last opened with
are `HandleSound` (exact id map, lists that name slots and keep to their caps), whatever
neighbours an add selects and whatever links it prunes (`LinkedBackFits`, `WiredFits`), and that the file followed by
what is still to be written is a prefix of an image of that index, all of it if no write was
lost (`Written`). Most of the work is about the sequence itself: where the blocks of an image
start (`JoinedFacts`, `ImageFacts`), and that the readers of `vecdb_load`, one loop in
another, stand at the start of the next block as long as they have not failed, with
exactly what was written so far (`ReadListsFacts`, `ReadNodesFacts`). A file cut anywhere
is refused, for a reader that has not failed has seen every block; hence `LoadsAreSaves`, an action
property, and `WholeFilesLoad`. `RebuiltExact` is why `IndexAlwaysSound` survives a load: the id
map is rebuilt in slot order from live slots only, so a tombstone never shadows the
live slot of the same id.

*Bindings.* `PyInv` says that the database is well formed between any two C calls
and that a list delete has removed the ids it has passed. The whole of
`bulk_insert` and of `vecdb_compact` is one step here, so each of their loops has a
fold invariant (`ReserveFacts`, `InsertFacts`, `CompactedFacts`). `PyImplementsStore` is the
refinement of `VecStore`. `RowsAlwaysExact` is about two nested loops over one array of
results: rows do not overlap, the blocks cover the queries, and every row, once written, keeps what the
scan of its query found.

*Hybrid, the graph.* The lemmas of `HnswOpsProofs` are proved once, over any distance, and used
twice: as they are for exact distances, through the instance `CF` for code distances;
`SameSets`, `SameGraphs` and their like say that what does not mention a distance is the
same in both. `Built`, the invariant of `Hnsw`, holds although selection and
pruning mix both distances, as it depends on which nodes are linked and not on why
(`HybridSound`). `RerankAlways`: a beam as wide as the index is never full, so the search returns
everything that can be reached from its start, and exact ranking does the rest.

*The codes.* A score is taken from bytes that three loops have written, among
slots that later adds and growth move. `CodecHolds` says that the bytes of each slot
are an image (`CodeByte`, `SignByte`) that depends on the slot's vector alone:
the loops build that image byte by byte (`CodesWrittenFacts`, `SignsWrittenFacts`), writing
a slot leaves the others alone (`PlacedSlots`), growth copies all of them (`RoomyHolds`).
Without the clearing of `Wiped` it is not inductive, since `realloc` hands out what it likes. Then a
score, by whichever kernel, equals that of a codec that holds only this vector (`ScoreIsCoded`),
which is what `C` is, and the heap whose worst item is replaced in place, as `tq_search` does it,
keeps the k best (`TopReplaced`, `HoldFacts`). Together they give `ScanAlways`, of the code
index by itself: any vectors, equal ones and ties included. The hybrid index is a user of it
(`HybridIsCodeIndex`), so its codec has the same invariant and its scan is exact too (`HybridScans`).

*Kernels.* A kernel whose stages begin where the one before stopped, the first at 0 and the last
ending at n, reads every coordinate once (`ReadsThrough`, for any number of stages). `KernelsAreWhole`
then divides n by the widths of every build's stages.

Only model-checked: `CodesKept` and `ScoreFaithful` of `Hybrid`. Of the first, slots,
capacities and bytes that stay as they were written are part of the proved invariant;
that the written code is the nearest word, and that norms are whole, is arithmetic with
powers of two and roots on the vectors at hand. The second compares sums over all
coordinates before and after the rotation, which takes induction over data. Also
`Terminates` of the parallel construction: liveness under fairness is beyond the provers.

## 5. Findings

1. *Code.* The id map counts live entries only. Erased cells accumulate until no cell
   is empty, and then a lookup, delete or put of an absent id loops for ever
   (`idmap_spin`).
2. *Code.* `vecdb_add` ignores a failed `grow` and stores past the capacity
   (`vecdb_low_memory`).
3. *Code.* `vecdb_save` looks at the result of `fopen` only: on a full disk it returns 0
   for a file `vecdb_load` refuses, and the previous file is gone (`persistence_full`).
4. *Documentation.* The header and `pyvecdb.py` say the graph built by
   `vecdb_add_bulk_mt` is identical to the serial one; it is built concurrently
   (`concurrent_serial`).
5. *Documentation.* A comment says that with a selective mask "the beam may otherwise
   terminate with fewer than k hits" unless ef is raised (`vecdb.c:1069-1071`), the README that
   such a search "can return fewer than k HNSW results; use `exact=True` or raise `ef`"
   (`src/README.md:362`). The code does better than that. `search_layer` gives up early
   only when its result heap is full (`vecdb.c:399`), and what the mask excludes never enters
   that heap; with ef >= k, which `hnsw_search_impl` sees to, it goes on until it has k
   permitted nodes or has looked at everything reachable. `SearchNeverShort` (run `hnsw`,
   theorem `NeverShortAlways`) says so for ef = k and for ef as large as the index: both
   return the same number of hits, k or all that can be reached. An answer is short only
   where pruning has cut permitted nodes off, and there a larger ef finds no more; the exact
   scan does. What a larger ef buys with a mask is nearer hits.

Observed beside them, without a run: the thread count set with `vecdb_set_threads`, said
to hold "for subsequent parallel searches", is overwritten by the next insert that stores
vectors (`ThreadsKept` says exactly when it is lost); `CSNAP` is not ">= max M0 +
slack" for M > 64, where copies of lists are cut (`ListsSound` claims whole copies
only while M0 fits); with a padded dimension below 8, QJL has no byte for its signs and
writes one all the same, and with a padded dimension of 1 `tq_dot_scalar` reads a second
query coordinate; default ids collide after a delete, although ids may be
left out at any time (`DefaultsDense` holds while nothing is deleted); the comment above
`bulk_insert` ("prior elements inserted") describes an earlier version, batches are refused as a whole
(`StoreSpec`); two nodes taller than the graph that are wired at the same time both
read the old `max_level` and are linked below it only, so one of them is missing
from its upper levels (`PublishedIsWired` states what remains true); `hybrid.h` says
that `rerank_mult * k` candidates are reranked, the code ranks all of them
(`RerankExact` relies on it); `hybrid.c` and `turboquant.c` do not look at the result
of `realloc` when they grow.

## 6. Not modelled, and the plan

Never: rounding of float sums, the Lloyd-Max iteration and the random generators (of
levels, signs, projections), whose results are constants or free choices; benchmarks,
tests, packaging.

Not modelled: the loop of `tq_search_batch`, `tq_memory_bytes`, approximate batch search in
Python, a bulk insert of no vectors (returns at once).

Not claimed: that the graph stays connected once a list of the bottom layer can have
overflowed. Pruning makes links one-way and the code does nothing for a node that loses its last
incoming link, so searches are measured by what can be reached. Nor which of two nodes at the
same distance a graph keeps or returns: graph models have no ties.

Next: ties in the graph models, where lists and results would depend on heap order.
