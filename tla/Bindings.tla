------------------------------ MODULE Bindings ------------------------------
(***************************************************************************)
(* The VecDB class of pyvecdb.py over the calls of vecdb.c: ids that       *)
(* default to what follows the number of live vectors, deletion of a list  *)
(* of ids one C call at a time, batch searches with and without a mask,    *)
(* and the OpenMP thread count, which set_threads and bulk_insert both     *)
(* set.  Every other call is one step: VecDB has their loops.              *)
(***************************************************************************)
EXTENDS Scan

CONSTANTS
    NoVec,        \* used by the abstract store only
    Queries,      \* query vectors
    Filters,      \* sets of ids that searches allow or deny
    QB,           \* FLAT_QB, the queries of one block of the exact scan
    Procs,        \* omp_get_num_procs()
    Threads,      \* thread counts a caller asks for
    MaxSlots,     \* bound on the slots ever filled
    MaxBatch      \* bound on the vectors added, or ids deleted, by one call

ASSUME BindingsAssumption ==
    /\ Ids \subseteq Nat /\ Threads \subseteq Int
    /\ Garbage \notin Slot /\ NoVec \notin Vecs
    /\ {InitialCap, DefaultCap, QB, Procs} \subseteq Nat \ {0}
    /\ Metric \in [Queries -> [Vecs -> Int]] /\ MaxBatch \in Nat
    /\ Filters \subseteq SUBSET Ids

VARIABLES
    d,        \* the database
    job,      \* the list delete under way or just over: its ids, the next of
              \* them, and the ids that were live before
    busy,     \* is that delete still under way?
    plain,    \* have there been only default adds and compactions?
    team,     \* how many threads the next parallel loop starts
    ret       \* outcome of the last C call that changes the database

py == <<d, job, busy, plain, team, ret>>

Batches == UNION {[1 .. n -> Items] : n \in 1 .. MaxBatch}
Lists == UNION {[1 .. n -> Ids] : n \in 1 .. MaxBatch}

LiveIds == {d.slot[s].id : s \in LiveSlots(d)}
-----------------------------------------------------------------------------
NoJob == [ids |-> <<>>, next |-> 1, before |-> {}]

PyInit == /\ d = Fresh(InitialCap)
          /\ job = NoJob
          /\ busy = FALSE
          /\ plain = TRUE
          /\ team = Procs
          /\ ret = "none"

\* The growth that n more vectors need, at most j doublings of it.
Reserve(e, n, j) ==
    FoldLeft(LAMBDA f, r : IF f.count + n > f.cap THEN Grow(f) ELSE f,
             e, [r \in 1 .. j |-> r])

\* bulk_insert once there is room: all of the batch or none of it.
Insert(e, b) ==
    Count(FoldLeft(LAMBDA f, j : Fill(f, e.count + j - 1, b[j].id, b[j].vec),
                   e, [j \in 1 .. Len(b) |-> j]), Len(b))

BulkInsertEarly(b, n) ==   \* mutant: the count is set before the checks
    /\ ~ busy /\ d.count + Len(b) <= MaxSlots
    /\ LET e == Reserve(d, Len(b), Len(b))
       IN  IF Duplicate(e, b) THEN d' = e /\ ret' = "fail"
                              ELSE d' = Insert(e, b) /\ ret' = "bulk"
    /\ team' = IF n > 0 THEN n ELSE team
    /\ job' = NoJob
    /\ UNCHANGED busy

\* bulk_insert, asked for n threads; the count is set only by an insert that
\* gets past the checks.
BulkInsert(b, n) ==
    /\ ~ busy /\ d.count + Len(b) <= MaxSlots
    /\ LET e == Reserve(d, Len(b), Len(b))
       IN  IF Duplicate(e, b)
           THEN d' = e /\ ret' = "fail" /\ UNCHANGED team
           ELSE /\ d' = Insert(e, b)
                /\ ret' = "bulk"
                /\ team' = IF n > 0 THEN n ELSE team
    /\ job' = NoJob
    /\ UNCHANGED busy

\* The same call when storage runs out after j doublings.
BulkNoMemory(b, j) ==
    /\ ~ busy /\ d.count + Len(b) <= MaxSlots
    /\ LET e == Reserve(d, Len(b), j)
       IN  e.count + Len(b) > e.cap /\ d' = e
    /\ job' = NoJob /\ ret' = "fail"
    /\ UNCHANGED <<busy, plain, team>>

DefaultsLate(vs) ==   \* mutant: numbering starts one too far
    [j \in 1 .. Len(vs) |-> [id |-> d.alive + j, vec |-> vs[j]]]

\* add: the ids that follow the number of live vectors.
Defaults(vs) == [j \in 1 .. Len(vs) |-> [id |-> d.alive + j - 1, vec |-> vs[j]]]

AddDefault(vs) == /\ Defaults(vs) \in Batches
                  /\ BulkInsert(Defaults(vs), 1)
                  /\ UNCHANGED plain

\* add_bulk: one thread, or the number asked for, 0 meaning one.
AddBulk(b, threads) == /\ BulkInsert(b, IF threads = 0 THEN 1 ELSE threads)
                       /\ plain' = FALSE

\* delete of a list is called.
DeleteBegin(ids) == /\ ~ busy
                    /\ job' = [ids |-> ids, next |-> 1, before |-> LiveIds]
                    /\ busy' = TRUE
                    /\ plain' = FALSE
                    /\ UNCHANGED <<d, team, ret>>

DeleteOn ==   \* mutant: a missing id is passed over, its error forgotten
    LET id == job.ids[job.next]
    IN  /\ busy
        /\ d' = IF Absent(d, id) THEN d ELSE Bury(d, id)
        /\ job' = [job EXCEPT !.next = @ + 1]
        /\ busy' = (job.next < Len(job.ids))
        /\ ret' = IF Absent(d, id) THEN ret ELSE "deleted"
        /\ UNCHANGED <<plain, team>>

\* One turn of its loop: the first id that is not there raises.
DeleteStep ==
    LET id == job.ids[job.next]
    IN  /\ busy
        /\ IF Absent(d, id)
           THEN ret' = "fail" /\ busy' = FALSE /\ UNCHANGED <<d, job>>
           ELSE /\ d' = Bury(d, id)
                /\ job' = [job EXCEPT !.next = @ + 1]
                /\ busy' = (job.next < Len(job.ids))
                /\ ret' = "deleted"
        /\ UNCHANGED <<plain, team>>

\* vecdb_compact, which has nothing to do without a tombstone.
Compacted(e) ==
    IF e.alive = e.count THEN e
    ELSE FoldLeft(LAMBDA f, s : IF IsLive(e, s)
                                THEN AddTo(f, e.slot[s].id, e.slot[s].vec) ELSE f,
                  Fresh(CompactCap(e)), [s \in 1 .. e.count |-> s - 1])

Compact == /\ ~ busy
           /\ d' = Compacted(d)
           /\ job' = NoJob
           /\ ret' = "compacted"
           /\ UNCHANGED <<busy, plain, team>>

\* set_threads.
SetThreads(n) == /\ ~ busy
                 /\ team' = IF n > 0 THEN n ELSE Procs
                 /\ job' = NoJob
                 /\ UNCHANGED <<d, busy, plain, ret>>

PyNext == \/ \E n \in 1 .. MaxBatch : \E vs \in [1 .. n -> Vecs] : AddDefault(vs)
          \/ \E b \in Batches, n \in Threads : AddBulk(b, n)
          \/ \E b \in Batches, j \in 0 .. MaxBatch : BulkNoMemory(b, j)
          \/ \E ids \in Lists : DeleteBegin(ids)
          \/ DeleteStep \/ Compact
          \/ \E n \in Threads : SetThreads(n)

PySpec == PyInit /\ [][PyNext]_py
-----------------------------------------------------------------------------
NoId == -1     \* 2^64 - 1, the id of a result that is not there

RowAtFound(i, k, kk) == i * kk   \* mutant: rows as long as there are results

\* Where the results of query i begin.
RowAt(i, k, kk) == i * k

\* The results of query i where they belong, padded.
PutRow(e, qs, k, mask, out, i) ==
    LET kk == IF k > e.alive THEN e.alive ELSE k
        hits == FlatScan(e, qs[i + 1], k, mask)
    IN  [c \in DOMAIN out |->
           LET j == c - RowAt(i, k, kk)
           IN  IF j \notin 0 .. k - 1 THEN out[c]
               ELSE IF j < Len(hits) THEN e.slot[hits[j + 1].node].id ELSE NoId]

\* One block of queries, which the last may not fill.
ScanBlock(e, qs, k, mask, out, blk) ==
    LET q0 == blk * QB
        qb == IF Len(qs) - q0 < QB THEN Len(qs) - q0 ELSE QB
    IN  FoldLeft(LAMBDA o, j : PutRow(e, qs, k, mask, o, q0 + j), out, [j \in 1 .. qb |-> j - 1])

\* flat_batch_impl: block after block of QB queries.
FlatBatch(e, qs, k, mask) ==
    LET kk == IF k > e.alive THEN e.alive ELSE k
        blank == [c \in 0 .. Len(qs) * k - 1 |-> 0]
    IN  [n |-> IF e.alive = 0 THEN 0 ELSE kk,
         out |-> IF e.alive = 0 THEN blank
                 ELSE FoldLeft(LAMBDA o, b : ScanBlock(e, qs, k, mask, o, b), blank,
                               [b \in 1 .. (Len(qs) + QB - 1) \div QB |-> b - 1])]

\* search with exact = True: the n columns the C call filled, the rest as
\* NumPy initialised it.
SearchRows(e, qs, k, mask) ==
    LET got == FlatBatch(e, qs, k, mask)
    IN  [i \in 1 .. Len(qs) |-> [j \in 1 .. k |->
            IF j <= got.n THEN got.out[(i - 1) * k + j - 1] ELSE NoId]]
-----------------------------------------------------------------------------
(***************************************************************************)
(* Properties.                                                             *)
(***************************************************************************)
\* "ids default to 0..n-1" (pyvecdb.py:11): as long as ids are left to default
\* and nothing is deleted, the ids in use are 0 .. alive - 1, so the next
\* default ids are free; compactions and calls that ran out of memory included.
DefaultsDense ==
    plain => LiveIds = 0 .. d.alive - 1

\* A delete of a list (pyvecdb.py, "If any deletion fails ... raised") is not
\* atomic, and exactly this is left of it: the ids before the failing one are
\* gone, that one was missing from the start or named before in the list, and
\* nothing else is touched.
DeleteExact ==
    LET done == {job.ids[j] : j \in 1 .. job.next - 1}
    IN  job.ids # <<>> =>
          /\ LiveIds = job.before \ done
          /\ Cardinality(done) = job.next - 1 /\ done \subseteq job.before
          /\ ~ busy /\ ret = "fail" =>
                job.ids[job.next] \notin job.before \ done
          /\ ~ busy /\ ret # "fail" => job.next > Len(job.ids)

\* "Missing slots (k > count) are id=2^64-1" (pyvecdb.py, search): row i of a
\* batch holds the nearest vectors of query i that the id lists let through,
\* then padding, whatever block the query fell in and however few there are.
RowsExact ==
    ~ busy =>
      \A q \in Queries : \A r \in Queries \ {q}, k \in 1 .. 3, S \in Filters,
         mode \in {"allow", "deny"} :
         LET qs   == <<q, r, q>>
             rows == SearchRows(d, qs, k, MakeMask(d, S, mode))
         IN  \A i \in 1 .. 3 :
               LET row  == rows[i]
                   n    == Cardinality({j \in 1 .. k : row[j] # NoId})
                   hits == [j \in 1 .. n |->
                              [node |-> d.map[row[j]],
                               dist |-> Metric[qs[i]][d.slot[d.map[row[j]]].vec]]]
               IN  /\ \A j \in 1 .. k : row[j] = NoId <=> j > n
                   /\ IsTopK(d, qs[i], k, Wanted(d, S, mode), hits)

\* "Set the OpenMP thread count for subsequent parallel searches"
\* (vecdb.c:1096): the count a search finds is the one asked for unless an insert
\* has stored vectors since; one that is refused, for a duplicate or for lack of
\* memory, does not touch it, and neither do deletes and compactions.
ThreadsKept ==
    [][team' # team => \/ \E n \in Threads : SetThreads(n)
                       \/ ret' = "bulk" /\ d'.count > d.count]_py

\* The vectors a scan of the live slots finds under each id.
Content == [id \in Ids |-> IF Absent(d, id) THEN NoVec ELSE d.slot[d.map[id]].vec]

\* What Python code sees is the abstract store: an add takes effect as a whole
\* or not at all, a list delete is a series of single ones.
Store == INSTANCE VecStore WITH store <- Content, size <- d.alive
StoreSpec == Store!Spec
=============================================================================
