-------------------------------- MODULE Scan --------------------------------
(***************************************************************************)
(* Slot masks and the exact scan of vecdb.c (vecdb_make_mask and           *)
(* flat_batch_impl) over a database body, one query of the block at a      *)
(* time.                                                                   *)
(***************************************************************************)
EXTENDS VecBody, Heaps

CONSTANT Metric  \* Metric[q][v]: distance of a query and a vector

\* vecdb_make_mask: mode "allow" starts from nothing and adds the slots of the
\* ids, mode "deny" starts from everything; ids that are not stored are
\* ignored.
MakeMaskAlive(d, S, mode) ==   \* mutant: one byte per live vector
    [s \in 0 .. d.count - 1 |->
        IF \E id \in S : d.map[id] = s THEN mode = "allow"
        ELSE s < d.alive /\ mode = "deny"]

MakeMask(d, S, mode) ==
    [s \in 0 .. d.count - 1 |->
        IF \E id \in S : d.map[id] = s THEN mode = "allow" ELSE mode = "deny"]

\* The slots the scan does not skip.
Scanned(d, s, mask) == ~ d.slot[s].dead /\ mask[s]

\* flat_batch_impl for one query.
FlatScan(d, q, k, mask) ==
    LET kk == IF k > d.alive THEN d.alive ELSE k
        Look(h, s) == IF Scanned(d, s, mask)
                      THEN Offer(h, [dist |-> Metric[q][d.slot[s].vec], node |-> s], kk)
                      ELSE h
    IN  IF d.alive = 0 THEN <<>>
        ELSE Emitted(FoldLeft(Look, <<>>, [s \in 1 .. d.count |-> s - 1]), kk)
-----------------------------------------------------------------------------
(***************************************************************************)
(* What a filtered exact search promises, without slots, masks or heaps.   *)
(***************************************************************************)
Wanted(d, S, mode) ==
    {s \in LiveSlots(d) : (d.slot[s].id \in S) = (mode = "allow")}

\* The hits are wanted slots, each once, nearest first, and no wanted slot
\* left out is nearer than one that is in.
IsTopK(d, q, k, W, hits) ==
    LET dist(s) == Metric[q][d.slot[s].vec]
        In == {hits[j].node : j \in 1 .. Len(hits)}
    IN  /\ Len(hits) = IF Cardinality(W) < k THEN Cardinality(W) ELSE k
        /\ In \subseteq W /\ Cardinality(In) = Len(hits)
        /\ \A j \in 1 .. Len(hits) : hits[j].dist = dist(hits[j].node)
        /\ \A j \in 2 .. Len(hits) : hits[j - 1].dist <= hits[j].dist
        /\ \A s \in W \ In, r \in In : dist(s) >= dist(r)

\* A mask made on body d finds, on body e with the same slots, exactly the k
\* nearest of the live vectors it stands for.
MaskExact(d, e, q, k) ==
    \A S \in SUBSET Ids, mode \in {"allow", "deny"} :
       IsTopK(e, q, k, Wanted(e, S, mode), FlatScan(e, q, k, MakeMask(d, S, mode)))
=============================================================================
