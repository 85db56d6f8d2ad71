------------------------------- MODULE Hybrid -------------------------------
(***************************************************************************)
(* The hybrid index (hybrid.c): an HNSW graph built and traversed with the *)
(* distances of TurboQuant codes, and a search that ranks what the         *)
(* traversal found by exact distance.  The graph algorithms are those of   *)
(* vecdb.c over code distances (the instance Coded) except where           *)
(* neighbours are selected: a candidate's distance to the new vector is    *)
(* that of its code, its distance to the neighbours kept before is exact,  *)
(* and an overfull list is pruned by the distances to the new vector, not  *)
(* to the owner of the list.                                               *)
(*                                                                         *)
(* There is no delete, no mask and no id map.  A node stands for its id;   *)
(* Vec gives its vector, and slot s holds the s-th vector added.  The      *)
(* codec is the index of CodeIndex, which takes every vector added here.   *)
(***************************************************************************)
EXTENDS HnswOps, CodeIndex

CONSTANTS
    MaxLevel,      \* bound on the level drawn by sample_level (32 in the code)
    FirstCap,      \* capacity of the index
    MaxNodes,      \* bound on the vectors added, by configuration of the codec
    MaxDim,        \* the kernels are evaluated for dimensions up to this
    PaddedDims     \* and padded dimensions in this set

ASSUME HybridAssumption ==
    /\ Points = DOMAIN Vec /\ MaxLevel \in Nat
    /\ FirstCap \in Nat \ {0}
    /\ MaxDim \in Nat /\ \A p \in PaddedDims : p \in Nat /\ p % 2 = 0

\* No two codes of a configuration are at the same distance of a query: the
\* graph algorithms are modelled without ties.
CodesApart == \A m \in 1 .. Len(Modes), q, x, y \in Points : C[m][q][x] = C[m][q][y] => x = y

VARIABLES
    g,         \* the graph
    cap        \* capacity of vecs and graph

vars == <<g, vecs, codec, near, cap>>

\* The graph algorithms over code distances.
Coded == INSTANCE HnswOps WITH D <- near
-----------------------------------------------------------------------------
\* sel_neighbors: code distance to the new vector, exact distances among the
\* candidates; the rest fills up.
HDiverse(q, S) ==
    LET kept[x \in S] ==
            \A y \in S : near[q][y] < near[q][x] /\ kept[y] => D[x][y] >= near[q][x]
    IN  {x \in S : kept[x]}

SelNeighbors(q, S, k) ==
    LET div == HDiverse(q, S)
        all == Coded!ByDistance(q, div) \o Coded!ByDistance(q, S \ div)
    IN  SubSeq(all, 1, IF k < Len(all) THEN k ELSE Len(all))

ShrinkLate(q, list, l) ==   \* mutant: one link more than the cap is let through
    IF Len(list) <= LinkCap(l) + 1 THEN list
                                   ELSE SelNeighbors(q, ToSet(list), LinkCap(l))

\* shrink: by distance to q, the vector being added.
Shrink(q, list, l) ==
    IF Len(list) <= LinkCap(l) THEN list
                               ELSE SelNeighbors(q, ToSet(list), LinkCap(l))

\* One level of the loop of hybrid_add.
HWireLevel(a, v, l) ==
    LET h   == a.g
        res == Coded!SearchLayer(h, v, a.ep, EfC, l, Nodes(h))
        sel == SelNeighbors(v, res, M)
        new(u) == IF u = v THEN sel
                  ELSE IF u \in ToSet(sel) THEN Shrink(v, Append(Links(h, u, l), v), l)
                  ELSE Links(h, u, l)
    IN  [g |-> [h EXCEPT !.link = [u \in Nodes(h) |->
                    IF l > h.lvl[u] THEN @[u] ELSE [@[u] EXCEPT ![l + 1] = new(u)]]],
         ep |-> Coded!Nearest(v, res)]

\* hybrid_add after the vector is stored.
Wired(h, v, level) ==
    LET s     == StoreNode(h, v, level)
        ep    == Coded!Descend(s, v, s.entry, s.top, level + 1)
        start == IF level < s.top THEN level ELSE s.top
        wired == FoldLeft(LAMBDA a, l : HWireLevel(a, v, l), [g |-> s, ep |-> ep],
                          Down(start, 0)).g
    IN  IF h.entry = NoNode THEN [s EXCEPT !.entry = v, !.top = level]
                            ELSE AdvanceEntry(wired, v, level)

\* grow: the capacity doubles when the slots are full; the codec grows by a
\* capacity of its own.
Grown(c, n) == IF n = c THEN 2 * c ELSE c

Init == CodeInit /\ g = EmptyGraph /\ cap = FirstCap

Add(v, level) == /\ v \notin Nodes(g)
                 /\ Len(vecs) < MaxNodes[codec.mode]
                 /\ cap' = Grown(cap, Len(vecs))
                 /\ CodeAdd(v)
                 /\ g' = Wired(g, v, level)

Next == \E v \in Points, level \in 0 .. MaxLevel : Add(v, level)

Spec == Init /\ [][Next]_vars
-----------------------------------------------------------------------------
RerankFirst(q, k, S) ==   \* mutant: the codes decide which k are ranked
    ByDistance(q, ToSet(Coded!TopK(q, k, S)))

\* The candidates by exact distance, all of them, whatever rerank_mult says.
Rerank(q, k, S) == TopK(q, k, S)

\* hybrid_search.
HybridSearch(q, k, ef0) ==
    LET ef == IF ef0 < k THEN k ELSE ef0
        ep == Coded!Descend(g, q, g.entry, g.top, 1)
    IN  Rerank(q, k, Coded!SearchLayer(g, q, ep, ef, 0, Nodes(g)))
-----------------------------------------------------------------------------
(***************************************************************************)
(* Properties.                                                             *)
(***************************************************************************)
\* Types; and after later adds and growth every slot of the codec gives back what
\* was stored in it (SlotKept).  Index and codec, which grow independently, hold
\* the same slots within their capacities.
CodesKept ==
    /\ g.lvl \in [Nodes(g) -> 0 .. MaxLevel]
    /\ \A v \in Nodes(g) : g.link[v] \in [1 .. g.lvl[v] + 1 -> Seq(Nodes(g))]
    /\ IsInjective(vecs) /\ ToSet(vecs) = Nodes(g)
    /\ Len(vecs) <= cap /\ Len(codec.ids) <= codec.cap
    /\ Len(codec.ids) = Len(vecs)
    /\ \A s \in 0 .. Len(vecs) - 1 : SlotKept(s, vecs[s + 1])

\* Whenever there is something to compare a query with, the kernels, in every
\* build, read each of its coordinates once, whatever the dimension leaves over
\* after the last full vector register.
KernelsWhole == AllCovered(MaxDim, PaddedDims)
KernelsCover == vecs # <<>> => KernelsWhole

\* Pruning by the wrong distances still keeps every list within its level and
\* its cap, the entry point on top and, until a list overflows, the bottom
\* layer connected.
GraphSound == OnLevel(g) /\ WithinCap(g) /\ EntryOnTopOf(g) /\ BottomWhole(g)

\* The search is never short of what the traversal can reach, and once the
\* beam is as wide as the index it returns the k nearest by exact distance,
\* although only codes have led the way.
FindsNearest(q, k) ==
    LET start == Coded!Descend(g, q, g.entry, g.top, 1)
        best  == TopK(q, k, Reach(g, {start}, 0))
    IN  /\ HybridSearch(q, k, Len(vecs)) = best
        /\ Len(HybridSearch(q, k, k)) = Len(best)

RerankExact ==
    vecs # <<>> /\ Nodes(g) \subseteq Searched =>
       \A q \in Searched, k \in 1 .. Len(vecs) : FindsNearest(q, k)
=============================================================================
