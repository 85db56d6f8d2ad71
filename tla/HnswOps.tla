------------------------------ MODULE HnswOps ------------------------------
(***************************************************************************)
(* The graph algorithms of vecdb.c as operators: greedy descent, the beam  *)
(* search of one layer, neighbour selection, pruning, wiring a node and    *)
(* the search of the whole index.  They change nothing themselves; Hnsw    *)
(* and ConcurrentBuild are the state machines that use them.               *)
(*                                                                         *)
(* A node is identified with its vector, a member of Points; D gives the   *)
(* squared distances.  Distances from one point are distinct, so the order *)
(* in which the binary heaps and the insertion sort leave equal distances  *)
(* plays no part.  Heaps are sets ordered by distance.                     *)
(*                                                                         *)
(* A graph is [lvl, link, entry, top]: link[v][l + 1] is the neighbour     *)
(* list of v at level l and exists for l <= lvl[v] only, as the blocks     *)
(* l0 and upper[v] do.                                                     *)
(***************************************************************************)
EXTENDS Integers, FiniteSets, SequencesExt

CONSTANTS
    Points,    \* vectors
    D,         \* D[p][q], the squared distance
    M,         \* links per node on the upper levels
    EfC,       \* ef_construction
    NoNode     \* entry = -1

ASSUME HnswOpsAssumption ==
    /\ IsFiniteSet(Points) /\ NoNode \notin Points
    /\ D \in [Points -> [Points -> Int]]
    /\ \A p, q, r \in Points : D[p][q] = D[p][r] => q = r
    /\ M \in Nat /\ M >= 2          \* vecdb_create refuses less
    /\ EfC \in Nat /\ EfC >= M      \* vecdb_create raises it to M

M0 == 2 * M
LinkCap(l) == IF l = 0 THEN M0 ELSE M

Nodes(g) == DOMAIN g.lvl
Links(g, v, l) == g.link[v][l + 1]

Nearest(q, S) == CHOOSE x \in S : \A y \in S : D[q][x] <= D[q][y]
Farthest(q, S) == CHOOSE x \in S : \A y \in S : D[q][x] >= D[q][y]

\* The members of S, nearest to q first.
ByDistance(q, S) ==
    [j \in 1 .. Cardinality(S) |->
        CHOOSE x \in S : Cardinality({y \in S : D[q][y] < D[q][x]}) = j - 1]

\* Enough rounds for any loop that visits each node at most once.
Rounds(g) == [n \in 1 .. Cardinality(Nodes(g)) |-> n]
-----------------------------------------------------------------------------
\* select_neighbors goes through the candidates nearest first and keeps one
\* when it is nearer to the base than to every candidate kept before it ...
Diverse(q, S) ==
    LET kept[x \in S] == \A y \in S : D[q][y] < D[q][x] /\ kept[y] => D[x][y] >= D[q][x]
    IN  {x \in S : kept[x]}

\* ... until there are k; the others fill up, nearest first again.
SelectNeighbors(q, S, k) ==
    LET div == Diverse(q, S)
        all == ByDistance(q, div) \o ByDistance(q, S \ div)
    IN  SubSeq(all, 1, IF k < Len(all) THEN k ELSE Len(all))

\* shrink_links.
ShrinkLinks(v, list, l) ==
    IF Len(list) <= LinkCap(l) THEN list
                               ELSE SelectNeighbors(v, ToSet(list), LinkCap(l))

\* greedy_step: move to the nearest neighbour until none is nearer.
GreedyStep(g, q, ep, l) ==
    FoldLeft(LAMBDA cur, n : Nearest(q, {cur} \cup ToSet(Links(g, cur, l))),
             ep, Rounds(g))
-----------------------------------------------------------------------------
(***************************************************************************)
(* search_layer.  A beam is [cand, res, vis]: nodes to expand, the best ef *)
(* admissible nodes so far, and the visited marks.  Only members of ok may *)
(* be results; every node may be a waypoint.                               *)
(***************************************************************************)
Room(q, b, ef, x) == Cardinality(b.res) < ef \/ D[q][x] < D[q][Farthest(q, b.res)]

Trim(q, S, ef) == IF Cardinality(S) > ef THEN S \ {Farthest(q, S)} ELSE S

MeetPermitted(q, b, ef, ok, x) ==   \* mutant: other nodes are no waypoints
    IF x \in ok /\ x \notin b.vis /\ Room(q, b, ef, x)
    THEN [cand |-> b.cand \cup {x}, res |-> Trim(q, b.res \cup {x}, ef),
          vis |-> b.vis \cup {x}]
    ELSE [b EXCEPT !.vis = @ \cup {x}]

Meet(q, b, ef, ok, x) ==
    IF x \in b.vis THEN b
    ELSE IF Room(q, b, ef, x)
    THEN [cand |-> b.cand \cup {x},
          res  |-> IF x \in ok THEN Trim(q, b.res \cup {x}, ef) ELSE b.res,
          vis  |-> b.vis \cup {x}]
    ELSE [b EXCEPT !.vis = @ \cup {x}]

BeamDoneUnfilled(q, b, ef) ==   \* mutant: stops before the beam is full
    b.cand # {} => /\ b.res # {}
                   /\ D[q][Nearest(q, b.cand)] > D[q][Farthest(q, b.res)]

\* The loop ends when the nearest candidate is farther than a full result set.
BeamDone(q, b, ef) ==
    b.cand # {} => /\ Cardinality(b.res) >= ef
                   /\ D[q][Nearest(q, b.cand)] > D[q][Farthest(q, b.res)]

Expand(g, q, b, ef, l, ok) ==
    IF BeamDone(q, b, ef) THEN b
    ELSE LET c == Nearest(q, b.cand)
         IN  FoldLeft(LAMBDA s, x : Meet(q, s, ef, ok, x),
                      [b EXCEPT !.cand = @ \ {c}], Links(g, c, l))

SearchLayer(g, q, ep, ef, l, ok) ==
    LET start == [cand |-> {ep}, res |-> {ep} \cap ok, vis |-> {ep}]
    IN  FoldLeft(LAMBDA b, n : Expand(g, q, b, ef, l, ok), start, Rounds(g)).res
-----------------------------------------------------------------------------
(***************************************************************************)
(* wire_node and vecdb_add.                                                *)
(***************************************************************************)
\* Levels a, a - 1, ..., b; empty when a < b.
Down(a, b) == [j \in 1 .. a - b + 1 |-> a - j + 1]

Descend(g, q, ep, from, to) ==
    FoldLeft(LAMBDA e, l : GreedyStep(g, q, e, l), ep, Down(from, to))

BackLinkUnpruned(list, v, u, l) == Append(list, v)   \* mutant

BackLink(list, v, u, l) == ShrinkLinks(u, Append(list, v), l)

\* One level of wire_node: link v to the selected nodes, link them back and
\* prune their lists, and go on from the nearest node found.
WireLevel(a, v, l) ==
    LET g   == a.g
        res == SearchLayer(g, v, a.ep, EfC, l, Nodes(g))
        sel == SelectNeighbors(v, res, M)
        new(u) == IF u = v THEN sel
                  ELSE IF u \in ToSet(sel) THEN BackLink(Links(g, u, l), v, u, l)
                  ELSE Links(g, u, l)
    IN  [g |-> [g EXCEPT !.link = [u \in Nodes(g) |->
                    IF l > g.lvl[u] THEN @[u] ELSE [@[u] EXCEPT ![l + 1] = new(u)]]],
         ep |-> Nearest(v, res)]

AdvanceEntry(g, v, level) ==
    IF level > g.top THEN [g EXCEPT !.entry = v, !.top = level] ELSE g

WireNode(g, v) ==
    LET level == g.lvl[v]
        ep    == Descend(g, v, g.entry, g.top, level + 1)
        start == IF level < g.top THEN level ELSE g.top
        wired == FoldLeft(LAMBDA a, l : WireLevel(a, v, l), [g |-> g, ep |-> ep],
                          Down(start, 0)).g
    IN  AdvanceEntry(wired, v, level)

\* A stored node whose lists are still empty.
StoreNode(g, v, level) ==
    [lvl |-> [u \in Nodes(g) \cup {v} |-> IF u = v THEN level ELSE g.lvl[u]],
     link |-> [u \in Nodes(g) \cup {v} |->
                  IF u = v THEN [l \in 1 .. level + 1 |-> <<>>] ELSE g.link[u]],
     entry |-> g.entry, top |-> g.top]

EmptyGraph == [lvl |-> <<>>, link |-> <<>>, entry |-> NoNode, top |-> -1]

AddNode(g, v, level) ==
    LET s == StoreNode(g, v, level)
    IN  IF g.entry = NoNode THEN [s EXCEPT !.entry = v, !.top = level]
                            ELSE WireNode(s, v)
-----------------------------------------------------------------------------
\* hnsw_search_impl and emit_topk: at most k nodes of ok, nearest first.
HnswSearch(g, q, k, ef0, ok) ==
    LET ef  == IF ef0 < k THEN k ELSE ef0
        ep  == Descend(g, q, g.entry, g.top, 1)
        res == ByDistance(q, SearchLayer(g, q, ep, ef, 0, ok))
    IN  SubSeq(res, 1, IF Len(res) < k THEN Len(res) ELSE k)
-----------------------------------------------------------------------------
(***************************************************************************)
(* Reference definitions the properties are stated with.                   *)
(***************************************************************************)
\* Nodes a traversal of level l can reach from the nodes of S.
Reach(g, S, l) ==
    FoldLeft(LAMBDA R, n : R \cup UNION {ToSet(Links(g, u, l)) : u \in R}, S, Rounds(g))

\* A list at level l names only nodes that live on level l: following it from
\* an upper level never reads a missing upper block.
OnLevel(g) == \A v \in Nodes(g) : \A l \in 0 .. g.lvl[v] :
                 \A u \in ToSet(Links(g, v, l)) : g.lvl[u] >= l

\* Lists stay within M0 and M, have no duplicate and never name their owner.
WithinCap(g) == \A v \in Nodes(g) : \A l \in 0 .. g.lvl[v] :
                   /\ Len(Links(g, v, l)) <= LinkCap(l)
                   /\ IsInjective(Links(g, v, l))
                   /\ v \notin ToSet(Links(g, v, l))

\* The entry point is on the top level of the graph: every descent starts at a
\* node that has links on the level it starts from.
EntryOnTopOf(g) == IF Nodes(g) = {} THEN g.entry = NoNode /\ g.top = -1
                   ELSE /\ g.lvl[g.entry] = g.top
                        /\ \A v \in Nodes(g) : g.lvl[v] <= g.top

\* Until a level-0 list overflows, which takes M0 + 2 nodes, no link is lost:
\* links on level 0 go both ways and the bottom layer hangs together.
BottomWhole(g) ==
    Cardinality(Nodes(g)) <= M0 + 1 =>
        /\ \A v, u \in Nodes(g) : u \in ToSet(Links(g, v, 0)) => v \in ToSet(Links(g, u, 0))
        /\ \A v \in Nodes(g) : Reach(g, {v}, 0) = Nodes(g)

\* The exact answer of a search among the nodes of S.
TopK(q, k, S) ==
    LET s == ByDistance(q, S) IN SubSeq(s, 1, IF Len(s) < k THEN Len(s) ELSE k)
=============================================================================
