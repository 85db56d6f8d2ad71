-------------------------------- MODULE Hnsw --------------------------------
(***************************************************************************)
(* The index built by a single writer: vecdb_add with the level the        *)
(* generator draws, tombstone deletes, and what searches over any subset   *)
(* of the live nodes return.  Searches change nothing; the properties      *)
(* evaluate them in every state.  A compaction yields the graph of another *)
(* sequence of adds, so every graph it can build is reached here too.      *)
(***************************************************************************)
EXTENDS HnswOps

CONSTANTS
    MaxLevel,  \* bound on the level drawn by sample_level (32 in the code)
    MaxNodes,  \* bound on the nodes ever added
    MaxDead,   \* bound on the tombstones
    Searched   \* searches are evaluated while the graph is within this set

ASSUME HnswAssumption == MaxLevel \in Nat /\ MaxNodes \in Nat /\ MaxDead \in Nat
                         /\ Searched \subseteq Points

VARIABLES
    g,         \* the graph
    dead       \* tombstoned nodes: still in the graph

vars == <<g, dead>>

Init == g = EmptyGraph /\ dead = {}

\* vecdb_add: store the node, draw its level, wire it into every level.
Add(v, level) == /\ v \notin Nodes(g)
                 /\ Cardinality(Nodes(g)) < MaxNodes
                 /\ g' = AddNode(g, v, level)
                 /\ UNCHANGED dead

\* vecdb_delete: the node keeps its links and stays a waypoint.
Delete(v) == /\ v \in Nodes(g) \ dead
             /\ Cardinality(dead) < MaxDead
             /\ dead' = dead \cup {v}
             /\ UNCHANGED g

Next == \/ \E v \in Points, level \in 0 .. MaxLevel : Add(v, level)
        \/ \E v \in Points : Delete(v)

Spec == Init /\ [][Next]_vars
-----------------------------------------------------------------------------
Alive == Nodes(g) \ dead

\* Types; and, whatever order of inserts, back-links and prunings has made it:
\* neighbour lists stay within their level and their cap, the entry point is a
\* node of the top level, and until a level-0 list overflows the bottom layer is
\* symmetric and connected.
GraphSound ==
    /\ g.lvl \in [Nodes(g) -> 0 .. MaxLevel] /\ DOMAIN g.link = Nodes(g)
    /\ \A v \in Nodes(g) : g.link[v] \in [1 .. g.lvl[v] + 1 -> Seq(Nodes(g))]
    /\ g.entry \in Nodes(g) \cup {NoNode} /\ g.top \in -1 .. MaxLevel
    /\ dead \subseteq Nodes(g)
    /\ OnLevel(g) /\ WithinCap(g) /\ EntryOnTopOf(g) /\ BottomWhole(g)

\* What a search can find: everything reachable on level 0 from where the
\* greedy descent ends.
Findable(q) == Reach(g, {Descend(g, q, g.entry, g.top, 1)}, 0)

\* A search never returns a tombstone or a node the mask forbids, and it never
\* comes up short of what it can reach: search_layer stops early only with
\* ef >= k results in hand, so it returns k of the permitted nodes it can reach, or
\* all of them, and a larger ef gives no more.  vecdb.c:1068-1071 ("raise ef - the
\* beam may otherwise terminate with fewer than k hits") and README.md:362 say
\* otherwise of masks that permit little.
SearchNeverShort ==
    Alive # {} /\ Nodes(g) \subseteq Searched =>
      \A q \in Searched, k \in 1 .. 2, ok \in SUBSET Alive :
      \A ef \in {k, k + Cardinality(Nodes(g))} :
         LET out == HnswSearch(g, q, k, ef, ok)
             can == Cardinality(Findable(q) \cap ok)
         IN  /\ ToSet(out) \subseteq ok
             /\ IsInjective(out)
             /\ Len(out) = IF can < k THEN can ELSE k

\* With a beam as wide as the number of permitted nodes the search is exact
\* over what it can reach, however many tombstones and forbidden nodes lie on
\* the way ("traversal passes through them").
WideBeamExact ==
    Alive # {} /\ Nodes(g) \subseteq Searched =>
      \A q \in Searched, ok \in SUBSET Alive :
         LET n == Cardinality(ok) IN
         n > 0 => HnswSearch(g, q, n, n, ok) = TopK(q, n, Findable(q) \cap ok)
=============================================================================
