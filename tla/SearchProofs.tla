---------------------------- MODULE SearchProofs ----------------------------
(***************************************************************************)
(* Theorems about the index a single writer builds and about what searches *)
(* of it return, for every set of vectors, distance table, M,              *)
(* ef_construction and bound on the levels; and about search_layer as the  *)
(* code runs it: the visited marks are exact for every width of the epoch  *)
(* counter, and the arrays compute the search over sets, for every graph,  *)
(* distance, mask and beam width.                                          *)
(***************************************************************************)
EXTENDS Hnsw, BeamSearch, ScanProofs, HnswOpsProofs

-----------------------------------------------------------------------------
(***************************************************************************)
(* The index.                                                              *)
(***************************************************************************)
\* The inductive invariant.  GraphSound says what the properties need of a
\* small graph through Reach; here it is that no part of it is closed.
Inv == /\ Built(g)
       /\ g.lvl \in [Nodes(g) -> 0 .. MaxLevel]
       /\ dead \subseteq Nodes(g)

LEMMA InvInit == Init => Inv
<1> SUFFICES ASSUME Init PROVE Inv
  OBVIOUS
<1>1. g = EmptyGraph /\ dead = {}
  BY DEF Init
<1>2. Built(g) /\ Nodes(g) = {}
  BY <1>1, EmptyBuilt
<1>3. IsGraph(g)
  BY <1>2 DEF Built, Sound
<1>4. g.lvl \in [Nodes(g) -> 0 .. MaxLevel]
  BY <1>2, <1>3 DEF IsGraph
<1> QED
  BY <1>1, <1>2, <1>4 DEF Inv

LEMMA InvAdd ==
    ASSUME Inv, NEW v \in Points, NEW level \in 0 .. MaxLevel, Add(v, level)
    PROVE  Inv'
<1>1. /\ Built(g) /\ v \in Points \ Nodes(g) /\ level \in Nat
      /\ g' = AddNode(g, v, level) /\ dead' = dead
  BY DEF Inv, Add
<1> DEFINE h == AddNode(g, v, level)
<1>2. /\ Whole(h) /\ Nodes(h) = Nodes(g) \cup {v}
      /\ h.lvl[v] = level /\ \A u \in Nodes(g) : h.lvl[u] = g.lvl[u]
  BY <1>1, AddNodeFacts
<1>3. g' = h
  BY <1>1
<1> HIDE DEF h
<1>4. Built(h)
  BY <1>2 DEF Built
<1>5. h.lvl \in [Nodes(h) -> 0 .. MaxLevel]
  <2>1. h.lvl \in [Nodes(h) -> Nat]
    BY <1>2 DEF Whole, Sound, IsGraph
  <2>2. \A u \in Nodes(h) : h.lvl[u] \in 0 .. MaxLevel
    BY <1>2 DEF Inv
  <2> QED
    BY <2>1, <2>2
<1>6. Nodes(g)' = Nodes(h) /\ (g.lvl)' = h.lvl
  BY <1>3 DEF Nodes
<1>7. dead \subseteq Nodes(h)
  BY <1>2 DEF Inv
<1>8. Built(g')
  BY <1>3, <1>4
<1> QED
  BY <1>1, <1>5, <1>6, <1>7, <1>8 DEF Inv

LEMMA InvNext == Inv /\ [Next]_vars => Inv'
<1> SUFFICES ASSUME Inv, [Next]_vars PROVE Inv'
  OBVIOUS
<1>1. ASSUME NEW v \in Points, NEW level \in 0 .. MaxLevel, Add(v, level) PROVE Inv'
  BY <1>1, InvAdd
<1>2. ASSUME NEW v \in Points, Delete(v) PROVE Inv'
  <2>1. g' = g /\ v \in Nodes(g) /\ dead' = dead \cup {v}
    BY <1>2 DEF Delete
  <2> QED
    BY <2>1 DEF Inv
<1>3. CASE UNCHANGED vars
  BY <1>3 DEF Inv, vars
<1> QED
  BY <1>1, <1>2, <1>3 DEF Next

\* The graph stays well built through vecdb_add and vecdb_delete.
THEOREM Invariance == Spec => []Inv
<1> QED
  BY InvInit, InvNext, PTL DEF Spec

LEMMA InvSound == Inv => GraphSound
<1> SUFFICES ASSUME Inv PROVE GraphSound
  OBVIOUS
<1>1. /\ Sound(g) /\ g.lvl \in [Nodes(g) -> 0 .. MaxLevel] /\ dead \subseteq Nodes(g)
      /\ Nodes(g) = {} => g.entry = NoNode /\ g.top = -1
      /\ Nodes(g) # {} => Whole(g)
  BY DEF Inv, Built, Whole
<1>2. /\ DOMAIN g.link = Nodes(g) /\ OnLevel(g) /\ WithinCap(g)
      /\ \A v \in Nodes(g) : g.link[v] \in [1 .. g.lvl[v] + 1 -> Seq(Nodes(g))]
  BY <1>1 DEF Sound, IsGraph
<1>3. EntryOnTopOf(g) /\ BottomWhole(g)
  BY BuiltSound DEF Inv
<1>4. g.entry \in Nodes(g) \cup {NoNode} /\ g.top \in -1 .. MaxLevel
  <2>1. CASE Nodes(g) = {}
    BY <1>1, <2>1, HnswAssumption
  <2>2. CASE Nodes(g) # {}
    <3>1. g.entry \in Nodes(g) /\ g.lvl[g.entry] = g.top
      BY <1>1, <2>2 DEF Whole, EntryOnTopOf
    <3>2. g.top \in 0 .. MaxLevel
      BY <1>1, <3>1
    <3> QED
      BY <3>1, <3>2
  <2> QED
    BY <2>1, <2>2
<1> QED
  BY <1>1, <1>2, <1>3, <1>4 DEF GraphSound

\* Whatever order of inserts, back-links and prunings has made the graph, and
\* however many nodes it has: lists stay within their level and cap, the entry
\* point is on the top level, and a bottom layer whose lists cannot overflow is
\* symmetric and connected.
THEOREM SoundAlways == Spec => []GraphSound
<1> QED
  BY Invariance, InvSound, PTL

-----------------------------------------------------------------------------
(***************************************************************************)
(* Searches.                                                               *)
(***************************************************************************)
\* The first k of the set r of results.
FirstOf(h, q, k, ef, ok, r) ==
    /\ Cardinality(r) >= ef \/ r = Within(h, q) \cap ok
    /\ HnswSearch(h, q, k, ef, ok) = TopK(q, k, r)

\* What the search of the whole index returns: the nearest of a set of permitted
\* nodes it can find, which has ef members or all there are.
LEMMA SearchReturns ==
    ASSUME NEW h, Whole(h), NEW q \in Points, NEW k \in Nat, k >= 1,
           NEW ef \in Nat, ef >= k, NEW ok
    PROVE  /\ Within(h, q) \subseteq Nodes(h)
           /\ \E r \in SUBSET (Within(h, q) \cap ok) : FirstOf(h, q, k, ef, ok, r)
<1> DEFINE r == SearchLayer(h, q, Descend(h, q, h.entry, h.top, 1), ef, 0, ok)
<1>1. HnswSearch(h, q, k, ef, ok) = TopK(q, k, r)
  BY DEF HnswSearch, TopK
<1>2. /\ Within(h, q) \subseteq Nodes(h) /\ r \subseteq Within(h, q) \cap ok
      /\ Cardinality(r) >= ef \/ r = Within(h, q) \cap ok
  <2>1. ef >= 1
    OBVIOUS
  <2> QED
    BY <2>1, SearchFinds
<1> HIDE DEF r
<1> QED
  BY <1>1, <1>2 DEF FirstOf

LEMMA InvNeverShort == Inv => SearchNeverShort
<1> SUFFICES ASSUME Inv, Alive # {}, NEW q \in Searched, NEW k \in 1 .. 2,
                    NEW ok \in SUBSET Alive, NEW ef \in {k, k + Cardinality(Nodes(g))}
             PROVE  LET out == HnswSearch(g, q, k, ef, ok)
                        can == Cardinality(Findable(q) \cap ok)
                    IN  /\ ToSet(out) \subseteq ok
                        /\ IsInjective(out)
                        /\ Len(out) = IF can < k THEN can ELSE k
  BY DEF SearchNeverShort
<1> DEFINE F == Findable(q)
           can == Cardinality(F \cap ok)
           out == HnswSearch(g, q, k, ef, ok)
<1>1. Whole(g) /\ Nodes(g) \subseteq Points /\ q \in Points /\ k \in Nat /\ k >= 1
  <2>1. Nodes(g) # {}
    BY DEF Alive
  <2>2. Whole(g)
    BY <2>1 DEF Inv, Built
  <2> QED
    BY <2>2, HnswAssumption DEF Whole, Sound, IsGraph
<1>0. ef \in Nat /\ ef >= k
  <2>1. Cardinality(Nodes(g)) \in Nat
    BY <1>1, PointsFinite
  <2> QED
    BY <1>1, <2>1
<1>2. F = Within(g, q) /\ F \subseteq Nodes(g)
      /\ \E r \in SUBSET (F \cap ok) : FirstOf(g, q, k, ef, ok, r)
  <2>1. F = Within(g, q)
    BY DEF Findable, Within
  <2>2. /\ Within(g, q) \subseteq Nodes(g)
        /\ \E r \in SUBSET (Within(g, q) \cap ok) : FirstOf(g, q, k, ef, ok, r)
    BY <1>0, <1>1, SearchReturns
  <2> HIDE DEF F
  <2> QED
    BY <2>1, <2>2
<1> HIDE DEF F
<1>3. PICK r \in SUBSET (F \cap ok) :
         (Cardinality(r) >= ef \/ r = F \cap ok) /\ out = TopK(q, k, r)
  BY <1>2 DEF FirstOf
<1>4. r \subseteq Points /\ F \cap ok \subseteq Points
  BY <1>1, <1>2
<1> HIDE DEF out
<1>5. /\ ToSet(out) \subseteq r /\ IsInjective(out)
      /\ Len(out) = IF Cardinality(r) < k THEN Cardinality(r) ELSE k
  BY <1>1, <1>3, <1>4, NearestFew
<1>6. /\ Cardinality(r) \in Nat /\ can \in Nat /\ IsFiniteSet(F \cap ok)
      /\ Cardinality(r) <= can
  BY <1>3, <1>4, PointsFinite, FS_Subset
<1>7. Len(out) = IF can < k THEN can ELSE k
  <2> HIDE DEF can
  <2>1. Cardinality(r) >= k \/ Cardinality(r) = can
    BY <1>0, <1>1, <1>3, <1>6 DEF can
  <2> QED
    BY <1>1, <1>5, <1>6, <2>1
<1>8. ToSet(out) \subseteq ok
  BY <1>3, <1>5
<1> QED
  BY <1>5, <1>7, <1>8 DEF out, F

\* A search never returns a tombstone or a forbidden node, and returns k of the
\* permitted nodes it can reach or all of them, on whatever graph was built.
THEOREM NeverShortAlways == Spec => []SearchNeverShort
<1> QED
  BY Invariance, InvNeverShort, PTL

LEMMA InvWideBeam == Inv => WideBeamExact
<1> SUFFICES ASSUME Inv, Alive # {}, NEW q \in Searched, NEW ok \in SUBSET Alive,
                    Cardinality(ok) > 0
             PROVE  HnswSearch(g, q, Cardinality(ok), Cardinality(ok), ok)
                       = TopK(q, Cardinality(ok), Findable(q) \cap ok)
  BY DEF WideBeamExact
<1> DEFINE n == Cardinality(ok)
           F == Findable(q)
<1>1. Whole(g) /\ Nodes(g) \subseteq Points /\ q \in Points
  <2>1. Nodes(g) # {}
    BY DEF Alive
  <2>2. Whole(g)
    BY <2>1 DEF Inv, Built
  <2> QED
    BY <2>2, HnswAssumption DEF Whole, Sound, IsGraph
<1>2. IsFiniteSet(ok) /\ n \in Nat /\ n >= 1
  <2>1. ok \subseteq Points
    BY <1>1 DEF Alive
  <2>2. IsFiniteSet(ok) /\ n \in Nat
    BY <2>1, PointsFinite
  <2> QED
    BY <2>2
<1> HIDE DEF n
<1>3. PICK r \in SUBSET (F \cap ok) :
         (Cardinality(r) >= n \/ r = F \cap ok) /\ HnswSearch(g, q, n, n, ok) = TopK(q, n, r)
  <2>1. F = Within(g, q)
    BY DEF Findable, Within
  <2>2. \E r \in SUBSET (Within(g, q) \cap ok) : FirstOf(g, q, n, n, ok, r)
    <3>1. n >= n
      BY <1>2
    <3> QED
      BY <1>1, <1>2, <3>1, SearchReturns
  <2> HIDE DEF F
  <2> QED
    BY <2>1, <2>2 DEF FirstOf
<1> HIDE DEF F
<1>4. r = F \cap ok
  <2>1. CASE Cardinality(r) >= n
    <3>1. r \in SUBSET ok
      BY <1>3
    <3>2. Cardinality(r) <= n /\ (n = Cardinality(r) => ok = r) /\ IsFiniteSet(r)
      BY <1>2, <3>1, FS_Subset DEF n
    <3>3. Cardinality(r) \in Nat
      BY <3>2, FS_CardinalityType
    <3>4. ok = r
      BY <1>2, <2>1, <3>2, <3>3
    <3> QED
      BY <1>3, <3>4
  <2> QED
    BY <1>3, <2>1
<1> QED
  BY <1>3, <1>4 DEF n, F

\* With a beam as wide as the permitted nodes are many, the search is exact over
\* what it can reach, on whatever graph was built.
THEOREM WideBeamAlways == Spec => []WideBeamExact
<1> QED
  BY Invariance, InvWideBeam, PTL
-----------------------------------------------------------------------------
(***************************************************************************)
(* The marks.                                                              *)
(***************************************************************************)

\* Every mark is at most the epoch, so an epoch never used since the last
\* clearing marks nothing.
MarksInv == /\ MarksTypeOK
            /\ \A p \in 0 .. cap - 1 : vis[p] <= epoch
            /\ MarksExact

LEMMA MarksStart == MarksInit => MarksInv
  BY VisitedAssumption DEF MarksInit, MarksInv, MarksTypeOK, MarksExact, Zeros

\* The epoch a search starts with is larger than every mark in its buffer.
LEMMA AcquireFacts ==
    ASSUME MarksInv, NEW c \in 1 .. MaxCap
    PROVE  /\ Capacity(c) \in Nat /\ c <= Capacity(c)
           /\ Current(c) \in 1 .. W - 1
           /\ Cleared(c) \in [0 .. Capacity(c) - 1 -> 0 .. W - 1]
           /\ \A p \in 0 .. Capacity(c) - 1 : Cleared(c)[p] < Current(c)
<1> DEFINE e == IF cap < c THEN 0 ELSE epoch
<1>1. /\ cap \in Nat /\ c \in Nat /\ W \in Nat /\ W >= 2
      /\ vis \in [0 .. cap - 1 -> 0 .. W - 1]
      /\ \A p \in 0 .. cap - 1 : vis[p] <= epoch
      /\ epoch \in 0 .. W - 1
  BY VisitedAssumption DEF MarksInv, MarksTypeOK
<1>2. Capacity(c) \in Nat /\ c <= Capacity(c)
  BY <1>1 DEF Capacity
<1>3. e \in 0 .. W - 1 /\ NextEpoch(c) = IF e = W - 1 THEN 0 ELSE e + 1
  <2>1. e \in 0 .. W - 1
    BY <1>1
  <2>2. \A x \in 0 .. W - 1 : (x + 1) % W = IF x = W - 1 THEN 0 ELSE x + 1
    BY <1>1
  <2> QED
    BY <2>1, <2>2 DEF NextEpoch
<1>4. /\ Buffer(c) \in [0 .. Capacity(c) - 1 -> 0 .. W - 1]
      /\ \A p \in 0 .. Capacity(c) - 1 : Buffer(c)[p] <= e
  BY <1>1 DEF Buffer, Capacity, Zeros
<1> HIDE DEF e
<1>5. CASE NextEpoch(c) = 0
  BY <1>1, <1>2, <1>5 DEF Cleared, Current, Zeros
<1>6. CASE NextEpoch(c) # 0
  <2>1. Cleared(c) = Buffer(c) /\ Current(c) = e + 1 /\ e + 1 \in 1 .. W - 1
    BY <1>1, <1>3, <1>6 DEF Cleared, Current
  <2>2. \A p \in 0 .. Capacity(c) - 1 : Buffer(c)[p] \in Int /\ Buffer(c)[p] < e + 1
    BY <1>1, <1>3, <1>4
  <2> QED
    BY <1>2, <1>4, <2>1, <2>2
<1> QED
  BY <1>2, <1>5, <1>6

LEMMA MarksStep == MarksInv /\ [MarksNext]_marks => MarksInv'
<1> SUFFICES ASSUME MarksInv, [MarksNext]_marks PROVE MarksInv'
  OBVIOUS
<1>1. ASSUME NEW c \in 1 .. MaxCap, Acquire(c) PROVE MarksInv'
  <2>1. /\ req' = c /\ cap' = Capacity(c) /\ vis' = Cleared(c)
        /\ epoch' = Current(c) /\ seen' = {}
    BY <1>1 DEF Acquire
  <2>2. /\ cap' \in Nat /\ c <= cap' /\ epoch' \in 1 .. W - 1
        /\ vis' \in [0 .. cap' - 1 -> 0 .. W - 1]
        /\ \A p \in 0 .. cap' - 1 : vis'[p] < epoch'
    BY <1>1, <2>1, AcquireFacts
  <2>3. MarksTypeOK'
    BY <2>1, <2>2, VisitedAssumption DEF MarksTypeOK
  <2>4. \A p \in 0 .. cap' - 1 : vis'[p] <= epoch' /\ vis'[p] # epoch'
    <3> SUFFICES ASSUME NEW p \in 0 .. cap' - 1
                 PROVE  vis'[p] <= epoch' /\ vis'[p] # epoch'
      OBVIOUS
    <3>1. vis'[p] \in 0 .. W - 1 /\ vis'[p] < epoch'
      BY <2>2
    <3> QED
      BY <2>2, <3>1, VisitedAssumption
  <2> QED
    BY <2>1, <2>3, <2>4 DEF MarksInv, MarksExact
<1>2. ASSUME NEW p \in 0 .. MaxCap - 1, Visit(p) PROVE MarksInv'
  BY <1>2, VisitedAssumption DEF Visit, MarksInv, MarksTypeOK, MarksExact
<1>3. CASE Finish
  BY <1>3 DEF Finish, MarksInv, MarksTypeOK, MarksExact
<1>4. CASE UNCHANGED marks
  BY <1>4 DEF marks, MarksInv, MarksTypeOK, MarksExact
<1> QED
  BY <1>1, <1>2, <1>3, <1>4 DEF MarksNext

\* A search sees exactly the marks it made itself, whatever the counter width.
THEOREM MarksAreExact == MarksSpec => [](MarksTypeOK /\ MarksExact)
<1>1. MarksInv => MarksTypeOK /\ MarksExact
  BY DEF MarksInv
<1> QED
  BY <1>1, MarksStart, MarksStep, PTL DEF MarksSpec
-----------------------------------------------------------------------------
(***************************************************************************)
(* Heaps of slots: a set of slots, ordered by their distance from the      *)
(* query.                                                                  *)
(***************************************************************************)
Entries == [dist : Int, node : Points]
EntryOf(q, x) == [dist |-> D[q][x], node |-> x]
EntriesOf(q, S) == {EntryOf(q, x) : x \in S}

HeapOf(max, a, q, S) == S \subseteq Points /\ Holding(max, a, Entries, EntriesOf(q, S))

LEMMA EntriesWeighed == Weighed(Entries)
BY DEF Weighed, Entries

LEMMA EntryFacts ==
    ASSUME NEW q \in Points
    PROVE  \A x \in Points : /\ EntryOf(q, x) \in Entries /\ D[q][x] \in Int
                             /\ EntryOf(q, x).node = x /\ EntryOf(q, x).dist = D[q][x]
BY DistInt DEF EntryOf, Entries

LEMMA EntriesCount ==
    ASSUME NEW q \in Points, NEW S, S \subseteq Points
    PROVE  /\ EntriesOf(q, S) \subseteq Entries /\ IsFiniteSet(EntriesOf(q, S))
           /\ Cardinality(EntriesOf(q, S)) = Cardinality(S)
<1> DEFINE P == EntriesOf(q, S)
           f == [x \in S |-> EntryOf(q, x)]
<1>1. IsFiniteSet(S)
  BY PointsFinite
<1>2. \A x \in S : EntryOf(q, x) \in Entries /\ EntryOf(q, x).node = x
  BY EntryFacts
<1>3. f \in Bijection(S, P)
  <2>1. f \in [S -> P] /\ \A x \in S : f[x] = EntryOf(q, x)
    BY DEF EntriesOf
  <2>2. \A x, y \in S : f[x] = f[y] => x = y
    BY <1>2, <2>1
  <2>3. \A y \in P : \E x \in S : f[x] = y
    BY <2>1 DEF EntriesOf
  <2> HIDE DEF f, P
  <2> QED
    BY <2>1, <2>2, <2>3 DEF Bijection, Injection, Surjection, IsInjective
<1>4. IsFiniteSet(P) /\ Cardinality(P) = Cardinality(S)
  BY <1>1, <1>3, FS_Bijection DEF ExistsBijection
<1> QED
  BY <1>2, <1>4 DEF EntriesOf

\* The array and the set it stands for.
LEMMA HeapFacts ==
    ASSUME NEW q \in Points, NEW a, NEW S
    PROVE  \A max : HeapOf(max, a, q, S) =>
              /\ S \subseteq Points /\ a \in Seq(Entries) /\ Len(a) = Cardinality(S) /\ Len(a) \in Nat
              /\ IsHeap(max, a) /\ IsInjective(NodesOf(a))
              /\ a = <<>> <=> S = {}
              /\ \A j \in 1 .. Len(a) : a[j].node \in S /\ a[j] = EntryOf(q, a[j].node)
<1> SUFFICES ASSUME NEW max, HeapOf(max, a, q, S)
             PROVE  /\ S \subseteq Points /\ a \in Seq(Entries) /\ Len(a) = Cardinality(S) /\ Len(a) \in Nat
                    /\ IsHeap(max, a) /\ IsInjective(NodesOf(a))
                    /\ a = <<>> <=> S = {}
                    /\ \A j \in 1 .. Len(a) : a[j].node \in S /\ a[j] = EntryOf(q, a[j].node)
  OBVIOUS
<1>1. S \subseteq Points /\ Holding(max, a, Entries, EntriesOf(q, S))
  BY DEF HeapOf
<1>2. a \in Seq(Entries) /\ Len(a) \in Nat /\ IsInjective(a) /\ ToSet(a) = EntriesOf(q, S)
  BY <1>1, HoldingItems
<1>3. Len(a) = Cardinality(S)
  BY <1>1, <1>2, InjectiveLen, EntriesCount
<1>4. \A j \in 1 .. Len(a) : a[j].node \in S /\ a[j] = EntryOf(q, a[j].node)
  <2>1. \A j \in 1 .. Len(a) : a[j] \in EntriesOf(q, S)
    BY <1>2 DEF ToSet
  <2>2. \A x \in S : EntryOf(q, x).node = x
    BY <1>1, EntryFacts
  <2> QED
    BY <2>1, <2>2 DEF EntriesOf
<1>5. IsInjective(NodesOf(a))
  <2>1. DOMAIN a = 1 .. Len(a)
    BY <1>2
  <2>2. DOMAIN NodesOf(a) = 1 .. Len(a) /\ \A j \in 1 .. Len(a) : NodesOf(a)[j] = a[j].node
    BY <2>1 DEF NodesOf
  <2>3. \A i, j \in 1 .. Len(a) : a[i].node = a[j].node => i = j
    BY <1>2, <1>4, <2>1 DEF IsInjective
  <2> QED
    BY <2>2, <2>3 DEF IsInjective
<1>6. a = <<>> <=> S = {}
  <2>1. a = <<>> <=> Len(a) = 0
    BY <1>2
  <2>2. S = {} <=> Cardinality(S) = 0
    BY <1>1, PointsFinite, FS_EmptySet
  <2> QED
    BY <1>3, <2>1, <2>2
<1>7. IsHeap(max, a)
  BY <1>1 DEF Holding
<1> QED
  BY <1>1, <1>2, <1>3, <1>4, <1>5, <1>6, <1>7

LEMMA EmptyHeap ==
    ASSUME NEW q
    PROVE  \A max : HeapOf(max, <<>>, q, {})
<1>1. EntriesOf(q, {}) = {}
  BY DEF EntriesOf
<1>2. \A max : Holding(max, <<>>, Entries, {})
  BY DEF Holding, IsInjective, ToSet, IsHeap
<1> QED
  BY <1>1, <1>2 DEF HeapOf

LEMMA PushSlot ==
    ASSUME NEW q \in Points, NEW x \in Points, NEW S, x \notin S
    PROVE  \A max, a : HeapOf(max, a, q, S) =>
              HeapOf(max, HeapPush(max, a, EntryOf(q, x)), q, S \cup {x})
<1> SUFFICES ASSUME NEW max, NEW a, HeapOf(max, a, q, S)
             PROVE  HeapOf(max, HeapPush(max, a, EntryOf(q, x)), q, S \cup {x})
  OBVIOUS
<1>1. S \subseteq Points /\ Holding(max, a, Entries, EntriesOf(q, S))
  BY DEF HeapOf
<1>2. EntryOf(q, x) \in Entries /\ EntryOf(q, x) \notin EntriesOf(q, S)
  <2>1. \A y \in S : EntryOf(q, y).node = y
    BY <1>1, EntryFacts
  <2> QED
    BY <2>1, EntryFacts DEF EntriesOf
<1>3. EntriesOf(q, S \cup {x}) = EntriesOf(q, S) \cup {EntryOf(q, x)}
  BY DEF EntriesOf
<1>4. Holding(max, HeapPush(max, a, EntryOf(q, x)), Entries, EntriesOf(q, S) \cup {EntryOf(q, x)})
  BY ONLY <1>1, <1>2, EntriesWeighed, PushFacts
<1> QED
  BY <1>1, <1>3, <1>4 DEF HeapOf

\* What goes first in a heap is the only slot at its distance.
LEMMA PopSlot ==
    ASSUME NEW q \in Points, NEW S, S # {}
    PROVE  \A max, a : HeapOf(max, a, q, S) =>
              \E x \in S : /\ a[1] = EntryOf(q, x)
                           /\ \A y \in S : ~ Before(max, EntryOf(q, y), EntryOf(q, x))
                           /\ HeapOf(max, HeapPop(max, a), q, S \ {x})
<1> SUFFICES ASSUME NEW max, NEW a, HeapOf(max, a, q, S)
             PROVE  \E x \in S : /\ a[1] = EntryOf(q, x)
                                 /\ \A y \in S : ~ Before(max, EntryOf(q, y), EntryOf(q, x))
                                 /\ HeapOf(max, HeapPop(max, a), q, S \ {x})
  OBVIOUS
<1>1. S \subseteq Points /\ Holding(max, a, Entries, EntriesOf(q, S)) /\ a # <<>>
  BY HeapFacts DEF HeapOf
<1>2. /\ a[1] \in EntriesOf(q, S)
      /\ \A x \in EntriesOf(q, S) : ~ Before(max, x, a[1])
      /\ Holding(max, HeapPop(max, a), Entries, EntriesOf(q, S) \ {a[1]})
  BY ONLY <1>1, EntriesWeighed, PopFacts
<1>3. PICK x \in S : a[1] = EntryOf(q, x)
  BY <1>2 DEF EntriesOf
<1>4. EntriesOf(q, S) \ {a[1]} = EntriesOf(q, S \ {x})
  <2>1. \A y \in S : EntryOf(q, y).node = y
    BY <1>1, EntryFacts
  <2> QED
    BY <1>3, <2>1 DEF EntriesOf
<1>5. \A y \in S : ~ Before(max, EntryOf(q, y), EntryOf(q, x))
  BY <1>2, <1>3 DEF EntriesOf
<1> QED
  BY <1>1, <1>2, <1>3, <1>4, <1>5 DEF HeapOf

\* The candidate heap gives the nearest slot ...
LEMMA PopNearest ==
    ASSUME NEW q \in Points, NEW S, S # {}, NEW a, HeapOf(FALSE, a, q, S)
    PROVE  /\ Nearest(q, S) \in S /\ a[1] = EntryOf(q, Nearest(q, S))
           /\ HeapOf(FALSE, HeapPop(FALSE, a), q, S \ {Nearest(q, S)})
<1>1. S \subseteq Points
  BY DEF HeapOf
<1>2. PICK x \in S : /\ a[1] = EntryOf(q, x)
                     /\ \A y \in S : ~ Before(FALSE, EntryOf(q, y), EntryOf(q, x))
                     /\ HeapOf(FALSE, HeapPop(FALSE, a), q, S \ {x})
  BY PopSlot
<1>3. \A y \in S : ~ (D[q][y] < D[q][x])
  BY <1>2 DEF Before, EntryOf
<1>4. Nearest(q, S) \in S /\ D[q][Nearest(q, S)] <= D[q][x]
  BY <1>1, NearestIn
<1>5. D[q][Nearest(q, S)] \in Int /\ D[q][x] \in Int
  BY <1>1, <1>4, DistInt
<1>6. D[q][Nearest(q, S)] = D[q][x]
  BY <1>3, <1>4, <1>5
<1>7. Nearest(q, S) = x
  BY <1>1, <1>4, <1>6, HnswOpsAssumption
<1> QED
  BY <1>2, <1>7

\* ... and the result heap the farthest.
LEMMA PopFarthest ==
    ASSUME NEW q \in Points, NEW S, S # {}, NEW a, HeapOf(TRUE, a, q, S)
    PROVE  /\ Farthest(q, S) \in S /\ a[1] = EntryOf(q, Farthest(q, S))
           /\ HeapOf(TRUE, HeapPop(TRUE, a), q, S \ {Farthest(q, S)})
<1>1. S \subseteq Points
  BY DEF HeapOf
<1>2. PICK x \in S : /\ a[1] = EntryOf(q, x)
                     /\ \A y \in S : ~ Before(TRUE, EntryOf(q, y), EntryOf(q, x))
                     /\ HeapOf(TRUE, HeapPop(TRUE, a), q, S \ {x})
  BY PopSlot
<1>3. \A y \in S : ~ (D[q][y] > D[q][x])
  BY <1>2 DEF Before, EntryOf
<1>4. \A y \in S : D[q][y] \in Int
  BY <1>1, DistInt
<1>5. \A y \in S : D[q][x] >= D[q][y]
  BY <1>3, <1>4
<1>6. Farthest(q, S) \in S /\ D[q][Farthest(q, S)] >= D[q][x]
  BY <1>5 DEF Farthest
<1>7. D[q][Farthest(q, S)] = D[q][x]
  BY <1>4, <1>5, <1>6
<1>8. Farthest(q, S) = x
  BY <1>1, <1>6, <1>7, HnswOpsAssumption
<1> QED
  BY <1>2, <1>8

\* A sequence of all slots, nearest first, is the one ByDistance defines.
LEMMA OnlyOrder ==
    ASSUME NEW q \in Points, NEW S, S \subseteq Points, NEW s \in Seq(S),
           Len(s) = Cardinality(S), ToSet(s) = S,
           \A i, j \in 1 .. Len(s) : i < j => D[q][s[i]] < D[q][s[j]]
    PROVE  s = ByDistance(q, S)
<1> DEFINE n == Len(s)
<1>1. n \in Nat /\ DOMAIN s = 1 .. n /\ \A j \in 1 .. n : s[j] \in S
  OBVIOUS
<1>2. \A x \in S : D[q][x] \in Int
  BY DistInt
<1>3. ASSUME NEW j \in 1 .. n PROVE Rank(q, S, s[j]) = j - 1
  <2> DEFINE B == {y \in S : D[q][y] < D[q][s[j]]}
             f == [i \in 1 .. j - 1 |-> s[i]]
  <2>1. \A i \in 1 .. j - 1 : i \in 1 .. n /\ i < j /\ s[i] \in B
    BY <1>1
  <2>2. \A y \in B : \E i \in 1 .. j - 1 : y = s[i]
    <3> SUFFICES ASSUME NEW y \in B PROVE \E i \in 1 .. j - 1 : y = s[i]
      OBVIOUS
    <3>1. PICK i \in 1 .. n : y = s[i]
      BY <1>1 DEF ToSet
    <3>2. ~ (j < i) /\ i # j
      BY <1>1, <1>2, <3>1
    <3> QED
      BY <1>1, <3>1, <3>2
  <2>3. \A i, m \in 1 .. j - 1 : s[i] = s[m] => i = m
    <3> SUFFICES ASSUME NEW i \in 1 .. j - 1, NEW m \in 1 .. j - 1, s[i] = s[m] PROVE i = m
      OBVIOUS
    <3>1. i \in 1 .. n /\ m \in 1 .. n /\ D[q][s[i]] \in Int /\ D[q][s[m]] \in Int
      BY <1>1, <1>2
    <3>2. ~ (i < m) /\ ~ (m < i)
      BY <3>1
    <3> QED
      BY <3>1, <3>2
  <2>4. f \in [1 .. j - 1 -> B] /\ \A i \in 1 .. j - 1 : f[i] = s[i]
    BY <2>1
  <2> HIDE DEF f, B
  <2>5. f \in Bijection(1 .. j - 1, B)
    BY <2>2, <2>3, <2>4 DEF Bijection, Injection, Surjection, IsInjective
  <2>6. ExistsBijection(1 .. j - 1, B)
    BY <2>5 DEF ExistsBijection
  <2>7. j - 1 \in Nat
    BY <1>1
  <2>8. Cardinality(B) = j - 1
    BY <2>6, <2>7, FS_CountingElements
  <2> QED
    BY <2>8 DEF Rank, B
<1>4. \A x, y \in S : Rank(q, S, x) = Rank(q, S, y) => x = y
  <2> DEFINE f == [x \in S |-> Rank(q, S, x)]
  <2>1. f \in Bijection(S, 0 .. Cardinality(S) - 1)
    BY RankBijection
  <2>2. \A x, y \in S : f[x] = f[y] => x = y
    <3> HIDE DEF f
    <3> QED BY <2>1 DEF Bijection, Injection, Surjection, IsInjective
  <2> QED
    BY <2>2
<1>5. \A j \in 1 .. n : s[j] = CHOOSE x \in S : Rank(q, S, x) = j - 1
  <2> SUFFICES ASSUME NEW j \in 1 .. n
               PROVE  s[j] = CHOOSE x \in S : Rank(q, S, x) = j - 1
    OBVIOUS
  <2>1. s[j] \in S /\ Rank(q, S, s[j]) = j - 1
    BY <1>1, <1>3
  <2> DEFINE x == CHOOSE y \in S : Rank(q, S, y) = j - 1
  <2>2. x \in S /\ Rank(q, S, x) = j - 1
    BY <2>1
  <2> HIDE DEF x
  <2>3. s[j] = x
    BY <1>4, <2>1, <2>2
  <2> QED
    BY <2>3 DEF x
<1>6. s = [j \in 1 .. n |-> s[j]]
  BY <1>1
<1>7. ByDistance(q, S) = [j \in 1 .. n |-> CHOOSE x \in S : Rank(q, S, x) = j - 1]
  BY DEF ByDistance, Rank
<1> HIDE DEF n
<1> QED
  BY <1>5, <1>6, <1>7

\* emit_topk hands out the nearest slots of the result heap, nearest first.
LEMMA EmittedIsTopK ==
    ASSUME NEW q \in Points, NEW S, NEW a, HeapOf(TRUE, a, q, S), NEW k \in Nat
    PROVE  NodesOf(Emitted(a, k)) = TopK(q, k, S)
<1>1. S \subseteq Points /\ Holding(TRUE, a, Entries, EntriesOf(q, S))
  BY DEF HeapOf
<1>2. PICK s \in Seq(Entries) :
              /\ IsInjective(s) /\ ToSet(s) = EntriesOf(q, S) /\ Ascending(s) /\ Len(s) = Len(a)
              /\ \A m : Emitted(a, m) = SubSeq(s, 1, IF m < Len(a) THEN m ELSE Len(a))
  BY ONLY <1>1, EntriesWeighed, EmittedFacts
<1> DEFINE n == Len(s)
           t == NodesOf(s)
<1>3. n \in Nat /\ DOMAIN s = 1 .. n /\ n = Cardinality(S) /\ Len(a) = n
  <2>1. Len(a) = Cardinality(S)
    BY HeapFacts
  <2> QED
    BY <1>2, <2>1
<1>4. \A x \in S : EntryOf(q, x).node = x /\ EntryOf(q, x).dist = D[q][x] /\ D[q][x] \in Int
  BY <1>1, EntryFacts
<1>5. \A j \in 1 .. n : s[j].node \in S /\ s[j] = EntryOf(q, s[j].node)
  <2>1. \A j \in 1 .. n : s[j] \in EntriesOf(q, S)
    BY <1>2, <1>3 DEF ToSet
  <2> QED
    BY <1>4, <2>1 DEF EntriesOf
<1>6. t \in Seq(S) /\ Len(t) = n /\ \A j \in 1 .. n : t[j] = s[j].node
  <2>1. t = [j \in 1 .. n |-> s[j].node]
    BY <1>3 DEF NodesOf
  <2>2. t \in [1 .. n -> S]
    BY <1>5, <2>1
  <2> QED
    BY <1>3, <2>1, <2>2
<1>7. ToSet(t) = S
  <2>1. ToSet(t) = {t[j] : j \in 1 .. n} /\ ToSet(s) = {s[j] : j \in 1 .. n}
    BY <1>3, <1>6 DEF ToSet
  <2>2. \A x \in S : \E j \in 1 .. n : s[j] = EntryOf(q, x)
    BY <1>2, <2>1 DEF EntriesOf
  <2>3. ASSUME NEW x \in S PROVE \E j \in 1 .. n : t[j] = x
    <3>1. PICK j \in 1 .. n : s[j] = EntryOf(q, x)
      BY <2>2
    <3>2. t[j] = x
      BY <1>4, <1>6, <3>1
    <3> QED
      BY <3>2
  <2>4. \A j \in 1 .. n : t[j] \in S
    BY <1>5, <1>6
  <2> HIDE DEF t, n
  <2> QED
    BY <2>1, <2>3, <2>4
<1>8. \A i, j \in 1 .. n : i < j => D[q][t[i]] < D[q][t[j]]
  <2> SUFFICES ASSUME NEW i \in 1 .. n, NEW j \in 1 .. n, i < j
               PROVE  D[q][t[i]] < D[q][t[j]]
    OBVIOUS
  <2>1. s[i].dist <= s[j].dist
    BY <1>2 DEF Ascending
  <2>2. t[i] \in S /\ t[j] \in S /\ s[i] = EntryOf(q, t[i]) /\ s[j] = EntryOf(q, t[j])
    BY <1>5, <1>6
  <2>3. s[i].dist = D[q][t[i]] /\ s[j].dist = D[q][t[j]]
        /\ D[q][t[i]] \in Int /\ D[q][t[j]] \in Int
    BY <1>4, <2>2
  <2>4. t[i] # t[j]
    BY <1>2, <1>3, <2>2 DEF IsInjective
  <2>5. D[q][t[i]] # D[q][t[j]]
    BY <1>1, <2>2, <2>4, HnswOpsAssumption
  <2> QED
    BY <2>1, <2>3, <2>5
<1>9. t = ByDistance(q, S)
  <2> HIDE DEF t, n
  <2> QED BY <1>1, <1>3, <1>6, <1>7, <1>8, OnlyOrder
<1> DEFINE m == IF k < n THEN k ELSE n
<1>10. NodesOf(SubSeq(s, 1, m)) = SubSeq(t, 1, m)
  <2>1. m \in Nat /\ m <= n
    BY <1>3
  <2> HIDE DEF m
  <2>2. SubSeq(s, 1, m) = [j \in 1 .. m |-> s[j]]
    BY <1>3, <2>1
  <2>3. SubSeq(t, 1, m) = [j \in 1 .. m |-> t[j]]
    BY <1>3, <1>6, <2>1
  <2>4. NodesOf(SubSeq(s, 1, m)) = [j \in 1 .. m |-> s[j].node]
    BY <2>2 DEF NodesOf
  <2>5. \A j \in 1 .. m : t[j] = s[j].node
    BY <1>3, <1>6, <2>1
  <2> HIDE DEF t
  <2> QED
    BY <2>3, <2>4, <2>5
<1>11. TopK(q, k, S) = SubSeq(t, 1, IF n < k THEN n ELSE k)
  <2> HIDE DEF t, n
  <2> QED BY <1>6, <1>9 DEF TopK
<1>12. Emitted(a, k) = SubSeq(s, 1, m)
  BY <1>2, <1>3
<1>13. m = IF n < k THEN n ELSE k
  BY <1>3
<1> HIDE DEF m, t, n
<1> QED
  BY <1>10, <1>11, <1>12, <1>13
-----------------------------------------------------------------------------
(***************************************************************************)
(* The two loops of SearchLayer, from the middle: what the turns still to  *)
(* take make of the beam b.                                                *)
(***************************************************************************)
IsArg(r) == /\ r.g \in Graphs /\ r.q \in Points /\ r.ep \in Nodes(r.g)
            /\ r.ef \in 1 .. MaxEf

Layer(r) == [g |-> r.g, q |-> r.q, ef |-> r.ef, l |-> 0, ok |-> r.ok]
After(r, b, rest) == Turns!Fold(Layer(r), b, rest)
Through(r, b, nbrs) == Meets!Fold(Layer(r), b, nbrs)

Answer(r) == SearchLayer(r.g, r.q, r.ep, r.ef, 0, r.ok)

\* Between two turns: the rest of the search gives the answer, and is long
\* enough to get there.
OnTheWay(r, b) ==
    /\ BeamInv(r.g, b, r.ef, 0, r.ok, Nodes(r.g))
    /\ \E rest \in Seq(Nat) : /\ Cardinality(Nodes(r.g)) <= Len(rest) + Cardinality(Opened(b))
                              /\ After(r, b, rest).res = Answer(r)

LEMMA ArgFacts ==
    ASSUME NEW r, IsArg(r)
    PROVE  /\ Nodes(r.g) \subseteq Points /\ r.ep \in Points /\ r.q \in Points
           /\ r.ef \in Nat /\ r.ef >= 1 /\ r.ef \in Int
           /\ Cardinality(Nodes(r.g)) \in 1 .. MaxCap
           /\ Nodes(r.g) = 0 .. Cardinality(Nodes(r.g)) - 1
           /\ Closed(r.g, 0, Nodes(r.g))
<1>1. /\ Nodes(r.g) # {} /\ Nodes(r.g) \subseteq Points
      /\ Nodes(r.g) = 0 .. Cardinality(Nodes(r.g)) - 1
      /\ \A v \in Nodes(r.g) : Links(r.g, v, 0) \in Seq(Nodes(r.g))
  BY BeamAssumption DEF IsArg
<1> DEFINE n == Cardinality(Nodes(r.g))
<1>2. n \in Nat
  BY <1>1, PointsFinite
<1>3. n # 0
  BY <1>1, <1>2
<1>4. n - 1 \in 0 .. MaxCap - 1
  <2>1. n - 1 \in Nodes(r.g)
    BY <1>1, <1>2, <1>3
  <2> QED
    BY <1>1, <2>1, BeamAssumption
<1>5. n \in 1 .. MaxCap
  BY <1>2, <1>3, <1>4, VisitedAssumption
<1> QED
  BY <1>1, <1>5, BeamAssumption DEF IsArg, Closed

\* A search that is done stays as it is.
LEMMA DoneStays ==
    ASSUME NEW r, NEW b, BeamDone(r.q, b, r.ef), NEW rest \in Seq(Nat)
    PROVE  After(r, b, rest) = b
<1> DEFINE S == {n \in Nat : \A t \in Seq(Nat) : Len(t) = n => After(r, b, t) = b}
<1>1. 0 \in S
  <2> SUFFICES ASSUME NEW t \in Seq(Nat), Len(t) = 0 PROVE After(r, b, t) = b
    OBVIOUS
  <2>1. t = <<>>
    OBVIOUS
  <2> QED
    BY <2>1, Turns!FoldEmpty DEF After
<1>2. ASSUME NEW n \in Nat, n \in S PROVE n + 1 \in S
  <2> SUFFICES ASSUME NEW t \in Seq(Nat), Len(t) = n + 1 PROVE After(r, b, t) = b
    OBVIOUS
  <2>1. t # <<>> /\ Tail(t) \in Seq(Nat) /\ Len(Tail(t)) = n
    OBVIOUS
  <2>2. After(r, b, t) = After(r, RoundOp(Layer(r), b, Head(t)), Tail(t))
    BY <2>1, Turns!FoldHead DEF After
  <2>3. RoundOp(Layer(r), b, Head(t)) = b
    BY DEF RoundOp, Expand, Layer
  <2> QED
    BY <1>2, <2>1, <2>2, <2>3
<1>3. Nat \subseteq S
  <2> HIDE DEF S
  <2> QED BY <1>1, <1>2, Turns!SetInduction
<1>4. Len(rest) \in S
  BY <1>3
<1> QED
  BY <1>4

LEMMA StartFacts ==
    ASSUME NEW r, IsArg(r)
    PROVE  LET b == [cand |-> {r.ep}, res |-> {r.ep} \cap r.ok, vis |-> {r.ep}] IN
           IsBeam(b, Nodes(r.g), r.ok) /\ OnTheWay(r, b)
<1> DEFINE b == [cand |-> {r.ep}, res |-> {r.ep} \cap r.ok, vis |-> {r.ep}]
           N == Cardinality(Nodes(r.g))
<1>1. IsBeam(b, Nodes(r.g), r.ok) /\ Opened(b) = {}
  BY DEF IsBeam, Opened, IsArg
<1>2. BeamInv(r.g, b, r.ef, 0, r.ok, Nodes(r.g))
  BY <1>1 DEF BeamInv
<1>3. N \in Nat /\ Cardinality(Opened(b)) = 0
  <2>1. N \in Nat
    BY ArgFacts
  <2> HIDE DEF b
  <2> QED
    BY <1>1, <2>1, FS_EmptySet
<1>4. Rounds(r.g) \in Seq(Nat) /\ Len(Rounds(r.g)) = N
  <2>1. Rounds(r.g) = [n \in 1 .. N |-> n]
    BY DEF Rounds
  <2>2. Rounds(r.g) \in [1 .. N -> Nat]
    BY <1>3, <2>1
  <2> HIDE DEF N
  <2> QED
    BY <1>3, <2>1, <2>2
<1>5. After(r, b, Rounds(r.g)).res = Answer(r)
  BY DEF After, Answer, Layer, SearchLayer, RoundOp, Turns!Fold, Turns!FoldLeft, FoldLeft,
         MapThenFoldSet, Turns!MapThenFoldSet, Max, Turns!Max
<1>6. N <= Len(Rounds(r.g)) + Cardinality(Opened(b))
  BY <1>3, <1>4
<1> HIDE DEF b
<1>7. OnTheWay(r, b)
  BY <1>2, <1>4, <1>5, <1>6 DEF OnTheWay
<1> QED
  BY <1>1, <1>7 DEF b

LEMMA DoneFacts ==
    ASSUME NEW r, NEW b, OnTheWay(r, b), BeamDone(r.q, b, r.ef)
    PROVE  b.res = Answer(r)
BY DoneStays DEF OnTheWay

\* A search that is not done takes one more turn, through the links of the
\* nearest candidate.
LEMMA TurnFacts ==
    ASSUME NEW r, IsArg(r), NEW b, OnTheWay(r, b), ~ BeamDone(r.q, b, r.ef)
    PROVE  LET c == Nearest(r.q, b.cand)
               open == [cand |-> b.cand \ {c}, res |-> b.res, vis |-> b.vis]
               nbrs == Links(r.g, c, 0)
           IN  /\ b.cand # {} /\ c \in b.cand /\ IsBeam(open, Nodes(r.g), r.ok)
               /\ nbrs \in Seq(Nodes(r.g)) /\ OnTheWay(r, Through(r, open, nbrs))
<1> DEFINE c == Nearest(r.q, b.cand)
           open == [cand |-> b.cand \ {c}, res |-> b.res, vis |-> b.vis]
           nbrs == Links(r.g, c, 0)
           n == Expand(r.g, r.q, b, r.ef, 0, r.ok)
           N == Cardinality(Nodes(r.g))
<1>1. /\ Nodes(r.g) \subseteq Points /\ r.q \in Points /\ r.ef \in Nat /\ N \in Nat
      /\ Closed(r.g, 0, Nodes(r.g))
  BY ArgFacts
<1>2. BeamInv(r.g, b, r.ef, 0, r.ok, Nodes(r.g)) /\ IsBeam(b, Nodes(r.g), r.ok)
  BY DEF OnTheWay, BeamInv
<1>3. PICK rest \in Seq(Nat) : /\ N <= Len(rest) + Cardinality(Opened(b))
                               /\ After(r, b, rest).res = Answer(r)
  BY DEF OnTheWay
<1>4. b.cand # {} /\ b.cand \subseteq Nodes(r.g)
  BY <1>2 DEF BeamDone, IsBeam
<1>5. c \in b.cand /\ c \in Nodes(r.g)
  BY <1>1, <1>4, NearestIn
<1>6. nbrs \in Seq(Nodes(r.g))
  BY <1>1, <1>5 DEF Closed
<1>7. IsBeam(open, Nodes(r.g), r.ok)
  BY <1>2 DEF IsBeam
<1>8. [b EXCEPT !.cand = @ \ {c}] = open
  <2> DEFINE e == [b EXCEPT !.cand = @ \ {c}]
  <2>1. e = [b EXCEPT !.cand = @ \ {c}]
    OBVIOUS
  <2>2. b = [cand |-> b.cand, res |-> b.res, vis |-> b.vis]
    BY <1>2 DEF IsBeam
  <2> HIDE DEF c, e
  <2>3. e = [cand |-> b.cand \ {c}, res |-> b.res, vis |-> b.vis]
    BY <2>1, <2>2
  <2> QED
    BY <2>3 DEF e
<1>9. n = Through(r, open, nbrs)
  <2>1. n = Meets!Fold(Layer(r), [b EXCEPT !.cand = @ \ {c}], nbrs)
    BY DEF Expand, Layer, MeetOp, Meets!Fold, Meets!FoldLeft, FoldLeft, MapThenFoldSet,
           Meets!MapThenFoldSet, Max, Meets!Max
  <2> QED
    BY <1>8, <2>1 DEF Through
<1>10. /\ BeamInv(r.g, n, r.ef, 0, r.ok, Nodes(r.g))
       /\ \E u \in Nodes(r.g) : u \notin Opened(b) /\ Opened(b) \cup {u} \subseteq Opened(n)
       /\ Opened(n) \subseteq Nodes(r.g)
  BY <1>1, <1>2, ExpandFacts
<1> HIDE DEF c, open, nbrs, n, N
<1>11. PICK u \in Nodes(r.g) : u \notin Opened(b) /\ Opened(b) \cup {u} \subseteq Opened(n)
  BY <1>10
<1>12. /\ IsFiniteSet(Opened(n)) /\ Cardinality(Opened(n)) \in Nat
       /\ IsFiniteSet(Opened(b)) /\ Cardinality(Opened(b)) \in Nat
       /\ IsFiniteSet(Nodes(r.g))
  <2>1. Opened(n) \subseteq Points /\ Opened(b) \subseteq Points
    BY <1>1, <1>10, <1>11
  <2> QED
    BY <1>1, <2>1, PointsFinite
<1>13. Cardinality(Opened(b)) + 1 <= Cardinality(Opened(n)) /\ Cardinality(Opened(n)) <= N
  <2>1. Cardinality(Opened(b) \cup {u}) = Cardinality(Opened(b)) + 1
    BY <1>11, <1>12, FS_AddElement
  <2>2. Cardinality(Opened(b) \cup {u}) <= Cardinality(Opened(n))
    BY <1>11, <1>12, FS_Subset
  <2>3. Cardinality(Opened(n)) <= N
    BY <1>10, <1>12, FS_Subset DEF N
  <2> QED
    BY <2>1, <2>2, <2>3
<1>14. rest # <<>> /\ Tail(rest) \in Seq(Nat) /\ Len(Tail(rest)) = Len(rest) - 1
  <2>1. Len(rest) # 0
    BY <1>1, <1>3, <1>12, <1>13
  <2> QED
    BY <2>1
<1>15. N <= Len(Tail(rest)) + Cardinality(Opened(n))
  BY <1>1, <1>3, <1>12, <1>13, <1>14
<1>16. After(r, n, Tail(rest)) = After(r, b, rest)
  <2>1. RoundOp(Layer(r), b, Head(rest)) = n
    BY DEF RoundOp, Layer, n
  <2>2. After(r, b, rest) = After(r, RoundOp(Layer(r), b, Head(rest)), Tail(rest))
    BY <1>14, Turns!FoldHead DEF After
  <2> QED
    BY <2>1, <2>2
<1>17. OnTheWay(r, n)
  BY <1>3, <1>10, <1>14, <1>15, <1>16 DEF OnTheWay, N
<1> QED
  BY <1>4, <1>5, <1>6, <1>7, <1>9, <1>17 DEF c, open, nbrs

\* One neighbour less to go through.
LEMMA ThroughFacts ==
    ASSUME NEW r, NEW b, NEW X, NEW nbrs \in Seq(X)
    PROVE  /\ Through(r, b, <<>>) = b
           /\ nbrs # <<>> => Through(r, b, nbrs)
                              = Through(r, Meet(r.q, b, r.ef, r.ok, Head(nbrs)), Tail(nbrs))
<1>1. Through(r, b, <<>>) = b
  BY Meets!FoldEmpty DEF Through
<1>2. ASSUME nbrs # <<>>
      PROVE  Through(r, b, nbrs)
               = Through(r, Meet(r.q, b, r.ef, r.ok, Head(nbrs)), Tail(nbrs))
  <2>1. MeetOp(Layer(r), b, Head(nbrs)) = Meet(r.q, b, r.ef, r.ok, Head(nbrs))
    BY DEF MeetOp, Layer
  <2>2. Through(r, b, nbrs) = Through(r, MeetOp(Layer(r), b, Head(nbrs)), Tail(nbrs))
    BY <1>2, Meets!FoldHead DEF Through
  <2> QED
    BY <2>1, <2>2
<1> QED
  BY <1>1, <1>2
-----------------------------------------------------------------------------
(***************************************************************************)
(* The arrays and the sets: between any two steps the heaps hold the sets  *)
(* of a beam of SearchLayer, the marks its visited nodes, and what is left *)
(* of the search from that beam gives the answer.                          *)
(***************************************************************************)
Now(b) == /\ HeapOf(FALSE, cand, arg.q, b.cand) /\ HeapOf(TRUE, res, arg.q, b.res)
          /\ b.vis = seen /\ IsBeam(b, Nodes(arg.g), arg.ok)
          /\ Cardinality(b.res) <= arg.ef

BeamInd ==
    /\ MarksInv
    /\ pc \in {"idle", "enter", "pop", "scan", "done"}
    /\ pc = "idle" => req = 0 /\ arg = NoArg
    /\ pc # "idle" => IsArg(arg) /\ req = Cardinality(Nodes(arg.g))
    /\ pc \in {"idle", "enter"} => cand = <<>> /\ res = <<>>
    /\ pc = "enter" => seen = {}
    /\ pc = "pop" => \E b : Now(b) /\ OnTheWay(arg, b)
    /\ pc = "scan" => /\ list \in Seq(Nodes(arg.g))
                      /\ \E b : Now(b) /\ OnTheWay(arg, Through(arg, b, list))
    /\ pc = "done" => /\ \E S : HeapOf(FALSE, cand, arg.q, S)
                      /\ HeapOf(TRUE, res, arg.q, Answer(arg))
                      /\ Cardinality(Answer(arg)) <= arg.ef

LEMMA BeginStep ==
    ASSUME BeamInd, NEW a \in Graphs, NEW ok, NEW ef \in 1 .. MaxEf, NEW q \in Points,
           NEW ep \in Nodes(a), Begin(a, q, ep, ef, ok)
    PROVE  BeamInd'
<1>1. /\ pc = "idle" /\ pc' = "enter" /\ Acquire(Cardinality(Nodes(a)))
      /\ arg' = [g |-> a, q |-> q, ep |-> ep, ef |-> ef, ok |-> ok]
      /\ cand' = <<>> /\ res' = <<>>
  BY DEF Begin, BeamInd
<1>2. IsArg(arg') /\ arg'.g = a
  BY <1>1 DEF IsArg
<1>3. Cardinality(Nodes(a)) \in 1 .. MaxCap
  BY <1>2, ArgFacts
<1>4. MarksInv'
  BY <1>1, <1>3, MarksStep DEF BeamInd, MarksNext
<1>5. req' = Cardinality(Nodes(arg'.g)) /\ seen' = {}
  BY <1>1, <1>2 DEF Acquire
<1> QED
  BY <1>1, <1>2, <1>4, <1>5 DEF BeamInd

LEMMA EnterStep ==
    ASSUME BeamInd, Enter
    PROVE  BeamInd'
<1>0. PICK b : b = [cand |-> {arg.ep}, res |-> {arg.ep} \cap arg.ok, vis |-> {arg.ep}]
  OBVIOUS
<1>1. /\ pc = "enter" /\ pc' = "pop" /\ Visit(arg.ep) /\ arg' = arg
      /\ cand' = HeapPush(FALSE, <<>>, EntryOf(arg.q, arg.ep))
      /\ res' = IF arg.ep \in arg.ok THEN HeapPush(TRUE, <<>>, EntryOf(arg.q, arg.ep)) ELSE <<>>
      /\ seen = {} /\ IsArg(arg) /\ req = Cardinality(Nodes(arg.g)) /\ MarksInv
  BY DEF Enter, BeamInd, Item, EntryOf
<1>2. /\ arg.ep \in Points /\ arg.q \in Points /\ arg.ef \in Nat /\ arg.ef >= 1
      /\ Points = 0 .. MaxCap - 1
  BY <1>1, ArgFacts, BeamAssumption
<1>3. MarksInv' /\ req' = req /\ seen' = {arg.ep}
  <2>1. req' = req /\ seen' = {arg.ep}
    BY <1>1 DEF Visit
  <2>2. MarksNext
    BY <1>1, <1>2 DEF MarksNext
  <2> QED
    BY <1>1, <2>1, <2>2, MarksStep
<1>4. \A max : HeapOf(max, HeapPush(max, <<>>, EntryOf(arg.q, arg.ep)), arg.q, {arg.ep})
  <2>1. \A max, a : HeapOf(max, a, arg.q, {}) =>
              HeapOf(max, HeapPush(max, a, EntryOf(arg.q, arg.ep)), arg.q, {} \cup {arg.ep})
    BY <1>2, PushSlot
  <2>2. \A max : HeapOf(max, <<>>, arg.q, {})
    BY EmptyHeap
  <2>3. {} \cup {arg.ep} = {arg.ep}
    OBVIOUS
  <2> QED
    BY <2>1, <2>2, <2>3
<1>5. b.cand = {arg.ep} /\ b.res = {arg.ep} \cap arg.ok /\ b.vis = {arg.ep}
  BY <1>0
<1>6. IsBeam(b, Nodes(arg.g), arg.ok) /\ OnTheWay(arg, b)
  BY <1>0, <1>1, StartFacts
<1>7. HeapOf(TRUE, res', arg.q, b.res)
  <2>1. CASE arg.ep \in arg.ok
    BY <1>1, <1>4, <1>5, <2>1
  <2>2. CASE arg.ep \notin arg.ok
    <3>1. b.res = {} /\ res' = <<>>
      BY <1>1, <1>5, <2>2
    <3> QED
      BY <3>1, EmptyHeap
  <2> QED
    BY <2>1, <2>2
<1>8. Cardinality(b.res) <= arg.ef
  <2>1. b.res = {} \/ b.res = {arg.ep}
    BY <1>5
  <2>2. Cardinality({}) = 0 /\ Cardinality({arg.ep}) = 1
    BY FS_EmptySet, FS_Singleton
  <2>3. Cardinality(b.res) \in {0, 1}
    BY <2>1, <2>2
  <2> QED
    BY <1>2, <2>3
<1>9. HeapOf(FALSE, cand', arg.q, b.cand)
  BY <1>1, <1>4, <1>5
<1>10. Now(b)'
  BY <1>1, <1>3, <1>5, <1>6, <1>7, <1>8, <1>9 DEF Now
<1> QED
  BY <1>1, <1>3, <1>6, <1>10 DEF BeamInd

\* The comparisons with res->a[0] are the ones SearchLayer makes.
LEMMA NowFacts ==
    ASSUME IsArg(arg), NEW b, Now(b)
    PROVE  /\ Len(cand) \in Nat /\ cand = <<>> <=> b.cand = {}
           /\ Len(res) = Cardinality(b.res) /\ Cardinality(b.res) \in Nat
           /\ b.cand \subseteq Points /\ b.res \subseteq Points
           /\ Cardinality(b.res) >= arg.ef =>
                 b.res # {} /\ res[1] = EntryOf(arg.q, Farthest(arg.q, b.res))
                 /\ Farthest(arg.q, b.res) \in b.res
           /\ b.cand # {} =>
                 /\ cand[1] = EntryOf(arg.q, Nearest(arg.q, b.cand))
                 /\ Nearest(arg.q, b.cand) \in b.cand
                 /\ HeapOf(FALSE, HeapPop(FALSE, cand), arg.q,
                           b.cand \ {Nearest(arg.q, b.cand)})
<1>1. arg.q \in Points /\ arg.ef \in Nat /\ arg.ef >= 1
  BY ArgFacts
<1>2. HeapOf(FALSE, cand, arg.q, b.cand) /\ HeapOf(TRUE, res, arg.q, b.res)
  BY DEF Now
<1>3. /\ b.cand \subseteq Points /\ Len(cand) \in Nat
      /\ cand = <<>> <=> b.cand = {}
  BY <1>1, <1>2, HeapFacts
<1>4. /\ b.res \subseteq Points /\ Len(res) = Cardinality(b.res) /\ Len(res) \in Nat
  BY <1>1, <1>2, HeapFacts
<1>5. ASSUME Cardinality(b.res) >= arg.ef
      PROVE  /\ b.res # {} /\ res[1] = EntryOf(arg.q, Farthest(arg.q, b.res))
             /\ Farthest(arg.q, b.res) \in b.res
  <2>1. b.res # {}
    BY <1>1, <1>5, FS_EmptySet
  <2> QED
    BY ONLY <1>1, <1>2, <2>1, PopFarthest
<1>6. ASSUME b.cand # {}
      PROVE  /\ cand[1] = EntryOf(arg.q, Nearest(arg.q, b.cand))
             /\ Nearest(arg.q, b.cand) \in b.cand
             /\ HeapOf(FALSE, HeapPop(FALSE, cand), arg.q,
                       b.cand \ {Nearest(arg.q, b.cand)})
  BY ONLY <1>1, <1>2, <1>6, PopNearest
<1> QED
  BY <1>3, <1>4, <1>5, <1>6

LEMMA HopelessIsDone ==
    ASSUME IsArg(arg), NEW b, Now(b), b.cand # {}
    PROVE  Hopeless(cand[1]) <=> BeamDone(arg.q, b, arg.ef)
<1> DEFINE x == Nearest(arg.q, b.cand)
           f == Farthest(arg.q, b.res)
<1>1. cand[1] = EntryOf(arg.q, x) /\ x \in Points /\ arg.q \in Points
  BY NowFacts, ArgFacts
<1>2. cand[1].dist = D[arg.q][x]
  BY <1>1, EntryFacts
<1>3. Cardinality(b.res) >= arg.ef => res[1].dist = D[arg.q][f]
  <2>1. Cardinality(b.res) >= arg.ef => f \in Points /\ res[1] = EntryOf(arg.q, f)
    BY NowFacts
  <2> QED
    BY <1>1, <2>1, EntryFacts
<1>4. Len(res) = Cardinality(b.res)
  BY NowFacts
<1> QED
  BY <1>2, <1>3, <1>4 DEF Hopeless, BeamDone

LEMMA PopStep ==
    ASSUME BeamInd, Pop
    PROVE  BeamInd'
<1>1. /\ pc = "pop" /\ cand # <<>> /\ arg' = arg /\ res' = res /\ seen' = seen /\ req' = req
      /\ cand' = HeapPop(FALSE, cand) /\ IsArg(arg) /\ req = Cardinality(Nodes(arg.g))
  BY DEF Pop, marks, BeamInd
<1>2. MarksInv'
  BY MarksStep DEF BeamInd, Pop, marks
<1>3. PICK b : Now(b) /\ OnTheWay(arg, b)
  BY <1>1 DEF BeamInd
<1> DEFINE x == Nearest(arg.q, b.cand)
<1>4. /\ b.cand # {} /\ x \in b.cand /\ cand[1] = EntryOf(arg.q, x)
      /\ HeapOf(FALSE, cand', arg.q, b.cand \ {x})
  BY <1>1, <1>3, NowFacts
<1>5. cand[1].node = x
  BY <1>4 DEF EntryOf
<1>6. /\ HeapOf(TRUE, res, arg.q, b.res) /\ Cardinality(b.res) <= arg.ef /\ b.vis = seen
  BY <1>3 DEF Now
<1>7. CASE Hopeless(cand[1])
  <2>1. pc' = "done"
    BY <1>7 DEF Pop
  <2>2. b.res = Answer(arg)
    BY <1>1, <1>3, <1>4, <1>7, HopelessIsDone, DoneFacts
  <2> QED
    BY <1>1, <1>2, <1>4, <1>6, <2>1, <2>2 DEF BeamInd
<1>8. CASE ~ Hopeless(cand[1])
  <2>1. pc' = "scan" /\ list' = Links(arg.g, x, 0)
    BY <1>5, <1>8 DEF Pop
  <2>2. ~ BeamDone(arg.q, b, arg.ef)
    BY <1>1, <1>3, <1>4, <1>8, HopelessIsDone
  <2>3. PICK o : o = [cand |-> b.cand \ {x}, res |-> b.res, vis |-> b.vis]
    OBVIOUS
  <2>4. /\ IsBeam(o, Nodes(arg.g), arg.ok) /\ list' \in Seq(Nodes(arg.g))
        /\ OnTheWay(arg, Through(arg, o, list'))
    BY <1>1, <1>3, <2>1, <2>2, <2>3, TurnFacts
  <2>5. o.cand = b.cand \ {x} /\ o.res = b.res /\ o.vis = b.vis
    BY <2>3
  <2> HIDE DEF x
  <2>6. Now(o)'
    BY <1>1, <1>4, <1>6, <2>4, <2>5 DEF Now
  <2> QED
    BY <1>1, <1>2, <2>1, <2>4, <2>6 DEF BeamInd
<1> QED
  BY <1>7, <1>8

LEMMA ExhaustedStep ==
    ASSUME BeamInd, Exhausted
    PROVE  BeamInd'
<1>1. /\ pc = "pop" /\ pc' = "done" /\ cand = <<>> /\ arg' = arg /\ res' = res
      /\ cand' = cand /\ req' = req /\ IsArg(arg) /\ req = Cardinality(Nodes(arg.g))
  BY DEF Exhausted, marks, BeamInd
<1>2. MarksInv'
  BY MarksStep DEF BeamInd, Exhausted, marks
<1>3. PICK b : Now(b) /\ OnTheWay(arg, b)
  BY <1>1 DEF BeamInd
<1>4. BeamDone(arg.q, b, arg.ef)
  BY <1>1, <1>3, NowFacts DEF BeamDone
<1>5. b.res = Answer(arg)
  BY <1>3, <1>4, DoneFacts
<1>6. /\ HeapOf(TRUE, res, arg.q, b.res) /\ Cardinality(b.res) <= arg.ef
      /\ HeapOf(FALSE, cand, arg.q, b.cand)
  BY <1>3 DEF Now
<1> QED
  BY <1>1, <1>2, <1>5, <1>6 DEF BeamInd

\* The marks tell the visited slots from the others.
LEMMA MarkedIsSeen ==
    ASSUME BeamInd, pc = "scan", NEW x \in Nodes(arg.g)
    PROVE  /\ x \in 0 .. req - 1 /\ x \in 0 .. MaxCap - 1 /\ x \in Points
           /\ vis[x] = epoch <=> x \in seen
<1>1. /\ IsArg(arg) /\ req = Cardinality(Nodes(arg.g)) /\ MarksInv
  BY DEF BeamInd
<1>2. x \in 0 .. req - 1 /\ req > 0 /\ x \in Points /\ Points = 0 .. MaxCap - 1
  BY <1>1, ArgFacts, BeamAssumption
<1>3. x \in 0 .. cap - 1
  BY <1>1, <1>2 DEF MarksInv, MarksTypeOK
<1> QED
  BY <1>1, <1>2, <1>3 DEF MarksInv, MarksExact

LEMMA SkipStep ==
    ASSUME BeamInd, Skip
    PROVE  BeamInd'
<1>1. /\ pc = "scan" /\ pc' = pc /\ list # <<>> /\ list' = Tail(list) /\ Marked(Head(list))
      /\ arg' = arg /\ cand' = cand /\ res' = res /\ seen' = seen /\ req' = req
      /\ IsArg(arg) /\ req = Cardinality(Nodes(arg.g)) /\ list \in Seq(Nodes(arg.g))
  BY DEF Skip, marks, BeamInd
<1>2. MarksInv'
  BY MarksStep DEF BeamInd, Skip, marks
<1>3. PICK b : Now(b) /\ OnTheWay(arg, Through(arg, b, list))
  BY <1>1 DEF BeamInd
<1>4. Head(list) \in Nodes(arg.g) /\ Tail(list) \in Seq(Nodes(arg.g))
  BY <1>1
<1>5. Head(list) \in b.vis
  BY <1>1, <1>3, <1>4, MarkedIsSeen DEF Marked, Now
<1>6. Through(arg, b, list) = Through(arg, b, Tail(list))
  <2>1. Meet(arg.q, b, arg.ef, arg.ok, Head(list)) = b
    BY <1>5 DEF Meet
  <2> QED
    BY <1>1, <2>1, ThroughFacts
<1>7. Now(b)'
  BY <1>1, <1>3 DEF Now
<1>8. OnTheWay(arg, Through(arg, b, list'))
  BY <1>1, <1>3, <1>6
<1> QED
  BY <1>1, <1>2, <1>4, <1>7, <1>8 DEF BeamInd

LEMMA ExpandedStep ==
    ASSUME BeamInd, Expanded
    PROVE  BeamInd'
<1>1. /\ pc = "scan" /\ pc' = "pop" /\ list = <<>> /\ list \in Seq(Nodes(arg.g))
      /\ arg' = arg /\ cand' = cand /\ res' = res /\ seen' = seen /\ req' = req
      /\ IsArg(arg) /\ req = Cardinality(Nodes(arg.g))
  BY DEF Expanded, marks, BeamInd
<1>2. MarksInv'
  BY MarksStep DEF BeamInd, Expanded, marks
<1>3. PICK b : Now(b) /\ OnTheWay(arg, Through(arg, b, list))
  BY <1>1 DEF BeamInd
<1>4. OnTheWay(arg, b)
  BY <1>1, <1>3, ThroughFacts
<1>5. Now(b)'
  BY <1>1, <1>3 DEF Now
<1> QED
  BY <1>1, <1>2, <1>4, <1>5 DEF BeamInd

LEMMA EndStep ==
    ASSUME BeamInd, End
    PROVE  BeamInd'
<1>1. /\ pc' = "idle" /\ Finish /\ arg' = NoArg /\ cand' = <<>> /\ res' = <<>>
  BY DEF End
<1>2. MarksInv' /\ req' = 0
  BY <1>1, MarksStep DEF BeamInd, MarksNext, Finish
<1> QED
  BY <1>1, <1>2 DEF BeamInd
\* What Scan does to the result heap is what Meet does to the result set.
LEMMA KeptFacts ==
    ASSUME IsArg(arg), NEW b, Now(b), NEW x \in Points, x \notin b.res
    PROVE  /\ HeapOf(TRUE, Kept(x), arg.q, Trim(arg.q, b.res \cup {x}, arg.ef))
           /\ Cardinality(Trim(arg.q, b.res \cup {x}, arg.ef)) <= arg.ef
<1> DEFINE r == HeapPush(TRUE, res, EntryOf(arg.q, x))
           R == b.res \cup {x}
<1>1. /\ arg.q \in Points /\ arg.ef \in Nat /\ arg.ef >= 1
      /\ b.res \subseteq Points /\ Cardinality(b.res) \in Nat
      /\ Cardinality(b.res) <= arg.ef /\ HeapOf(TRUE, res, arg.q, b.res)
  BY ArgFacts, NowFacts DEF Now
<1>2. HeapOf(TRUE, r, arg.q, R)
  BY <1>1, PushSlot
<1>3. Kept(x) = IF Len(r) > arg.ef THEN HeapPop(TRUE, r) ELSE r
  BY DEF Kept, Item, EntryOf
<1>4. IsFiniteSet(b.res) /\ Cardinality(R) = Cardinality(b.res) + 1 /\ R # {}
  BY <1>1, PointsFinite, FS_AddElement
<1> HIDE DEF r, R
<1>5. Len(r) = Cardinality(R)
  BY <1>1, <1>2, HeapFacts
<1>6. CASE Cardinality(R) > arg.ef
  <2>1. Trim(arg.q, R, arg.ef) = R \ {Farthest(arg.q, R)}
    BY <1>6 DEF Trim
  <2>2. /\ HeapOf(TRUE, HeapPop(TRUE, r), arg.q, R \ {Farthest(arg.q, R)})
        /\ Farthest(arg.q, R) \in R
    BY ONLY <1>1, <1>2, <1>4, PopFarthest
  <2>3. IsFiniteSet(R)
    BY <1>4, FS_AddElement DEF R
  <2>4. Cardinality(R \ {Farthest(arg.q, R)}) = Cardinality(R) - 1
    BY <2>2, <2>3, FS_RemoveElement
  <2>5. Cardinality(R) - 1 <= arg.ef
    BY <1>1, <1>4
  <2> QED
    BY <1>3, <1>5, <1>6, <2>1, <2>2, <2>4, <2>5 DEF R
<1>7. CASE ~ (Cardinality(R) > arg.ef)
  <2>1. Trim(arg.q, R, arg.ef) = R
    BY <1>7 DEF Trim
  <2>2. Cardinality(R) <= arg.ef
    BY <1>1, <1>4, <1>7
  <2> QED
    BY <1>2, <1>3, <1>5, <1>7, <2>1, <2>2 DEF R
<1> QED
  BY <1>6, <1>7

LEMMA PromisingIsRoom ==
    ASSUME IsArg(arg), NEW b, Now(b), NEW x \in Points
    PROVE  Promising(x) <=> Room(arg.q, b, arg.ef, x)
<1> DEFINE f == Farthest(arg.q, b.res)
<1>1. arg.q \in Points /\ arg.ef \in Nat /\ Len(res) = Cardinality(b.res)
      /\ Cardinality(b.res) \in Nat
  BY ArgFacts, NowFacts
<1>2. Item(x).dist = D[arg.q][x]
  BY DEF Item
<1>3. Cardinality(b.res) >= arg.ef => res[1].dist = D[arg.q][f]
  <2>1. Cardinality(b.res) >= arg.ef => f \in Points /\ res[1] = EntryOf(arg.q, f)
    BY NowFacts
  <2> QED
    BY <1>1, <2>1, EntryFacts
<1> QED
  BY <1>1, <1>2, <1>3 DEF Promising, Room

LEMMA ScanStep ==
    ASSUME BeamInd, Scan
    PROVE  BeamInd'
<1>0. PICK x : x = Head(list)
  OBVIOUS
<1>1. /\ pc = "scan" /\ pc' = pc /\ list # <<>> /\ list' = Tail(list)
      /\ arg' = arg /\ Visit(x)
      /\ cand' = IF Promising(x) THEN HeapPush(FALSE, cand, EntryOf(arg.q, x)) ELSE cand
      /\ res' = IF Promising(x) /\ x \in arg.ok THEN Kept(x) ELSE res
      /\ IsArg(arg) /\ req = Cardinality(Nodes(arg.g)) /\ list \in Seq(Nodes(arg.g))
  BY <1>0 DEF Scan, BeamInd, Item, EntryOf
<1>2. PICK b : Now(b) /\ OnTheWay(arg, Through(arg, b, list))
  BY <1>1 DEF BeamInd
<1>3. x \in Nodes(arg.g) /\ Tail(list) \in Seq(Nodes(arg.g)) /\ arg.q \in Points
  BY <1>0, <1>1, ArgFacts
<1>4. x \in Points /\ x \in 0 .. MaxCap - 1 /\ x \notin b.vis
  BY <1>1, <1>2, <1>3, MarkedIsSeen DEF Visit, Now
<1>5. MarksInv' /\ req' = req /\ seen' = seen \cup {x}
  <2>1. MarksNext
    BY <1>1, <1>4 DEF MarksNext
  <2> QED
    BY <1>1, <2>1, MarksStep DEF BeamInd, Visit
<1>6. /\ b.vis = seen /\ HeapOf(FALSE, cand, arg.q, b.cand) /\ HeapOf(TRUE, res, arg.q, b.res)
      /\ IsBeam(b, Nodes(arg.g), arg.ok) /\ Cardinality(b.res) <= arg.ef
  BY <1>2 DEF Now
<1>7. /\ b = [cand |-> b.cand, res |-> b.res, vis |-> b.vis]
      /\ b.vis \subseteq Nodes(arg.g) /\ b.cand \subseteq b.vis
      /\ b.res \subseteq b.vis \cap arg.ok
  BY <1>6 DEF IsBeam
<1>8. x \notin b.cand /\ x \notin b.res
  BY <1>4, <1>7
<1>9. PICK m : m = Meet(arg.q, b, arg.ef, arg.ok, x)
  OBVIOUS
<1>10. Through(arg, b, list) = Through(arg, m, Tail(list))
  BY <1>0, <1>1, <1>9, ThroughFacts
<1>11. Promising(x) <=> Room(arg.q, b, arg.ef, x)
  BY <1>1, <1>2, <1>4, PromisingIsRoom
<1>12. CASE ~ Promising(x)
  <2>1. m = [b EXCEPT !.vis = @ \cup {x}]
    BY <1>4, <1>9, <1>11, <1>12 DEF Meet
  <2>2. m = [cand |-> b.cand, res |-> b.res, vis |-> b.vis \cup {x}]
    BY <1>7, <2>1
  <2>3. m.cand = b.cand /\ m.res = b.res /\ m.vis = b.vis \cup {x}
    BY <2>2
  <2>4. IsBeam(m, Nodes(arg.g), arg.ok)
    BY <1>3, <1>7, <2>2, <2>3 DEF IsBeam
  <2>5. Now(m)'
    BY <1>1, <1>5, <1>6, <1>12, <2>3, <2>4 DEF Now
  <2> QED
    BY <1>1, <1>2, <1>3, <1>5, <1>10, <2>5 DEF BeamInd
<1>13. CASE Promising(x)
  <2> DEFINE T == Trim(arg.q, b.res \cup {x}, arg.ef)
  <2>1. m = [cand |-> b.cand \cup {x}, res |-> IF x \in arg.ok THEN T ELSE b.res,
             vis |-> b.vis \cup {x}]
    BY <1>4, <1>9, <1>11, <1>13 DEF Meet
  <2>2. /\ HeapOf(TRUE, Kept(x), arg.q, T) /\ Cardinality(T) <= arg.ef
    BY <1>1, <1>2, <1>4, <1>8, KeptFacts
  <2>3. T \subseteq b.res \cup {x}
    BY DEF Trim
  <2> HIDE DEF T
  <2>4. /\ m.cand = b.cand \cup {x} /\ m.vis = b.vis \cup {x}
        /\ m.res = IF x \in arg.ok THEN T ELSE b.res
        /\ m = [cand |-> m.cand, res |-> m.res, vis |-> m.vis]
    BY <2>1
  <2>5. m.res \subseteq m.vis \cap arg.ok
    BY <1>7, <2>3, <2>4
  <2>6. IsBeam(m, Nodes(arg.g), arg.ok)
    BY <1>3, <1>7, <2>4, <2>5 DEF IsBeam
  <2>7. HeapOf(FALSE, cand', arg.q, m.cand)
    <3>1. HeapOf(FALSE, HeapPush(FALSE, cand, EntryOf(arg.q, x)), arg.q, b.cand \cup {x})
      BY ONLY <1>3, <1>4, <1>6, <1>8, PushSlot
    <3> QED
      BY <1>1, <1>13, <2>4, <3>1
  <2>8. HeapOf(TRUE, res', arg.q, m.res) /\ Cardinality(m.res) <= arg.ef
    BY <1>1, <1>6, <1>13, <2>2, <2>4
  <2>9. Now(m)'
    BY <1>1, <1>5, <1>6, <2>4, <2>6, <2>7, <2>8 DEF Now
  <2> QED
    BY <1>1, <1>2, <1>3, <1>5, <1>10, <2>9 DEF BeamInd
<1> QED
  BY <1>12, <1>13

LEMMA BeamStep == BeamInd /\ [BeamNext]_<<beam, marks>> => BeamInd'
<1> SUFFICES ASSUME BeamInd, [BeamNext]_<<beam, marks>> PROVE BeamInd'
  OBVIOUS
<1>1. CASE UNCHANGED <<beam, marks>>
  <2>1. /\ pc' = pc /\ arg' = arg /\ cand' = cand /\ res' = res /\ list' = list
        /\ seen' = seen /\ req' = req
    BY <1>1 DEF beam, marks
  <2>2. MarksInv'
    BY <1>1, MarksStep DEF BeamInd, marks
  <2>3. \A b : Now(b) => Now(b)'
    BY <2>1 DEF Now
  <2> QED
    BY <2>1, <2>2, <2>3 DEF BeamInd
<1>2. CASE BeamNext
  BY <1>2, BeginStep, EnterStep, PopStep, ExhaustedStep, SkipStep, ScanStep, ExpandedStep,
     EndStep DEF BeamNext
<1> QED
  BY <1>1, <1>2

LEMMA BeamStart == BeamInit => BeamInd
<1> SUFFICES ASSUME BeamInit PROVE BeamInd
  OBVIOUS
<1>1. MarksInv
  BY MarksStart DEF BeamInit
<1> QED
  BY <1>1 DEF BeamInit, MarksInit, BeamInd

LEMMA BeamComputes == BeamInd => ComputesSearchLayer
<1> SUFFICES ASSUME BeamInd PROVE ComputesSearchLayer
  OBVIOUS
<1>1. CASE pc \in {"idle", "enter"}
  <2>1. cand = <<>> /\ res = <<>>
    BY <1>1 DEF BeamInd
  <2>2. Len(res) <= arg.ef
    <3>1. CASE pc = "idle"
      BY <2>1, <3>1 DEF BeamInd, NoArg
    <3>2. CASE pc = "enter"
      BY <2>1, <3>2, ArgFacts DEF BeamInd
    <3> QED
      BY <1>1, <3>1, <3>2
  <2>3. IsHeap(FALSE, cand) /\ IsHeap(TRUE, res)
    BY <2>1 DEF IsHeap
  <2>4. IsInjective(NodesOf(cand)) /\ IsInjective(NodesOf(res))
    BY <2>1 DEF NodesOf, IsInjective
  <2> QED
    BY <1>1, <2>2, <2>3, <2>4 DEF ComputesSearchLayer, HeapsOrdered
<1>2. CASE pc \in {"pop", "scan"}
  <2>1. PICK b : Now(b)
    BY <1>2 DEF BeamInd
  <2>2. IsArg(arg) /\ arg.q \in Points
    BY <1>2, ArgFacts DEF BeamInd
  <2>3. /\ HeapOf(FALSE, cand, arg.q, b.cand) /\ HeapOf(TRUE, res, arg.q, b.res)
        /\ Cardinality(b.res) <= arg.ef
    BY <2>1 DEF Now
  <2>4. HeapsOrdered
    BY <2>2, <2>3, HeapFacts DEF HeapsOrdered
  <2> QED
    BY <1>2, <2>4 DEF ComputesSearchLayer
<1>3. CASE pc = "done"
  <2>1. IsArg(arg) /\ arg.q \in Points
    BY <1>3, ArgFacts DEF BeamInd
  <2>2. PICK S : /\ HeapOf(FALSE, cand, arg.q, S)
                 /\ HeapOf(TRUE, res, arg.q, Answer(arg))
                 /\ Cardinality(Answer(arg)) <= arg.ef
    BY <1>3 DEF BeamInd
  <2>3. HeapsOrdered
    BY <2>1, <2>2, HeapFacts DEF HeapsOrdered
  <2>4. \A k \in 1 .. MaxEf : NodesOf(Emitted(res, k)) = TopK(arg.q, k, Answer(arg))
    <3> SUFFICES ASSUME NEW k \in 1 .. MaxEf
                 PROVE  NodesOf(Emitted(res, k)) = TopK(arg.q, k, Answer(arg))
      OBVIOUS
    <3>1. k \in Nat
      OBVIOUS
    <3> QED
      BY ONLY <2>1, <2>2, <3>1, EmittedIsTopK
  <2> QED
    BY <2>3, <2>4 DEF ComputesSearchLayer, Answer
<1> QED
  BY <1>1, <1>2, <1>3 DEF BeamInd

\* Between any two steps of search_layer, heaps and marks are those of the search
\* over sets.
THEOREM BeamInvariance == BeamSpec => []BeamInd
  BY BeamStart, BeamStep, PTL DEF BeamSpec

\* Searching graph after graph, with whatever marks the searches before left,
\* the arrays of search_layer and emit_topk compute SearchLayer and TopK.
THEOREM ComputesAlways == BeamSpec => []ComputesSearchLayer
  BY BeamInvariance, BeamComputes, PTL

\* The marks stay exact in those searches.
THEOREM MarksAlways == BeamSpec => []MarksExact
<1>1. BeamInd => MarksExact
  BY DEF BeamInd, MarksInv
<1> QED
  BY <1>1, BeamInvariance, PTL
=============================================================================
