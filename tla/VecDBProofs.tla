---------------------------- MODULE VecDBProofs ----------------------------
(***************************************************************************)
(* Theorems about the storage of a VecDB handle, in two parts: the hash    *)
(* table of ids (IdMap), for every set of keys, hash function and initial  *)
(* capacity of at least two, and the slots, deletes, bulk inserts,         *)
(* compaction and filtered searches of VecDB and VecSearch, which use the  *)
(* map through the abstraction the first part shows it to implement.       *)
(***************************************************************************)
EXTENDS VecSearch, IdMap, ScanProofs, NaturalsInduction, WellFoundedInduction

-----------------------------------------------------------------------------
(***************************************************************************)
(* Probing: distances, and the first cell of a set on a probe sequence.    *)
(***************************************************************************)

\* A non-empty set of natural numbers has a least element.
LEMMA LeastElement ==
    ASSUME NEW S \in SUBSET Nat, S # {}
    PROVE  \E x \in S : \A y \in S : x <= y
<1> DEFINE R == OpToRel(<, Nat)
<1>1. IsWellFoundedOn(R, Nat)
  BY NatLessThanWellFounded
<1>2. \E x \in S : \A y \in S : ~ (<<y, x>> \in R)
  <2> HIDE DEF R
  <2> QED BY <1>1, WFMin
<1>3. \A x, y \in S : y < x => <<y, x>> \in R
  BY DEF OpToRel
<1> HIDE DEF R
<1>4. \A x, y \in S : x <= y \/ y < x
  OBVIOUS
<1> QED
  BY <1>2, <1>3, <1>4

\* hash_u64(key) & (cap - 1) is a cell of the table.
LEMMA HomeInRange ==
    ASSUME NEW t, IsTable(t), t.cap > 0, NEW k \in Keys
    PROVE  Home(t, k) \in Cells(t)
<1>1. Hash[k] \in Nat /\ t.cap \in Nat \ {0}
  BY IdMapAssumption DEF IsTable
<1>2. \A h \in Nat, c \in Nat \ {0} : h % c \in 0 .. c - 1
  OBVIOUS
<1> QED
  BY <1>1, <1>2 DEF Home, Cells

\* A probe sequence visits every cell exactly once before it repeats.
LEMMA DistFacts ==
    ASSUME NEW t, IsTable(t), t.cap > 0, NEW k \in Keys
    PROVE  /\ \A p \in Cells(t) : Dist(t, k, p) \in Nat /\ Dist(t, k, p) < t.cap
           /\ \A p, q \in Cells(t) : Dist(t, k, p) = Dist(t, k, q) => p = q
<1>1. Home(t, k) \in Cells(t)
  BY HomeInRange
<1> QED
  BY <1>1 DEF Dist, Cells, IsTable

\* The first cell of a non-empty set of cells is in it and is the nearest.
LEMMA FirstFacts ==
    ASSUME NEW t, IsTable(t), t.cap > 0, NEW k \in Keys,
           NEW S \in SUBSET Cells(t), S # {}
    PROVE  /\ First(t, k, S) \in S
           /\ \A q \in S : Dist(t, k, First(t, k, S)) <= Dist(t, k, q)
<1> DEFINE D == {Dist(t, k, p) : p \in S}
<1>1. D \in SUBSET Nat /\ D # {}
  BY DistFacts
<1>2. PICK d \in D : \A e \in D : d <= e
  BY <1>1, LeastElement
<1>3. PICK p \in S : d = Dist(t, k, p)
  BY <1>2
<1>4. \A q \in S : Dist(t, k, p) <= Dist(t, k, q)
  BY <1>2, <1>3
<1> QED
  BY <1>3, <1>4 DEF First

-----------------------------------------------------------------------------
(***************************************************************************)
(* One table: what a probe finds, and what a store and an erase preserve.  *)
(***************************************************************************)
GoodTable(t) == IsTable(t) /\ UniqueIn(t) /\ ReachableIn(t) /\ CountIn(t)

\* A probe that ends has found its key if the key is in the table.
LEMMA StopFacts ==
    ASSUME NEW t, IsTable(t), t.cap > 0, NEW k \in Keys, Stops(t, k) # {}
    PROVE  /\ Stop(t, k) \in Cells(t)
           /\ t.cell[Stop(t, k)] = Empty \/ IsHit(t, k, Stop(t, k))
           /\ \A q \in Cells(t) : t.cell[q] = Empty \/ IsHit(t, k, q)
                 => Dist(t, k, Stop(t, k)) <= Dist(t, k, q)
           /\ ReachableIn(t) /\ ~ IsHit(t, k, Stop(t, k))
                 => \A p \in Used(t) : t.cell[p].key # k
<1>1. /\ Stop(t, k) \in Stops(t, k)
      /\ \A q \in Stops(t, k) : Dist(t, k, Stop(t, k)) <= Dist(t, k, q)
  BY FirstFacts DEF Stop, Stops
<1>2. ASSUME ReachableIn(t), ~ IsHit(t, k, Stop(t, k)),
             NEW p \in Used(t), t.cell[p].key = k
      PROVE  FALSE
  <2>1. p \in Stops(t, k) /\ p \in Cells(t)
    BY <1>2 DEF Stops, IsHit, Used
  <2>2. t.cell[Stop(t, k)] = Empty /\ Stop(t, k) \in Cells(t)
    BY <1>1, <1>2 DEF Stops
  <2>3. Dist(t, k, p) < Dist(t, k, Stop(t, k))
    BY <1>2, <2>2 DEF ReachableIn
  <2>4. Dist(t, k, Stop(t, k)) <= Dist(t, k, p)
    BY <1>1, <2>1
  <2> QED
    BY <2>1, <2>2, <2>3, <2>4, DistFacts
<1> QED
  BY <1>1, <1>2 DEF Stops

\* An absent key goes to a cell that is not in use and lies before every
\* remaining empty cell of its probe sequence.
LEMMA PutCellFacts ==
    ASSUME NEW t, IsTable(t), t.cap > 0, NEW k \in Keys, Stops(t, k) # {},
           ~ IsHit(t, k, Stop(t, k))
    PROVE  /\ PutCell(t, k) \in Cells(t)
           /\ t.cell[PutCell(t, k)] \in {Empty, Erased}
           /\ \A q \in Cells(t) : t.cell[q] = Empty /\ q # PutCell(t, k)
                 => Dist(t, k, PutCell(t, k)) < Dist(t, k, q)
<1> DEFINE s == Stop(t, k)
           g == Graves(t, k, s)
<1>1. /\ s \in Cells(t) /\ t.cell[s] = Empty
      /\ \A q \in Cells(t) : t.cell[q] = Empty => Dist(t, k, s) <= Dist(t, k, q)
  BY StopFacts
<1>2. CASE g = {}
  <2>1. PutCell(t, k) = s
    BY <1>2 DEF PutCell
  <2> QED
    BY <1>1, <2>1, DistFacts
<1>3. CASE g # {}
  <2>1. PutCell(t, k) = First(t, k, g) /\ g \in SUBSET Cells(t)
    BY <1>3 DEF PutCell, Graves
  <2>2. PutCell(t, k) \in g
    BY <1>3, <2>1, FirstFacts
  <2>3. /\ PutCell(t, k) \in Cells(t)
        /\ t.cell[PutCell(t, k)] = Erased
        /\ Dist(t, k, PutCell(t, k)) < Dist(t, k, s)
    BY <2>2 DEF Graves
  <2> QED
    BY <1>1, <2>3, DistFacts
<1> QED
  BY <1>2, <1>3

\* The fields of a table with one cell replaced.
LEMMA WithCellFacts ==
    ASSUME NEW t, IsTable(t), NEW p \in Cells(t), NEW u \in Nat,
           NEW c \in Entry \cup {Empty, Erased}
    PROVE  /\ IsTable(WithCell(t, p, c, u))
           /\ WithCell(t, p, c, u).cap = t.cap
           /\ WithCell(t, p, c, u).used = u
           /\ Cells(WithCell(t, p, c, u)) = Cells(t)
           /\ \A q \in Cells(t) : WithCell(t, p, c, u).cell[q] =
                                     IF q = p THEN c ELSE t.cell[q]
           /\ \A k, q : Dist(WithCell(t, p, c, u), k, q) = Dist(t, k, q)
           /\ c \in Entry => Used(WithCell(t, p, c, u)) = Used(t) \cup {p}
           /\ c \notin Entry => Used(WithCell(t, p, c, u)) = Used(t) \ {p}
<1> DEFINE w == WithCell(t, p, c, u)
<1>1. /\ w.cap = t.cap /\ w.used = u
      /\ w.cell = [q \in Cells(t) |-> IF q = p THEN c ELSE t.cell[q]]
      /\ w = [cap |-> w.cap, used |-> w.used, cell |-> w.cell]
  BY DEF WithCell
<1>2. Cells(w) = Cells(t)
  BY <1>1 DEF Cells
<1> HIDE DEF w
<1>3. IsTable(w)
  BY <1>1, <1>2 DEF IsTable
<1>4. \A k, q : Dist(w, k, q) = Dist(t, k, q)
  BY <1>1 DEF Dist, Home
<1>5. /\ c \in Entry => Used(w) = Used(t) \cup {p}
      /\ c \notin Entry => Used(w) = Used(t) \ {p}
  BY <1>1, <1>2 DEF Used
<1> QED
  BY <1>1, <1>2, <1>3, <1>4, <1>5 DEF w

LEMMA UsedFinite ==
    ASSUME NEW t, IsTable(t)
    PROVE  /\ IsFiniteSet(Used(t))
           /\ Cardinality(Used(t)) \in Nat
           /\ Cardinality(Cells(t)) = t.cap
           /\ IsFiniteSet(Cells(t))
<1>1. t.cap \in Nat
  BY DEF IsTable
<1>2. IsFiniteSet(Cells(t)) /\ Cardinality(Cells(t)) = t.cap
  BY <1>1, FS_Interval DEF Cells
<1>3. Used(t) \in SUBSET Cells(t)
  BY DEF Used
<1> QED
  BY <1>2, <1>3, FS_Subset, FS_CardinalityType

\* map_put keeps a table well formed, whether it updates, fills an empty cell
\* or reuses a grave; it adds at most one live entry and no grave.
LEMMA StoreGood ==
    ASSUME NEW t, GoodTable(t), t.cap > 0,
           NEW k \in Keys, NEW v \in Vals, Stops(t, k) # {}
    PROVE  /\ GoodTable(PutInto(t, k, v))
           /\ PutInto(t, k, v).cap = t.cap
           /\ PutInto(t, k, v).used \in {t.used, t.used + 1}
           /\ \A p \in Cells(t) : PutInto(t, k, v).cell[p] = Erased
                                     => t.cell[p] = Erased
<1> DEFINE e == [key |-> k, val |-> v]
           s == Stop(t, k)
<1>0. IsTable(t) /\ UniqueIn(t) /\ ReachableIn(t) /\ CountIn(t)
  BY DEF GoodTable
<1>1. e \in Entry /\ e.key = k
  BY DEF Entry
<1>2. e \notin {Empty, Erased} /\ Empty # Erased
  BY <1>1, IdMapAssumption
<1>3. t.used \in Nat
  BY <1>0 DEF IsTable
<1>4. CASE IsHit(t, k, s)
  <2> DEFINE w == WithCell(t, s, e, t.used)
  <2>1. PutInto(t, k, v) = w
    BY <1>4 DEF PutInto
  <2>2. s \in Cells(t) /\ s \in Used(t) /\ t.cell[s].key = k
    BY <1>0, <1>4, StopFacts DEF IsHit, Used
  <2> HIDE DEF s
  <2>3. /\ IsTable(w) /\ w.cap = t.cap /\ w.used = t.used
        /\ Cells(w) = Cells(t)
        /\ \A q \in Cells(t) : w.cell[q] = IF q = s THEN e ELSE t.cell[q]
        /\ \A kk, q : Dist(w, kk, q) = Dist(t, kk, q)
        /\ Used(w) = Used(t) \cup {s}
    <3> HIDE DEF e
    <3> QED BY <1>0, <1>1, <1>3, <2>2, WithCellFacts
  <2>9. Used(w) = Used(t)
    BY <2>2, <2>3
  <2> HIDE DEF w
  <2>4. \A p \in Used(t) : w.cell[p].key = t.cell[p].key
    BY <1>1, <2>2, <2>3, <2>9 DEF Used
  <2>5. UniqueIn(w)
    BY <1>0, <2>3, <2>9, <2>4 DEF UniqueIn
  <2>6. ReachableIn(w)
    BY <1>0, <1>2, <2>3, <2>9, <2>4 DEF ReachableIn
  <2>7. CountIn(w)
    BY <1>0, <2>3, <2>9 DEF CountIn
  <2> QED
    BY <1>2, <2>1, <2>2, <2>3, <2>5, <2>6, <2>7 DEF GoodTable
<1>5. CASE ~ IsHit(t, k, s)
  <2> DEFINE c == PutCell(t, k)
             w == WithCell(t, c, e, t.used + 1)
  <2>1. PutInto(t, k, v) = w
    BY <1>5 DEF PutInto
  <2>2. /\ c \in Cells(t) /\ t.cell[c] \in {Empty, Erased}
        /\ \A q \in Cells(t) : t.cell[q] = Empty /\ q # c
              => Dist(t, k, c) < Dist(t, k, q)
    BY <1>0, <1>5, PutCellFacts
  <2>3. \A p \in Used(t) : t.cell[p].key # k
    BY <1>0, <1>5, StopFacts
  <2> HIDE DEF c
  <2>4. /\ IsTable(w) /\ w.cap = t.cap /\ w.used = t.used + 1
        /\ Cells(w) = Cells(t)
        /\ \A q \in Cells(t) : w.cell[q] = IF q = c THEN e ELSE t.cell[q]
        /\ \A kk, q : Dist(w, kk, q) = Dist(t, kk, q)
        /\ Used(w) = Used(t) \cup {c}
    BY <1>0, <1>1, <1>3, <2>2, WithCellFacts
  <2> HIDE DEF w, e
  <2>5. c \notin Used(t)
    BY <2>2, IdMapAssumption DEF Used
  <2>6. UniqueIn(w)
    BY <1>0, <1>1, <2>3, <2>4, <2>5 DEF UniqueIn, Used
  <2>7. ReachableIn(w)
    BY <1>0, <1>1, <1>2, <2>2, <2>4, <2>5 DEF ReachableIn, Used
  <2>8. CountIn(w)
    BY <1>0, <2>4, <2>5, UsedFinite, FS_AddElement DEF CountIn
  <2> QED
    BY <1>2, <2>1, <2>4, <2>6, <2>7, <2>8 DEF GoodTable
<1> QED
  BY <1>4, <1>5

\* map_del keeps a table well formed: the grave it leaves cuts no chain.
LEMMA EraseGood ==
    ASSUME NEW t, GoodTable(t), NEW k \in Keys, t.cap = 0 \/ Stops(t, k) # {}
    PROVE  /\ GoodTable(Erase(t, k))
           /\ Erase(t, k).cap = t.cap
           /\ Erase(t, k).used \in Nat /\ Erase(t, k).used <= t.used
<1> DEFINE s == Stop(t, k)
           w == WithCell(t, s, Erased, t.used - 1)
<1>0. IsTable(t) /\ UniqueIn(t) /\ ReachableIn(t) /\ CountIn(t) /\ t.used \in Nat
  BY DEF GoodTable, IsTable
<1>1. CASE t.cap = 0 \/ ~ IsHit(t, k, s)
  BY <1>0, <1>1 DEF Erase, GoodTable
<1>2. CASE t.cap # 0 /\ IsHit(t, k, s)
  <2>0. t.cap > 0
    BY <1>0, <1>2 DEF IsTable
  <2>1. Erase(t, k) = w
    BY <1>2 DEF Erase
  <2>2. s \in Cells(t) /\ s \in Used(t)
    BY <1>0, <1>2, <2>0, StopFacts DEF IsHit, Used
  <2> HIDE DEF s
  <2>3. /\ IsFiniteSet(Used(t) \ {s})
        /\ Cardinality(Used(t) \ {s}) = t.used - 1
        /\ t.used - 1 \in Nat
    <3>1. Cardinality(Used(t) \ {s}) = Cardinality(Used(t)) - 1
      BY <1>0, <2>2, UsedFinite, FS_RemoveElement
    <3>2. IsFiniteSet(Used(t) \ {s}) /\ Cardinality(Used(t) \ {s}) \in Nat
      BY <1>0, UsedFinite, FS_RemoveElement, FS_CardinalityType
    <3> QED
      BY <1>0, <3>1, <3>2 DEF CountIn
  <2>4. /\ IsTable(w) /\ w.cap = t.cap /\ w.used = t.used - 1
        /\ Cells(w) = Cells(t)
        /\ \A q \in Cells(t) : w.cell[q] = IF q = s THEN Erased ELSE t.cell[q]
        /\ \A kk, q : Dist(w, kk, q) = Dist(t, kk, q)
        /\ Used(w) = Used(t) \ {s}
    <3> DEFINE u == t.used - 1
    <3>1. Erased \in Entry \cup {Empty, Erased} /\ Erased \notin Entry /\ u \in Nat
      BY <2>3, IdMapAssumption
    <3> HIDE DEF u
    <3>2. WithCell(t, s, Erased, u).used = u
      BY <1>0, <2>2, <3>1, WithCellFacts
    <3> QED
      BY <1>0, <2>2, <3>1, <3>2, WithCellFacts DEF u
  <2> HIDE DEF w
  <2>5. UniqueIn(w)
    BY <1>0, <2>4 DEF UniqueIn, Used
  <2>6. ReachableIn(w)
    BY <1>0, <2>4, IdMapAssumption DEF ReachableIn, Used
  <2>7. CountIn(w)
    BY <2>3, <2>4 DEF CountIn
  <2> QED
    BY <1>0, <2>1, <2>3, <2>4, <2>5, <2>6, <2>7 DEF GoodTable
<1> QED
  BY <1>1, <1>2

\* The table map_rehash allocates is well formed and has nothing in it.
LEMMA NewTableGood ==
    ASSUME NEW c \in Nat
    PROVE  /\ GoodTable(NewTable(c))
           /\ NewTable(c).cap = c /\ NewTable(c).used = 0
           /\ Cells(NewTable(c)) = 0 .. c - 1
           /\ \A p \in 0 .. c - 1 : NewTable(c).cell[p] = Empty
           /\ Used(NewTable(c)) = {}
<1> DEFINE n == NewTable(c)
<1>1. /\ n.cap = c /\ n.used = 0
      /\ n.cell = [p \in 0 .. c - 1 |-> Empty]
      /\ n = [cap |-> n.cap, used |-> n.used, cell |-> n.cell]
  BY DEF NewTable
<1> HIDE DEF n
<1>2. Cells(n) = 0 .. c - 1
  BY <1>1 DEF Cells
<1>3. Used(n) = {}
  BY <1>1, <1>2, IdMapAssumption DEF Used
<1>4. IsTable(n)
  BY <1>1, <1>2 DEF IsTable
<1>5. UniqueIn(n) /\ ReachableIn(n)
  BY <1>3 DEF UniqueIn, ReachableIn
<1>6. CountIn(n)
  BY <1>1, <1>3, FS_EmptySet DEF CountIn
<1> QED
  BY <1>1, <1>2, <1>3, <1>4, <1>5, <1>6 DEF GoodTable, n

\* A table below its load limit that has no grave has an empty cell, at which
\* every probe ends.
LEMMA RoomMeansEmpty ==
    ASSUME NEW t, GoodTable(t), t.used < t.cap,
           \A p \in Cells(t) : t.cell[p] # Erased
    PROVE  \E p \in Cells(t) : t.cell[p] = Empty
<1>1. IsTable(t) /\ t.used = Cardinality(Used(t))
  BY DEF GoodTable, CountIn
<1>2. Used(t) # Cells(t)
  BY <1>1, UsedFinite
<1>3. PICK p \in Cells(t) : p \notin Used(t)
  BY <1>2 DEF Used
<1> QED
  BY <1>1, <1>3 DEF Used, IsTable

-----------------------------------------------------------------------------
(***************************************************************************)
(* The inductive invariant: both tables are well formed and below their    *)
(* load limit, and a table under construction holds no grave and no more   *)
(* entries than the old table had in the cells already passed.             *)
(***************************************************************************)
BelowLimit(t) == /\ t.cap = 0 \/ t.cap >= 2
                 /\ t.cap > 0 => t.used * 10 < t.cap * 7
                 /\ t.cap = 0 => t.used = 0

DrainedCells == {p \in Used(drained) : p < cursor}

Rehashing == /\ table.cap = NextCap(drained)
             /\ \A p \in Cells(table) : table.cell[p] # Erased
             /\ table.used <= Cardinality(DrainedCells)

MapInv == /\ MapTypeOK
          /\ GoodTable(table) /\ GoodTable(drained)
          /\ BelowLimit(table) /\ BelowLimit(drained)
          /\ phase = "rehash" => Rehashing

LEMMA PassedFacts ==
    ASSUME MapTypeOK, GoodTable(drained), cursor < drained.cap
    PROVE  /\ IsFiniteSet(DrainedCells) /\ Cardinality(DrainedCells) \in Nat
           /\ Cardinality(DrainedCells) <= drained.used
           /\ cursor \in Used(drained) =>
                      /\ Cardinality(DrainedCells \cup {cursor}) = Cardinality(DrainedCells) + 1
                      /\ Cardinality(DrainedCells) + 1 <= drained.used
           /\ {p \in Used(drained) : p < cursor + 1} =
                 IF cursor \in Used(drained) THEN DrainedCells \cup {cursor} ELSE DrainedCells
<1>1. IsTable(drained) /\ drained.used = Cardinality(Used(drained)) /\ cursor \in Nat
  BY DEF GoodTable, CountIn, MapTypeOK
<1>2. IsFiniteSet(Used(drained)) /\ DrainedCells \in SUBSET Used(drained)
  BY <1>1, UsedFinite DEF DrainedCells
<1>3. /\ IsFiniteSet(DrainedCells) /\ Cardinality(DrainedCells) \in Nat
      /\ Cardinality(DrainedCells) <= drained.used
  BY <1>1, <1>2, FS_Subset, FS_CardinalityType
<1>4. ASSUME cursor \in Used(drained)
      PROVE  /\ Cardinality(DrainedCells \cup {cursor}) = Cardinality(DrainedCells) + 1
             /\ Cardinality(DrainedCells) + 1 <= drained.used
  <2>1. cursor \notin DrainedCells /\ DrainedCells \cup {cursor} \in SUBSET Used(drained)
    BY <1>1, <1>4 DEF DrainedCells
  <2>2. Cardinality(DrainedCells \cup {cursor}) = Cardinality(DrainedCells) + 1
    BY <1>3, <2>1, FS_AddElement
  <2>3. Cardinality(DrainedCells \cup {cursor}) <= Cardinality(Used(drained))
    BY <1>2, <2>1, FS_Subset
  <2> QED
    BY <1>1, <2>2, <2>3
<1>5. \A p \in Used(drained) : p \in Nat
  BY <1>1 DEF Used, Cells, IsTable
<1>6. {p \in Used(drained) : p < cursor + 1} =
         IF cursor \in Used(drained) THEN DrainedCells \cup {cursor} ELSE DrainedCells
  BY <1>1, <1>5 DEF DrainedCells
<1> QED
  BY <1>3, <1>4, <1>6

\* While cells are moved the new table has room for one more entry.
LEMMA RehashRoom ==
    ASSUME MapInv, phase = "rehash"
    PROVE  /\ \E p \in Cells(table) : table.cell[p] = Empty
           /\ cursor \in Used(drained) => ~ Overloaded(table)
           /\ table.cap >= 2 /\ (table.used + 1) * 10 < table.cap * 7 + 10
           /\ table.used <= drained.used
<1>1. /\ GoodTable(table) /\ GoodTable(drained) /\ BelowLimit(drained) /\ MapTypeOK
      /\ table.cap = NextCap(drained) /\ table.used <= Cardinality(DrainedCells)
      /\ table.used \in Nat /\ table.cap \in Nat /\ drained.used \in Nat /\ drained.cap \in Nat
      /\ cursor \in 0 .. drained.cap
  BY DEF MapInv, Rehashing, GoodTable, IsTable, MapTypeOK
<1>2. table.used <= drained.used
  <2>1. IsFiniteSet(Used(drained)) /\ DrainedCells \in SUBSET Used(drained)
    BY <1>1, UsedFinite DEF DrainedCells, GoodTable
  <2>2. Cardinality(DrainedCells) <= Cardinality(Used(drained)) /\ Cardinality(DrainedCells) \in Nat
    BY <2>1, FS_Subset, FS_CardinalityType
  <2> QED
    BY <1>1, <2>2 DEF GoodTable, CountIn
<1>3. /\ table.cap >= 2 /\ table.used < table.cap
      /\ drained.cap > 0 => table.cap = 2 * drained.cap /\ drained.used * 10 < drained.cap * 7
      /\ drained.cap = 0 => table.used = 0
      /\ table.used * 10 < table.cap * 7
  BY <1>1, <1>2, IdMapAssumption DEF NextCap, BelowLimit
<1>4. \E p \in Cells(table) : table.cell[p] = Empty
  BY <1>1, <1>3, RoomMeansEmpty DEF MapInv, Rehashing
<1>5. ASSUME cursor \in Used(drained) PROVE ~ Overloaded(table)
  <2>1. cursor < drained.cap
    BY <1>1, <1>5 DEF Used, Cells
  <2>2. table.used + 1 <= drained.used
    BY <1>1, <1>5, <2>1, PassedFacts
  <2> QED
    BY <1>1, <1>3, <2>1, <2>2 DEF Overloaded
<1> QED
  BY <1>1, <1>2, <1>3, <1>4, <1>5

LEMMA MapInvInit == MapInit => MapInv
<1> SUFFICES ASSUME MapInit PROVE MapInv
  OBVIOUS
<1>1. /\ GoodTable(NoTable) /\ NoTable.cap = 0 /\ NoTable.used = 0
  BY NewTableGood DEF NoTable
<1> QED
  BY <1>1 DEF MapInit, MapInv, MapTypeOK, BelowLimit, GoodTable

LEMMA PutIndInv ==
    ASSUME MapInv, NEW k \in Keys, NEW v \in Vals, Put(k, v)
    PROVE  MapInv'
<1>1. /\ phase = "idle" /\ phase' = phase /\ drained' = drained
      /\ cursor' = cursor /\ pending' = pending /\ got' = got
      /\ table' = PutInto(table, k, v) /\ Stops(table, k) # {} /\ ~ Overloaded(table)
  BY DEF Put, Idle
<1>2. /\ GoodTable(table) /\ GoodTable(drained) /\ BelowLimit(table) /\ BelowLimit(drained) /\ MapTypeOK
      /\ table.cap \in Nat /\ table.used \in Nat
  BY DEF MapInv, GoodTable, IsTable
<1>3. table.cap > 0
  BY <1>1, <1>2 DEF Overloaded
<1>4. /\ GoodTable(table') /\ table'.cap = table.cap /\ table'.used \in {table.used, table.used + 1}
  BY <1>1, <1>2, <1>3, StoreGood
<1>5. BelowLimit(table')
  BY <1>1, <1>2, <1>3, <1>4 DEF BelowLimit, Overloaded
<1>6. MapTypeOK'
  BY <1>1, <1>2, <1>4 DEF MapTypeOK, GoodTable
<1> QED
  BY <1>1, <1>2, <1>4, <1>5, <1>6 DEF MapInv

LEMMA StartRehashIndInv ==
    ASSUME MapInv, NEW k \in Keys, NEW v \in Vals, StartRehash(k, v)
    PROVE  MapInv'
<1>1. /\ GoodTable(table) /\ BelowLimit(table) /\ MapTypeOK /\ table.cap \in Nat
      /\ drained' = table /\ table' = NewTable(NextCap(table)) /\ cursor' = 0 /\ pending' = <<k, v>>
      /\ phase' = "rehash" /\ got' = got
  BY DEF MapInv, GoodTable, IsTable, StartRehash
<1>2. NextCap(table) \in Nat /\ NextCap(table) >= 2
  BY <1>1, IdMapAssumption DEF NextCap, BelowLimit
<1>3. /\ GoodTable(table') /\ table'.cap = NextCap(table) /\ table'.used = 0
      /\ Cells(table') = 0 .. NextCap(table) - 1
      /\ \A p \in 0 .. NextCap(table) - 1 : table'.cell[p] = Empty
  BY <1>1, <1>2, NewTableGood
<1>4. BelowLimit(table')
  BY <1>2, <1>3 DEF BelowLimit
<1>5. DrainedCells' = {}
  BY <1>1 DEF DrainedCells, Used, Cells
<1>6. Rehashing'
  BY <1>1, <1>3, <1>5, FS_EmptySet, IdMapAssumption DEF Rehashing
<1>7. MapTypeOK'
  BY <1>1, <1>3 DEF MapTypeOK, GoodTable
<1> QED
  BY <1>1, <1>3, <1>4, <1>6, <1>7 DEF MapInv

LEMMA RehashCellIndInv ==
    ASSUME MapInv, RehashCell
    PROVE  MapInv'
<1>1. /\ GoodTable(table) /\ GoodTable(drained) /\ BelowLimit(table) /\ BelowLimit(drained) /\ MapTypeOK
      /\ Rehashing /\ phase = "rehash" /\ phase' = phase /\ drained' = drained /\ pending' = pending
      /\ got' = got /\ cursor' = cursor + 1 /\ cursor < drained.cap /\ cursor \in Nat
      /\ table.cap \in Nat /\ table.used \in Nat /\ drained.cap \in Nat
  BY DEF MapInv, GoodTable, IsTable, RehashCell, MapTypeOK
<1>2. cursor \in Cells(drained)
  BY <1>1 DEF Cells
<1>3. DrainedCells' = IF cursor \in Used(drained) THEN DrainedCells \cup {cursor} ELSE DrainedCells
  BY <1>1, PassedFacts DEF DrainedCells
<1>4. CASE cursor \in Used(drained)
  <2> DEFINE e == drained.cell[cursor]
  <2>1. /\ e \in Entry /\ e.key \in Keys /\ e.val \in Vals
    BY <1>4 DEF Used, Entry
  <2>2. /\ ~ Overloaded(table) /\ Stops(table, e.key) # {} /\ table' = PutInto(table, e.key, e.val)
    BY <2>1 DEF RehashCell
  <2> HIDE DEF e
  <2>3. table.cap > 0
    BY <1>1, <2>2 DEF Overloaded
  <2>4. /\ GoodTable(table') /\ table'.cap = table.cap /\ table'.used \in {table.used, table.used + 1}
        /\ \A p \in Cells(table) : table'.cell[p] = Erased => table.cell[p] = Erased
    BY <1>1, <2>1, <2>2, <2>3, StoreGood
  <2>5. BelowLimit(table')
    BY <1>1, <2>2, <2>3, <2>4 DEF BelowLimit, Overloaded
  <2>6. Cardinality(DrainedCells') = Cardinality(DrainedCells) + 1 /\ Cardinality(DrainedCells) \in Nat
    BY <1>1, <1>3, <1>4, PassedFacts
  <2>7. Rehashing'
    <3>1. table'.cap = NextCap(drained') /\ table'.used <= Cardinality(DrainedCells')
      BY <1>1, <2>4, <2>6 DEF Rehashing
    <3>2. \A p \in Cells(table') : table'.cell[p] # Erased
      BY <1>1, <2>4 DEF Rehashing, Cells
    <3> QED
      BY <3>1, <3>2 DEF Rehashing
  <2>8. MapTypeOK'
    BY <1>1, <2>4 DEF MapTypeOK, GoodTable
  <2> QED
    BY <1>1, <2>4, <2>5, <2>7, <2>8 DEF MapInv
<1>5. CASE cursor \notin Used(drained)
  <2>1. table' = table
    BY <1>2, <1>5 DEF RehashCell, Used
  <2>2. Rehashing'
    BY <1>1, <1>3, <1>5, <2>1 DEF Rehashing, NextCap, Cells
  <2>3. MapTypeOK'
    BY <1>1, <2>1 DEF MapTypeOK
  <2> QED
    BY <1>1, <2>1, <2>2, <2>3 DEF MapInv
<1> QED
  BY <1>4, <1>5

LEMMA FinishPutIndInv ==
    ASSUME MapInv, FinishPut
    PROVE  MapInv'
<1>1. /\ GoodTable(table) /\ GoodTable(drained) /\ BelowLimit(table) /\ BelowLimit(drained) /\ MapTypeOK
      /\ Rehashing /\ phase = "rehash" /\ pending[1] \in Keys /\ pending[2] \in Vals
      /\ Stops(table, pending[1]) # {} /\ table' = PutInto(table, pending[1], pending[2])
      /\ drained' = NoTable /\ cursor' = 0 /\ pending' = <<>> /\ phase' = "idle" /\ got' = got
      /\ table.cap \in Nat /\ table.used \in Nat /\ drained.cap \in Nat /\ drained.used \in Nat
  BY DEF MapInv, GoodTable, IsTable, FinishPut, MapTypeOK
<1>2. table.cap >= 2 /\ table.used <= drained.used /\ table.cap = NextCap(drained)
  BY <1>1, RehashRoom DEF Rehashing
<1>3. GoodTable(table') /\ table'.cap = table.cap /\ table'.used \in {table.used, table.used + 1}
  BY <1>1, <1>2, StoreGood
<1>4. BelowLimit(table')
  <2>1. table'.cap >= 2 /\ table'.used \in Nat /\ table'.used <= drained.used + 1
    BY <1>1, <1>2, <1>3
  <2>2. CASE drained.cap = 0
    <3>1. table'.used <= 1 /\ table'.cap \in Nat
      BY <1>1, <1>2, <1>3, <2>1, <2>2 DEF BelowLimit
    <3> QED
      BY <2>1, <3>1 DEF BelowLimit
  <2>3. CASE drained.cap # 0
    <3>1. table'.cap = drained.cap * 2 /\ drained.used * 10 < drained.cap * 7 /\ drained.cap >= 2
      BY <1>1, <1>2, <1>3, <2>3 DEF BelowLimit, NextCap
    <3> QED
      BY <1>1, <2>1, <3>1 DEF BelowLimit
  <2> QED
    BY <2>2, <2>3
<1>5. GoodTable(NoTable) /\ NoTable.cap = 0 /\ NoTable.used = 0
  BY NewTableGood DEF NoTable
<1>6. BelowLimit(drained')
  BY <1>1, <1>5 DEF BelowLimit
<1>7. MapTypeOK'
  BY <1>1, <1>3, <1>5 DEF MapTypeOK, GoodTable
<1> QED
  BY <1>1, <1>3, <1>4, <1>5, <1>6, <1>7 DEF MapInv

LEMMA GetIndInv ==
    ASSUME MapInv, NEW k \in Keys, Get(k)
    PROVE  MapInv'
<1>1. /\ MapTypeOK /\ GoodTable(table) /\ table' = table /\ phase = "idle" /\ phase' = phase /\ drained' = drained
      /\ cursor' = cursor /\ pending' = pending /\ got' = Lookup(table, k)
      /\ table.cap = 0 \/ Stops(table, k) # {}
      /\ table.cap \in Nat
  BY DEF MapInv, Get, Idle, GoodTable, IsTable
<1>2. got' \in Vals \cup {NoVal}
  <2>1. CASE table.cap = 0 \/ ~ IsHit(table, k, Stop(table, k))
    BY <1>1, <2>1 DEF Lookup
  <2>2. CASE table.cap # 0 /\ IsHit(table, k, Stop(table, k))
    BY <1>1, <2>2 DEF Lookup, IsHit, Entry
  <2> QED
    BY <2>1, <2>2
<1> QED
  BY <1>1, <1>2 DEF MapInv, MapTypeOK, GoodTable

LEMMA DelIndInv ==
    ASSUME MapInv, NEW k \in Keys, Del(k)
    PROVE  MapInv'
<1>1. /\ MapTypeOK /\ GoodTable(table) /\ GoodTable(drained) /\ BelowLimit(table) /\ BelowLimit(drained)
      /\ table' = Erase(table, k) /\ phase = "idle" /\ phase' = phase /\ drained' = drained
      /\ cursor' = cursor /\ pending' = pending /\ got' = got
      /\ table.cap = 0 \/ Stops(table, k) # {}
      /\ table.cap \in Nat /\ table.used \in Nat
  BY DEF MapInv, Del, Idle, GoodTable, IsTable
<1>2. GoodTable(table') /\ table'.cap = table.cap /\ table'.used \in Nat /\ table'.used <= table.used
  BY <1>1, EraseGood
<1>3. BelowLimit(table')
  BY <1>1, <1>2 DEF BelowLimit
<1>4. MapTypeOK'
  BY <1>1, <1>2 DEF MapTypeOK, GoodTable
<1> QED
  BY <1>1, <1>2, <1>3, <1>4 DEF MapInv

\* The invariant is inductive: one lemma per operation of the map.
THEOREM MapInvStep == MapInv /\ [MapNext]_mapVars => MapInv'
<1> SUFFICES ASSUME MapInv, [MapNext]_mapVars PROVE MapInv'
  OBVIOUS
<1>1. ASSUME NEW k \in Keys, NEW v \in Vals, Put(k, v) PROVE MapInv'
  BY <1>1, PutIndInv
<1>2. ASSUME NEW k \in Keys, NEW v \in Vals, StartRehash(k, v) PROVE MapInv'
  BY <1>2, StartRehashIndInv
<1>3. CASE RehashCell
  BY <1>3, RehashCellIndInv
<1>4. CASE FinishPut
  BY <1>4, FinishPutIndInv
<1>5. ASSUME NEW k \in Keys, Get(k) PROVE MapInv'
  BY <1>5, GetIndInv
<1>6. ASSUME NEW k \in Keys, Del(k) PROVE MapInv'
  BY <1>6, DelIndInv
<1>7. ASSUME NEW k \in Keys, Hang(k) PROVE MapInv'
  BY <1>7 DEF Hang, MapInv, MapTypeOK
<1>8. CASE UNCHANGED mapVars
  BY <1>8 DEF mapVars, MapInv, MapTypeOK, Rehashing, DrainedCells
<1>9. CASE Spin
  BY <1>8, <1>9 DEF Spin
<1> QED
  BY <1>1, <1>2, <1>3, <1>4, <1>5, <1>6, <1>7, <1>8, <1>9 DEF MapNext

\* The id map keeps its invariant through every put, delete and step of a rehash.
THEOREM MapInvariant == MapSpec => []MapInv
<1> QED
  BY MapInvInit, MapInvStep, PTL DEF MapSpec

\* Type correctness of the id map.
THEOREM MapTypeCorrect == MapSpec => []MapTypeOK
<1>1. MapInv => MapTypeOK
  BY DEF MapInv
<1> QED
  BY <1>1, MapInvariant, PTL

\* No id is ever stored twice, whatever graves its probe passed.
THEOREM KeysUnique == MapSpec => []UniqueKeys
<1>1. MapInv => UniqueKeys
  BY DEF MapInv, GoodTable, UniqueKeys
<1> QED
  BY <1>1, MapInvariant, PTL

\* Neither a delete nor a reused grave cuts the probe chain of a stored id.
THEOREM ProbesReach == MapSpec => []ProbeReachable
<1>1. MapInv => ProbeReachable
  BY DEF MapInv, GoodTable, ProbeReachable
<1> QED
  BY <1>1, MapInvariant, PTL

\* map_used is exactly the number of live entries.
THEOREM UsedIsCount == MapSpec => []UsedCount
<1>1. MapInv => UsedCount
  BY DEF MapInv, GoodTable, UsedCount
<1> QED
  BY <1>1, MapInvariant, PTL

\* Live entries stay below 70% of the table after every call.
THEOREM LoadStaysLow == MapSpec => []LoadBound
<1>1. MapInv => LoadBound
  BY DEF MapInv, BelowLimit, LoadBound
<1> QED
  BY <1>1, MapInvariant, PTL

\* map_rehash never re-enters itself and its inner map_put always ends.
THEOREM RehashNeverNests == MapSpec => []NoNestedRehash
<1>1. MapInv => NoNestedRehash
  BY RehashRoom DEF NoNestedRehash
<1> QED
  BY <1>1, MapInvariant, PTL

-----------------------------------------------------------------------------
(***************************************************************************)
(* The table implements the abstract map.  What a table says is the set of *)
(* its entries; a rehash has moved those of the cells it has passed.       *)
(***************************************************************************)
Entries(t) == {t.cell[p] : p \in Used(t)}

Holds(t) == [k \in Keys |->
               IF \E p \in Used(t) : t.cell[p].key = k
               THEN t.cell[CHOOSE p \in Used(t) : t.cell[p].key = k].val
               ELSE NoVal]

Others(E, k) == {e \in E : e.key # k}

\* The mapping of a table is that of its entries.
LEMMA HoldsFacts ==
    ASSUME NEW t, GoodTable(t)
    PROVE  /\ \A k \in Keys : \A e \in Entries(t) : e.key = k => Holds(t)[k] = e.val
           /\ \A k \in Keys : (\A e \in Entries(t) : e.key # k) => Holds(t)[k] = NoVal
           /\ Entries(t) \subseteq Entry
<1>1. UniqueIn(t)
  BY DEF GoodTable
<1>2. ASSUME NEW k \in Keys, NEW e \in Entries(t), e.key = k
      PROVE  Holds(t)[k] = e.val
  <2>1. PICK p \in Used(t) : e = t.cell[p]
    BY DEF Entries
  <2>2. \A q \in Used(t) : t.cell[q].key = k => q = p
    BY <1>1, <1>2, <2>1 DEF UniqueIn
  <2>3. (CHOOSE q \in Used(t) : t.cell[q].key = k) = p
    BY <1>2, <2>1, <2>2
  <2> QED
    BY <1>2, <2>1, <2>3 DEF Holds
<1>3. ASSUME NEW k \in Keys, \A e \in Entries(t) : e.key # k
      PROVE  Holds(t)[k] = NoVal
  <2>1. \A p \in Used(t) : t.cell[p] \in Entries(t)
    BY DEF Entries
  <2>2. ~ \E p \in Used(t) : t.cell[p].key = k
    BY <1>3, <2>1
  <2> QED
    BY <2>2 DEF Holds
<1> QED
  BY <1>2, <1>3 DEF Entries, Used

\* Two tables with the same entries have the same mapping.
LEMMA SameHolds ==
    ASSUME NEW t, NEW u, GoodTable(t), GoodTable(u), Entries(t) = Entries(u)
    PROVE  Holds(t) = Holds(u)
<1>1. ASSUME NEW k \in Keys PROVE Holds(t)[k] = Holds(u)[k]
  <2>1. CASE \E e \in Entries(t) : e.key = k
    BY <2>1, HoldsFacts
  <2>2. CASE \A e \in Entries(t) : e.key # k
    BY <2>2, HoldsFacts
  <2> QED
    BY <2>1, <2>2
<1> QED
  BY <1>1 DEF Holds

\* map_put replaces the entry of its key, whichever cell it takes.
LEMMA StoreEntries ==
    ASSUME NEW t, GoodTable(t), t.cap > 0,
           NEW k \in Keys, NEW v \in Vals, Stops(t, k) # {}
    PROVE  Entries(PutInto(t, k, v)) = Others(Entries(t), k) \cup {[key |-> k, val |-> v]}
<1> DEFINE e == [key |-> k, val |-> v]
           s == Stop(t, k)
<1>0. IsTable(t) /\ UniqueIn(t) /\ ReachableIn(t) /\ t.used \in Nat /\ t.used + 1 \in Nat
  BY DEF GoodTable, IsTable
<1>1. e \in Entry /\ e.key = k
  BY DEF Entry
<1> HIDE DEF e
<1>2. CASE IsHit(t, k, s)
  <2> DEFINE w == WithCell(t, s, e, t.used)
  <2>1. PutInto(t, k, v) = w
    BY <1>2 DEF PutInto, e
  <2>2. s \in Used(t) /\ s \in Cells(t) /\ t.cell[s].key = k
    BY <1>0, <1>2, StopFacts DEF IsHit, Used
  <2>3. \A q \in Used(t) : t.cell[q].key = k => q = s
    BY <1>0, <2>2 DEF UniqueIn
  <2> HIDE DEF s
  <2>4. /\ \A q \in Cells(t) : w.cell[q] = IF q = s THEN e ELSE t.cell[q]
        /\ Used(w) = Used(t) \cup {s}
    BY <1>0, <1>1, <2>2, WithCellFacts
  <2> HIDE DEF w
  <2>5. \A q \in Used(t) : w.cell[q] = IF q = s THEN e ELSE t.cell[q]
    BY <2>4 DEF Used
  <2>6. Used(w) = Used(t)
    BY <2>2, <2>4
  <2>7. Entries(w) = Others(Entries(t), k) \cup {e}
    BY <1>1, <2>2, <2>3, <2>5, <2>6 DEF Entries, Others
  <2> QED
    BY <2>1, <2>7 DEF e
<1>3. CASE ~ IsHit(t, k, s)
  <2> DEFINE c == PutCell(t, k)
             w == WithCell(t, c, e, t.used + 1)
  <2>1. PutInto(t, k, v) = w
    BY <1>3 DEF PutInto, e
  <2>2. c \in Cells(t) /\ t.cell[c] \in {Empty, Erased}
    BY <1>0, <1>3, PutCellFacts
  <2>3. \A p \in Used(t) : t.cell[p].key # k
    BY <1>0, <1>3, StopFacts
  <2> HIDE DEF c
  <2>4. /\ \A q \in Cells(t) : w.cell[q] = IF q = c THEN e ELSE t.cell[q]
        /\ Used(w) = Used(t) \cup {c}
    BY <1>0, <1>1, <2>2, WithCellFacts
  <2> HIDE DEF w
  <2>5. c \notin Used(t)
    BY <2>2, IdMapAssumption DEF Used
  <2>6. w.cell[c] = e /\ \A q \in Used(t) : w.cell[q] = t.cell[q]
    BY <2>2, <2>4, <2>5 DEF Used
  <2>7. Entries(w) = Entries(t) \cup {e}
    BY <2>4, <2>6 DEF Entries
  <2>8. Others(Entries(t), k) = Entries(t)
    BY <2>3 DEF Entries, Others
  <2> QED
    BY <2>1, <2>7, <2>8 DEF e
<1> QED
  BY <1>2, <1>3

\* map_put, as its caller sees it.
LEMMA StoreHolds ==
    ASSUME NEW t, GoodTable(t), t.cap > 0,
           NEW k \in Keys, NEW v \in Vals, Stops(t, k) # {}
    PROVE  Holds(PutInto(t, k, v)) = [Holds(t) EXCEPT ![k] = v]
<1> DEFINE w == PutInto(t, k, v)
           e == [key |-> k, val |-> v]
<1>1. GoodTable(w) /\ Entries(w) = Others(Entries(t), k) \cup {e}
  BY StoreGood, StoreEntries
<1>2. e.key = k /\ e.val = v
  OBVIOUS
<1> HIDE DEF w, e
<1>3. ASSUME NEW x \in Keys
      PROVE  Holds(w)[x] = IF x = k THEN v ELSE Holds(t)[x]
  <2>1. CASE x = k
    BY <1>1, <1>2, <2>1, HoldsFacts
  <2>2. CASE x # k /\ \E f \in Entries(t) : f.key = x
    BY <1>1, <2>2, HoldsFacts DEF Others
  <2>3. CASE x # k /\ \A f \in Entries(t) : f.key # x
    BY <1>1, <1>2, <2>3, HoldsFacts DEF Others
  <2> QED
    BY <2>1, <2>2, <2>3
<1>4. /\ Holds(w) = [x \in Keys |-> Holds(w)[x]]
      /\ Holds(t) = [x \in Keys |-> Holds(t)[x]]
  BY DEF Holds
<1> QED
  BY <1>3, <1>4 DEF w

\* map_del, as its caller sees it.
LEMMA EraseHolds ==
    ASSUME NEW t, GoodTable(t), NEW k \in Keys, t.cap = 0 \/ Stops(t, k) # {}
    PROVE  Holds(Erase(t, k)) = [Holds(t) EXCEPT ![k] = NoVal]
<1> DEFINE s == Stop(t, k)
           w == Erase(t, k)
<1>0. IsTable(t) /\ UniqueIn(t) /\ ReachableIn(t) /\ t.cap \in Nat
  BY DEF GoodTable, IsTable
<1>1. Entries(w) = Others(Entries(t), k)
  <2>1. CASE t.cap = 0 \/ ~ IsHit(t, k, s)
    <3>1. w = t
      BY <2>1 DEF Erase
    <3>2. \A p \in Used(t) : t.cell[p].key # k
      <4>1. CASE t.cap = 0
        BY <1>0, <4>1 DEF Used, Cells
      <4>2. CASE t.cap # 0
        BY <1>0, <2>1, <4>2, StopFacts
      <4> QED
        BY <4>1, <4>2
    <3> QED
      BY <3>1, <3>2 DEF Entries, Others
  <2>2. CASE t.cap # 0 /\ IsHit(t, k, s)
    <3>1. w = WithCell(t, s, Erased, t.used - 1)
      BY <2>2 DEF Erase
    <3>2. s \in Used(t) /\ s \in Cells(t) /\ t.cell[s].key = k
      BY <1>0, <2>2, StopFacts DEF IsHit, Used
    <3>3. \A q \in Used(t) : t.cell[q].key = k => q = s
      BY <1>0, <3>2 DEF UniqueIn
    <3> HIDE DEF s
    <3>4. /\ w.cap = t.cap
          /\ w.cell = [q \in Cells(t) |-> IF q = s THEN Erased ELSE t.cell[q]]
      BY <3>1 DEF WithCell
    <3> HIDE DEF w
    <3>5. Used(w) = Used(t) \ {s}
      BY <3>4, IdMapAssumption DEF Used, Cells
    <3>6. \A q \in Used(w) : w.cell[q] = t.cell[q]
      BY <3>4, <3>5 DEF Used
    <3> QED
      BY <3>2, <3>3, <3>5, <3>6 DEF Entries, Others
  <2> QED
    BY <2>1, <2>2
<1>2. GoodTable(w)
  BY EraseGood
<1> HIDE DEF w
<1>3. ASSUME NEW x \in Keys
      PROVE  Holds(w)[x] = IF x = k THEN NoVal ELSE Holds(t)[x]
  <2>1. CASE x = k
    BY <1>1, <1>2, <2>1, HoldsFacts DEF Others
  <2>2. CASE x # k /\ \E f \in Entries(t) : f.key = x
    BY <1>1, <1>2, <2>2, HoldsFacts DEF Others
  <2>3. CASE x # k /\ \A f \in Entries(t) : f.key # x
    BY <1>1, <1>2, <2>3, HoldsFacts DEF Others
  <2> QED
    BY <2>1, <2>2, <2>3
<1>4. /\ Holds(w) = [x \in Keys |-> Holds(w)[x]]
      /\ Holds(t) = [x \in Keys |-> Holds(t)[x]]
  BY DEF Holds
<1> QED
  BY <1>3, <1>4 DEF w

\* map_get finds what the table holds.
LEMMA LookupHolds ==
    ASSUME NEW t, GoodTable(t), NEW k \in Keys, t.cap = 0 \/ Stops(t, k) # {}
    PROVE  Lookup(t, k) = Holds(t)[k]
<1> DEFINE s == Stop(t, k)
<1>0. IsTable(t) /\ ReachableIn(t) /\ t.cap \in Nat
  BY DEF GoodTable, IsTable
<1>1. CASE t.cap = 0
  <2>1. Entries(t) = {}
    BY <1>0, <1>1 DEF Entries, Used, Cells
  <2> QED
    BY <1>1, <2>1, HoldsFacts DEF Lookup
<1>2. CASE t.cap # 0 /\ IsHit(t, k, s)
  <2>1. t.cell[s] \in Entries(t) /\ t.cell[s].key = k
    BY <1>0, <1>2, StopFacts DEF IsHit, Used, Entries
  <2>2. Lookup(t, k) = t.cell[s].val
    BY <1>2 DEF Lookup
  <2> QED
    BY <2>1, <2>2, HoldsFacts
<1>3. CASE t.cap # 0 /\ ~ IsHit(t, k, s)
  <2>1. \A e \in Entries(t) : e.key # k
    BY <1>0, <1>3, StopFacts DEF Entries
  <2>2. Lookup(t, k) = NoVal
    BY <1>3 DEF Lookup
  <2> QED
    BY <2>1, <2>2, HoldsFacts
<1> QED
  BY <1>1, <1>2, <1>3

-----------------------------------------------------------------------------
\* While cells are moved the new table has the entries of the cells passed.
Moved == phase = "rehash" => Entries(table) = {drained.cell[p] : p \in DrainedCells}

LEMMA MovedStep ==
    ASSUME MapInv, Moved, [MapNext]_mapVars
    PROVE  Moved'
<1>1. ASSUME NEW k \in Keys, NEW v \in Vals, StartRehash(k, v) PROVE Moved'
  <2>1. table' = NewTable(NextCap(table)) /\ cursor' = 0 /\ drained' = table /\ NextCap(table) \in Nat
    BY <1>1, IdMapAssumption DEF StartRehash, MapInv, MapTypeOK, IsTable, NextCap
  <2>2. Used(table') = {}
    BY <2>1, IdMapAssumption DEF Used, Cells, NewTable
  <2>3. DrainedCells' = {}
    BY <2>1 DEF DrainedCells, Used, Cells, MapInv, MapTypeOK, IsTable
  <2> QED
    BY <2>2, <2>3 DEF Moved, Entries
<1>2. CASE RehashCell
  <2>1. /\ GoodTable(table) /\ GoodTable(drained) /\ MapTypeOK /\ phase = "rehash" /\ cursor < drained.cap
        /\ cursor' = cursor + 1 /\ UNCHANGED <<drained, pending, phase, got>> /\ table.cap >= 2
        /\ Entries(table) = {drained.cell[p] : p \in DrainedCells}
        /\ table.cap > 0 /\ cursor \in Nat /\ Used(drained) \subseteq Nat /\ UniqueIn(drained)
    <3>1. MapInv /\ phase = "rehash" /\ table.cap \in Nat
      BY <1>2 DEF RehashCell, MapInv, GoodTable, IsTable
    <3> QED
      BY <1>2, <3>1, RehashRoom
      DEF RehashCell, MapInv, Moved, GoodTable, MapTypeOK, Used, Cells, IsTable
  <2>2. DrainedCells' = IF cursor \in Used(drained) THEN DrainedCells \cup {cursor} ELSE DrainedCells
    BY <2>1, PassedFacts DEF DrainedCells
  <2>3. cursor \in Cells(drained) /\ (cursor \in Used(drained) <=> drained.cell[cursor] \in Entry)
    BY <2>1 DEF MapTypeOK, Used, Cells, IsTable
  <2>4. CASE cursor \in Used(drained)
    <3> DEFINE c == drained.cell[cursor]
    <3>1. c \in Entry /\ c = [key |-> c.key, val |-> c.val]
          /\ c.key \in Keys /\ c.val \in Vals
      BY <2>3, <2>4 DEF Entry
    <3>2. Stops(table, c.key) # {} /\ table' = PutInto(table, c.key, c.val)
      BY <1>2, <2>3, <2>4 DEF RehashCell
    <3>3. Entries(table') = Others(Entries(table), c.key) \cup {c}
      <4> HIDE DEF c
      <4> QED BY <2>1, <3>1, <3>2, StoreEntries
    <3>4. \A p \in DrainedCells : drained.cell[p].key # c.key
      <4>1. \A p \in DrainedCells : p \in Used(drained) /\ p # cursor
        BY <2>1 DEF DrainedCells
      <4> QED
        BY <2>1, <2>4, <4>1 DEF UniqueIn
    <3>5. Others(Entries(table), c.key) = Entries(table)
      BY <2>1, <3>4 DEF Others
    <3> HIDE DEF c
    <3>6. Entries(table') = {drained.cell[p] : p \in DrainedCells \cup {cursor}}
      BY <2>1, <3>3, <3>5 DEF c
    <3> QED
      BY <2>1, <2>2, <2>4, <3>6 DEF Moved
  <2>5. CASE cursor \notin Used(drained)
    BY <1>2, <2>1, <2>2, <2>3, <2>5 DEF RehashCell, Moved
  <2> QED
    BY <2>4, <2>5
<1>3. ASSUME phase' # "rehash" PROVE Moved'
  BY <1>3 DEF Moved
<1>4. CASE UNCHANGED mapVars
  BY <1>4 DEF mapVars, Moved, Entries, DrainedCells
<1>5. ASSUME NEW k \in Keys, NEW v \in Vals, Put(k, v) PROVE Moved'
  BY <1>3, <1>5 DEF Put, Idle
<1>6. ASSUME NEW k \in Keys, Get(k) \/ Del(k) \/ Hang(k) PROVE Moved'
  BY <1>3, <1>6 DEF Get, Del, Hang, Idle
<1>7. CASE FinishPut
  BY <1>3, <1>7 DEF FinishPut
<1>8. CASE Spin
  BY <1>4, <1>8 DEF Spin
<1> QED
  BY <1>1, <1>2, <1>4, <1>5, <1>6, <1>7, <1>8 DEF MapNext

LEMMA MovedInvariant == MapSpec => []Moved
<1>1. MapInit => Moved
  BY DEF MapInit, Moved
<1>2. MapInv /\ Moved /\ [MapNext]_mapVars => Moved'
  BY MovedStep
<1> QED
  BY <1>1, <1>2, MapInvariant, PTL DEF MapSpec

\* Every step of the hash table is a step of the abstract map or, as the start
\* of a rehash and each of its turns, none at all.
LEMMA MapStepImplements ==
    ASSUME MapInv, Moved, [MapNext]_mapVars
    PROVE  [Table!Next]_(Table!vars)
<1> USE DEF Table!Next, Table!vars, Table!Put, Table!Get, Table!Del
<1>0. /\ GoodTable(table) /\ GoodTable(drained) /\ MapTypeOK /\ table.cap \in Nat
      /\ Mapping = Holds(Live) /\ Mapping' = Holds(Live')
  BY DEF MapInv, GoodTable, IsTable, Mapping, Holds
<1>1. ASSUME NEW k \in Keys, NEW v \in Vals, Put(k, v)
      PROVE  [Table!Next]_(Table!vars)
  <2>1. table' = PutInto(table, k, v) /\ phase = "idle" /\ phase' = phase /\ got' = got
        /\ Stops(table, k) # {} /\ table.cap > 0
    BY <1>0, <1>1 DEF Put, Idle, Stops, Cells
  <2>2. Mapping' = [Mapping EXCEPT ![k] = v]
    BY <1>0, <2>1, StoreHolds DEF Live
  <2> QED
    BY <2>1, <2>2
<1>2. ASSUME NEW k \in Keys, NEW v \in Vals, StartRehash(k, v)
      PROVE  [Table!Next]_(Table!vars)
  <2>1. Live' = Live /\ got' = got
    BY <1>2 DEF StartRehash, Live
  <2> QED
    BY <1>0, <2>1
<1>3. CASE RehashCell
  <2>1. Live' = Live /\ got' = got
    BY <1>3 DEF RehashCell, Live
  <2> QED
    BY <1>0, <2>1
<1>4. CASE FinishPut
  <2> DEFINE k == pending[1]
             v == pending[2]
  <2>1. /\ k \in Keys /\ v \in Vals /\ phase = "rehash" /\ phase' = "idle" /\ got' = got
        /\ Stops(table, k) # {} /\ table' = PutInto(table, k, v) /\ cursor = drained.cap /\ table.cap > 0
    BY <1>0, <1>4, RehashRoom DEF FinishPut, MapTypeOK
  <2>2. DrainedCells = Used(drained)
    BY <1>0, <2>1 DEF DrainedCells, Used, Cells, MapTypeOK, IsTable
  <2>3. Entries(table) = Entries(drained)
    BY <2>1, <2>2 DEF Moved, Entries
  <2>4. Holds(table) = Mapping
    BY <1>0, <2>1, <2>3, SameHolds DEF Live
  <2>5. Holds(table') = [Holds(table) EXCEPT ![k] = v]
    BY <1>0, <2>1, StoreHolds
  <2>6. Mapping' = [Mapping EXCEPT ![k] = v]
    BY <1>0, <2>1, <2>4, <2>5 DEF Live
  <2> HIDE DEF k, v
  <2> QED
    BY <2>1, <2>6
<1>5. ASSUME NEW k \in Keys, Get(k)
      PROVE  [Table!Next]_(Table!vars)
  <2>1. table' = table /\ phase = "idle" /\ phase' = phase /\ got' = Lookup(table, k)
        /\ (table.cap = 0 \/ Stops(table, k) # {})
    BY <1>5 DEF Get, Idle
  <2>2. Lookup(table, k) = Holds(table)[k]
    BY <1>0, <2>1, LookupHolds
  <2>3. Mapping' = Mapping /\ got' = Mapping[k]
    BY <1>0, <2>1, <2>2 DEF Live
  <2> QED
    BY <2>3
<1>6. ASSUME NEW k \in Keys, Del(k)
      PROVE  [Table!Next]_(Table!vars)
  <2>1. table' = Erase(table, k) /\ phase = "idle" /\ phase' = phase /\ got' = got
        /\ (table.cap = 0 \/ Stops(table, k) # {})
    BY <1>6 DEF Del, Idle
  <2>2. Mapping' = [Mapping EXCEPT ![k] = NoVal]
    BY <1>0, <2>1, EraseHolds DEF Live
  <2> QED
    BY <2>1, <2>2
<1>7. ASSUME NEW k \in Keys, Hang(k)
      PROVE  [Table!Next]_(Table!vars)
  <2>1. Live' = Live /\ got' = got
    BY <1>7 DEF Hang, Live
  <2> QED
    BY <1>0, <2>1
<1>8. CASE UNCHANGED mapVars \/ Spin
  <2>1. Live' = Live /\ got' = got
    BY <1>8 DEF mapVars, Spin, Live
  <2> QED
    BY <1>0, <2>1
<1> QED
  BY <1>1, <1>2, <1>3, <1>4, <1>5, <1>6, <1>7, <1>8 DEF MapNext

\* The hash table, with its collisions, graves and rehashes, implements the
\* abstract map, for every hash function and every history of calls.
THEOREM ImplementsTable == MapSpec => TableSpec
<1>1. MapInit => Table!Init
  <2> SUFFICES ASSUME MapInit PROVE Table!Init
    OBVIOUS
  <2>1. GoodTable(table) /\ Used(table) = {} /\ phase = "idle" /\ got = NoVal
    <3>1. GoodTable(NoTable)
      BY NewTableGood DEF NoTable
    <3>2. Used(NoTable) = {}
      BY DEF NoTable, NewTable, Used, Cells
    <3> QED
      BY <3>1, <3>2 DEF MapInit
  <2>2. Mapping = [k \in Keys |-> NoVal]
    BY <2>1 DEF Mapping, Live
  <2> QED
    BY <2>1, <2>2 DEF Table!Init
<1>2. MapInv /\ Moved /\ [MapNext]_mapVars => [Table!Next]_(Table!vars)
  BY MapStepImplements
<1> QED
  BY <1>1, <1>2, MapInvariant, MovedInvariant, PTL DEF MapSpec, TableSpec, Table!Spec

-----------------------------------------------------------------------------
(***************************************************************************)
(* The inductive invariant.  Between calls the database is well formed up  *)
(* to its count; during phase 1a of a bulk insert it is well formed up to  *)
(* the slots written, which are live, and the ids still to come are        *)
(* distinct and absent; during a compaction the new database holds, under  *)
(* the ids of the live slots passed, as many slots as there were.          *)
(***************************************************************************)
IdleIndex == pc \in {"idle", "grow"} => i = 0

Storing == /\ db.count + Len(batch) <= db.cap
           /\ i <= Len(batch)
           /\ ~ \E j, k \in 1 .. Len(batch) : j # k /\ batch[j].id = batch[k].id
           /\ \A j \in 1 .. Len(batch) : j > i => Absent(db, batch[j].id)
           /\ \A s \in db.count .. db.count + i - 1 : IsLive(db, s)

PassedLive == {s \in LiveSlots(db) : s < i}

Compacting == /\ i <= db.count
              /\ nd.cap = CompactCap(db)
              /\ nd.count = Cardinality(PassedLive)
              /\ \A s \in LiveSlots(nd) : \E p \in PassedLive :
                    nd.slot[s].id = db.slot[p].id

IndInv == /\ TypeOK
          /\ db.cap > 0
          /\ Good(db, Written)
          /\ Good(nd, nd.count)
          /\ IdleIndex
          /\ pc = "store" => Storing
          /\ pc = "compact" => Compacting

LEMMA InitIndInv == Init => IndInv
<1> SUFFICES ASSUME Init PROVE IndInv
  OBVIOUS
<1>1. /\ Good(db, 0) /\ db.cap = InitialCap /\ db.count = 0
      /\ Good(nd, 0) /\ nd.count = 0
  BY FreshGood, VecDBAssumption DEF Init
<1>2. Written = 0
  BY <1>1 DEF Written, Init
<1> QED
  BY <1>1, <1>2, VecDBAssumption DEF Init, IndInv, TypeOK, Good, IdleIndex, Outcomes

\* Between calls, and outside phase 1a, the database is good up to its count.
LEMMA GoodUnlessStoring ==
    ASSUME IndInv, pc # "store"
    PROVE  Good(db, db.count)
BY DEF IndInv, Written

\* Every action that returns leaves the bookkeeping of a call empty.
LEMMA ReturnIndInv ==
    ASSUME NEW r \in Outcomes, Return(r),
           Good(db', db'.count), db'.cap > 0
    PROVE  IndInv'
<1>1. /\ pc' = "idle" /\ nd' = Fresh(0) /\ batch' = <<>> /\ i' = 0 /\ ret' = r
  BY DEF Return
<1>2. Good(nd', nd'.count)
  BY <1>1, FreshGood
<1>3. Written' = db'.count
  BY <1>1 DEF Written
<1>4. TypeOK'
  BY <1>1, <1>2 DEF TypeOK, Good
<1> QED
  BY <1>1, <1>2, <1>3, <1>4 DEF IndInv, IdleIndex

\* Every one-step call leaves the bookkeeping of a call alone.
LEMMA CallIndInv ==
    ASSUME IndInv, Call, ret' \in Outcomes,
           Good(db', db'.count), db'.cap > 0
    PROVE  IndInv'
<1>1. pc' = "idle" /\ pc = "idle" /\ nd' = nd /\ batch' = batch /\ i' = i
  BY DEF Call
<1>2. Written' = db'.count
  BY <1>1 DEF Written
<1>3. TypeOK'
  BY <1>1 DEF TypeOK, Good, IndInv
<1> QED
  BY <1>1, <1>2, <1>3 DEF IndInv, IdleIndex

LEMMA AddIndInv ==
    ASSUME IndInv, NEW id \in Ids, NEW v \in Vecs, Add(id, v)
    PROVE  IndInv'
<1>1. Call /\ db' = AddTo(db, id, v) /\ ret' \in Outcomes
  BY DEF Add, Outcomes
<1>2. Good(db, db.count) /\ db.cap > 0 /\ db.cap \in Nat
  BY <1>1, GoodUnlessStoring DEF Call, IndInv, TypeOK, IsBody
<1>3. Good(db', db'.count) /\ db'.cap >= db.cap /\ db'.cap \in Nat
  BY <1>1, <1>2, AddGood DEF Good, IsBody
<1>4. db'.cap > 0
  BY <1>2, <1>3
<1> QED
  BY <1>1, <1>3, <1>4, CallIndInv

LEMMA DeleteIndInv ==
    ASSUME IndInv, NEW id \in Ids, Delete(id)
    PROVE  IndInv'
<1>1. Call /\ ret' \in Outcomes
  BY DEF Delete, Outcomes
<1>2. Good(db, db.count) /\ db.cap > 0
  BY <1>1, GoodUnlessStoring DEF Call, IndInv
<1>3. Good(db', db'.count) /\ db'.cap > 0
  <2>1. CASE Absent(db, id)
    BY <1>2, <2>1 DEF Delete
  <2>2. CASE ~ Absent(db, id)
    <3>1. db' = Bury(db, id)
      BY <2>2 DEF Delete
    <3> QED
      BY <1>2, <2>2, <3>1, BuryGood
  <2> QED
    BY <2>1, <2>2
<1> QED
  BY <1>1, <1>3, CallIndInv

LEMMA BulkBeginIndInv ==
    ASSUME IndInv, NEW n \in 1 .. MaxBatch, NEW b \in [1 .. n -> Items], BulkBegin(b)
    PROVE  IndInv'
<1>1. /\ pc = "idle" /\ pc' = "grow" /\ batch' = b
      /\ db' = db /\ nd' = nd /\ i' = i /\ ret' = ret
  BY DEF BulkBegin
<1>2. b \in Seq(Items)
  BY VecDBAssumption
<1>3. Written' = Written
  BY <1>1 DEF Written
<1> QED
  BY <1>1, <1>2, <1>3 DEF IndInv, TypeOK, IdleIndex

LEMMA BulkGrowIndInv ==
    ASSUME IndInv, BulkGrow
    PROVE  IndInv'
<1>1. /\ pc = "grow" /\ db' = Grow(db)
      /\ nd' = nd /\ batch' = batch /\ i' = i /\ pc' = pc /\ ret' = ret
  BY DEF BulkGrow, BulkShort
<1>2. Good(db, db.count) /\ db.cap > 0 /\ db.cap \in Nat
  BY <1>1, GoodUnlessStoring DEF IndInv, TypeOK, IsBody
<1>3. Good(db', db'.count) /\ db'.cap > 0
  <2>1. Good(db', db.count) /\ db'.cap = db.cap * 2 /\ db'.count = db.count
    BY <1>1, <1>2, GrowGood
  <2> QED
    BY <1>2, <2>1
<1>4. Written' = db'.count
  BY <1>1 DEF Written
<1> QED
  BY <1>1, <1>3, <1>4 DEF IndInv, TypeOK, Good, IdleIndex

LEMMA BulkAcceptIndInv ==
    ASSUME IndInv, BulkAccept
    PROVE  IndInv'
<1>1. /\ pc = "grow" /\ pc' = "store" /\ ~ Duplicate(db, batch)
      /\ db' = db /\ nd' = nd /\ batch' = batch /\ i' = i /\ ret' = ret
      /\ ~ (db.count + Len(batch) > db.cap)
  BY DEF BulkAccept, BulkShort
<1>2. /\ Good(db, db.count) /\ batch \in Seq(Items) /\ db.cap \in Nat
      /\ db.count \in Nat /\ Len(batch) \in Nat /\ i \in Nat
  BY <1>1, GoodUnlessStoring DEF IndInv, TypeOK, IsBody
<1>3. i = 0
  BY <1>1 DEF IndInv, IdleIndex
<1>4. Storing'
  BY <1>1, <1>2, <1>3 DEF Storing, Duplicate
<1>5. Written' = db.count
  BY <1>1, <1>2, <1>3 DEF Written
<1> QED
  BY <1>1, <1>2, <1>4, <1>5 DEF IndInv, TypeOK, IdleIndex

LEMMA BulkStoreIndInv ==
    ASSUME IndInv, BulkStore
    PROVE  IndInv'
<1> DEFINE item == batch[i + 1]
           n == db.count + i
<1>1. /\ pc = "store" /\ pc' = pc /\ i < Len(batch) /\ i' = i + 1
      /\ db' = Fill(db, n, item.id, item.vec)
      /\ nd' = nd /\ batch' = batch /\ ret' = ret
  BY DEF BulkStore
<1>2. /\ Good(db, n) /\ Storing /\ batch \in Seq(Items) /\ i \in Nat
      /\ db.cap \in Nat /\ db.count \in Nat /\ Len(batch) \in Nat
  BY <1>1 DEF IndInv, TypeOK, IsBody, Written
<1>3. /\ i + 1 \in 1 .. Len(batch) /\ item \in Items
      /\ item.id \in Ids /\ item.vec \in Vecs /\ Absent(db, item.id)
      /\ n < db.cap /\ n \in Nat
  <2>1. i + 1 \in 1 .. Len(batch) /\ n < db.cap /\ n \in Nat
    BY <1>1, <1>2 DEF Storing
  <2>2. item \in Items
    BY <1>2, <2>1
  <2>3. Absent(db, item.id)
    BY <1>2, <2>1 DEF Storing
  <2> QED
    BY <2>1, <2>2, <2>3 DEF Items
<1>4. /\ Good(db', n + 1)
      /\ db'.cap = db.cap /\ db'.count = db.count
      /\ db'.slot[n] = [id |-> item.id, vec |-> item.vec, dead |-> FALSE]
      /\ \A s \in 0 .. db.cap - 1 : s # n => db'.slot[s] = db.slot[s]
      /\ \A k \in Ids : db'.map[k] = IF k = item.id THEN n ELSE db.map[k]
  <2> HIDE DEF n, item
  <2> QED BY <1>1, <1>2, <1>3, FillGood
<1>5. Written' = n + 1
  BY <1>1, <1>2, <1>4 DEF Written
<1>6. Storing'
  <2>1. \A j \in 1 .. Len(batch) : j > i + 1 => Absent(db', batch[j].id)
    <3> SUFFICES ASSUME NEW j \in 1 .. Len(batch), j > i + 1
                 PROVE  Absent(db', batch[j].id)
      OBVIOUS
    <3>0. \A k \in 1 .. Len(batch) : batch[k] \in Items
      BY <1>2
    <3>1. batch[j].id \in Ids
      BY <3>0 DEF Items
    <3>2. batch[j].id # item.id /\ Absent(db, batch[j].id)
      BY <1>2, <1>3 DEF Storing
    <3> QED
      BY <1>4, <3>1, <3>2 DEF Absent
  <2>2. \A s \in db.count .. n : IsLive(db', s)
    <3>1. IsLive(db', n)
      BY <1>3, <1>4 DEF IsLive, Slot, Items
    <3>2. \A s \in db.count .. n - 1 : IsLive(db', s)
      <4> SUFFICES ASSUME NEW s \in db.count .. n - 1 PROVE IsLive(db', s)
        OBVIOUS
      <4>1. IsLive(db, s)
        BY <1>2 DEF Storing
      <4>2. s \in 0 .. db.cap - 1 /\ s # n
        BY <1>2, <1>3
      <4> QED
        BY <1>4, <4>1, <4>2 DEF IsLive
    <3> QED
      BY <1>2, <1>3, <3>1, <3>2
  <2> QED
    BY <1>1, <1>2, <1>4, <2>1, <2>2 DEF Storing
<1>7. TypeOK'
  BY <1>1, <1>2, <1>4 DEF TypeOK, IndInv, Good
<1> QED
  BY <1>1, <1>4, <1>5, <1>6, <1>7 DEF IndInv, IdleIndex

LEMMA BulkFinishIndInv ==
    ASSUME IndInv, BulkFinish
    PROVE  IndInv'
<1>1. /\ pc = "store" /\ i = Len(batch) /\ db' = Count(db, Len(batch))
      /\ Return("bulk")
  BY DEF BulkFinish
<1>2. /\ Good(db, db.count + i) /\ Storing /\ i \in Nat /\ db.cap > 0
      /\ batch \in Seq(Items)
  BY <1>1 DEF IndInv, TypeOK, Written
<1>3. /\ Good(db', db'.count) /\ db'.cap = db.cap
  BY <1>1, <1>2, CountGood DEF Storing
<1> QED
  BY <1>1, <1>2, <1>3, ReturnIndInv DEF Outcomes

LEMMA CompactBeginIndInv ==
    ASSUME IndInv, CompactBegin
    PROVE  IndInv'
<1>1. /\ pc = "idle" /\ pc' = "compact" /\ nd' = Fresh(CompactCap(db))
      /\ db' = db /\ batch' = batch /\ i' = i /\ ret' = ret
  BY DEF CompactBegin
<1>2. /\ Good(db, db.count) /\ TypeOK /\ db.alive \in Nat /\ db.count \in Nat /\ i = 0
  BY <1>1, GoodUnlessStoring DEF IndInv, TypeOK, IsBody, IdleIndex
<1>3. CompactCap(db) \in Nat
  BY <1>2, VecDBAssumption DEF CompactCap
<1>4. Good(nd', 0) /\ nd'.cap = CompactCap(db) /\ nd'.count = 0
  BY <1>1, <1>3, FreshGood
<1>5. LiveSlots(nd') = {}
  BY <1>4 DEF LiveSlots
<1>6. PassedLive' = {}
  BY <1>1, <1>2 DEF PassedLive, LiveSlots
<1>7. Compacting'
  BY <1>1, <1>2, <1>4, <1>5, <1>6, FS_EmptySet DEF Compacting, CompactCap
<1>8. TypeOK'
  BY <1>1, <1>2, <1>4 DEF TypeOK, Good
<1>9. Written' = db.count
  BY <1>1 DEF Written
<1> QED
  BY <1>1, <1>2, <1>4, <1>7, <1>8, <1>9 DEF IndInv, IdleIndex

\* While a compaction runs, the next live slot finds its id absent from the
\* new database, and the new database still below its capacity.
LEMMA CompactRoom ==
    ASSUME IndInv, pc = "compact", NEW s \in LiveSlots(db), s >= i
    PROVE  /\ db.slot[s].id \in Ids /\ db.slot[s].vec \in Vecs
           /\ Absent(nd, db.slot[s].id)
           /\ nd.count < nd.cap
<1>1. /\ Good(db, db.count) /\ Good(nd, nd.count) /\ Compacting
      /\ db.alive = Cardinality(LiveSlots(db)) /\ MapExactFor(db, db.count)
      /\ MapExactFor(nd, nd.count) /\ nd.map \in [Ids -> Int]
      /\ i \in Nat /\ db.count \in Nat /\ nd.count \in Nat
  BY GoodUnlessStoring DEF IndInv, Good, TypeOK, IsBody
<1>2. db.slot[s] \in Slot /\ db.slot[s].id \in Ids /\ db.slot[s].vec \in Vecs
  BY DEF LiveSlots, IsLive, Slot
<1>3. Absent(nd, db.slot[s].id)
  <2> SUFFICES ASSUME ~ Absent(nd, db.slot[s].id) PROVE FALSE
    OBVIOUS
  <2> DEFINE t == nd.map[db.slot[s].id]
  <2>1. t \in Mapped(nd, nd.count) /\ nd.slot[t].id = db.slot[s].id
    BY <1>1, <1>2 DEF MapExactFor, Absent
  <2>2. t \in LiveSlots(nd)
    BY <2>1 DEF LiveSlots, Mapped
  <2>3. PICK p \in PassedLive : nd.slot[t].id = db.slot[p].id
    BY <1>1, <2>2 DEF Compacting
  <2>4. p \in Mapped(db, db.count) /\ s \in Mapped(db, db.count) /\ p < i
    BY <2>3 DEF PassedLive, LiveSlots, Mapped
  <2>5. p = s
    <3>1. db.map[db.slot[p].id] = p /\ db.map[db.slot[s].id] = s
      BY <1>1, <2>4 DEF MapExactFor
    <3>2. db.slot[p].id = db.slot[s].id
      BY <2>1, <2>3
    <3> QED
      BY <3>1, <3>2
  <2> QED
    BY <1>1, <2>4, <2>5 DEF Mapped
<1>4. nd.count < nd.cap
  <2>1. IsFiniteSet(LiveSlots(db)) /\ Cardinality(LiveSlots(db)) \in Nat
    BY <1>1, LiveFinite DEF Good
  <2>2. PassedLive \in SUBSET LiveSlots(db) /\ s \notin PassedLive
    BY <1>1 DEF PassedLive, LiveSlots
  <2>3. /\ Cardinality(PassedLive) <= Cardinality(LiveSlots(db))
        /\ Cardinality(PassedLive) # Cardinality(LiveSlots(db))
    BY <2>1, <2>2, FS_Subset
  <2>4. IsFiniteSet(PassedLive) /\ Cardinality(PassedLive) \in Nat
    BY <2>1, <2>2, FS_Subset, FS_CardinalityType
  <2>5. nd.count < db.alive
    BY <1>1, <2>1, <2>3, <2>4 DEF Compacting
  <2>6. nd.cap = db.alive
    BY <1>1, <2>1, <2>5 DEF Compacting, CompactCap
  <2> QED
    BY <2>5, <2>6
<1> QED
  BY <1>2, <1>3, <1>4

LEMMA CompactStepIndInv ==
    ASSUME IndInv, CompactStep
    PROVE  IndInv'
<1>1. pc = "compact" /\ i < db.count /\ db' = db
  BY DEF CompactStep
<1>2. /\ Good(db, db.count) /\ db.cap > 0 /\ Good(nd, nd.count) /\ Compacting /\ TypeOK
      /\ i \in Nat /\ db.count \in Nat /\ nd.count \in Nat /\ nd.cap \in Nat
  BY <1>1, GoodUnlessStoring DEF IndInv, TypeOK, IsBody
<1>3. i \in LiveSlots(db) <=> IsLive(db, i)
  BY <1>1, <1>2 DEF LiveSlots
<1>4. Written' = db.count /\ (pc' = "compact" => i' = i + 1)
  <2>1. pc' # "store"
    BY <1>1 DEF CompactStep, Return
  <2> QED
    BY <1>1, <2>1 DEF Written, CompactStep, Return
<1>5. CASE ~ IsLive(db, i)
  <2>1. nd' = nd /\ i' = i + 1 /\ batch' = batch /\ pc' = pc /\ ret' = ret
    BY <1>5 DEF CompactStep
  <2>2. PassedLive' = PassedLive
    BY <1>1, <1>2, <1>3, <1>5, <2>1 DEF PassedLive, LiveSlots
  <2>3. Compacting'
    BY <1>1, <1>2, <2>1, <2>2 DEF Compacting
  <2> QED
    BY <1>1, <1>2, <1>4, <2>1, <2>3 DEF IndInv, TypeOK, IdleIndex
<1>6. CASE IsLive(db, i)
  <2> DEFINE id == db.slot[i].id
             v == db.slot[i].vec
  <2>1. id \in Ids /\ v \in Vecs /\ Absent(nd, id) /\ nd.count < nd.cap
    BY <1>1, <1>2, <1>3, <1>6, CompactRoom
  <2>2. /\ nd' = AddTo(nd, id, v) /\ i' = i + 1
        /\ batch' = batch /\ pc' = pc /\ ret' = ret
    BY <1>6, <2>1 DEF CompactStep
  <2>3. /\ Good(nd', nd'.count) /\ nd'.cap = nd.cap
        /\ \A s \in 0 .. nd.count - 1 : nd'.slot[s] = nd.slot[s]
        /\ nd'.count = nd.count + 1
        /\ nd'.slot[nd.count] = [id |-> id, vec |-> v, dead |-> FALSE]
        /\ LiveSlots(nd') = LiveSlots(nd) \cup {nd.count}
    <3> HIDE DEF id, v
    <3>1. nd.cap > 0
      BY <1>2, <2>1
    <3> QED
      BY <1>2, <2>1, <2>2, <3>1, AddGood
  <2>4. PassedLive' = PassedLive \cup {i} /\ i \notin PassedLive
    BY <1>1, <1>2, <1>3, <1>6, <2>2 DEF PassedLive, LiveSlots
  <2>5. nd'.count = Cardinality(PassedLive')
    <3>1. IsFiniteSet(LiveSlots(db)) /\ PassedLive \in SUBSET LiveSlots(db)
      BY <1>2, LiveFinite DEF Good, PassedLive
    <3>2. IsFiniteSet(PassedLive)
      BY <3>1, FS_Subset
    <3>3. Cardinality(PassedLive \cup {i}) = Cardinality(PassedLive) + 1
      BY <2>4, <3>2, FS_AddElement
    <3> QED
      BY <1>2, <2>3, <2>4, <3>3 DEF Compacting
  <2>6. \A s \in LiveSlots(nd') : \E p \in PassedLive' :
           nd'.slot[s].id = db.slot[p].id
    <3> SUFFICES ASSUME NEW s \in LiveSlots(nd')
                 PROVE  \E p \in PassedLive' : nd'.slot[s].id = db.slot[p].id
      OBVIOUS
    <3>1. CASE s = nd.count
      <4>1. nd'.slot[s].id = db.slot[i].id /\ i \in PassedLive'
        BY <2>3, <2>4, <3>1
      <4> QED
        BY <4>1
    <3>2. CASE s \in LiveSlots(nd)
      <4>1. PICK p \in PassedLive : nd.slot[s].id = db.slot[p].id
        BY <1>2, <3>2 DEF Compacting
      <4>2. nd'.slot[s] = nd.slot[s] /\ p \in PassedLive'
        BY <2>3, <2>4, <3>2 DEF LiveSlots
      <4> QED
        BY <4>1, <4>2
    <3> QED
      BY <2>3, <3>1, <3>2
  <2>7. Compacting'
    BY <1>1, <1>2, <2>2, <2>3, <2>5, <2>6 DEF Compacting
  <2>8. TypeOK'
    BY <1>1, <1>2, <2>2, <2>3 DEF TypeOK, Good
  <2> QED
    BY <1>1, <1>2, <1>4, <2>2, <2>3, <2>7, <2>8 DEF IndInv, IdleIndex
<1> QED
  BY <1>5, <1>6

LEMMA CompactSwapIndInv ==
    ASSUME IndInv, CompactSwap
    PROVE  IndInv'
<1>1. /\ pc = "compact" /\ i = db.count /\ db' = nd /\ Return("compacted")
  BY DEF CompactSwap
<1>2. /\ Good(db, db.count) /\ Good(nd, nd.count) /\ nd.cap = CompactCap(db)
      /\ db.alive \in Nat
  BY <1>1, GoodUnlessStoring DEF IndInv, Compacting, TypeOK, IsBody
<1>3. CompactCap(db) > 0
  BY <1>2, VecDBAssumption DEF CompactCap
<1> QED
  BY <1>1, <1>2, <1>3, ReturnIndInv DEF Outcomes

\* The invariant is inductive: one lemma per action.
THEOREM IndInvStep == IndInv /\ [Next]_vars => IndInv'
<1> SUFFICES ASSUME IndInv, [Next]_vars PROVE IndInv'
  OBVIOUS
<1>1. ASSUME NEW id \in Ids, NEW v \in Vecs, Add(id, v) PROVE IndInv'
  BY <1>1, AddIndInv
<1>2. ASSUME NEW id \in Ids, Delete(id) PROVE IndInv'
  BY <1>2, DeleteIndInv
<1>3. ASSUME NEW n \in 1 .. MaxBatch, NEW b \in [1 .. n -> Items], BulkBegin(b)
      PROVE  IndInv'
  BY <1>3, BulkBeginIndInv
<1>4. CASE BulkGrow
  BY <1>4, BulkGrowIndInv
<1>5. CASE BulkNoMemory \/ BulkReject
  <2>1. pc = "grow" /\ Return("fail") /\ db' = db
    BY <1>5 DEF BulkNoMemory, BulkReject, BulkShort
  <2>2. Good(db, db.count) /\ db.cap > 0
    BY <2>1, GoodUnlessStoring DEF IndInv
  <2> QED
    BY <2>1, <2>2, ReturnIndInv DEF Outcomes
<1>6. CASE BulkAccept
  BY <1>6, BulkAcceptIndInv
<1>7. CASE BulkStore
  BY <1>7, BulkStoreIndInv
<1>8. CASE BulkFinish
  BY <1>8, BulkFinishIndInv
<1>9. CASE CompactNothing
  <2>1. Call /\ ret' = "compacted" /\ db' = db
    BY <1>9 DEF CompactNothing
  <2>2. Good(db, db.count) /\ db.cap > 0
    BY <2>1, GoodUnlessStoring DEF Call, IndInv
  <2> QED
    BY <2>1, <2>2, CallIndInv DEF Outcomes
<1>10. CASE CompactBegin
  BY <1>10, CompactBeginIndInv
<1>11. CASE CompactStep
  BY <1>11, CompactStepIndInv
<1>12. CASE CompactSwap
  BY <1>12, CompactSwapIndInv
<1>13. CASE UNCHANGED vars
  BY <1>13 DEF vars, IndInv, TypeOK, Written, IdleIndex, Storing, Compacting, PassedLive
<1> QED
  BY <1>1, <1>2, <1>3, <1>4, <1>5, <1>6, <1>7, <1>8, <1>9, <1>10, <1>11, <1>12, <1>13
     DEF Next

\* The storage keeps its invariant through every call, and inside bulk_insert and
\* vecdb_compact.
THEOREM IndInvariant == Spec => []IndInv
<1> QED
  BY InitIndInv, IndInvStep, PTL DEF Spec

\* Type correctness of the storage.
THEOREM TypeCorrect == Spec => []TypeOK
<1>1. IndInv => TypeOK
  BY DEF IndInv
<1> QED
  BY <1>1, IndInvariant, PTL

\* No slot is counted that was not allocated and written.
THEOREM CountedIsStored == Spec => []CountWithinCap
<1>1. ASSUME IndInv PROVE CountWithinCap
  <2>1. /\ db.count \in Nat /\ nd.count \in Nat /\ i \in Nat /\ Written \in Nat
        /\ db.count <= Written
        /\ Good(db, Written) /\ Good(nd, nd.count)
    BY <1>1 DEF IndInv, TypeOK, IsBody, Written, Good
  <2>2. db.cap \in Nat /\ nd.cap \in Nat
    BY <2>1 DEF Good, IsBody
  <2> QED
    BY <2>1, <2>2 DEF CountWithinCap, Good
<1> QED
  BY <1>1, IndInvariant, PTL

\* vecdb_count is the number of live slots.
THEOREM AliveIsExact == Spec => []AliveExact
<1>1. IndInv => AliveExact
  BY DEF IndInv, Good, AliveExact
<1> QED
  BY <1>1, IndInvariant, PTL

\* The id map and the live slots are inverse to each other.
THEOREM MapIsExact == Spec => []MapExact
<1>1. IndInv => MapExact
  BY DEF IndInv, Good, MapExact
<1> QED
  BY <1>1, IndInvariant, PTL

\* A compaction never runs out of room and never meets a duplicate.
THEOREM CompactNeverFails == Spec => []CompactFits
<1>1. IndInv => CompactFits
  BY CompactRoom DEF CompactFits, IndInv, Compacting, PassedLive
<1> QED
  BY <1>1, IndInvariant, PTL

\* Between compactions a slot keeps its id and vector and a tombstone stays.
THEOREM SlotsAreStable == Spec => SlotsStable
<1> DEFINE Kept == pc = "compact" \/ \A s \in 0 .. db.count - 1 :
                      /\ db'.count > s
                      /\ db'.slot[s].id = db.slot[s].id /\ db'.slot[s].vec = db.slot[s].vec
                      /\ db.slot[s].dead => db'.slot[s].dead
<1>1. IndInv /\ [Next]_vars => [Kept]_vars
  <2> SUFFICES ASSUME IndInv, Next, pc # "compact" PROVE Kept
    OBVIOUS
  <2>1. CASE db' = db
    <3>1. db.count \in Nat
      BY DEF IndInv, TypeOK, IsBody
    <3> QED
      BY <2>1, <3>1
  <2>2. ASSUME NEW id \in Ids, NEW v \in Vecs, Add(id, v) PROVE Kept
    <3>1. Good(db, db.count) /\ db' = AddTo(db, id, v) /\ db.cap > 0 /\ db.count \in Nat
      BY <2>2, GoodUnlessStoring DEF Add, Call, IndInv, TypeOK, IsBody
    <3>2. /\ \A s \in 0 .. db.count - 1 : db'.slot[s] = db.slot[s]
          /\ db'.count \in {db.count, db.count + 1}
      BY <3>1, AddGood
    <3> QED
      BY <3>1, <3>2
  <2>3. ASSUME NEW id \in Ids, Delete(id) PROVE Kept
    <3>1. Good(db, db.count) /\ db.count \in Nat
      BY <2>3, GoodUnlessStoring DEF Delete, Call, IndInv, TypeOK, IsBody
    <3>2. CASE ~ Absent(db, id)
      <4>1. db' = Bury(db, id)
        BY <2>3, <3>2 DEF Delete
      <4> QED
        BY <3>1, <3>2, <4>1, BuryGood
    <3> QED
      BY <2>1, <2>3, <3>2 DEF Delete
  <2>4. CASE BulkGrow
    <3>1. Good(db, db.count) /\ db.count \in Nat /\ db' = Grow(db)
          /\ db.cap \in Nat /\ db.count <= db.cap
      BY <2>4, GoodUnlessStoring DEF BulkGrow, BulkShort, IndInv, TypeOK, IsBody, Good
    <3>2. /\ db'.count = db.count
          /\ \A s \in 0 .. db.cap - 1 : db'.slot[s] = db.slot[s]
      BY <3>1, GrowGood
    <3> QED
      BY <3>1, <3>2
  <2>5. CASE BulkStore
    <3>1. /\ db' = Fill(db, db.count + i, batch[i + 1].id, batch[i + 1].vec)
          /\ db.count \in Nat /\ i \in Nat /\ db.cap \in Nat /\ db.count <= db.cap
      BY <2>5 DEF BulkStore, IndInv, TypeOK, IsBody, Good
    <3>2. /\ db'.count = db.count
          /\ \A s \in 0 .. db.cap - 1 : s # db.count + i => db'.slot[s] = db.slot[s]
      BY <3>1 DEF Fill
    <3> QED
      BY <3>1, <3>2
  <2>6. CASE BulkFinish
    <3>1. /\ db'.count = db.count + i /\ db'.slot = db.slot
          /\ db.count \in Nat /\ i \in Nat
      BY <2>6 DEF BulkFinish, Count, IndInv, TypeOK, IsBody
    <3> QED
      BY <3>1
  <2>7. CASE \/ BulkNoMemory \/ BulkReject \/ BulkAccept
             \/ CompactNothing \/ CompactBegin
    BY <2>1, <2>7 DEF BulkNoMemory, BulkReject, BulkAccept, CompactNothing, CompactBegin
  <2>8. ASSUME NEW n \in 1 .. MaxBatch, NEW b \in [1 .. n -> Items], BulkBegin(b)
        PROVE  Kept
    BY <2>1, <2>8 DEF BulkBegin
  <2>9. ~ CompactStep /\ ~ CompactSwap
    BY DEF CompactStep, CompactSwap
  <2> HIDE DEF Kept
  <2> QED
    BY <2>2, <2>3, <2>4, <2>5, <2>6, <2>7, <2>8, <2>9 DEF Next
<1> QED
  BY <1>1, IndInvariant, PTL DEF Spec, SlotsStable

-----------------------------------------------------------------------------
(***************************************************************************)
(* The storage implements VecStore.                                        *)
(***************************************************************************)
\* The vectors of a batch written so far are in the slots past the count.
Batched == pc = "store" =>
              \A j \in 1 .. i : /\ db.slot[db.count + j - 1].id = batch[j].id
                                /\ db.slot[db.count + j - 1].vec = batch[j].vec

LEMMA BatchedStep ==
    ASSUME IndInv, Batched, [Next]_vars
    PROVE  Batched'
<1>1. ASSUME pc' # "store" PROVE Batched'
  BY <1>1 DEF Batched
<1>2. CASE BulkAccept
  <2>1. i' = 0
    BY <1>2 DEF BulkAccept, IndInv, IdleIndex
  <2> QED
    BY <2>1 DEF Batched
<1>3. CASE BulkStore
  <2> DEFINE n == db.count + i
             item == batch[i + 1]
             w == [id |-> item.id, vec |-> item.vec, dead |-> FALSE]
  <2>1. /\ pc = "store" /\ i < Len(batch) /\ i' = i + 1 /\ batch' = batch
        /\ db' = Fill(db, n, item.id, item.vec) /\ Storing
        /\ i \in Nat /\ db.count \in Nat /\ db.cap \in Nat /\ Len(batch) \in Nat
    BY <1>3 DEF BulkStore, IndInv, TypeOK, IsBody
  <2>2. n \in 0 .. db.cap - 1
    BY <2>1 DEF Storing
  <2>3. /\ db'.count = db.count
        /\ db'.slot = [q \in 0 .. db.cap - 1 |-> IF q = n THEN w ELSE db.slot[q]]
    BY <2>1 DEF Fill
  <2>4. w.id = item.id /\ w.vec = item.vec
    OBVIOUS
  <2> HIDE DEF w
  <2>5. ASSUME NEW j \in 1 .. i + 1
        PROVE  /\ db'.slot[db.count + j - 1].id = batch[j].id
               /\ db'.slot[db.count + j - 1].vec = batch[j].vec
    <3>1. CASE j = i + 1
      <4>1. db.count + j - 1 = n
        BY <2>1, <3>1
      <4> QED
        BY <2>2, <2>3, <2>4, <3>1, <4>1
    <3>2. CASE j # i + 1
      <4>1. j \in 1 .. i
        BY <2>1, <3>2
      <4>2. db.count + j - 1 \in 0 .. db.cap - 1 /\ db.count + j - 1 # n
        BY <2>1, <2>2, <4>1
      <4>3. db'.slot[db.count + j - 1] = db.slot[db.count + j - 1]
        BY <2>3, <4>2
      <4> QED
        BY <2>1, <4>1, <4>3 DEF Batched
    <3> QED
      BY <3>1, <3>2
  <2> QED
    BY <2>1, <2>3, <2>5 DEF Batched
<1>4. ASSUME NEW id \in Ids, NEW v \in Vecs, Add(id, v) PROVE Batched'
  BY <1>1, <1>4 DEF Add, Call
<1>5. ASSUME NEW id \in Ids, Delete(id) PROVE Batched'
  BY <1>1, <1>5 DEF Delete, Call
<1>6. ASSUME NEW n \in 1 .. MaxBatch, NEW b \in [1 .. n -> Items], BulkBegin(b)
      PROVE  Batched'
  BY <1>1, <1>6 DEF BulkBegin
<1>7. CASE BulkGrow \/ BulkNoMemory \/ BulkReject \/ BulkFinish
  BY <1>1, <1>7 DEF BulkGrow, BulkShort, BulkNoMemory, BulkReject, BulkFinish, Return
<1>8. CASE CompactNothing \/ CompactBegin \/ CompactStep \/ CompactSwap
  BY <1>1, <1>8
     DEF CompactNothing, Call, CompactBegin, CompactStep, CompactSwap, Return
<1>9. CASE UNCHANGED vars
  BY <1>9 DEF vars, Batched
<1> QED
  BY <1>2, <1>3, <1>4, <1>5, <1>6, <1>7, <1>8, <1>9 DEF Next

\* A compaction has copied the items of the live slots passed, and no others.
Copied == pc = "compact" =>
             /\ nd.alive = nd.count
             /\ Stored(nd) =
                   {[id |-> db.slot[s].id, vec |-> db.slot[s].vec] : s \in PassedLive}

LEMMA CopiedStep ==
    ASSUME IndInv, Copied, [Next]_vars
    PROVE  Copied'
<1>1. ASSUME pc' # "compact" PROVE Copied'
  BY <1>1 DEF Copied
<1>2. CASE CompactBegin
  <2>1. nd' = Fresh(CompactCap(db)) /\ db' = db /\ i' = 0
    BY <1>2 DEF CompactBegin, IndInv, IdleIndex
  <2>2. nd'.count = 0 /\ nd'.alive = 0
    BY <2>1 DEF Fresh
  <2>3. LiveSlots(nd') = {} /\ PassedLive' = {}
    BY <2>1, <2>2 DEF LiveSlots, PassedLive, IndInv, TypeOK, IsBody
  <2> QED
    BY <2>2, <2>3 DEF Copied, Stored
<1>3. CASE CompactStep
  <2>1. /\ pc = "compact" /\ i < db.count /\ db' = db
        /\ i \in Nat /\ db.count \in Nat /\ Good(nd, nd.count)
        /\ nd.cap \in Nat /\ nd.count \in Nat
    BY <1>3 DEF CompactStep, IndInv, TypeOK, IsBody
  <2>2. i \in LiveSlots(db) <=> IsLive(db, i)
    BY <2>1 DEF LiveSlots
  <2>3. CASE IsLive(db, i)
    <3> DEFINE id == db.slot[i].id
               v == db.slot[i].vec
    <3>1. id \in Ids /\ v \in Vecs /\ Absent(nd, id) /\ nd.count < nd.cap
      BY <2>1, <2>2, <2>3, CompactRoom
    <3>2. nd' = AddTo(nd, id, v) /\ i' = i + 1
      BY <1>3, <2>3, <3>1 DEF CompactStep
    <3>3. /\ Stored(nd') = Stored(nd) \cup {[id |-> id, vec |-> v]}
          /\ nd'.alive = nd.alive + 1 /\ nd'.count = nd.count + 1
      <4> HIDE DEF id, v
      <4>1. nd.cap > 0
        BY <2>1, <3>1
      <4>2. /\ Stored(nd') = Stored(nd) \cup {[id |-> id, vec |-> v]}
            /\ nd'.alive = nd.alive + 1
        BY <2>1, <3>1, <3>2, <4>1, AddStored
      <4>3. nd'.count = nd.count + 1
        BY <2>1, <3>1, <3>2, <4>1, AddGood
      <4> QED
        BY <4>2, <4>3
    <3>4. PassedLive' = PassedLive \cup {i}
      BY <2>1, <2>2, <2>3, <3>2 DEF PassedLive, LiveSlots
    <3>5. /\ Stored(nd) =
                {[id |-> db.slot[s].id, vec |-> db.slot[s].vec] : s \in PassedLive}
          /\ nd.alive = nd.count
      BY <2>1 DEF Copied
    <3>6. Stored(nd') =
             {[id |-> db.slot[s].id, vec |-> db.slot[s].vec] : s \in PassedLive \cup {i}}
      BY <3>3, <3>5
    <3> QED
      BY <2>1, <3>3, <3>4, <3>5, <3>6 DEF Copied
  <2>4. CASE ~ IsLive(db, i)
    <3>1. nd' = nd /\ i' = i + 1 /\ pc' = pc
      BY <1>3, <2>4 DEF CompactStep
    <3>2. PassedLive' = PassedLive
      BY <2>1, <2>2, <2>4, <3>1 DEF PassedLive, LiveSlots
    <3> QED
      BY <2>1, <3>1, <3>2 DEF Copied
  <2> QED
    BY <2>3, <2>4
<1>4. ASSUME NEW id \in Ids, NEW v \in Vecs, Add(id, v) PROVE Copied'
  BY <1>1, <1>4 DEF Add, Call
<1>5. ASSUME NEW id \in Ids, Delete(id) PROVE Copied'
  BY <1>1, <1>5 DEF Delete, Call
<1>6. ASSUME NEW n \in 1 .. MaxBatch, NEW b \in [1 .. n -> Items], BulkBegin(b)
      PROVE  Copied'
  BY <1>1, <1>6 DEF BulkBegin
<1>7. CASE \/ BulkGrow \/ BulkNoMemory \/ BulkReject \/ BulkAccept
           \/ BulkStore \/ BulkFinish
  BY <1>1, <1>7 DEF BulkGrow, BulkShort, BulkNoMemory, BulkReject, BulkAccept,
                    BulkStore, BulkFinish, Return
<1>8. CASE CompactNothing \/ CompactSwap
  BY <1>1, <1>8 DEF CompactNothing, Call, CompactSwap, Return
<1>9. CASE UNCHANGED vars
  BY <1>9 DEF vars, Copied, PassedLive
<1> QED
  BY <1>2, <1>3, <1>4, <1>5, <1>6, <1>7, <1>8, <1>9 DEF Next

LEMMA StoredInvariants == Spec => [](Batched /\ Copied)
<1>1. Init => Batched /\ Copied
  BY DEF Init, Batched, Copied
<1>2. IndInv /\ (Batched /\ Copied) /\ [Next]_vars => (Batched /\ Copied)'
  BY BatchedStep, CopiedStep
<1> QED
  BY <1>1, <1>2, IndInvariant, PTL DEF Spec

-----------------------------------------------------------------------------
\* Each call, as the abstract store sees it.
LEMMA AddImplements ==
    ASSUME IndInv, NEW id \in Ids, NEW v \in Vecs, Add(id, v)
    PROVE  Store!Next
<1>1. /\ Good(db, db.count) /\ db.cap > 0 /\ db' = AddTo(db, id, v)
      /\ Content = Held(db, NoVec) /\ Content' = Held(db', NoVec)
      /\ ret' = IF Absent(db, id) THEN "added" ELSE "fail"
  BY GoodUnlessStoring DEF Add, Call, IndInv, Content, Held
<1>2. Good(db', db'.count)
  BY <1>1, AddGood
<1>3. CASE Absent(db, id)
  <2> DEFINE e == [id |-> id, vec |-> v]
  <2>1. Stored(db') = Stored(db) \cup {e} /\ db'.alive = db.alive + 1
    BY <1>1, <1>3, AddStored
  <2>2. e.id = id /\ e.vec = v
    OBVIOUS
  <2> HIDE DEF e
  <2>3. Content[id] = NoVec
    BY <1>1, <1>3, HeldAbsent, VecDBAssumption
  <2>4. ASSUME NEW k \in Ids
        PROVE  Held(db', NoVec)[k] = IF k = id THEN v ELSE Held(db, NoVec)[k]
    <3>1. CASE k = id
      BY <1>2, <2>1, <2>2, <3>1, HeldFacts
    <3>2. CASE k # id /\ \E w \in Stored(db) : w.id = k
      BY <1>1, <1>2, <2>1, <3>2, HeldFacts
    <3>3. CASE k # id /\ \A w \in Stored(db) : w.id # k
      BY <1>1, <1>2, <2>1, <2>2, <3>3, HeldFacts
    <3> QED
      BY <3>1, <3>2, <3>3
  <2>5. Content' = [Content EXCEPT ![id] = v]
    <3>1. /\ Held(db', NoVec) = [k \in Ids |-> Held(db', NoVec)[k]]
          /\ Held(db, NoVec) = [k \in Ids |-> Held(db, NoVec)[k]]
      BY DEF Held
    <3> QED
      BY <1>1, <2>4, <3>1
  <2>6. id \in Ids \ Store!Present
    BY <2>3 DEF Store!Present
  <2>7. Store!Add
    BY <1>1, <1>3, <2>1, <2>5, <2>6 DEF Store!Add
  <2> QED
    BY <2>7 DEF Store!Next
<1>4. CASE ~ Absent(db, id)
  <2>1. Stored(db') = Stored(db) /\ db'.alive = db.alive
    BY <1>1, <1>4, AddStored
  <2>2. Content' = Content
    BY <1>1, <1>2, <2>1, SameHeld
  <2>3. Store!Fail
    BY <1>1, <1>4, <2>1, <2>2 DEF Store!Fail
  <2> QED
    BY <2>3 DEF Store!Next
<1> QED
  BY <1>3, <1>4

LEMMA DeleteImplements ==
    ASSUME IndInv, NEW id \in Ids, Delete(id)
    PROVE  Store!Next
<1>1. /\ Good(db, db.count) /\ db.count \in Nat
      /\ Content = Held(db, NoVec) /\ Content' = Held(db', NoVec)
  BY GoodUnlessStoring DEF Delete, Call, IndInv, TypeOK, IsBody, Content, Held
<1>2. CASE Absent(db, id)
  <2>1. Store!Fail
    BY <1>1, <1>2 DEF Delete, Store!Fail
  <2> QED
    BY <2>1 DEF Store!Next
<1>3. CASE ~ Absent(db, id)
  <2>1. ret' = "deleted" /\ db' = Bury(db, id)
    BY <1>3 DEF Delete
  <2>2. /\ Good(db', db.count) /\ db'.alive = db.alive - 1
        /\ Stored(db') = {e \in Stored(db) : e.id # id}
    BY <1>1, <1>3, <2>1, BuryGood, BuryStored
  <2>3. ASSUME NEW k \in Ids
        PROVE  Held(db', NoVec)[k] = IF k = id THEN NoVec ELSE Held(db, NoVec)[k]
    <3>1. CASE k = id
      BY <2>2, <3>1, HeldFacts
    <3>2. CASE k # id /\ \E w \in Stored(db) : w.id = k
      BY <1>1, <2>2, <3>2, HeldFacts
    <3>3. CASE k # id /\ \A w \in Stored(db) : w.id # k
      BY <1>1, <2>2, <3>3, HeldFacts
    <3> QED
      BY <3>1, <3>2, <3>3
  <2>4. Content' = [Content EXCEPT ![id] = NoVec]
    <3>1. /\ Held(db', NoVec) = [k \in Ids |-> Held(db', NoVec)[k]]
          /\ Held(db, NoVec) = [k \in Ids |-> Held(db, NoVec)[k]]
      BY DEF Held
    <3> QED
      BY <1>1, <2>3, <3>1
  <2>5. id \in Store!Present
    BY <1>1, <1>3, HeldAbsent, VecDBAssumption DEF Store!Present
  <2>6. Store!Delete
    BY <2>1, <2>2, <2>4, <2>5 DEF Store!Delete
  <2> QED
    BY <2>6 DEF Store!Next
<1> QED
  BY <1>2, <1>3

\* The one step that counts the batch makes all its vectors visible.
LEMMA BulkFinishImplements ==
    ASSUME IndInv, Batched, BulkFinish
    PROVE  Store!Next
<1> DEFINE n == Len(batch)
           new == db.count .. db.count + n - 1
           B == {batch[j].id : j \in 1 .. n}
           f == [k \in B |-> Held(db', NoVec)[k]]
<1>1. /\ pc = "store" /\ i = n /\ n \in Nat /\ db.count \in Nat /\ batch \in Seq(Items)
      /\ db' = Count(db, n) /\ ret' = "bulk" /\ Storing /\ Good(db, db.count + n)
      /\ Content = Held(db, NoVec) /\ Content' = Held(db', NoVec)
  <2>1. /\ pc = "store" /\ i = n /\ db' = Count(db, n) /\ ret' = "bulk"
        /\ Storing /\ batch \in Seq(Items) /\ IsBody(db) /\ Good(db, Written)
    BY DEF BulkFinish, Return, IndInv, TypeOK
  <2> HIDE DEF n
  <2>2. n \in Nat /\ db.count \in Nat /\ Good(db, db.count + n)
    BY <2>1 DEF IsBody, Written, n
  <2> QED
    BY <2>1, <2>2 DEF Content, Held
<1>2. /\ Good(db', db.count + n) /\ db'.alive = db.alive + n /\ db'.slot = db.slot
      /\ LiveSlots(db') = LiveSlots(db) \cup new
  BY <1>1, CountGood DEF Storing
<1>3. \A j \in 1 .. n : batch[j] \in Items /\ batch[j].id \in Ids /\ batch[j].vec \in Vecs
  <2>1. \A j \in 1 .. n : batch[j] \in Items
    BY <1>1
  <2> QED
    BY <2>1 DEF Items
<1>4. \A j \in 1 .. n : db.count + j - 1 \in new
  BY <1>1
<1>5. \A s \in new : s - db.count + 1 \in 1 .. n /\ db.count + (s - db.count + 1) - 1 = s
  BY <1>1
<1>6. \A j \in 1 .. n : /\ db.slot[db.count + j - 1].id = batch[j].id
                        /\ db.slot[db.count + j - 1].vec = batch[j].vec
  BY <1>1 DEF Batched
<1> HIDE DEF n, new
<1>7. \A k \in B : \E s \in new : db.slot[s].id = k
  BY <1>4, <1>6
<1>8. \A s \in new : db.slot[s].id \in B
  BY <1>5, <1>6
<1> HIDE DEF B
<1>9. B \subseteq Ids
  BY <1>3 DEF B
<1>10. \A s \in LiveSlots(db) : db.slot[s].id \notin B
  <2> SUFFICES ASSUME NEW s \in LiveSlots(db), NEW q \in new,
                      db.slot[s].id = db.slot[q].id
               PROVE  FALSE
    BY <1>7
  <2>1. s \in LiveSlots(db') /\ q \in LiveSlots(db')
    BY <1>2
  <2>2. db'.map[db.slot[s].id] = s /\ db'.map[db.slot[q].id] = q
    BY <1>2, <2>1, HeldFacts
  <2>3. s # q
    BY <1>1 DEF LiveSlots, new
  <2> QED
    BY <2>2, <2>3
<1>11. ASSUME NEW k \in B PROVE Held(db, NoVec)[k] = NoVec /\ Held(db', NoVec)[k] \in Vecs
  <2>1. \A e \in Stored(db) : e.id # k
    BY <1>10 DEF Stored
  <2>2. PICK s \in new : db.slot[s].id = k
    BY <1>7
  <2> DEFINE e == [id |-> db.slot[s].id, vec |-> db.slot[s].vec]
  <2>3. e \in Stored(db') /\ e.id = k
    BY <1>2, <2>2 DEF Stored
  <2> HIDE DEF e
  <2>4. Held(db', NoVec)[k] = e.vec /\ e \in Items
    BY <1>2, <2>3, HeldFacts
  <2> QED
    BY <1>1, <1>9, <2>1, <2>4, HeldFacts DEF Items
<1>12. ASSUME NEW k \in Ids, k \notin B PROVE Held(db', NoVec)[k] = Held(db, NoVec)[k]
  <2>1. \A e \in Stored(db') : e.id = k => e \in Stored(db)
    BY <1>2, <1>8, <1>12 DEF Stored
  <2>2. Stored(db) \subseteq Stored(db')
    BY <1>2 DEF Stored
  <2>3. CASE \E e \in Stored(db) : e.id = k
    BY <1>1, <1>2, <2>2, <2>3, HeldFacts
  <2>4. CASE \A e \in Stored(db) : e.id # k
    BY <1>1, <1>2, <2>1, <2>4, HeldFacts
  <2> QED
    BY <2>3, <2>4
<1>13. Cardinality(B) = n
  <2> DEFINE h == [j \in 1 .. n |-> batch[j].id]
  <2>1. h \in Bijection(1 .. n, B)
    <3>1. \A j, k \in 1 .. n : batch[j].id = batch[k].id => j = k
      BY <1>1 DEF Storing, n
    <3> QED
      BY <3>1 DEF B, Bijection, Injection, Surjection, IsInjective
  <2>2. ExistsBijection(1 .. n, B)
    BY <2>1 DEF ExistsBijection
  <2> QED
    BY <1>1, <2>2, FS_CountingElements
<1>14. B \in SUBSET (Ids \ Store!Present)
  BY <1>1, <1>9, <1>11 DEF Store!Present
<1>15. f \in [B -> Vecs]
  BY <1>11
<1>16. Content' = [k \in Ids |-> IF k \in B THEN f[k] ELSE Content[k]]
  <2>1. Held(db', NoVec) = [k \in Ids |-> Held(db', NoVec)[k]]
    BY DEF Held
  <2> QED
    BY <1>1, <1>12, <2>1
<1> HIDE DEF f
<1>17. Store!Cardinality(B) = n
  BY <1>13 DEF Store!Cardinality, Cardinality
<1>18. Store!AddBulk
  BY <1>1, <1>2, <1>14, <1>15, <1>16, <1>17 DEF Store!AddBulk
<1> QED
  BY <1>18 DEF Store!Next

\* The swap of the bodies changes nothing a caller can see.
LEMMA CompactSwapImplements ==
    ASSUME IndInv, Copied, CompactSwap
    PROVE  Store!Next
<1>1. /\ pc = "compact" /\ i = db.count /\ db' = nd /\ ret' = "compacted"
      /\ Good(db, db.count) /\ Good(nd, nd.count) /\ Compacting
      /\ db.count \in Nat /\ nd.count \in Nat
      /\ Content = Held(db, NoVec) /\ Content' = Held(db', NoVec)
  BY GoodUnlessStoring DEF CompactSwap, Return, IndInv, TypeOK, IsBody, Content, Held
<1>2. PassedLive = LiveSlots(db)
  BY <1>1 DEF PassedLive, LiveSlots
<1>3. Stored(nd) = Stored(db)
  BY <1>1, <1>2 DEF Copied, Stored
<1>4. Content' = Content
  BY <1>1, <1>3, SameHeld
<1>5. nd.alive = db.alive
  <2>1. nd.count = Cardinality(LiveSlots(db)) /\ db.alive = Cardinality(LiveSlots(db))
    BY <1>1, <1>2 DEF Compacting, Good
  <2> QED
    BY <1>1, <2>1 DEF Copied
<1>6. Store!Compact
  BY <1>1, <1>4, <1>5 DEF Store!Compact
<1> QED
  BY <1>6 DEF Store!Next

\* A vector written past the count is not visible yet.
LEMMA BulkStoreKeeps ==
    ASSUME IndInv, BulkStore
    PROVE  Held(db', NoVec) = Held(db, NoVec) /\ db'.alive = db.alive
<1> DEFINE n == db.count + i
           item == batch[i + 1]
<1>1. /\ db' = Fill(db, n, item.id, item.vec) /\ i < Len(batch)
      /\ Good(db, n) /\ Storing /\ batch \in Seq(Items) /\ i \in Nat
      /\ db.count \in Nat /\ db.cap \in Nat /\ Len(batch) \in Nat
  BY DEF BulkStore, IndInv, TypeOK, IsBody, Written
<1>2. i + 1 \in 1 .. Len(batch) /\ n < db.cap /\ n \in Nat
  BY <1>1 DEF Storing
<1>3. item \in Items /\ Absent(db, item.id)
  BY <1>1, <1>2 DEF Storing
<1>4. item.id \in Ids /\ item.vec \in Vecs
  BY <1>3 DEF Items
<1>5. /\ Good(db', n + 1) /\ LiveSlots(db') = LiveSlots(db) /\ db'.alive = db.alive
      /\ db'.slot[n] = [id |-> item.id, vec |-> item.vec, dead |-> FALSE]
      /\ \A s \in 0 .. db.cap - 1 : s # n => db'.slot[s] = db.slot[s]
  <2> HIDE DEF n, item
  <2> QED BY <1>1, <1>2, <1>3, <1>4, FillGood
<1>6. \A s \in LiveSlots(db) : s \in 0 .. db.cap - 1 /\ s # n
  BY <1>1, <1>2 DEF LiveSlots
<1>7. Stored(db') = Stored(db)
  BY <1>5, <1>6, SameStored
<1> QED
  BY <1>1, <1>5, <1>7, SameHeld

LEMMA StepImplements ==
    ASSUME IndInv, Batched, Copied, [Next]_vars
    PROVE  [Store!Next]_(Store!vars)
<1>1. ASSUME Content' = Content, db'.alive = db.alive, ret' = ret
      PROVE  [Store!Next]_(Store!vars)
  BY <1>1 DEF Store!vars
<1>2. ASSUME NEW id \in Ids, NEW v \in Vecs, Add(id, v) PROVE Store!Next
  BY <1>2, AddImplements
<1>3. ASSUME NEW id \in Ids, Delete(id) PROVE Store!Next
  BY <1>3, DeleteImplements
<1>4. ASSUME NEW n \in 1 .. MaxBatch, NEW b \in [1 .. n -> Items], BulkBegin(b)
      PROVE  [Store!Next]_(Store!vars)
  BY <1>1, <1>4 DEF BulkBegin, Content
<1>5. CASE BulkGrow
  <2>1. db' = Grow(db) /\ ret' = ret /\ Good(db, db.count)
    BY <1>5, GoodUnlessStoring DEF BulkGrow, BulkShort
  <2>2. Good(db', db.count) /\ Stored(db') = Stored(db) /\ db'.alive = db.alive
    BY <2>1, GrowGood, GrowStored
  <2>3. Held(db', NoVec) = Held(db, NoVec)
    BY <2>1, <2>2, SameHeld
  <2> QED
    BY <1>1, <2>1, <2>2, <2>3 DEF Content, Held
<1>6. CASE \/ BulkNoMemory \/ BulkReject
           \/ CompactStep /\ IsLive(db, i) /\ ~ Absent(nd, db.slot[i].id)
  <2>1. db' = db /\ ret' = "fail"
    BY <1>6 DEF BulkNoMemory, BulkReject, CompactStep, Return
  <2>2. Store!Fail
    BY <2>1 DEF Store!Fail, Content
  <2> QED
    BY <2>2 DEF Store!Next
<1>7. CASE BulkAccept \/ CompactBegin
  BY <1>1, <1>7 DEF BulkAccept, CompactBegin, Content
<1>8. CASE BulkStore
  BY <1>1, <1>8, BulkStoreKeeps DEF Content, Held, BulkStore
<1>9. CASE BulkFinish
  BY <1>9, BulkFinishImplements
<1>10. CASE CompactNothing
  <2>1. Store!Compact
    BY <1>10 DEF CompactNothing, Store!Compact, Content
  <2> QED
    BY <2>1 DEF Store!Next
<1>11. CASE CompactStep /\ ~ (IsLive(db, i) /\ ~ Absent(nd, db.slot[i].id))
  BY <1>1, <1>11 DEF CompactStep, Content
<1>12. CASE CompactSwap
  BY <1>12, CompactSwapImplements
<1>13. CASE UNCHANGED vars
  BY <1>1, <1>13 DEF vars, Content
<1> QED
  BY <1>2, <1>3, <1>4, <1>5, <1>6, <1>7, <1>8, <1>9, <1>10, <1>11, <1>12, <1>13 DEF Next

\* Slots, tombstones, growth in steps, bulk insertion in phases and compaction
\* implement the abstract store: every call takes effect as a whole or not at
\* all, whatever the ids, vectors, capacities and bounds.
THEOREM ImplementsStore == Spec => StoreSpec
<1>1. Init => Store!Init
  <2> SUFFICES ASSUME Init PROVE Store!Init
    OBVIOUS
  <2>1. db.count = 0 /\ db.alive = 0 /\ ret = "none"
    BY DEF Init, Fresh
  <2>2. LiveSlots(db) = {}
    BY <2>1 DEF LiveSlots
  <2> QED
    BY <2>1, <2>2 DEF Store!Init, Content
<1>2. IndInv /\ (Batched /\ Copied) /\ [Next]_vars => [Store!Next]_(Store!vars)
  BY StepImplements
<1> QED
  BY <1>1, <1>2, IndInvariant, StoredInvariants, PTL DEF Spec, StoreSpec, Store!Spec
-----------------------------------------------------------------------------
\* A filtered exact search returns the k nearest of the live vectors its ids
\* stand for, between any two calls and also when one of the ids was deleted
\* after the mask was made, whatever the history of adds, deletes, bulk inserts
\* and compactions, the distances and the bounds.
THEOREM FilteredAlways == Spec => []FilteredExact
<1>1. IndInv => FilteredExact
  <2> SUFFICES ASSUME IndInv, pc = "idle",
                      NEW e \in {db} \cup {Bury(db, id) : id \in {x \in Ids : ~ Absent(db, x)}},
                      NEW q \in Queries, NEW k \in 1 .. MaxK,
                      NEW S \in SUBSET Ids, NEW mode \in {"allow", "deny"}
               PROVE  IsTopK(e, q, k, Wanted(e, S, mode), FlatScan(e, q, k, MakeMask(db, S, mode)))
    BY DEF FilteredExact, MaskExact
  <2>1. Good(db, db.count)
    BY GoodUnlessStoring
  <2>2. /\ Good(e, e.count) /\ e.count = db.count
        /\ \A s \in LiveSlots(e) : s \in LiveSlots(db) /\ e.slot[s].id = db.slot[s].id
    <3>1. CASE e = db
      BY <2>1, <3>1
    <3>2. CASE e # db
      <4>1. PICK id \in Ids : e = Bury(db, id) /\ ~ Absent(db, id)
        BY <3>2
      <4>2. /\ Good(e, db.count) /\ e.count = db.count
            /\ \A s \in 0 .. db.count - 1 :
                 /\ e.slot[s].id = db.slot[s].id /\ e.slot[s].vec = db.slot[s].vec
                 /\ db.slot[s].dead => e.slot[s].dead
        BY <2>1, <4>1, BuryGood
      <4>3. \A s \in 0 .. db.count - 1 : db.slot[s] \in Slot
        BY <2>1 DEF Good
      <4> QED
        BY <4>2, <4>3 DEF LiveSlots, IsLive
    <3> QED
      BY <3>1, <3>2
  <2>3. \A s \in LiveSlots(e) : MakeMask(db, S, mode)[s] <=> s \in Wanted(e, S, mode)
    BY <2>1, <2>2, MaskWanted
  <2>4. Wanted(e, S, mode) \subseteq LiveSlots(e) /\ k \in Nat /\ k >= 1
    BY DEF Wanted
  <2> QED
    BY <2>2, <2>3, <2>4, ScanFacts, VecSearchAssumption DEF Weighs
<1> QED
  BY <1>1, IndInvariant, PTL
=============================================================================
