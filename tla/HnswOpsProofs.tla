--------------------------- MODULE HnswOpsProofs ---------------------------
(***************************************************************************)
(* What the graph algorithms return, for every set of vectors, every       *)
(* distance table and every M: the neighbours selected for a node, the     *)
(* pruned lists, where a descent and a layer search end, and the graph     *)
(* that wiring a node leaves.                                              *)
(***************************************************************************)
EXTENDS HnswOps, FiniteSetTheorems, TLAPS

-----------------------------------------------------------------------------
(***************************************************************************)
(* Sets and sequences of nodes ordered by distance.                        *)
(***************************************************************************)
LEMMA PointsFinite ==
    ASSUME NEW S, S \subseteq Points
    PROVE  IsFiniteSet(S) /\ Cardinality(S) \in Nat
<1>1. IsFiniteSet(S)
  BY HnswOpsAssumption, FS_Subset
<1> QED
  BY <1>1, FS_CardinalityType

LEMMA DistInt ==
    ASSUME NEW p \in Points, NEW q \in Points
    PROVE  D[p][q] \in Int
BY HnswOpsAssumption

\* How many members of S are nearer to q than x.
Rank(q, S, x) == Cardinality({y \in S : D[q][y] < D[q][x]})

\* The members of S have the ranks 0 to |S| - 1, one each.
LEMMA RankBijection ==
    ASSUME NEW q \in Points, NEW S, S \subseteq Points
    PROVE  [x \in S |-> Rank(q, S, x)] \in Bijection(S, 0 .. Cardinality(S) - 1)
<1> DEFINE n == Cardinality(S)
           r == [x \in S |-> Rank(q, S, x)]
           Below(x) == {y \in S : D[q][y] < D[q][x]}
<1>1. IsFiniteSet(S) /\ n \in Nat
  BY PointsFinite
<1>2. ASSUME NEW x \in S PROVE Rank(q, S, x) \in 0 .. n - 1
  <2>1. D[q][x] \in Int
    BY DistInt
  <2>2. Below(x) \in SUBSET S /\ x \notin Below(x)
    BY <2>1
  <2>3. Cardinality(Below(x)) \in Nat /\ Cardinality(Below(x)) <= n
        /\ Cardinality(Below(x)) # n
    <3> HIDE DEF Below
    <3>1. Cardinality(Below(x)) <= n /\ (n = Cardinality(Below(x)) => S = Below(x))
      BY <1>1, <2>2, FS_Subset
    <3>2. IsFiniteSet(Below(x))
      BY <1>1, <2>2, FS_Subset
    <3> QED
      BY <2>2, <3>1, <3>2, FS_CardinalityType
  <2> HIDE DEF n
  <2> QED
    BY <1>1, <2>3 DEF Rank
<1>3. ASSUME NEW x \in S, NEW y \in S, D[q][x] < D[q][y]
      PROVE  Rank(q, S, x) # Rank(q, S, y)
  <2>1. D[q][x] \in Int /\ D[q][y] \in Int /\ \A z \in S : D[q][z] \in Int
    BY DistInt
  <2>2. Below(x) \in SUBSET Below(y) /\ x \in Below(y) /\ x \notin Below(x)
    BY <1>3, <2>1
  <2>3. Below(y) \in SUBSET S
    OBVIOUS
  <2> HIDE DEF Below
  <2>4. IsFiniteSet(Below(y))
    BY <1>1, <2>3, FS_Subset
  <2>5. Cardinality(Below(y)) # Cardinality(Below(x))
    BY <2>2, <2>4, FS_Subset
  <2> QED
    BY <2>5 DEF Rank, Below
<1>4. ASSUME NEW x \in S, NEW y \in S, x # y
      PROVE  Rank(q, S, x) # Rank(q, S, y)
  <2>1. D[q][x] \in Int /\ D[q][y] \in Int /\ D[q][x] # D[q][y]
    BY <1>4, DistInt, HnswOpsAssumption
  <2>2. D[q][x] < D[q][y] \/ D[q][y] < D[q][x]
    BY <2>1
  <2> QED
    BY <1>3, <2>2
<1>5. r \in Injection(S, 0 .. n - 1)
  BY <1>2, <1>4 DEF Injection, IsInjective
<1>6. IsFiniteSet(0 .. n - 1) /\ Cardinality(0 .. n - 1) = n
  <2> HIDE DEF n
  <2>1. n - 1 \in Int /\ 0 \in Int
    BY <1>1
  <2>2. IsFiniteSet(0 .. n - 1)
        /\ Cardinality(0 .. n - 1) = IF 0 > n - 1 THEN 0 ELSE (n - 1) - 0 + 1
    <3> DEFINE m == n - 1
    <3> HIDE DEF m
    <3>1. m \in Int
      BY <2>1 DEF m
    <3>2. IsFiniteSet(0 .. m) /\ Cardinality(0 .. m) = IF 0 > m THEN 0 ELSE m - 0 + 1
      BY <3>1, FS_Interval
    <3> QED
      BY <3>2 DEF m
  <2> QED
    BY <1>1, <2>2
<1>7. r \in Surjection(S, 0 .. n - 1)
  <2> HIDE DEF r, n
  <2> QED BY <1>1, <1>5, <1>6, FS_Injection DEF n
<1> QED
  BY <1>5, <1>7 DEF Bijection

\* Sorting a set lists every member once.
LEMMA ByDistanceFacts ==
    ASSUME NEW q \in Points, NEW S, S \subseteq Points
    PROVE  LET s == ByDistance(q, S) IN
           /\ s \in Seq(S) /\ Len(s) = Cardinality(S)
           /\ IsInjective(s) /\ ToSet(s) = S
           /\ \A i, j \in 1 .. Len(s) : i < j => D[q][s[i]] < D[q][s[j]]
<1> DEFINE n == Cardinality(S)
           s == ByDistance(q, S)
<1>1. n \in Nat
  BY PointsFinite
<1>2. /\ \A x \in S : Rank(q, S, x) \in 0 .. n - 1
      /\ \A x, y \in S : Rank(q, S, x) = Rank(q, S, y) => x = y
      /\ \A k \in 0 .. n - 1 : \E x \in S : Rank(q, S, x) = k
  <2> DEFINE r == [x \in S |-> Rank(q, S, x)]
  <2>1. r \in Bijection(S, 0 .. n - 1)
    BY RankBijection
  <2>2. \A x \in S : r[x] = Rank(q, S, x)
    OBVIOUS
  <2> HIDE DEF r, n
  <2>3. /\ \A x \in S : r[x] \in 0 .. n - 1
        /\ \A x, y \in S : r[x] = r[y] => x = y
        /\ \A k \in 0 .. n - 1 : \E x \in S : r[x] = k
    BY <2>1 DEF Bijection, Injection, Surjection, IsInjective
  <2> QED
    BY <2>2, <2>3
<1>3. s = [j \in 1 .. n |-> CHOOSE x \in S : Rank(q, S, x) = j - 1]
  BY DEF ByDistance, Rank
<1> HIDE DEF s, n
<1>4. ASSUME NEW j \in 1 .. n
      PROVE  s[j] \in S /\ Rank(q, S, s[j]) = j - 1
  <2>1. j - 1 \in 0 .. n - 1
    BY <1>1
  <2>2. \E x \in S : Rank(q, S, x) = j - 1
    BY <1>2, <2>1
  <2> QED
    BY <1>3, <2>2
<1>5. s \in Seq(S) /\ Len(s) = n /\ DOMAIN s = 1 .. n
  BY <1>1, <1>3, <1>4
<1>6. IsInjective(s)
  BY <1>1, <1>4, <1>5 DEF IsInjective
<1>7. ToSet(s) = S
  <2>1. ASSUME NEW x \in S PROVE \E j \in 1 .. n : s[j] = x
    <3>1. Rank(q, S, x) + 1 \in 1 .. n /\ (Rank(q, S, x) + 1) - 1 = Rank(q, S, x)
      BY <1>1, <1>2
    <3>2. Rank(q, S, s[Rank(q, S, x) + 1]) = Rank(q, S, x) /\ s[Rank(q, S, x) + 1] \in S
      BY <1>4, <3>1
    <3>3. s[Rank(q, S, x) + 1] = x
      BY <1>2, <3>2
    <3> QED
      BY <3>1, <3>3
  <2> QED
    BY <1>4, <1>5, <2>1 DEF ToSet
<1>8. ASSUME NEW i \in 1 .. n, NEW j \in 1 .. n, i < j
      PROVE  D[q][s[i]] < D[q][s[j]]
  <2>1. s[i] \in S /\ s[j] \in S /\ Rank(q, S, s[i]) < Rank(q, S, s[j])
    BY <1>1, <1>4, <1>8
  <2>2. D[q][s[i]] \in Int /\ D[q][s[j]] \in Int /\ \A z \in S : D[q][z] \in Int
    BY <2>1, DistInt
  <2>3. CASE ~ (D[q][s[i]] < D[q][s[j]])
    <3> DEFINE Below(x) == {y \in S : D[q][y] < D[q][x]}
    <3>1. Below(s[j]) \in SUBSET Below(s[i]) /\ Below(s[i]) \in SUBSET S
      BY <2>2, <2>3
    <3>2. Cardinality(Below(s[j])) <= Cardinality(Below(s[i]))
      <4> HIDE DEF Below
      <4> QED BY <3>1, PointsFinite, FS_Subset
    <3>3. Rank(q, S, s[j]) <= Rank(q, S, s[i])
      BY <3>2 DEF Rank
    <3> QED
      BY <1>2, <2>1, <3>3
  <2> QED
    BY <2>3
<1> QED
  BY <1>5, <1>6, <1>7, <1>8 DEF n, s

LEMMA NearestIn ==
    ASSUME NEW q \in Points, NEW S, S \subseteq Points, S # {}
    PROVE  Nearest(q, S) \in S /\ \A y \in S : D[q][Nearest(q, S)] <= D[q][y]
<1> DEFINE s == ByDistance(q, S)
           n == Len(s)
<1>1. s \in Seq(S) /\ n \in Nat /\ ToSet(s) = S /\ DOMAIN s = 1 .. n
      /\ \A i, j \in 1 .. n : i < j => D[q][s[i]] < D[q][s[j]]
  BY ByDistanceFacts
<1> HIDE DEF s, n
<1>2. \A y \in S : \E j \in 1 .. n : y = s[j]
  BY <1>1 DEF ToSet
<1>3. 1 \in 1 .. n /\ s[1] \in S
  BY <1>1, <1>2
<1>4. \A y \in S : D[q][y] \in Int
  BY DistInt
<1>5. ASSUME NEW y \in S PROVE D[q][s[1]] <= D[q][y]
  <2>1. PICK j \in 1 .. n : y = s[j]
    BY <1>2
  <2>2. j = 1 \/ 1 < j
    BY <1>1
  <2> QED
    BY <1>1, <1>3, <1>4, <2>1, <2>2
<1> QED
  BY <1>3, <1>5 DEF Nearest

-----------------------------------------------------------------------------
(***************************************************************************)
(* Neighbour selection and pruning.                                        *)
(***************************************************************************)
\* A sequence without repetition is as long as its set of elements is large.
LEMMA InjectiveLen ==
    ASSUME NEW S, NEW s \in Seq(S), IsInjective(s)
    PROVE  /\ IsFiniteSet(ToSet(s)) /\ Cardinality(ToSet(s)) = Len(s)
           /\ ToSet(s) \subseteq S
<1>1. Len(s) \in Nat /\ DOMAIN s = 1 .. Len(s) /\ s \in [1 .. Len(s) -> ToSet(s)]
  BY DEF ToSet
<1>2. s \in Bijection(1 .. Len(s), ToSet(s))
  BY <1>1 DEF Bijection, Injection, Surjection, ToSet
<1>3. ExistsBijection(1 .. Len(s), ToSet(s))
  BY <1>2 DEF ExistsBijection
<1>4. Cardinality(ToSet(s)) = Len(s)
  BY <1>1, <1>3, FS_CountingElements
<1>5. IsFiniteSet(ToSet(s))
  BY <1>1, <1>3, FS_NatBijection
<1>6. ToSet(s) \subseteq S
  BY <1>1 DEF ToSet
<1> QED
  BY <1>4, <1>5, <1>6

\* The first k elements of two sequences without repetition or common element.
LEMMA PrefixFacts ==
    ASSUME NEW S, NEW a \in Seq(S), NEW b \in Seq(S), IsInjective(a), IsInjective(b),
           ToSet(a) \cap ToSet(b) = {}, NEW k \in Nat
    PROVE  LET all == a \o b
               n   == IF k < Len(all) THEN k ELSE Len(all)
               s   == SubSeq(all, 1, n)
           IN  /\ s \in Seq(S) /\ Len(s) = n /\ IsInjective(s)
               /\ ToSet(s) \subseteq ToSet(a) \cup ToSet(b)
               /\ Len(all) = Len(a) + Len(b)
<1> DEFINE all == a \o b
           n == IF k < Len(all) THEN k ELSE Len(all)
           s == SubSeq(all, 1, n)
<1>1. /\ Len(a) \in Nat /\ Len(b) \in Nat /\ all \in Seq(S)
      /\ Len(all) = Len(a) + Len(b)
      /\ \A j \in 1 .. Len(all) : all[j] = IF j <= Len(a) THEN a[j] ELSE b[j - Len(a)]
  OBVIOUS
<1>2. /\ DOMAIN a = 1 .. Len(a) /\ DOMAIN b = 1 .. Len(b)
      /\ \A j \in 1 .. Len(a) : a[j] \in ToSet(a)
      /\ \A j \in 1 .. Len(b) : b[j] \in ToSet(b)
  BY DEF ToSet
<1>3. ASSUME NEW i \in 1 .. Len(all), NEW j \in 1 .. Len(all), i # j
      PROVE  all[i] # all[j]
  <2>1. CASE i <= Len(a) /\ j <= Len(a)
    BY <1>1, <1>2, <1>3, <2>1 DEF IsInjective
  <2>2. CASE i > Len(a) /\ j > Len(a)
    <3>1. /\ i - Len(a) \in 1 .. Len(b) /\ j - Len(a) \in 1 .. Len(b)
          /\ i - Len(a) # j - Len(a)
          /\ all[i] = b[i - Len(a)] /\ all[j] = b[j - Len(a)]
      BY <1>1, <1>3, <2>2
    <3> QED
      BY <1>2, <3>1 DEF IsInjective
  <2>3. CASE i <= Len(a) /\ j > Len(a)
    <3>1. j - Len(a) \in 1 .. Len(b) /\ i \in 1 .. Len(a)
          /\ all[i] = a[i] /\ all[j] = b[j - Len(a)]
      BY <1>1, <2>3
    <3> QED
      BY <1>2, <3>1
  <2>4. CASE i > Len(a) /\ j <= Len(a)
    <3>1. i - Len(a) \in 1 .. Len(b) /\ j \in 1 .. Len(a)
          /\ all[j] = a[j] /\ all[i] = b[i - Len(a)]
      BY <1>1, <2>4
    <3> QED
      BY <1>2, <3>1
  <2> QED
    BY <1>1, <2>1, <2>2, <2>3, <2>4
<1>4. \A j \in 1 .. Len(all) : all[j] \in ToSet(a) \cup ToSet(b)
  BY <1>1, <1>2
<1> HIDE DEF all
<1>5. n \in 0 .. Len(all) /\ n \in Nat
  BY <1>1
<1> HIDE DEF n
<1>6. /\ s \in Seq(S) /\ Len(s) = n /\ DOMAIN s = 1 .. n
      /\ \A j \in 1 .. n : s[j] = all[j]
  BY <1>1, <1>5
<1>7. IsInjective(s)
  BY <1>3, <1>5, <1>6 DEF IsInjective
<1>8. ToSet(s) \subseteq ToSet(a) \cup ToSet(b)
  BY <1>4, <1>5, <1>6 DEF ToSet
<1> QED
  BY <1>1, <1>6, <1>7, <1>8 DEF n, all

\* The sizes of two disjoint sets of nodes add up.
LEMMA SplitCount ==
    ASSUME NEW S, S \subseteq Points, NEW A, A \subseteq S
    PROVE  Cardinality(S) = Cardinality(A) + Cardinality(S \ A)
<1> DEFINE B == S \ A
<1>1. /\ IsFiniteSet(A) /\ Cardinality(A) \in Nat
      /\ IsFiniteSet(B) /\ Cardinality(B) \in Nat
  BY PointsFinite
<1>2. A \cup B = S /\ A \cap B = {}
  OBVIOUS
<1> HIDE DEF B
<1>3. Cardinality(A \cup B) = Cardinality(A) + Cardinality(B) - Cardinality(A \cap B)
  BY <1>1, FS_Union
<1>4. Cardinality(A \cap B) = 0
  BY <1>2, FS_EmptySet
<1>5. Cardinality(S) = Cardinality(A) + Cardinality(B)
  <2>1. Cardinality(S) = Cardinality(A) + Cardinality(B) - 0
    BY <1>2, <1>3, <1>4
  <2> QED
    BY <1>1, <2>1
<1> QED
  BY <1>5 DEF B

\* select_neighbors returns distinct candidates, k of them or all.
LEMMA SelectFacts ==
    ASSUME NEW q \in Points, NEW S, S \subseteq Points, NEW k \in Nat
    PROVE  LET s == SelectNeighbors(q, S, k) IN
           /\ s \in Seq(S) /\ IsInjective(s) /\ ToSet(s) \subseteq S
           /\ Len(s) = IF k < Cardinality(S) THEN k ELSE Cardinality(S)
<1> DEFINE div == Diverse(q, S)
           a == ByDistance(q, div)
           b == ByDistance(q, S \ div)
           s == SelectNeighbors(q, S, k)
<1>1. div \subseteq S
  BY DEF Diverse
<1> HIDE DEF div
<1>2. /\ a \in Seq(S) /\ IsInjective(a) /\ ToSet(a) = div /\ Len(a) = Cardinality(div)
      /\ b \in Seq(S) /\ IsInjective(b) /\ ToSet(b) = S \ div
      /\ Len(b) = Cardinality(S \ div)
  <2>1. a \in Seq(div) /\ b \in Seq(S \ div)
    BY <1>1, ByDistanceFacts
  <2>2. a \in Seq(S) /\ b \in Seq(S)
    BY <1>1, <2>1
  <2> QED
    BY <1>1, <2>2, ByDistanceFacts
<1>3. Cardinality(S) = Cardinality(div) + Cardinality(S \ div)
  BY <1>1, SplitCount
<1>4. s = SubSeq(a \o b, 1, IF k < Len(a \o b) THEN k ELSE Len(a \o b))
  BY DEF SelectNeighbors, div
<1>5. ToSet(a) \cap ToSet(b) = {} /\ ToSet(a) \cup ToSet(b) = S
  BY <1>1, <1>2
<1> HIDE DEF a, b, s
<1>6. /\ s \in Seq(S) /\ IsInjective(s) /\ ToSet(s) \subseteq S
      /\ Len(s) = IF k < Len(a) + Len(b) THEN k ELSE Len(a) + Len(b)
  BY <1>2, <1>4, <1>5, PrefixFacts
<1> QED
  BY <1>2, <1>3, <1>6 DEF s

\* shrink_links returns distinct members of the list, within the cap; a list
\* that fits is not touched.
LEMMA ShrinkFacts ==
    ASSUME NEW v \in Points, NEW list \in Seq(Points), IsInjective(list), NEW l \in Nat
    PROVE  LET s == ShrinkLinks(v, list, l) IN
           /\ s \in Seq(ToSet(list)) /\ IsInjective(s) /\ ToSet(s) \subseteq ToSet(list)
           /\ Len(s) = IF Len(list) <= LinkCap(l) THEN Len(list) ELSE LinkCap(l)
           /\ Len(list) <= LinkCap(l) => s = list
<1>1. LinkCap(l) \in Nat /\ Len(list) \in Nat
  BY HnswOpsAssumption DEF LinkCap, M0
<1>2. list \in Seq(ToSet(list))
  BY DEF ToSet
<1>3. ToSet(list) \subseteq Points /\ Cardinality(ToSet(list)) = Len(list)
  BY InjectiveLen
<1>4. CASE Len(list) <= LinkCap(l)
  BY <1>1, <1>2, <1>4 DEF ShrinkLinks
<1>5. CASE ~ (Len(list) <= LinkCap(l))
  <2>1. ShrinkLinks(v, list, l) = SelectNeighbors(v, ToSet(list), LinkCap(l))
    BY <1>5 DEF ShrinkLinks
  <2>2. LinkCap(l) < Cardinality(ToSet(list))
    BY <1>1, <1>3, <1>5
  <2> QED
    BY <1>1, <1>3, <1>5, <2>1, <2>2, SelectFacts
<1> QED
  BY <1>4, <1>5

-----------------------------------------------------------------------------
(***************************************************************************)
(* Traversals of one level.  S is closed at level l if the lists of its    *)
(* members at that level name members of S only.                           *)
(***************************************************************************)
Closed(g, l, S) == \A u \in S : Links(g, u, l) \in Seq(S)

\* One turn of greedy_step, from the node reached so far.
GreedyOp(c, cur, n) == Nearest(c.q, {cur} \cup ToSet(Links(c.g, cur, c.l)))
GreedyInv(c, k, cur) == cur \in c.in

Greedy == INSTANCE FoldFacts WITH Op <- GreedyOp, Inv <- GreedyInv

\* greedy_step ends in every closed set it starts in.
LEMMA GreedyStays ==
    ASSUME NEW g, NEW q \in Points, NEW l, NEW S, S \subseteq Points, Closed(g, l, S),
           NEW ep \in S, Cardinality(Nodes(g)) \in Nat
    PROVE  GreedyStep(g, q, ep, l) \in S
<1> DEFINE c == [g |-> g, q |-> q, l |-> l, in |-> S]
           n == Cardinality(Nodes(g))
<1>1. GreedyStep(g, q, ep, l) = Greedy!Fold(c, ep, Rounds(g))
  BY DEF GreedyStep, GreedyOp, Greedy!Fold, Greedy!FoldLeft, FoldLeft,
         MapThenFoldSet, Greedy!MapThenFoldSet, Max, Greedy!Max
<1>2. n \in Nat /\ DOMAIN Rounds(g) = 1 .. n
  BY DEF Rounds
<1>3. c.in = S /\ c.q = q /\ c.g = g /\ c.l = l
  OBVIOUS
<1> HIDE DEF c, n
<1>4. GreedyInv(c, 0, ep)
  BY <1>3 DEF GreedyInv
<1>5. ASSUME NEW cur, NEW k, GreedyInv(c, k, cur), NEW x
      PROVE  GreedyInv(c, k + 1, GreedyOp(c, cur, x))
  <2> DEFINE R == {cur} \cup ToSet(Links(g, cur, l))
  <2>1. cur \in S
    BY <1>3, <1>5 DEF GreedyInv
  <2>2. Links(g, cur, l) \in Seq(S)
    BY <2>1 DEF Closed
  <2>3. ToSet(Links(g, cur, l)) \subseteq S
    BY <2>2 DEF ToSet
  <2>4. R \subseteq S /\ R \subseteq Points /\ R # {}
    BY <2>1, <2>3
  <2> HIDE DEF R
  <2>5. Nearest(q, R) \in S
    BY <2>4, NearestIn
  <2> QED
    BY <1>3, <2>5 DEF GreedyOp, GreedyInv, R
<1>6. GreedyInv(c, n, Greedy!Fold(c, ep, Rounds(g)))
  BY <1>2, <1>4, <1>5, Greedy!FoldInv
<1> QED
  BY <1>1, <1>3, <1>6 DEF GreedyInv

-----------------------------------------------------------------------------
(***************************************************************************)
(* The beam search.  A node is expanded when it is visited and no          *)
(* candidate any more.  As long as the result set is not full nothing was  *)
(* turned away: the permitted nodes visited are the results, and whoever   *)
(* is expanded has all its neighbours visited.                             *)
(***************************************************************************)
Full(b, ef) == Cardinality(b.res) >= ef

Opened(b) == b.vis \ b.cand

IsBeam(b, S, ok) == /\ b = [cand |-> b.cand, res |-> b.res, vis |-> b.vis]
                    /\ b.vis \subseteq S /\ b.cand \subseteq b.vis
                    /\ b.res \subseteq b.vis \cap ok

\* What one turn of the inner loop does, and what it keeps: c.old has been
\* expanded, c.cur, the last of it, is about to have its list gone through.
MeetOp(c, s, x) == Meet(c.q, s, c.ef, c.ok, x)
MeetInv(c, k, s) ==
    /\ IsBeam(s, c.in, c.ok)
    /\ c.old \subseteq Opened(s) /\ c.seen \subseteq s.vis
    /\ ~ Full(s, c.ef) =>
          /\ s.res = s.vis \cap c.ok
          /\ \A u \in Opened(s) \ {c.cur} : ToSet(Links(c.g, u, c.l)) \subseteq s.vis
          /\ \A j \in 1 .. k : Links(c.g, c.cur, c.l)[j] \in s.vis

Meets == INSTANCE FoldFacts WITH Op <- MeetOp, Inv <- MeetInv

\* Trimming a result set never takes it below ef.
LEMMA TrimFacts ==
    ASSUME NEW q, NEW S, S \subseteq Points, NEW ef \in Nat
    PROVE  /\ Trim(q, S, ef) \subseteq S
           /\ Cardinality(S) >= ef => Cardinality(Trim(q, S, ef)) >= ef
           /\ Cardinality(Trim(q, S, ef)) < ef => Trim(q, S, ef) = S
<1>1. IsFiniteSet(S) /\ Cardinality(S) \in Nat
  BY PointsFinite
<1>2. CASE Cardinality(S) > ef
  <2> DEFINE f == Farthest(q, S)
  <2>1. Trim(q, S, ef) = S \ {f}
    BY <1>2 DEF Trim
  <2> HIDE DEF f
  <2>2. Cardinality(S \ {f}) \in {Cardinality(S), Cardinality(S) - 1}
    BY <1>1, FS_RemoveElement
  <2>3. Cardinality(S \ {f}) >= ef /\ ~ (Cardinality(S \ {f}) < ef)
    BY <1>1, <1>2, <2>2
  <2> QED
    BY <2>1, <2>3
<1>3. CASE ~ (Cardinality(S) > ef)
  BY <1>3 DEF Trim
<1> QED
  BY <1>2, <1>3

LEMMA MeetStep ==
    ASSUME NEW c, NEW k \in Nat, NEW s, MeetInv(c, k, s), c.in \subseteq Points,
           c.ef \in Nat, NEW x \in c.in, x = Links(c.g, c.cur, c.l)[k + 1]
    PROVE  MeetInv(c, k + 1, MeetOp(c, s, x))
<1> DEFINE m == MeetOp(c, s, x)
<1>1. /\ s = [cand |-> s.cand, res |-> s.res, vis |-> s.vis]
      /\ s.vis \subseteq c.in /\ s.cand \subseteq s.vis /\ s.res \subseteq s.vis \cap c.ok
      /\ c.old \subseteq Opened(s) /\ c.seen \subseteq s.vis
  BY DEF MeetInv, IsBeam
<1>2. s.res \subseteq Points /\ s.res \cup {x} \subseteq Points
  BY <1>1
<1>3. Cardinality(s.res) \in Nat
  BY <1>2, PointsFinite
<1>4. ASSUME ~ Full(s, c.ef)
      PROVE  /\ s.res = s.vis \cap c.ok
             /\ \A u \in Opened(s) \ {c.cur} : ToSet(Links(c.g, u, c.l)) \subseteq s.vis
             /\ \A j \in 1 .. k : Links(c.g, c.cur, c.l)[j] \in s.vis
  BY <1>4 DEF MeetInv
<1>5. \A j \in 1 .. k + 1 : j \in 1 .. k \/ j = k + 1
  OBVIOUS
<1>6. CASE x \in s.vis
  <2>1. m = s
    BY <1>6 DEF MeetOp, Meet
  <2> QED
    BY <1>4, <1>5, <1>6, <2>1 DEF MeetInv
<1>7. CASE x \notin s.vis /\ ~ Room(c.q, s, c.ef, x)
  <2>1. m = [s EXCEPT !.vis = @ \cup {x}]
    BY <1>7 DEF MeetOp, Meet
  <2>2. m = [cand |-> s.cand, res |-> s.res, vis |-> s.vis \cup {x}]
    BY <1>1, <2>1
  <2>3. Full(m, c.ef)
    BY <1>3, <1>7, <2>2 DEF Room, Full
  <2> HIDE DEF m
  <2>4. m.cand = s.cand /\ m.res = s.res /\ m.vis = s.vis \cup {x}
    BY <2>2
  <2>5. IsBeam(m, c.in, c.ok)
    BY <1>1, <2>2, <2>4 DEF IsBeam
  <2>6. c.old \subseteq Opened(m) /\ c.seen \subseteq m.vis
    BY <1>1, <2>4 DEF Opened
  <2> QED
    BY <2>3, <2>5, <2>6 DEF MeetInv, m
<1>8. CASE x \notin s.vis /\ Room(c.q, s, c.ef, x)
  <2> DEFINE T == Trim(c.q, s.res \cup {x}, c.ef)
  <2>1. m = [cand |-> s.cand \cup {x}, res |-> IF x \in c.ok THEN T ELSE s.res,
             vis |-> s.vis \cup {x}]
    BY <1>8 DEF MeetOp, Meet
  <2>2. /\ T \subseteq s.res \cup {x}
        /\ Cardinality(s.res \cup {x}) >= c.ef => Cardinality(T) >= c.ef
        /\ Cardinality(T) < c.ef => T = s.res \cup {x}
    BY <1>2, TrimFacts
  <2>3. T \subseteq Points /\ Cardinality(T) \in Nat
    BY <1>2, <2>2, PointsFinite
  <2> HIDE DEF T, m
  <2>4. /\ m.cand = s.cand \cup {x} /\ m.vis = s.vis \cup {x}
        /\ m.res = IF x \in c.ok THEN T ELSE s.res
        /\ m = [cand |-> m.cand, res |-> m.res, vis |-> m.vis]
    BY <2>1
  <2>5. IsBeam(m, c.in, c.ok)
    BY <1>1, <2>2, <2>4 DEF IsBeam
  <2>6. Opened(m) = Opened(s)
    BY <1>1, <1>8, <2>4 DEF Opened
  <2>7. ASSUME ~ Full(m, c.ef)
        PROVE  /\ ~ Full(s, c.ef)
               /\ m.res = IF x \in c.ok THEN s.res \cup {x} ELSE s.res
    <3>1. CASE x \in c.ok
      <4>1. Cardinality(T) < c.ef
        BY <2>3, <2>4, <2>7, <3>1 DEF Full
      <4>2. T = s.res \cup {x} /\ ~ (Cardinality(s.res \cup {x}) >= c.ef)
        BY <2>2, <2>3, <4>1
      <4>3. Cardinality(s.res) <= Cardinality(s.res \cup {x})
            /\ Cardinality(s.res \cup {x}) \in Nat
        BY <1>2, PointsFinite, FS_Subset
      <4>4. ~ (Cardinality(s.res) >= c.ef)
        BY <1>3, <4>2, <4>3
      <4> QED
        BY <2>4, <3>1, <4>2, <4>4 DEF Full
    <3>2. CASE x \notin c.ok
      BY <2>4, <2>7, <3>2 DEF Full
    <3> QED
      BY <3>1, <3>2
  <2>8. ASSUME ~ Full(m, c.ef)
        PROVE  /\ m.res = m.vis \cap c.ok
               /\ \A u \in Opened(m) \ {c.cur} : ToSet(Links(c.g, u, c.l)) \subseteq m.vis
               /\ \A j \in 1 .. k + 1 : Links(c.g, c.cur, c.l)[j] \in m.vis
    <3>1. /\ s.res = s.vis \cap c.ok
          /\ m.res = IF x \in c.ok THEN s.res \cup {x} ELSE s.res
          /\ \A u \in Opened(s) \ {c.cur} : ToSet(Links(c.g, u, c.l)) \subseteq s.vis
          /\ \A j \in 1 .. k : Links(c.g, c.cur, c.l)[j] \in s.vis
      BY <1>4, <2>7, <2>8
    <3> QED
      BY <1>5, <2>4, <2>6, <3>1
  <2> QED
    BY <1>1, <2>4, <2>5, <2>6, <2>8 DEF MeetInv, m
<1> QED
  BY <1>6, <1>7, <1>8

\* A beam between two turns of the outer loop.
BeamInv(g, b, ef, l, ok, S) ==
    /\ IsBeam(b, S, ok)
    /\ ~ Full(b, ef) =>
          /\ b.res = b.vis \cap ok
          /\ \A u \in Opened(b) : ToSet(Links(g, u, l)) \subseteq b.vis

\* One turn of the outer loop expands one more node.
LEMMA ExpandFacts ==
    ASSUME NEW g, NEW q \in Points, NEW b, NEW ef \in Nat, NEW l, NEW ok,
           NEW S, S \subseteq Points, Closed(g, l, S), BeamInv(g, b, ef, l, ok, S),
           ~ BeamDone(q, b, ef)
    PROVE  LET n == Expand(g, q, b, ef, l, ok) IN
           /\ BeamInv(g, n, ef, l, ok, S)
           /\ \E u \in S : u \notin Opened(b) /\ Opened(b) \cup {u} \subseteq Opened(n)
           /\ Opened(n) \subseteq S /\ b.vis \subseteq n.vis
<1> DEFINE cur == Nearest(q, b.cand)
           base == [b EXCEPT !.cand = @ \ {cur}]
           c == [g |-> g, q |-> q, ef |-> ef, l |-> l, ok |-> ok, in |-> S,
                 cur |-> cur, old |-> Opened(b) \cup {cur}, seen |-> b.vis]
           list == Links(g, cur, l)
           n == Expand(g, q, b, ef, l, ok)
<1>1. /\ b = [cand |-> b.cand, res |-> b.res, vis |-> b.vis]
      /\ b.vis \subseteq S /\ b.cand \subseteq b.vis /\ b.res \subseteq b.vis \cap ok
  BY DEF BeamInv, IsBeam
<1>2. b.cand # {} /\ b.cand \subseteq Points
  BY <1>1 DEF BeamDone
<1>3. cur \in b.cand /\ cur \in S
  BY <1>1, <1>2, NearestIn
<1>4. list \in Seq(S)
  BY <1>3 DEF Closed
<1>5. n = Meets!Fold(c, base, list)
  BY DEF Expand, MeetOp, Meets!Fold, Meets!FoldLeft, FoldLeft, MapThenFoldSet,
         Meets!MapThenFoldSet, Max, Meets!Max
<1>6. /\ c.g = g /\ c.q = q /\ c.ef = ef /\ c.l = l /\ c.ok = ok /\ c.in = S
      /\ c.cur = cur /\ c.old = Opened(b) \cup {cur} /\ c.seen = b.vis
  OBVIOUS
<1>7. base = [cand |-> b.cand \ {cur}, res |-> b.res, vis |-> b.vis]
  BY <1>1
<1>8. Links(c.g, c.cur, c.l) = list
  BY <1>6
<1> HIDE DEF c, cur, base, list, n
<1>9. base.cand = b.cand \ {cur} /\ base.res = b.res /\ base.vis = b.vis
  BY <1>7
<1>10. Opened(base) = Opened(b) \cup {cur}
  BY <1>1, <1>3, <1>9 DEF Opened
<1>11. MeetInv(c, 0, base)
  <2>1. IsBeam(base, c.in, c.ok)
    BY <1>1, <1>6, <1>7, <1>9 DEF IsBeam
  <2>2. c.old \subseteq Opened(base) /\ c.seen \subseteq base.vis
    BY <1>6, <1>9, <1>10
  <2>3. ASSUME ~ Full(base, c.ef)
        PROVE  /\ base.res = base.vis \cap c.ok
               /\ \A u \in Opened(base) \ {c.cur} :
                     ToSet(Links(c.g, u, c.l)) \subseteq base.vis
    <3>1. ~ Full(b, ef)
      BY <1>6, <1>9, <2>3 DEF Full
    <3> QED
      BY <1>6, <1>9, <1>10, <3>1 DEF BeamInv
  <2> QED
    BY <2>1, <2>2, <2>3 DEF MeetInv
<1>12. Len(list) \in Nat /\ DOMAIN list = 1 .. Len(list)
       /\ \A k \in 0 .. Len(list) - 1 : list[k + 1] \in S /\ k \in Nat
  BY <1>4
<1>13. \A s : \A k \in 0 .. Len(list) - 1 :
          MeetInv(c, k, s) => MeetInv(c, k + 1, MeetOp(c, s, list[k + 1]))
  <2> SUFFICES ASSUME NEW s, NEW k \in 0 .. Len(list) - 1, MeetInv(c, k, s)
               PROVE  MeetInv(c, k + 1, MeetOp(c, s, list[k + 1]))
    OBVIOUS
  <2>1. list[k + 1] \in c.in /\ c.in \subseteq Points /\ c.ef \in Nat /\ k \in Nat
        /\ list[k + 1] = Links(c.g, c.cur, c.l)[k + 1]
    BY <1>6, <1>8, <1>12
  <2> QED
    BY <2>1, MeetStep
<1>14. MeetInv(c, Len(list), n)
  BY <1>5, <1>11, <1>12, <1>13, Meets!FoldInv
<1>15. IsBeam(n, S, ok) /\ Opened(b) \cup {cur} \subseteq Opened(n)
       /\ b.vis \subseteq n.vis
  BY <1>6, <1>14 DEF MeetInv
<1>16. ASSUME ~ Full(n, ef)
       PROVE  /\ n.res = n.vis \cap ok
              /\ \A u \in Opened(n) : ToSet(Links(g, u, l)) \subseteq n.vis
  <2>1. /\ n.res = n.vis \cap ok
        /\ \A u \in Opened(n) \ {cur} : ToSet(Links(g, u, l)) \subseteq n.vis
        /\ \A j \in 1 .. Len(list) : list[j] \in n.vis
    BY <1>6, <1>8, <1>14, <1>16 DEF MeetInv
  <2>2. ToSet(list) \subseteq n.vis
    BY <1>12, <2>1 DEF ToSet
  <2> QED
    BY <2>1, <2>2 DEF list
<1>17. cur \notin Opened(b) /\ Opened(n) \subseteq S
  BY <1>3, <1>15 DEF Opened, IsBeam
<1> QED
  BY <1>3, <1>15, <1>16, <1>17 DEF BeamInv, n

RoundOp(c, b, n) == Expand(c.g, c.q, b, c.ef, c.l, c.ok)
RoundInv(c, k, b) ==
    /\ BeamInv(c.g, b, c.ef, c.l, c.ok, c.in)
    /\ c.ep \in b.vis
    /\ BeamDone(c.q, b, c.ef) \/ Cardinality(Opened(b)) >= k

Turns == INSTANCE FoldFacts WITH Op <- RoundOp, Inv <- RoundInv

LEMMA RoundStep ==
    ASSUME NEW c, NEW k \in Nat, NEW b, RoundInv(c, k, b), c.q \in Points,
           c.ef \in Nat, c.in \subseteq Points, Closed(c.g, c.l, c.in), NEW x
    PROVE  RoundInv(c, k + 1, RoundOp(c, b, x))
<1> DEFINE n == RoundOp(c, b, x)
<1>1. CASE BeamDone(c.q, b, c.ef)
  <2>1. n = b
    BY <1>1 DEF RoundOp, Expand
  <2> QED
    BY <1>1, <2>1 DEF RoundInv
<1>2. CASE ~ BeamDone(c.q, b, c.ef)
  <2>1. BeamInv(c.g, b, c.ef, c.l, c.ok, c.in) /\ Cardinality(Opened(b)) >= k
        /\ c.ep \in b.vis
    BY <1>2 DEF RoundInv
  <2>2. /\ BeamInv(c.g, n, c.ef, c.l, c.ok, c.in)
        /\ \E u \in c.in : u \notin Opened(b) /\ Opened(b) \cup {u} \subseteq Opened(n)
        /\ Opened(n) \subseteq c.in /\ b.vis \subseteq n.vis
    BY <1>2, <2>1, ExpandFacts DEF RoundOp
  <2> HIDE DEF n
  <2>3. PICK u \in c.in : u \notin Opened(b) /\ Opened(b) \cup {u} \subseteq Opened(n)
    BY <2>2
  <2>4. IsFiniteSet(Opened(n)) /\ Cardinality(Opened(n)) \in Nat
    BY <2>2, PointsFinite
  <2>5. Opened(b) \subseteq Points
    BY <2>1 DEF BeamInv, IsBeam, Opened
  <2>6. IsFiniteSet(Opened(b)) /\ Cardinality(Opened(b)) \in Nat
    BY <2>5, PointsFinite
  <2>7. Cardinality(Opened(b) \cup {u}) = Cardinality(Opened(b)) + 1
    BY <2>3, <2>6, FS_AddElement
  <2>8. Cardinality(Opened(b) \cup {u}) <= Cardinality(Opened(n))
    BY <2>3, <2>4, FS_Subset
  <2>9. Cardinality(Opened(n)) >= k + 1
    BY <2>1, <2>4, <2>6, <2>7, <2>8
  <2>10. c.ep \in n.vis
    BY <2>1, <2>2
  <2> QED
    BY <2>2, <2>9, <2>10 DEF RoundInv, n
<1> QED
  BY <1>1, <1>2

\* search_layer, in any closed set it starts in, returns permitted nodes of that
\* set: ef of them, or all that can be reached from where it started (Explored).
Explored(g, q, ep, ef, l, ok, S) ==
    LET r == SearchLayer(g, q, ep, ef, l, ok)
    IN  /\ r \subseteq S \cap ok
        /\ \/ Cardinality(r) >= ef
           \/ \E V \in SUBSET S : ep \in V /\ Closed(g, l, V) /\ r = V \cap ok

LEMMA SearchLayerFacts ==
    ASSUME NEW g, NEW q \in Points, NEW ef \in Nat, ef >= 1, NEW l, NEW ok,
           NEW S, S \subseteq Nodes(g), Nodes(g) \subseteq Points, Closed(g, l, S),
           NEW ep \in S
    PROVE  Explored(g, q, ep, ef, l, ok, S)
<1> DEFINE N == Cardinality(Nodes(g))
           start == [cand |-> {ep}, res |-> {ep} \cap ok, vis |-> {ep}]
           c == [g |-> g, q |-> q, ef |-> ef, l |-> l, ok |-> ok, in |-> S, ep |-> ep]
           b == Turns!Fold(c, start, Rounds(g))
           r == SearchLayer(g, q, ep, ef, l, ok)
<1>1. r = b.res
  BY DEF SearchLayer, RoundOp, Turns!Fold, Turns!FoldLeft, FoldLeft, MapThenFoldSet,
         Turns!MapThenFoldSet, Max, Turns!Max
<1>2. S \subseteq Points /\ ep \in Points /\ N \in Nat
  BY PointsFinite
<1>3. /\ c.g = g /\ c.q = q /\ c.ef = ef /\ c.l = l /\ c.ok = ok /\ c.in = S
      /\ c.ep = ep
  OBVIOUS
<1>4. start = [cand |-> start.cand, res |-> start.res, vis |-> start.vis]
      /\ start.cand = {ep} /\ start.vis = {ep} /\ start.res = {ep} \cap ok
  OBVIOUS
<1> HIDE DEF c, start, b, r
<1>5. RoundInv(c, 0, start)
  <2>1. IsBeam(start, S, ok) /\ Opened(start) = {}
    BY <1>4 DEF IsBeam, Opened
  <2>2. BeamInv(g, start, ef, l, ok, S)
    BY <1>4, <2>1 DEF BeamInv
  <2>3. Cardinality(Opened(start)) >= 0
    BY <2>1, FS_EmptySet
  <2> QED
    BY <1>3, <1>4, <2>2, <2>3 DEF RoundInv
<1>6. DOMAIN Rounds(g) = 1 .. N
  BY DEF Rounds
<1>7. \A s : \A k \in 0 .. N - 1 :
         RoundInv(c, k, s) => RoundInv(c, k + 1, RoundOp(c, s, Rounds(g)[k + 1]))
  <2> HIDE DEF N
  <2> SUFFICES ASSUME NEW s, NEW k \in 0 .. N - 1, RoundInv(c, k, s)
               PROVE  RoundInv(c, k + 1, RoundOp(c, s, Rounds(g)[k + 1]))
    OBVIOUS
  <2>1. k \in Nat /\ c.q \in Points /\ c.ef \in Nat /\ c.in \subseteq Points
        /\ Closed(c.g, c.l, c.in)
    BY <1>2, <1>3
  <2> QED
    BY <2>1, RoundStep
<1> HIDE DEF N
<1>8. RoundInv(c, N, b)
  BY <1>2, <1>5, <1>6, <1>7, Turns!FoldInv DEF b
<1>9. /\ IsBeam(b, S, ok)
      /\ ~ Full(b, ef) =>
            /\ b.res = b.vis \cap ok
            /\ \A u \in Opened(b) : ToSet(Links(g, u, l)) \subseteq b.vis
      /\ ep \in b.vis
      /\ BeamDone(q, b, ef) \/ Cardinality(Opened(b)) >= N
  BY <1>3, <1>8 DEF RoundInv, BeamInv
<1>10. b.vis \subseteq S /\ b.cand \subseteq b.vis /\ b.res \subseteq S \cap ok
  BY <1>9 DEF IsBeam
<1>11. ASSUME ~ Full(b, ef) PROVE b.cand = {}
  <2>1. CASE BeamDone(q, b, ef)
    BY <1>11, <2>1 DEF BeamDone, Full
  <2>2. CASE Cardinality(Opened(b)) >= N
    <3>1. Opened(b) \in SUBSET Nodes(g)
      BY <1>10 DEF Opened
    <3>2. IsFiniteSet(Nodes(g)) /\ Cardinality(Opened(b)) \in Nat
      BY <3>1, PointsFinite
    <3>3. Cardinality(Opened(b)) <= N
      BY <3>1, <3>2, FS_Subset DEF N
    <3>4. N = Cardinality(Opened(b))
      BY <1>2, <2>2, <3>2, <3>3
    <3>5. Opened(b) = Nodes(g)
      BY <3>1, <3>2, <3>4, FS_Subset DEF N
    <3> QED
      BY <1>10, <3>5 DEF Opened
  <2> QED
    BY <1>9, <2>1, <2>2
<1>12. ASSUME ~ Full(b, ef)
       PROVE  \E V \in SUBSET S : ep \in V /\ Closed(g, l, V) /\ b.res = V \cap ok
  <2>1. Opened(b) = b.vis
    BY <1>11, <1>12 DEF Opened
  <2>2. ASSUME NEW u \in b.vis PROVE Links(g, u, l) \in Seq(b.vis)
    <3>1. Links(g, u, l) \in Seq(S) /\ ToSet(Links(g, u, l)) \subseteq b.vis
      BY <1>9, <1>10, <1>12, <2>1 DEF Closed
    <3>2. \A j \in 1 .. Len(Links(g, u, l)) : Links(g, u, l)[j] \in b.vis
      BY <3>1 DEF ToSet
    <3> QED
      BY <3>1, <3>2
  <2>3. Closed(g, l, b.vis)
    BY <2>2 DEF Closed
  <2> QED
    BY <1>9, <1>10, <1>12, <2>3
<1> QED
  BY <1>1, <1>10, <1>12 DEF Explored, Full, r

-----------------------------------------------------------------------------
(***************************************************************************)
(* Graphs.                                                                 *)
(***************************************************************************)
IsGraph(g) ==
    /\ g = [lvl |-> g.lvl, link |-> g.link, entry |-> g.entry, top |-> g.top]
    /\ Nodes(g) \subseteq Points
    /\ g.lvl \in [Nodes(g) -> Nat] /\ DOMAIN g.link = Nodes(g)
    /\ \A v \in Nodes(g) : g.link[v] \in [1 .. g.lvl[v] + 1 -> Seq(Nodes(g))]

OnLev(g, l) == {u \in Nodes(g) : g.lvl[u] >= l}

LEMMA LinksType ==
    ASSUME NEW g, IsGraph(g), NEW u \in Nodes(g), NEW l \in 0 .. g.lvl[u]
    PROVE  /\ Links(g, u, l) \in Seq(Nodes(g)) /\ g.lvl[u] \in Nat /\ u \in Points
           /\ Len(Links(g, u, l)) \in Nat
<1>1. g.lvl[u] \in Nat /\ g.link[u] \in [1 .. g.lvl[u] + 1 -> Seq(Nodes(g))] /\ u \in Points
  BY DEF IsGraph
<1>2. l + 1 \in 1 .. g.lvl[u] + 1
  BY <1>1
<1>3. Links(g, u, l) \in Seq(Nodes(g))
  BY <1>1, <1>2 DEF Links
<1> QED
  BY <1>1, <1>3

\* The nodes that live on a level are closed under its lists, and stay closed
\* without a node that none of these lists names.
LEMMA LevelClosed ==
    ASSUME NEW g, IsGraph(g), OnLevel(g), NEW l \in Nat
    PROVE  /\ Closed(g, l, OnLev(g, l))
           /\ \A v : (\A u \in OnLev(g, l) : v \notin ToSet(Links(g, u, l)))
                        => Closed(g, l, OnLev(g, l) \ {v})
<1>1. ASSUME NEW u \in OnLev(g, l)
      PROVE  /\ Links(g, u, l) \in Seq(Nodes(g))
             /\ \A j \in 1 .. Len(Links(g, u, l)) :
                   /\ Links(g, u, l)[j] \in ToSet(Links(g, u, l))
                   /\ Links(g, u, l)[j] \in OnLev(g, l)
  <2>1. u \in Nodes(g) /\ g.lvl[u] >= l /\ g.lvl[u] \in Nat
    BY DEF OnLev, IsGraph
  <2>2. l \in 0 .. g.lvl[u]
    BY <2>1
  <2>3. Links(g, u, l) \in Seq(Nodes(g))
    BY <2>1, <2>2, LinksType
  <2>4. \A j \in 1 .. Len(Links(g, u, l)) : Links(g, u, l)[j] \in ToSet(Links(g, u, l))
                                            /\ Links(g, u, l)[j] \in Nodes(g)
    BY <2>3 DEF ToSet
  <2>5. \A x \in ToSet(Links(g, u, l)) : g.lvl[x] >= l
    BY <2>1, <2>2 DEF OnLevel
  <2> QED
    BY <2>3, <2>4, <2>5 DEF OnLev
<1>2. \A u \in OnLev(g, l) : Links(g, u, l) \in Seq(OnLev(g, l))
  BY <1>1
<1>3. ASSUME NEW v, \A u \in OnLev(g, l) : v \notin ToSet(Links(g, u, l))
      PROVE  \A u \in OnLev(g, l) : Links(g, u, l) \in Seq(OnLev(g, l) \ {v})
  BY <1>1, <1>3
<1> QED
  BY <1>2, <1>3 DEF Closed

\* One turn of the descent.
DescendOp(c, e, l) == GreedyStep(c.g, c.q, e, l)
DescendInv(c, k, e) == e \in c.in /\ c.g.lvl[e] >= c.from - k

Descents == INSTANCE FoldFacts WITH Op <- DescendOp, Inv <- DescendInv

\* A descent that starts on its first level stays among the nodes of S and ends
\* on the level below its last, if S is closed on every level it goes through.
LEMMA DescendFacts ==
    ASSUME NEW g, IsGraph(g), NEW q \in Points, NEW S, S \subseteq Nodes(g),
           NEW from \in Int, NEW to \in Nat, NEW ep \in S, g.lvl[ep] >= from,
           \A l \in to .. from : Closed(g, l, OnLev(g, l) \cap S)
    PROVE  LET e == Descend(g, q, ep, from, to) IN
           e \in S /\ g.lvl[e] >= IF from < to THEN from ELSE to - 1
<1> DEFINE n == IF from < to THEN 0 ELSE from - to + 1
           c == [g |-> g, q |-> q, in |-> S, from |-> from]
           e == Descend(g, q, ep, from, to)
<1>1. e = Descents!Fold(c, ep, Down(from, to))
  BY DEF Descend, DescendOp, Descents!Fold, Descents!FoldLeft, FoldLeft, MapThenFoldSet,
         Descents!MapThenFoldSet, Max, Descents!Max
<1>2. n \in Nat /\ DOMAIN Down(from, to) = 1 .. n
      /\ \A k \in 0 .. n - 1 : Down(from, to)[k + 1] = from - k /\ from - k \in to .. from
  <2>1. n \in Nat /\ (n > 0 => n = from - to + 1) /\ (n = 0 => from - to + 1 <= 0)
    OBVIOUS
  <2>2. DOMAIN Down(from, to) = 1 .. from - to + 1
        /\ \A j \in 1 .. from - to + 1 : Down(from, to)[j] = from - j + 1
    BY DEF Down
  <2> HIDE DEF n
  <2>3. 1 .. from - to + 1 = 1 .. n
    BY <2>1
  <2>4. ASSUME NEW k \in 0 .. n - 1
        PROVE  Down(from, to)[k + 1] = from - k /\ from - k \in to .. from
    <3>1. k + 1 \in 1 .. n /\ from - (k + 1) + 1 = from - k /\ n > 0 /\ k \in Nat
      BY <2>1
    <3> QED
      BY <2>1, <2>2, <2>3, <3>1
  <2> QED
    BY <2>1, <2>2, <2>3, <2>4
<1>3. c.g = g /\ c.q = q /\ c.in = S /\ c.from = from
  OBVIOUS
<1> HIDE DEF c, n, e
<1>4. DescendInv(c, 0, ep)
  BY <1>3 DEF DescendInv
<1>5. ASSUME NEW s, NEW k \in 0 .. n - 1, DescendInv(c, k, s)
      PROVE  DescendInv(c, k + 1, DescendOp(c, s, Down(from, to)[k + 1]))
  <2> DEFINE l == from - k
             T == OnLev(g, l) \cap S
             r == GreedyStep(g, q, s, l)
  <2>1. Down(from, to)[k + 1] = l /\ l \in to .. from /\ k \in Nat /\ l \in Nat
    BY <1>2
  <2>2. s \in S /\ g.lvl[s] >= l
    BY <1>3, <1>5 DEF DescendInv
  <2>3. s \in T /\ T \subseteq Points /\ Closed(g, l, T)
    BY <2>1, <2>2 DEF OnLev, IsGraph
  <2>4. Nodes(g) \subseteq Points
    BY DEF IsGraph
  <2>5. Cardinality(Nodes(g)) \in Nat
    BY <2>4, PointsFinite
  <2> HIDE DEF T
  <2>6. r \in T
    BY <2>3, <2>5, GreedyStays
  <2>7. r \in S /\ g.lvl[r] >= l /\ g.lvl[r] \in Nat
    BY <2>6 DEF T, OnLev, IsGraph
  <2> HIDE DEF r
  <2>8. g.lvl[r] >= from - (k + 1)
    BY <2>1, <2>7
  <2> QED
    BY <1>3, <2>1, <2>7, <2>8 DEF DescendInv, DescendOp, r
<1>6. DescendInv(c, n, e)
  BY <1>1, <1>2, <1>4, <1>5, Descents!FoldInv
<1>7. e \in S /\ g.lvl[e] >= from - n
  BY <1>3, <1>6 DEF DescendInv
<1>8. from - n = IF from < to THEN from ELSE to - 1
  BY DEF n
<1> QED
  BY <1>7, <1>8 DEF e

\* Replacing the lists of level l by those of N.
Relinked(g, l, N) ==
    [g EXCEPT !.link = [u \in Nodes(g) |->
        IF l > g.lvl[u] THEN g.link[u] ELSE [g.link[u] EXCEPT ![l + 1] = N[u]]]]

LEMMA RelinkFacts ==
    ASSUME NEW g, IsGraph(g), NEW l \in Nat, NEW N \in [Nodes(g) -> Seq(Nodes(g))]
    PROVE  LET h == Relinked(g, l, N) IN
           /\ IsGraph(h) /\ Nodes(h) = Nodes(g)
           /\ h.lvl = g.lvl /\ h.entry = g.entry /\ h.top = g.top
           /\ \A u \in Nodes(g) : \A m \in 0 .. g.lvl[u] :
                 Links(h, u, m) = IF m = l THEN N[u] ELSE Links(g, u, m)
<1> DEFINE h == Relinked(g, l, N)
           K == [u \in Nodes(g) |->
                   IF l > g.lvl[u] THEN g.link[u]
                                   ELSE [g.link[u] EXCEPT ![l + 1] = N[u]]]
<1>1. /\ g = [lvl |-> g.lvl, link |-> g.link, entry |-> g.entry, top |-> g.top]
      /\ Nodes(g) \subseteq Points
      /\ g.lvl \in [Nodes(g) -> Nat] /\ DOMAIN g.link = Nodes(g)
      /\ \A v \in Nodes(g) : g.link[v] \in [1 .. g.lvl[v] + 1 -> Seq(Nodes(g))]
  BY DEF IsGraph
<1>2. /\ DOMAIN K = Nodes(g)
      /\ \A u \in Nodes(g) : /\ l > g.lvl[u] => K[u] = g.link[u]
                             /\ l <= g.lvl[u] => K[u] = [g.link[u] EXCEPT ![l + 1] = N[u]]
  BY <1>1
<1>3. h = [g EXCEPT !.link = K]
  BY DEF Relinked
<1> HIDE DEF K, h
<1>4. h = [lvl |-> g.lvl, link |-> K, entry |-> g.entry, top |-> g.top]
  BY <1>1, <1>3
<1>5. h.lvl = g.lvl /\ h.link = K /\ h.entry = g.entry /\ h.top = g.top
  BY <1>4
<1>6. Nodes(h) = Nodes(g)
  BY <1>5 DEF Nodes
<1>7. ASSUME NEW u \in Nodes(g)
      PROVE  /\ K[u] \in [1 .. g.lvl[u] + 1 -> Seq(Nodes(g))]
             /\ \A m \in 0 .. g.lvl[u] : K[u][m + 1] = IF m = l THEN N[u] ELSE g.link[u][m + 1]
  <2>1. g.lvl[u] \in Nat /\ g.link[u] \in [1 .. g.lvl[u] + 1 -> Seq(Nodes(g))]
        /\ N[u] \in Seq(Nodes(g))
    BY <1>1
  <2>2. CASE l > g.lvl[u]
    BY <1>2, <2>1, <2>2
  <2>3. CASE l <= g.lvl[u]
    <3>1. K[u] = [g.link[u] EXCEPT ![l + 1] = N[u]]
      BY <1>2, <2>3
    <3>2. l + 1 \in 1 .. g.lvl[u] + 1
      BY <2>1, <2>3
    <3>3. \A m \in 0 .. g.lvl[u] : m + 1 \in 1 .. g.lvl[u] + 1 /\ (m + 1 = l + 1 <=> m = l)
      BY <2>1
    <3> DEFINE Q == Seq(Nodes(g))
               L == g.link[u]
               I == 1 .. g.lvl[u] + 1
    <3>4. L \in [I -> Q] /\ N[u] \in Q /\ l + 1 \in I
      BY <2>1, <3>2
    <3> HIDE DEF Q, L, I
    <3>5. /\ [L EXCEPT ![l + 1] = N[u]] \in [I -> Q]
          /\ \A i \in I : [L EXCEPT ![l + 1] = N[u]][i] = IF i = l + 1 THEN N[u] ELSE L[i]
      BY <3>4
    <3> QED
      BY <3>1, <3>3, <3>5 DEF Q, L, I
  <2> QED
    BY <2>1, <2>2, <2>3
<1>8. IsGraph(h)
  BY <1>1, <1>2, <1>4, <1>5, <1>6, <1>7 DEF IsGraph
<1> QED
  BY <1>5, <1>6, <1>7, <1>8 DEF Links, h

-----------------------------------------------------------------------------
(***************************************************************************)
(* Wiring a node.                                                          *)
(***************************************************************************)
Sound(g) == IsGraph(g) /\ OnLevel(g) /\ WithinCap(g)

\* No list of level l names v.
Unnamed(g, v, l) == \A u \in OnLev(g, l) : v \notin ToSet(Links(g, u, l))

SameButLink(h, g) == /\ Nodes(h) = Nodes(g) /\ h.lvl = g.lvl
                     /\ h.entry = g.entry /\ h.top = g.top

\* A list of at most LinkCap(l) different nodes of level l, without its owner.
GoodList(g, u, l, s) == /\ s \in Seq(Nodes(g)) /\ IsInjective(s) /\ Len(s) <= LinkCap(l)
                        /\ u \notin ToSet(s) /\ ToSet(s) \subseteq OnLev(g, l)

LEMMA SoundLists ==
    ASSUME NEW g, IsGraph(g)
    PROVE  OnLevel(g) /\ WithinCap(g)
              <=> \A u \in Nodes(g) : \A m \in 0 .. g.lvl[u] :
                     GoodList(g, u, m, Links(g, u, m))
<1>1. ASSUME NEW u \in Nodes(g), NEW m \in 0 .. g.lvl[u]
      PROVE  /\ Links(g, u, m) \in Seq(Nodes(g))
             /\ ToSet(Links(g, u, m)) \subseteq Nodes(g)
  BY <1>1, LinksType DEF ToSet
<1> QED
  BY <1>1 DEF OnLevel, WithinCap, GoodList, OnLev

\* The old list of a node, longer by the new one.
LEMMA AppendedLinks ==
    ASSUME NEW g, IsGraph(g), NEW l \in Nat, NEW u \in OnLev(g, l), NEW v \in OnLev(g, l),
           u # v, NEW list, GoodList(g, u, l, list), v \notin ToSet(list)
    PROVE  LET a == Append(list, v) IN
           /\ a \in Seq(Points) /\ IsInjective(a) /\ Len(a) = Len(list) + 1
           /\ ToSet(a) = ToSet(list) \cup {v} /\ ToSet(a) \subseteq OnLev(g, l)
           /\ u \notin ToSet(a) /\ OnLev(g, l) \subseteq Nodes(g)
<1> DEFINE a == Append(list, v)
<1>1. /\ u \in Nodes(g) /\ v \in Nodes(g) /\ Nodes(g) \subseteq Points
      /\ list \in Seq(Nodes(g)) /\ IsInjective(list) /\ Len(list) \in Nat
  BY DEF OnLev, IsGraph, GoodList
<1>2. /\ a \in Seq(Nodes(g)) /\ Len(a) = Len(list) + 1
      /\ \A j \in 1 .. Len(a) : a[j] = IF j <= Len(list) THEN list[j] ELSE v
  BY <1>1
<1>3. ToSet(a) = ToSet(list) \cup {v}
  <2>1. \A x \in ToSet(list) : \E j \in 1 .. Len(a) : a[j] = x
    BY <1>1, <1>2 DEF ToSet
  <2>2. a[Len(a)] = v /\ Len(a) \in 1 .. Len(a)
    BY <1>1, <1>2
  <2>3. \A j \in 1 .. Len(a) : a[j] \in ToSet(list) \cup {v}
    BY <1>1, <1>2 DEF ToSet
  <2>4. DOMAIN a = 1 .. Len(a)
    BY <1>2
  <2> QED
    BY <2>1, <2>2, <2>3, <2>4 DEF ToSet
<1>4. IsInjective(a)
  <2>1. \A j \in 1 .. Len(list) : list[j] # v
    BY <1>1 DEF ToSet
  <2>2. \A i, j \in 1 .. Len(list) : list[i] = list[j] => i = j
    BY <1>1 DEF IsInjective
  <2>3. \A i, j \in 1 .. Len(a) : a[i] = a[j] => i = j
    BY <1>1, <1>2, <2>1, <2>2
  <2>4. DOMAIN a = 1 .. Len(a)
    BY <1>2
  <2> QED
    BY <2>3, <2>4 DEF IsInjective
<1>5. a \in Seq(Points)
  BY <1>1, <1>2
<1> HIDE DEF a
<1>6. ToSet(a) \subseteq OnLev(g, l) /\ u \notin ToSet(a) /\ OnLev(g, l) \subseteq Nodes(g)
  BY <1>3 DEF GoodList, OnLev
<1> QED
  BY <1>2, <1>3, <1>4, <1>5, <1>6 DEF a

\* A pruned list of members of a longer one that fits its level.
LEMMA PrunedFacts ==
    ASSUME NEW g, NEW l \in Nat, NEW u, NEW a, ToSet(a) \subseteq OnLev(g, l),
           u \notin ToSet(a), OnLev(g, l) \subseteq Nodes(g),
           NEW s, s \in Seq(ToSet(a)), IsInjective(s), ToSet(s) \subseteq ToSet(a),
           Len(a) \in Nat,
           Len(s) = IF Len(a) <= LinkCap(l) THEN Len(a) ELSE LinkCap(l)
    PROVE  GoodList(g, u, l, s)
<1>1. LinkCap(l) \in Nat
  BY HnswOpsAssumption DEF LinkCap, M0
<1>2. Len(s) <= LinkCap(l)
  BY <1>1
<1>3. s \in Seq(Nodes(g))
  OBVIOUS
<1> QED
  BY <1>2, <1>3 DEF GoodList

\* ... and pruned.
LEMMA BackLinkFacts ==
    ASSUME NEW g, IsGraph(g), NEW l \in Nat, NEW u \in OnLev(g, l), NEW v \in OnLev(g, l),
           u # v, NEW list, GoodList(g, u, l, list), v \notin ToSet(list)
    PROVE  LET s == BackLink(list, v, u, l) IN
           /\ GoodList(g, u, l, s)
           /\ Len(list) < LinkCap(l) => s = Append(list, v)
<1> DEFINE a == Append(list, v)
           s == BackLink(list, v, u, l)
<1>1. u \in Points /\ LinkCap(l) \in Nat /\ Len(list) \in Nat
  BY HnswOpsAssumption DEF OnLev, IsGraph, GoodList, LinkCap, M0
<1>2. /\ a \in Seq(Points) /\ IsInjective(a) /\ Len(a) = Len(list) + 1
      /\ ToSet(a) \subseteq OnLev(g, l)
      /\ u \notin ToSet(a) /\ OnLev(g, l) \subseteq Nodes(g)
  BY AppendedLinks
<1>3. s = ShrinkLinks(u, a, l)
  BY DEF BackLink
<1> HIDE DEF a, s
<1>4. /\ s \in Seq(ToSet(a)) /\ IsInjective(s) /\ ToSet(s) \subseteq ToSet(a)
      /\ Len(s) = IF Len(a) <= LinkCap(l) THEN Len(a) ELSE LinkCap(l)
      /\ Len(a) <= LinkCap(l) => s = a
  BY <1>1, <1>2, <1>3, ShrinkFacts
<1>5. GoodList(g, u, l, s)
  BY <1>1, <1>2, <1>4, PrunedFacts
<1>6. Len(list) < LinkCap(l) => Len(a) <= LinkCap(l)
  BY <1>1, <1>2
<1> QED
  BY <1>4, <1>5, <1>6 DEF a, s

\* The list u gets on level l when it is linked back to v.
LinkedBack(g, u, v, l, s) ==
    /\ GoodList(g, u, l, s)
    /\ Len(Links(g, u, l)) < LinkCap(l) => s = Append(Links(g, u, l), v)

\* Level l of h is that of g with v wired into it: v has a list that is not
\* empty, every node on it is linked back, and nothing else has changed.
LevelWired(g, h, v, l) ==
    LET s == ToSet(Links(h, v, l)) IN
    /\ Sound(h) /\ SameButLink(h, g)
    /\ \A u \in Nodes(g) : \A m \in 0 .. g.lvl[u] :
          m # l => Links(h, u, m) = Links(g, u, m)
    /\ s # {} /\ s \subseteq OnLev(g, l) \ {v}
    /\ \A u \in OnLev(g, l) \ {v} :
          IF u \in s THEN LinkedBack(g, u, v, l, Links(h, u, l))
                     ELSE Links(h, u, l) = Links(g, u, l)

\* Replacing the list of v by sel and linking the members of sel back.
LEMMA LevelRelinked ==
    ASSUME NEW g, Sound(g), NEW v \in Nodes(g), NEW l \in 0 .. g.lvl[v],
           NEW sel, GoodList(g, v, l, sel), ToSet(sel) # {},
           NEW N, \A u \in Nodes(g) : l > g.lvl[u] => N[u] = <<>>,
           N = [u \in Nodes(g) |-> N[u]], N[v] = sel,
           \A u \in OnLev(g, l) \ {v} :
              IF u \in ToSet(sel) THEN LinkedBack(g, u, v, l, N[u]) ELSE N[u] = Links(g, u, l)
    PROVE  LevelWired(g, Relinked(g, l, N), v, l)
<1> DEFINE S == OnLev(g, l) \ {v}
           h == Relinked(g, l, N)
<1>1. /\ IsGraph(g) /\ OnLevel(g) /\ WithinCap(g) /\ l \in Nat /\ l <= g.lvl[v]
      /\ v \in OnLev(g, l) /\ \A u \in Nodes(g) : g.lvl[u] \in Nat
  BY DEF Sound, IsGraph, OnLev
<1>2. \A u \in Nodes(g) : \A m \in 0 .. g.lvl[u] : GoodList(g, u, m, Links(g, u, m))
  BY <1>1, SoundLists
<1>3. ASSUME NEW u \in Nodes(g), l <= g.lvl[u]
      PROVE  GoodList(g, u, l, N[u])
  <2>1. l \in 0 .. g.lvl[u] /\ u \in OnLev(g, l)
    BY <1>1, <1>3 DEF OnLev
  <2>2. CASE u = v
    BY <2>2
  <2>3. CASE u # v
    BY <1>2, <2>1, <2>3 DEF LinkedBack
  <2> QED
    BY <2>2, <2>3
<1>4. N \in [Nodes(g) -> Seq(Nodes(g))]
  <2>1. ASSUME NEW u \in Nodes(g) PROVE N[u] \in Seq(Nodes(g))
    <3>1. CASE l > g.lvl[u]
      <4>1. N[u] = <<>>
        BY <3>1
      <4> QED BY ONLY <4>1
    <3>2. CASE ~ (l > g.lvl[u])
      <4>1. l <= g.lvl[u]
        BY <1>1, <3>2
      <4> QED BY <1>3, <4>1 DEF GoodList
    <3> QED
      BY <3>1, <3>2
  <2> QED
    BY <2>1
<1> HIDE DEF h
<1>5. /\ IsGraph(h) /\ SameButLink(h, g)
      /\ \A u \in Nodes(g) : \A m \in 0 .. g.lvl[u] :
            Links(h, u, m) = IF m = l THEN N[u] ELSE Links(g, u, m)
  <2>1. /\ IsGraph(h) /\ Nodes(h) = Nodes(g)
        /\ h.lvl = g.lvl /\ h.entry = g.entry /\ h.top = g.top
        /\ \A u \in Nodes(g) : \A m \in 0 .. g.lvl[u] :
              Links(h, u, m) = IF m = l THEN N[u] ELSE Links(g, u, m)
    <3>1. IsGraph(g) /\ l \in Nat
      BY <1>1
    <3> QED
      BY <3>1, <1>4, RelinkFacts DEF h
  <2> QED
    BY <2>1 DEF SameButLink
<1>6. \A x, m, s : GoodList(h, x, m, s) <=> GoodList(g, x, m, s)
  BY <1>5 DEF GoodList, SameButLink, OnLev
<1>7. \A u \in Nodes(h) : \A m \in 0 .. h.lvl[u] : GoodList(h, u, m, Links(h, u, m))
  <2> SUFFICES ASSUME NEW u \in Nodes(g), NEW m \in 0 .. g.lvl[u]
               PROVE  GoodList(g, u, m, Links(h, u, m))
    BY <1>5, <1>6 DEF SameButLink
  <2>1. CASE m = l
    BY <1>1, <1>3, <1>5, <2>1
  <2>2. CASE m # l
    BY <1>2, <1>5, <2>2
  <2> QED
    BY <2>1, <2>2
<1>8. Sound(h)
  BY <1>5, <1>7, SoundLists DEF Sound
<1>9. Links(h, v, l) = sel /\ \A u \in S : Links(h, u, l) = N[u]
  <2>1. l \in 0 .. g.lvl[v] /\ \A u \in S : u \in Nodes(g) /\ l \in 0 .. g.lvl[u]
    BY <1>1 DEF OnLev
  <2> QED
    BY <1>5, <2>1
<1>10. ToSet(sel) \subseteq S
  BY DEF GoodList
<1> QED
  BY <1>5, <1>8, <1>9, <1>10 DEF LevelWired, h

\* One level of wire_node.
LEMMA WireLevelFacts ==
    ASSUME NEW g, Sound(g), NEW v \in Nodes(g), NEW l \in 0 .. g.lvl[v], Unnamed(g, v, l),
           NEW ep \in OnLev(g, l) \ {v}
    PROVE  LET r == WireLevel([g |-> g, ep |-> ep], v, l) IN
           /\ r = [g |-> r.g, ep |-> r.ep]
           /\ LevelWired(g, r.g, v, l) /\ r.ep \in OnLev(g, l) \ {v}
<1> DEFINE S == OnLev(g, l) \ {v}
           res == SearchLayer(g, v, ep, EfC, l, Nodes(g))
           sel == SelectNeighbors(v, res, M)
           N == [u \in Nodes(g) |->
                   IF l > g.lvl[u] THEN <<>>
                   ELSE IF u = v THEN sel
                   ELSE IF u \in ToSet(sel) THEN BackLink(Links(g, u, l), v, u, l)
                   ELSE Links(g, u, l)]
           h == Relinked(g, l, N)
           r == WireLevel([g |-> g, ep |-> ep], v, l)
<1>1. /\ IsGraph(g) /\ OnLevel(g) /\ WithinCap(g) /\ g.lvl[v] \in Nat
      /\ l \in Nat /\ l <= g.lvl[v] /\ v \in Points /\ Nodes(g) \subseteq Points
      /\ v \in OnLev(g, l) /\ \A u \in Nodes(g) : g.lvl[u] \in Nat
  BY DEF Sound, IsGraph, OnLev
<1>2. S \subseteq Nodes(g) /\ Closed(g, l, S) /\ ep \in S
  BY <1>1, LevelClosed DEF Unnamed, OnLev
<1>3. res \subseteq S /\ res # {}
  <2>1. EfC \in Nat /\ EfC >= 1
    BY HnswOpsAssumption
  <2>2. /\ res \subseteq S \cap Nodes(g)
        /\ \/ Cardinality(res) >= EfC
           \/ \E V \in SUBSET S : ep \in V /\ Closed(g, l, V) /\ res = V \cap Nodes(g)
    <3> HIDE DEF S, res
    <3>1. Explored(g, v, ep, EfC, l, Nodes(g), S)
      BY <1>1, <1>2, <2>1, SearchLayerFacts
    <3> QED
      BY <3>1 DEF Explored, res
  <2>3. CASE Cardinality(res) >= EfC
    BY <2>1, <2>2, <2>3, FS_EmptySet
  <2>4. CASE \E V \in SUBSET S : ep \in V /\ res = V \cap Nodes(g)
    BY <1>2, <2>2, <2>4
  <2> QED
    BY <2>2, <2>3, <2>4
<1>4. res \subseteq Points
  BY <1>1, <1>2, <1>3
<1>5. /\ sel \in Seq(res) /\ IsInjective(sel) /\ ToSet(sel) \subseteq res
      /\ Len(sel) = IF M < Cardinality(res) THEN M ELSE Cardinality(res)
  <2> HIDE DEF res
  <2> QED BY <1>1, <1>4, SelectFacts, HnswOpsAssumption
<1>6. Cardinality(res) \in Nat /\ Cardinality(res) # 0
  <2> HIDE DEF res
  <2> QED BY <1>3, <1>4, PointsFinite, FS_EmptySet
<1> HIDE DEF res, sel
<1>7. GoodList(g, v, l, sel) /\ ToSet(sel) # {} /\ ToSet(sel) \subseteq S
  <2>1. Len(sel) \in Nat /\ Len(sel) >= 1 /\ Len(sel) <= M /\ M <= LinkCap(l)
    BY <1>5, <1>6, HnswOpsAssumption DEF LinkCap, M0
  <2>2. Len(sel) <= LinkCap(l)
    BY <2>1, HnswOpsAssumption DEF LinkCap, M0
  <2>3. sel[1] \in ToSet(sel)
    BY <1>5, <2>1 DEF ToSet
  <2>4. ToSet(sel) \subseteq S
    BY <1>3, <1>5
  <2>5. sel \in Seq(Nodes(g))
    BY <1>2, <1>3, <1>5
  <2> QED
    BY <1>5, <2>2, <2>3, <2>4, <2>5 DEF GoodList
<1>8. \A u \in Nodes(g) : \A m \in 0 .. g.lvl[u] : GoodList(g, u, m, Links(g, u, m))
  BY <1>1, SoundLists
<1>9. ASSUME NEW u \in S, u \in ToSet(sel)
      PROVE  LinkedBack(g, u, v, l, BackLink(Links(g, u, l), v, u, l))
  <2>1. u \in OnLev(g, l) /\ l \in 0 .. g.lvl[u] /\ u \in Nodes(g) /\ u # v
    BY <1>1 DEF OnLev
  <2>2. GoodList(g, u, l, Links(g, u, l)) /\ v \notin ToSet(Links(g, u, l))
    BY <1>8, <2>1 DEF Unnamed
  <2> QED
    BY <1>1, <2>1, <2>2, BackLinkFacts DEF LinkedBack
<1>11. r = [g |-> h, ep |-> Nearest(v, res)]
  BY <1>1 DEF WireLevel, Relinked, res, sel
<1>12. /\ N[v] = sel /\ N = [u \in Nodes(g) |-> N[u]]
       /\ \A u \in Nodes(g) : l > g.lvl[u] => N[u] = <<>>
       /\ \A u \in S : N[u] = IF u \in ToSet(sel) THEN BackLink(Links(g, u, l), v, u, l)
                                                  ELSE Links(g, u, l)
  BY <1>1 DEF OnLev
<1> HIDE DEF N, h, r
<1>13. \A u \in OnLev(g, l) \ {v} :
          IF u \in ToSet(sel) THEN LinkedBack(g, u, v, l, N[u]) ELSE N[u] = Links(g, u, l)
  BY <1>9, <1>12
<1>14. LevelWired(g, h, v, l)
  <2> HIDE DEF S
  <2> QED BY <1>7, <1>12, <1>13, LevelRelinked DEF h
<1>15. Nearest(v, res) \in S
  BY <1>1, <1>3, <1>4, NearestIn
<1>16. r.g = h /\ r.ep = Nearest(v, res) /\ r = [g |-> r.g, ep |-> r.ep]
  BY <1>11
<1> QED
  BY <1>14, <1>15, <1>16 DEF r

(***************************************************************************)
(* The bottom layer of a graph whose level-0 lists cannot overflow yet.    *)
(* Links go both ways, and no set of nodes but the whole is closed: every  *)
(* node reaches every other.                                               *)
(***************************************************************************)
Small(g) == Cardinality(Nodes(g)) <= M0 + 1
Beside(g, u) == ToSet(Links(g, u, 0))
Symmetric(g) == \A u, w \in Nodes(g) : w \in Beside(g, u) => u \in Beside(g, w)
Joined(g, S) == \A V \in SUBSET S : V # {} /\ (\A u \in V : Beside(g, u) \subseteq V) => V = S

LEMMA BesideFacts ==
    ASSUME NEW g, IsGraph(g)
    PROVE  /\ \A u \in Nodes(g) : Beside(g, u) \subseteq Nodes(g) /\ 0 \in 0 .. g.lvl[u]
           /\ \A V \in SUBSET Nodes(g) :
                 Closed(g, 0, V) <=> \A u \in V : Beside(g, u) \subseteq V
           /\ OnLev(g, 0) = Nodes(g)
<1>1. ASSUME NEW u \in Nodes(g)
      PROVE  /\ g.lvl[u] \in Nat /\ 0 \in 0 .. g.lvl[u] /\ Links(g, u, 0) \in Seq(Nodes(g))
  <2>1. g.lvl[u] \in Nat
    BY DEF IsGraph
  <2> QED
    BY <2>1, LinksType
<1>2. ASSUME NEW u \in Nodes(g), NEW V
      PROVE  Links(g, u, 0) \in Seq(V) <=> Beside(g, u) \subseteq V
  BY <1>1 DEF Beside, ToSet
<1> QED
  BY <1>1, <1>2 DEF Closed, OnLev

\* Wiring level 0 of a small graph joins the new node to it.
LEMMA BottomStep ==
    ASSUME NEW g, Sound(g), Small(g), Symmetric(g), NEW v \in Nodes(g), Unnamed(g, v, 0),
           Joined(g, Nodes(g) \ {v}), NEW h, LevelWired(g, h, v, 0)
    PROVE  Symmetric(h) /\ Joined(h, Nodes(h))
<1>0. /\ Sound(h) /\ SameButLink(h, g) /\ Beside(h, v) # {}
      /\ Beside(h, v) \subseteq Nodes(g) \ {v}
      /\ \A u \in Nodes(g) \ {v} :
            IF u \in Beside(h, v) THEN LinkedBack(g, u, v, 0, Links(h, u, 0))
                                  ELSE Links(h, u, 0) = Links(g, u, 0)
  <2>1. OnLev(g, 0) = Nodes(g)
    BY BesideFacts DEF Sound
  <2> QED
    BY <2>1 DEF LevelWired, Beside
<1>1. /\ IsGraph(g) /\ IsGraph(h) /\ Nodes(h) = Nodes(g) /\ OnLev(g, 0) = Nodes(g)
      /\ \A u \in Nodes(g) : Beside(g, u) \subseteq Nodes(g)
      /\ \A u \in Nodes(g) : v \notin Beside(g, u)
      /\ \A u \in Nodes(g) : GoodList(g, u, 0, Links(g, u, 0))
  <2>1. /\ IsGraph(g) /\ IsGraph(h) /\ Nodes(h) = Nodes(g) /\ OnLevel(g) /\ WithinCap(g)
    BY <1>0 DEF Sound, SameButLink
  <2>2. \A u \in Nodes(g) : 0 \in 0 .. g.lvl[u]
    BY <2>1, BesideFacts
  <2> QED
    BY <2>1, <2>2, BesideFacts, SoundLists DEF Unnamed, Beside
<1>2. ASSUME NEW u \in Nodes(g) \ {v} PROVE Len(Links(g, u, 0)) < LinkCap(0)
  <2> DEFINE B == Beside(g, u)
             n == Cardinality(Nodes(g))
  <2>1. /\ Links(g, u, 0) \in Seq(Nodes(g)) /\ IsInjective(Links(g, u, 0))
        /\ u \notin B /\ v \notin B
    BY <1>1 DEF GoodList, Beside
  <2>2. Cardinality(B) = Len(Links(g, u, 0))
    BY <2>1, InjectiveLen DEF Beside
  <2>3. Nodes(g) \subseteq Points
    BY <1>1 DEF IsGraph
  <2>4. B \subseteq (Nodes(g) \ {u}) \ {v}
    BY <1>1, <2>1
  <2> HIDE DEF B, n
  <2>5. IsFiniteSet(Nodes(g)) /\ n \in Nat
    BY <2>3, PointsFinite DEF n
  <2>6. IsFiniteSet(Nodes(g) \ {u}) /\ Cardinality(Nodes(g) \ {u}) = n - 1
    BY <2>5, FS_RemoveElement DEF n
  <2>7. /\ IsFiniteSet((Nodes(g) \ {u}) \ {v})
        /\ Cardinality((Nodes(g) \ {u}) \ {v}) = Cardinality(Nodes(g) \ {u}) - 1
    BY <2>6, FS_RemoveElement
  <2>8. Cardinality(B) <= Cardinality((Nodes(g) \ {u}) \ {v})
    BY <2>4, <2>7, FS_Subset
  <2>9. Cardinality(B) <= n - 1 - 1 /\ n <= M0 + 1
    BY <2>6, <2>7, <2>8 DEF Small, n
  <2>10. M0 \in Nat /\ LinkCap(0) = M0 /\ Cardinality(B) \in Nat
    <3>1. B \subseteq Points
      BY <2>3, <2>4
    <3> QED
      BY <3>1, PointsFinite, HnswOpsAssumption DEF LinkCap, M0
  <2> QED
    BY <2>2, <2>5, <2>9, <2>10
<1>3. ASSUME NEW u \in Nodes(g) \ {v}
      PROVE  Beside(h, u) = Beside(g, u) \cup (IF u \in Beside(h, v) THEN {v} ELSE {})
  <2>1. CASE u \in Beside(h, v)
    <3> DEFINE L == Links(g, u, 0)
    <3>1. GoodList(g, u, 0, L) /\ v \notin ToSet(L) /\ Len(L) < LinkCap(0)
      BY <1>1, <1>2 DEF Beside
    <3>3. L \in Seq(Nodes(g))
      BY <3>1 DEF GoodList
    <3> HIDE DEF L
    <3>4. ToSet(Append(L, v)) = ToSet(L) \cup {v}
      <4>1. Len(L) \in Nat /\ DOMAIN L = 1 .. Len(L) /\ DOMAIN Append(L, v) = 1 .. Len(L) + 1
            /\ \A j \in 1 .. Len(L) + 1 : Append(L, v)[j] = IF j <= Len(L) THEN L[j] ELSE v
        BY <3>3
      <4>2. \A j \in 1 .. Len(L) : j \in 1 .. Len(L) + 1 /\ Append(L, v)[j] = L[j]
        BY <4>1
      <4>3. Len(L) + 1 \in 1 .. Len(L) + 1 /\ Append(L, v)[Len(L) + 1] = v
        BY <4>1
      <4>4. \A j \in 1 .. Len(L) + 1 : j \in 1 .. Len(L) \/ j = Len(L) + 1
        BY <4>1
      <4>5. ToSet(L) = {L[j] : j \in 1 .. Len(L)}
        BY <4>1 DEF ToSet
      <4>6. ToSet(Append(L, v)) = {Append(L, v)[j] : j \in 1 .. Len(L) + 1}
        BY <4>1 DEF ToSet
      <4> QED
        BY <4>2, <4>3, <4>4, <4>5, <4>6
    <3>5. Links(h, u, 0) = Append(L, v)
      BY <1>0, <1>2, <2>1 DEF L, LinkedBack
    <3> QED
      BY <2>1, <3>4, <3>5 DEF L, Beside
  <2>2. CASE u \notin Beside(h, v)
    BY <1>0, <2>2 DEF Beside
  <2> QED
    BY <2>1, <2>2
<1>4. Symmetric(h)
  <2>1. ASSUME NEW u \in Nodes(g), NEW w \in Nodes(g), w \in Beside(h, u)
        PROVE  u \in Beside(h, w)
    <3>1. CASE u = v
      BY <1>0, <1>3, <2>1, <3>1
    <3>2. CASE u # v /\ w = v
      BY <1>0, <1>1, <1>3, <2>1, <3>2
    <3>3. CASE u # v /\ w # v
      BY <1>3, <2>1, <3>3 DEF Symmetric
    <3> QED
      BY <3>1, <3>2, <3>3
  <2> QED
    BY <1>1, <2>1 DEF Symmetric
<1>5. ASSUME NEW V \in SUBSET Nodes(g), V # {}, \A u \in V : Beside(h, u) \subseteq V
      PROVE  V = Nodes(g)
  <2>1. V \ {v} # {}
    BY <1>0, <1>5
  <2>2. \A u \in V \ {v} : Beside(g, u) \subseteq V \ {v}
    BY <1>1, <1>3, <1>5
  <2>3. V \ {v} \in SUBSET (Nodes(g) \ {v})
    OBVIOUS
  <2>4. V \ {v} = Nodes(g) \ {v}
    BY <2>1, <2>2, <2>3 DEF Joined
  <2>5. PICK u \in Beside(h, v) : TRUE
    BY <1>0
  <2>6. u \in Nodes(g) \ {v} /\ u \in V /\ v \in Beside(h, u)
    BY <1>0, <1>3, <2>4, <2>5
  <2> QED
    BY <1>5, <2>4, <2>6
<1> QED
  BY <1>1, <1>4, <1>5 DEF Joined

(***************************************************************************)
(* The loop over the levels of the new node.                               *)
(***************************************************************************)
WireOp(c, a, l) == WireLevel(a, c.v, l)
WireInv(c, k, a) ==
    /\ a = [g |-> a.g, ep |-> a.ep]
    /\ Sound(a.g) /\ SameButLink(a.g, c.g)
    /\ \A l \in 0 .. c.start - k : Unnamed(a.g, c.v, l)
    /\ k <= c.start => a.ep \in OnLev(c.g, c.start - k) \ {c.v}
    /\ Small(c.g) => Symmetric(a.g)
                     /\ Joined(a.g, IF k <= c.start THEN Nodes(c.g) \ {c.v} ELSE Nodes(c.g))

Wires == INSTANCE FoldFacts WITH Op <- WireOp, Inv <- WireInv

\* What a turn of the loop finds.
LEMMA WireReady ==
    ASSUME NEW c, IsGraph(c.g), c.v \in Nodes(c.g), c.start \in 0 .. c.g.lvl[c.v],
           NEW k \in 0 .. c.start, NEW a, WireInv(c, k, a)
    PROVE  /\ a = [g |-> a.g, ep |-> a.ep] /\ Sound(a.g) /\ c.v \in Nodes(a.g)
           /\ c.start - k \in 0 .. a.g.lvl[c.v] /\ Unnamed(a.g, c.v, c.start - k)
           /\ a.ep \in OnLev(a.g, c.start - k) \ {c.v}
<1> DEFINE l == c.start - k
<1>1. c.g.lvl[c.v] \in Nat
  BY DEF IsGraph
<1>2. k <= c.start /\ l \in 0 .. c.g.lvl[c.v] /\ l \in 0 .. l
  BY <1>1
<1> HIDE DEF l
<1>3. /\ a = [g |-> a.g, ep |-> a.ep] /\ Sound(a.g) /\ SameButLink(a.g, c.g)
      /\ Unnamed(a.g, c.v, l) /\ a.ep \in OnLev(c.g, l) \ {c.v}
  BY <1>2 DEF WireInv, l
<1> QED
  BY <1>2, <1>3 DEF SameButLink, OnLev, l

\* A turn that has wired its level.
LEMMA WiredStep ==
    ASSUME NEW c, IsGraph(c.g), c.v \in Nodes(c.g), c.start \in 0 .. c.g.lvl[c.v],
           NEW k \in 0 .. c.start, NEW a, WireInv(c, k, a),
           NEW r, r = [g |-> r.g, ep |-> r.ep], LevelWired(a.g, r.g, c.v, c.start - k),
           r.ep \in OnLev(a.g, c.start - k) \ {c.v}
    PROVE  WireInv(c, k + 1, r)
<1> DEFINE g == a.g
           ep == a.ep
           v == c.v
           l == c.start - k
           h == r.g
<1>1. /\ a = [g |-> g, ep |-> ep] /\ Sound(g) /\ SameButLink(g, c.g)
      /\ \A m \in 0 .. l : Unnamed(g, v, m)
      /\ k <= c.start => ep \in OnLev(c.g, l) \ {v}
      /\ Small(c.g) => Symmetric(g)
                       /\ Joined(g, IF k <= c.start THEN Nodes(c.g) \ {v} ELSE Nodes(c.g))
  BY DEF WireInv
<1>2. /\ k \in Nat /\ k <= c.start /\ c.g.lvl[v] \in Nat /\ l \in 0 .. c.g.lvl[v]
      /\ l \in Nat /\ l \in 0 .. l /\ c.start \in Nat /\ c.start - (k + 1) = l - 1
      /\ (k + 1 <= c.start <=> l > 0)
  <2>1. c.g.lvl[v] \in Nat
    BY DEF IsGraph
  <2> QED
    BY <2>1
<1> HIDE DEF g, ep, l
<1>3. /\ Nodes(g) = Nodes(c.g) /\ g.lvl = c.g.lvl /\ \A m : OnLev(g, m) = OnLev(c.g, m)
      /\ Small(g) <=> Small(c.g)
  BY <1>1 DEF SameButLink, OnLev, Small
<1>4. /\ r = [g |-> h, ep |-> r.ep]
      /\ Sound(h) /\ SameButLink(h, g)
      /\ r.ep \in OnLev(g, l) \ {v}
      /\ \A u \in Nodes(g) : \A m \in 0 .. g.lvl[u] :
            m # l => Links(h, u, m) = Links(g, u, m)
  BY DEF LevelWired, g, l
<1>5. LevelWired(g, h, v, l)
  BY DEF g, l
<1>6. SameButLink(h, c.g) /\ \A m : OnLev(h, m) = OnLev(g, m)
  BY <1>1, <1>4 DEF SameButLink, OnLev
<1>7. ASSUME NEW m \in 0 .. l - 1 PROVE Unnamed(h, v, m)
  <2>1. m \in 0 .. l /\ m # l /\ m \in Nat
    BY <1>2
  <2>2. ASSUME NEW u \in OnLev(h, m) PROVE v \notin ToSet(Links(h, u, m))
    <3>1. u \in OnLev(g, m) /\ u \in Nodes(g) /\ g.lvl[u] \in Nat /\ g.lvl[u] >= m
      BY <1>1, <1>6 DEF OnLev, Sound, IsGraph
    <3>2. m \in 0 .. g.lvl[u]
      BY <2>1, <3>1
    <3>3. Links(h, u, m) = Links(g, u, m)
      BY <1>4, <2>1, <3>1, <3>2
    <3> QED
      BY <1>1, <2>1, <3>1, <3>3 DEF Unnamed
  <2> QED
    BY <2>2 DEF Unnamed
<1>8. ASSUME k + 1 <= c.start PROVE r.ep \in OnLev(c.g, l - 1) \ {v}
  <2>1. \A u \in OnLev(g, l) : u \in Nodes(g) /\ g.lvl[u] \in Nat /\ g.lvl[u] >= l
    BY <1>1 DEF OnLev, Sound, IsGraph
  <2>2. \A u \in OnLev(g, l) : g.lvl[u] >= l - 1
    BY <1>2, <2>1
  <2> QED
    BY <1>3, <1>4, <2>1, <2>2 DEF OnLev
<1>9. ASSUME Small(c.g)
      PROVE  /\ Symmetric(h)
             /\ Joined(h, IF k + 1 <= c.start THEN Nodes(c.g) \ {v} ELSE Nodes(c.g))
  <2>1. Symmetric(g) /\ Joined(g, Nodes(g) \ {v}) /\ Small(g) /\ IsGraph(g) /\ IsGraph(h)
        /\ Nodes(h) = Nodes(g)
    BY <1>1, <1>2, <1>3, <1>4, <1>9 DEF Sound, SameButLink
  <2>2. \A u \in Nodes(g) : 0 \in 0 .. g.lvl[u]
    BY <2>1, BesideFacts
  <2>3. CASE l > 0
    <3>1. \A u \in Nodes(g) : Beside(h, u) = Beside(g, u)
      BY <1>2, <1>4, <2>2, <2>3 DEF Beside
    <3>2. \A V \in SUBSET (Nodes(g) \ {v}) : \A u \in V : Beside(h, u) = Beside(g, u)
      BY <3>1
    <3> QED
      BY <1>2, <1>3, <2>1, <2>3, <3>1, <3>2 DEF Symmetric, Joined
  <2>4. CASE l = 0
    <3>1. Unnamed(g, v, 0) /\ Sound(g) /\ v \in Nodes(g) /\ LevelWired(g, h, v, 0)
      BY <1>1, <1>2, <1>3, <1>5, <2>4
    <3> HIDE DEF h, v
    <3>3. Symmetric(h) /\ Joined(h, Nodes(h))
      BY <2>1, <3>1, BottomStep
    <3> QED
      BY <1>2, <1>3, <2>1, <2>4, <3>3
  <2> QED
    BY <1>2, <2>3, <2>4
<1> HIDE DEF h
<1>10. WireInv(c, k + 1, r)
  BY <1>2, <1>4, <1>6, <1>7, <1>8, <1>9 DEF WireInv, h
<1> QED
  BY <1>10

LEMMA WireStep ==
    ASSUME NEW c, IsGraph(c.g), c.v \in Nodes(c.g), c.start \in 0 .. c.g.lvl[c.v],
           NEW k \in 0 .. c.start, NEW a, WireInv(c, k, a)
    PROVE  WireInv(c, k + 1, WireOp(c, a, c.start - k))
<1> DEFINE v == c.v
           l == c.start - k
           r == WireLevel([g |-> a.g, ep |-> a.ep], v, l)
<1>1. /\ a = [g |-> a.g, ep |-> a.ep] /\ Sound(a.g) /\ v \in Nodes(a.g)
      /\ l \in 0 .. a.g.lvl[v] /\ Unnamed(a.g, v, l) /\ a.ep \in OnLev(a.g, l) \ {v}
  BY WireReady
<1>2. WireOp(c, a, l) = r
  BY <1>1 DEF WireOp
<1> HIDE DEF v, l
<1>3. /\ r = [g |-> r.g, ep |-> r.ep]
      /\ LevelWired(a.g, r.g, v, l) /\ r.ep \in OnLev(a.g, l) \ {v}
  BY <1>1, WireLevelFacts
<1> HIDE DEF r
<1>4. WireInv(c, k + 1, r)
  BY <1>3, WiredStep DEF v, l
<1> QED
  BY <1>2, <1>4 DEF l

\* The graph before a new node is wired: the node is stored, no list names it
\* and the entry point is on the top level of the others.
Unwired(g, v) ==
    /\ Sound(g) /\ v \in Nodes(g) /\ \A l \in 0 .. g.lvl[v] : Unnamed(g, v, l)
    /\ g.entry \in Nodes(g) \ {v} /\ g.lvl[g.entry] = g.top
    /\ \A u \in Nodes(g) \ {v} : g.lvl[u] <= g.top
    /\ Small(g) => Symmetric(g) /\ Joined(g, Nodes(g) \ {v})

\* A graph with all its nodes wired.
Whole(g) == /\ Sound(g) /\ g.entry \in Nodes(g) /\ EntryOnTopOf(g)
            /\ Small(g) => Symmetric(g) /\ Joined(g, Nodes(g))

\* Where the loop over the levels starts.
FirstLevel(g, v) == IF g.lvl[v] < g.top THEN g.lvl[v] ELSE g.top

Wiring(g, v) == [g |-> g, v |-> v, start |-> FirstLevel(g, v)]

\* No level names v, and without v every level is closed.
LEMMA UnwiredFacts ==
    ASSUME NEW g, NEW v, Unwired(g, v)
    PROVE  LET S == Nodes(g) \ {v} IN
           /\ Sound(g) /\ IsGraph(g) /\ OnLevel(g) /\ v \in Nodes(g) /\ v \in Points
           /\ g.lvl[v] \in Nat /\ g.top \in Nat /\ g.entry \in S /\ g.lvl[g.entry] = g.top
           /\ \A u \in Nodes(g) : g.lvl[u] \in Nat
           /\ FirstLevel(g, v) \in 0 .. g.lvl[v] /\ FirstLevel(g, v) \in Nat
           /\ FirstLevel(g, v) <= g.top
           /\ \A l \in Nat : Unnamed(g, v, l) /\ Closed(g, l, OnLev(g, l) \cap S)
<1> DEFINE level == g.lvl[v]
           S == Nodes(g) \ {v}
           start == FirstLevel(g, v)
<1>1. /\ Sound(g) /\ IsGraph(g) /\ OnLevel(g) /\ v \in Nodes(g) /\ v \in Points
      /\ level \in Nat /\ g.top \in Nat /\ g.entry \in S /\ g.lvl[g.entry] = g.top
      /\ \A u \in Nodes(g) : g.lvl[u] \in Nat
      /\ start \in 0 .. level /\ start \in Nat /\ start <= g.top
  <2>1. /\ Sound(g) /\ IsGraph(g) /\ OnLevel(g) /\ v \in Nodes(g) /\ g.entry \in S
        /\ g.lvl[g.entry] = g.top
    BY DEF Unwired, Sound
  <2>2. \A u \in Nodes(g) : g.lvl[u] \in Nat /\ u \in Points
    BY <2>1 DEF IsGraph
  <2>3. level \in Nat /\ g.top \in Nat /\ v \in Points
    BY <2>1, <2>2
  <2> QED
    BY <2>1, <2>2, <2>3 DEF FirstLevel
<1>2. \A l \in Nat : Unnamed(g, v, l)
  <2> SUFFICES ASSUME NEW l \in Nat PROVE Unnamed(g, v, l)
    OBVIOUS
  <2>1. CASE l <= level
    <3>1. l \in 0 .. g.lvl[v]
      BY <1>1, <2>1
    <3> QED
      BY <3>1 DEF Unwired
  <2>2. CASE l > level
    <3>1. ASSUME NEW u \in OnLev(g, l) PROVE v \notin ToSet(Links(g, u, l))
      <4>1. u \in Nodes(g) /\ l \in 0 .. g.lvl[u]
        BY <1>1 DEF OnLev
      <4>2. \A x \in ToSet(Links(g, u, l)) : g.lvl[x] >= l
        BY <1>1, <4>1 DEF OnLevel
      <4> QED
        BY <1>1, <2>2, <4>2
    <3> QED
      BY <3>1 DEF Unnamed
  <2> QED
    BY <1>1, <2>1, <2>2
<1>3. \A l \in Nat : Closed(g, l, OnLev(g, l) \cap S)
  <2> SUFFICES ASSUME NEW l \in Nat PROVE Closed(g, l, OnLev(g, l) \cap S)
    OBVIOUS
  <2>1. OnLev(g, l) \cap S = OnLev(g, l) \ {v}
    BY DEF OnLev
  <2>2. \A u \in OnLev(g, l) : v \notin ToSet(Links(g, u, l))
    BY <1>2 DEF Unnamed
  <2>3. Closed(g, l, OnLev(g, l) \ {v})
    BY <1>1, <2>2, LevelClosed
  <2> QED
    BY <2>1, <2>3
<1> QED
  BY <1>1, <1>2, <1>3

\* The descent to the level above the new node ends where the loop can start.
LEMMA DescentLeads ==
    ASSUME NEW g, NEW v, Unwired(g, v)
    PROVE  LET ep == Descend(g, v, g.entry, g.top, g.lvl[v] + 1) IN
           ep \in Nodes(g) \ {v} /\ g.lvl[ep] >= FirstLevel(g, v)
<1> DEFINE level == g.lvl[v]
           S == Nodes(g) \ {v}
           ep == Descend(g, v, g.entry, g.top, level + 1)
<1>1. /\ IsGraph(g) /\ v \in Points
      /\ level \in Nat /\ g.top \in Nat /\ g.entry \in S /\ g.lvl[g.entry] = g.top
      /\ \A u \in Nodes(g) : g.lvl[u] \in Nat
      /\ \A l \in Nat : Closed(g, l, OnLev(g, l) \cap S)
  BY UnwiredFacts
<1>2. /\ g.top \in Int /\ level + 1 \in Nat /\ g.lvl[g.entry] >= g.top /\ S \subseteq Nodes(g)
      /\ \A l \in level + 1 .. g.top : l \in Nat
  BY <1>1
<1>3. ep \in S /\ g.lvl[ep] >= IF g.top < level + 1 THEN g.top ELSE (level + 1) - 1
  <2> HIDE DEF S, level
  <2> QED BY <1>1, <1>2, DescendFacts
<1> HIDE DEF ep
<1>4. g.lvl[ep] \in Nat
  BY <1>1, <1>3
<1> QED
  BY <1>1, <1>3, <1>4 DEF FirstLevel, ep

LEMMA WiringStarts ==
    ASSUME NEW g, NEW v, Unwired(g, v),
           NEW ep \in Nodes(g) \ {v}, g.lvl[ep] >= FirstLevel(g, v)
    PROVE  WireInv(Wiring(g, v), 0, [g |-> g, ep |-> ep])
<1> DEFINE start == FirstLevel(g, v)
           c == Wiring(g, v)
           base == [g |-> g, ep |-> ep]
<1>1. Sound(g) /\ start \in Nat /\ \A l \in Nat : Unnamed(g, v, l)
  BY UnwiredFacts
<1>2. c.g = g /\ c.v = v /\ c.start = start /\ base.g = g /\ base.ep = ep
      /\ base = [g |-> base.g, ep |-> base.ep]
  BY DEF Wiring
<1> HIDE DEF c, base, start
<1>3. /\ SameButLink(g, g) /\ start - 0 = start /\ 0 <= start
      /\ \A l \in 0 .. start : l \in Nat
  BY <1>1 DEF SameButLink
<1>4. ep \in OnLev(g, start) \ {v}
  BY DEF OnLev, start
<1>5. Small(g) => Symmetric(g) /\ Joined(g, Nodes(g) \ {v})
  BY DEF Unwired
<1>6. WireInv(c, 0, base)
  BY <1>1, <1>2, <1>3, <1>4, <1>5 DEF WireInv
<1> QED
  BY <1>6 DEF c, base

LEMMA DownFacts ==
    ASSUME NEW start \in Nat
    PROVE  /\ DOMAIN Down(start, 0) = 1 .. start + 1
           /\ \A k \in 0 .. (start + 1) - 1 :
                 Down(start, 0)[k + 1] = start - k /\ k \in 0 .. start
<1>1. start - 0 + 1 = start + 1
  OBVIOUS
<1>2. Down(start, 0) = [j \in 1 .. start + 1 |-> start - j + 1]
  BY <1>1 DEF Down
<1>3. \A k \in 0 .. (start + 1) - 1 : /\ k + 1 \in 1 .. start + 1 /\ k \in 0 .. start
                                      /\ start - (k + 1) + 1 = start - k
  OBVIOUS
<1> QED
  BY <1>2, <1>3

LEMMA WiringEnds ==
    ASSUME NEW g, NEW v, Unwired(g, v), NEW a, WireInv(Wiring(g, v), FirstLevel(g, v) + 1, a)
    PROVE  LET h == AdvanceEntry(a.g, v, g.lvl[v]) IN
           /\ Whole(h) /\ Nodes(h) = Nodes(g) /\ h.lvl = g.lvl
<1> DEFINE level == g.lvl[v]
           S == Nodes(g) \ {v}
           start == FirstLevel(g, v)
           c == Wiring(g, v)
           w == a.g
           h == AdvanceEntry(w, v, level)
<1>1. /\ Sound(g) /\ v \in Nodes(g)
      /\ level \in Nat /\ g.top \in Nat /\ g.entry \in S /\ g.lvl[g.entry] = g.top
      /\ \A u \in Nodes(g) : g.lvl[u] \in Nat
      /\ start \in Nat
  BY UnwiredFacts
<1>6. c.g = g /\ c.v = v /\ c.start = start
  BY DEF Wiring
<1> HIDE DEF c, start, h
<1>11. /\ Sound(w) /\ SameButLink(w, g)
       /\ Small(g) => Symmetric(w) /\ Joined(w, Nodes(g))
  <2>1. ~ (start + 1 <= start)
    BY <1>1
  <2>2. WireInv(c, start + 1, a)
    BY DEF c, start
  <2> QED
    BY <1>6, <2>1, <2>2 DEF WireInv
<1> HIDE DEF w
<1>12. h = AdvanceEntry(w, v, level)
  BY DEF h
<1>13. w = [lvl |-> w.lvl, link |-> w.link, entry |-> w.entry, top |-> w.top]
  BY <1>11 DEF Sound, IsGraph
<1>14. h = [lvl |-> w.lvl, link |-> w.link,
            entry |-> IF level > w.top THEN v ELSE w.entry,
            top |-> IF level > w.top THEN level ELSE w.top]
  BY <1>12, <1>13 DEF AdvanceEntry
<1>15. /\ h.lvl = w.lvl /\ h.link = w.link
       /\ h.entry = (IF level > w.top THEN v ELSE w.entry)
       /\ h.top = (IF level > w.top THEN level ELSE w.top)
       /\ h = [lvl |-> h.lvl, link |-> h.link, entry |-> h.entry, top |-> h.top]
  BY <1>14
<1>16. /\ Nodes(h) = Nodes(w) /\ \A u, m : Links(h, u, m) = Links(w, u, m)
       /\ \A u : Beside(h, u) = Beside(w, u)
  BY <1>15 DEF Nodes, Links, Beside
<1>17. Sound(h)
  <2>1. IsGraph(w) /\ OnLevel(w) /\ WithinCap(w)
    BY <1>11 DEF Sound
  <2>2. IsGraph(h)
    BY <2>1, <1>15, <1>16 DEF IsGraph
  <2>3. OnLevel(h)
    BY <2>1, <1>15, <1>16 DEF OnLevel
  <2>4. WithinCap(h)
    BY <2>1, <1>15, <1>16 DEF WithinCap
  <2> QED
    BY <2>2, <2>3, <2>4 DEF Sound
<1>18. Nodes(h) = Nodes(g) /\ h.lvl = g.lvl /\ w.top = g.top /\ w.entry = g.entry
  BY <1>11, <1>15, <1>16 DEF SameButLink
<1>19. h.entry \in Nodes(h) /\ EntryOnTopOf(h)
  <2>1. \A u \in Nodes(g) \ {v} : g.lvl[u] <= g.top
    BY DEF Unwired
  <2>2. h.entry \in Nodes(h) /\ h.lvl[h.entry] = h.top
    BY <1>1, <1>15, <1>18
  <2>3. \A u \in Nodes(g) : g.lvl[u] <= h.top
    BY <1>1, <1>15, <1>18, <2>1
  <2> QED
    BY <1>18, <2>2, <2>3 DEF EntryOnTopOf
<1>20. Small(h) => Symmetric(h) /\ Joined(h, Nodes(h))
  BY <1>11, <1>16, <1>18 DEF Small, Symmetric, Joined
<1> QED
  BY <1>17, <1>18, <1>19, <1>20 DEF Whole, h, w

\* wire_node.
LEMMA WireNodeFacts ==
    ASSUME NEW g, NEW v, Unwired(g, v)
    PROVE  LET h == WireNode(g, v) IN
           /\ Whole(h) /\ Nodes(h) = Nodes(g) /\ h.lvl = g.lvl
<1> DEFINE level == g.lvl[v]
           ep == Descend(g, v, g.entry, g.top, level + 1)
           start == FirstLevel(g, v)
           c == Wiring(g, v)
           base == [g |-> g, ep |-> ep]
           a == Wires!Fold(c, base, Down(start, 0))
           h == WireNode(g, v)
<1>1. IsGraph(g) /\ v \in Nodes(g) /\ start \in 0 .. level /\ start \in Nat
  BY UnwiredFacts
<1>2. ep \in Nodes(g) \ {v} /\ g.lvl[ep] >= start
  BY DescentLeads
<1> HIDE DEF ep
<1>3. h = AdvanceEntry(a.g, v, level)
  BY DEF WireNode, FirstLevel, Wiring, WireOp, Wires!Fold, Wires!FoldLeft, FoldLeft,
         MapThenFoldSet, Wires!MapThenFoldSet, Max, Wires!Max, ep
<1>4. c.g = g /\ c.v = v /\ c.start = start
  BY DEF Wiring
<1>5. WireInv(c, 0, base)
  BY <1>2, WiringStarts
<1> HIDE DEF c, base, a, h, start
<1>6. /\ DOMAIN Down(start, 0) = 1 .. start + 1
      /\ \A k \in 0 .. (start + 1) - 1 : Down(start, 0)[k + 1] = start - k /\ k \in 0 .. start
  BY <1>1, DownFacts
<1>7. \A s : \A k \in 0 .. (start + 1) - 1 :
         WireInv(c, k, s) => WireInv(c, k + 1, WireOp(c, s, Down(start, 0)[k + 1]))
  <2> SUFFICES ASSUME NEW s, NEW k \in 0 .. (start + 1) - 1, WireInv(c, k, s)
               PROVE  WireInv(c, k + 1, WireOp(c, s, Down(start, 0)[k + 1]))
    OBVIOUS
  <2>1. /\ IsGraph(c.g) /\ c.v \in Nodes(c.g) /\ c.start \in 0 .. c.g.lvl[c.v]
        /\ k \in 0 .. c.start /\ Down(start, 0)[k + 1] = c.start - k
    BY <1>1, <1>4, <1>6
  <2> QED
    BY <2>1, WireStep
<1>8. WireInv(c, start + 1, a)
  <2>1. start + 1 \in Nat
    BY <1>1
  <2> QED
    BY <2>1, <1>5, <1>6, <1>7, Wires!FoldInv DEF a
<1> QED
  BY <1>3, <1>8, WiringEnds DEF c, start, h

-----------------------------------------------------------------------------
(***************************************************************************)
(* vecdb_add.                                                              *)
(***************************************************************************)
\* Storing a node: its lists are empty and no list names it.
LEMMA StoreNodeFacts ==
    ASSUME NEW g, Sound(g), NEW v \in Points \ Nodes(g), NEW level \in Nat
    PROVE  LET s == StoreNode(g, v, level) IN
           /\ Sound(s) /\ Nodes(s) = Nodes(g) \cup {v} /\ s.entry = g.entry /\ s.top = g.top
           /\ s.lvl[v] = level /\ \A u \in Nodes(g) : s.lvl[u] = g.lvl[u]
           /\ \A l \in 0 .. level : Links(s, v, l) = <<>>
           /\ \A u \in Nodes(g) : \A l : Links(s, u, l) = Links(g, u, l)
           /\ \A l \in Nat : Unnamed(s, v, l)
           /\ s = [lvl |-> s.lvl, link |-> s.link, entry |-> s.entry, top |-> s.top]
<1> DEFINE s == StoreNode(g, v, level)
<1>1. /\ IsGraph(g) /\ OnLevel(g) /\ WithinCap(g) /\ Nodes(g) \subseteq Points
      /\ g.lvl \in [Nodes(g) -> Nat] /\ DOMAIN g.link = Nodes(g)
      /\ \A u \in Nodes(g) : g.link[u] \in [1 .. g.lvl[u] + 1 -> Seq(Nodes(g))]
  BY DEF Sound, IsGraph
<1>2. /\ s.lvl = [u \in Nodes(g) \cup {v} |-> IF u = v THEN level ELSE g.lvl[u]]
      /\ s.link = [u \in Nodes(g) \cup {v} |->
                     IF u = v THEN [l \in 1 .. level + 1 |-> <<>>] ELSE g.link[u]]
      /\ s.entry = g.entry /\ s.top = g.top
      /\ s = [lvl |-> s.lvl, link |-> s.link, entry |-> s.entry, top |-> s.top]
  BY DEF StoreNode
<1> HIDE DEF s
<1>3. /\ Nodes(s) = Nodes(g) \cup {v} /\ DOMAIN s.link = Nodes(s)
      /\ s.lvl[v] = level /\ s.link[v] = [l \in 1 .. level + 1 |-> <<>>]
      /\ \A u \in Nodes(g) : s.lvl[u] = g.lvl[u] /\ s.link[u] = g.link[u] /\ u # v
      /\ s.lvl \in [Nodes(s) -> Nat]
  BY <1>1, <1>2 DEF Nodes
<1>4. \A l \in 0 .. level : Links(s, v, l) = <<>>
  <2>1. \A l \in 0 .. level : l + 1 \in 1 .. level + 1
    OBVIOUS
  <2> QED
    BY <1>3, <2>1 DEF Links
<1>5. \A u \in Nodes(g) : \A l : Links(s, u, l) = Links(g, u, l)
  BY <1>3 DEF Links
<1>6. ASSUME NEW u \in Nodes(s) PROVE s.link[u] \in [1 .. s.lvl[u] + 1 -> Seq(Nodes(s))]
  <2>1. CASE u = v
    <3> DEFINE Q == Seq(Nodes(s))
    <3>1. <<>> \in Q
      OBVIOUS
    <3> HIDE DEF Q
    <3>2. [l \in 1 .. level + 1 |-> <<>>] \in [1 .. level + 1 -> Q]
      BY <3>1
    <3> QED
      BY <1>3, <2>1, <3>2 DEF Q
  <2>2. CASE u # v
    <3>1. u \in Nodes(g) /\ s.lvl[u] = g.lvl[u] /\ s.link[u] = g.link[u]
      BY <1>3, <2>2
    <3>2. g.link[u] \in [1 .. g.lvl[u] + 1 -> Seq(Nodes(g))]
      BY <1>1, <3>1
    <3>3. Seq(Nodes(g)) \subseteq Seq(Nodes(s))
      BY <1>3
    <3> HIDE DEF Nodes
    <3>4. g.link[u] \in [1 .. g.lvl[u] + 1 -> Seq(Nodes(s))]
      BY <3>2, <3>3
    <3> QED
      BY <3>1, <3>4
  <2> QED
    BY <2>1, <2>2
<1>7. IsGraph(s)
  BY <1>1, <1>2, <1>3, <1>6 DEF IsGraph
<1>8. \A u \in Nodes(s) : \A m \in 0 .. s.lvl[u] : GoodList(s, u, m, Links(s, u, m))
  <2> SUFFICES ASSUME NEW u \in Nodes(s), NEW m \in 0 .. s.lvl[u]
               PROVE  GoodList(s, u, m, Links(s, u, m))
    OBVIOUS
  <2>1. CASE u = v
    <3>1. Links(s, u, m) = <<>> /\ m \in Nat
      BY <1>3, <1>4, <2>1
    <3>2. LinkCap(m) \in Nat
      BY <3>1, HnswOpsAssumption DEF LinkCap, M0
    <3> QED
      BY <3>1, <3>2 DEF GoodList, IsInjective, ToSet
  <2>2. CASE u # v
    <3>1. u \in Nodes(g) /\ m \in 0 .. g.lvl[u] /\ Links(s, u, m) = Links(g, u, m)
      BY <1>3, <1>5, <2>2
    <3>2. GoodList(g, u, m, Links(g, u, m))
      BY <1>1, <3>1, SoundLists
    <3>3. OnLev(g, m) \subseteq OnLev(s, m) /\ Seq(Nodes(g)) \subseteq Seq(Nodes(s))
      BY <1>3 DEF OnLev
    <3> QED
      BY <3>1, <3>2, <3>3 DEF GoodList
  <2> QED
    BY <2>1, <2>2
<1>9. Sound(s)
  BY <1>7, <1>8, SoundLists DEF Sound
<1>10. ASSUME NEW l \in Nat, NEW u \in OnLev(s, l) PROVE v \notin ToSet(Links(s, u, l))
  <2>1. CASE u = v
    <3>1. l \in 0 .. level
      BY <1>3, <2>1 DEF OnLev
    <3>2. Links(s, u, l) = <<>>
      BY <1>4, <2>1, <3>1
    <3> QED
      BY <3>2 DEF ToSet
  <2>2. CASE u # v
    <3>1. u \in Nodes(g) /\ g.lvl[u] >= l /\ g.lvl[u] \in Nat
      BY <1>1, <1>3, <2>2 DEF OnLev
    <3>2. Links(g, u, l) \in Seq(Nodes(g))
      BY <1>1, <2>2, <3>1, LinksType
    <3> QED
      BY <1>5, <3>1, <3>2 DEF ToSet
  <2> QED
    BY <2>1, <2>2
<1> QED
  BY <1>2, <1>3, <1>4, <1>5, <1>9, <1>10 DEF Unnamed, s

\* A graph between two operations of a single writer.
Built(g) == IF Nodes(g) = {} THEN Sound(g) /\ g.entry = NoNode /\ g.top = -1 ELSE Whole(g)

LEMMA BuiltFacts ==
    ASSUME NEW g, Built(g)
    PROVE  /\ Sound(g) /\ NoNode \notin Nodes(g)
           /\ g.entry = NoNode <=> Nodes(g) = {}
           /\ Nodes(g) # {} => Whole(g)
<1>1. Sound(g)
  BY DEF Built, Whole
<1>2. Nodes(g) \subseteq Points
  BY <1>1 DEF Sound, IsGraph
<1>3. NoNode \notin Nodes(g)
  BY <1>2, HnswOpsAssumption
<1> QED
  BY <1>1, <1>3 DEF Built, Whole

LEMMA EmptyBuilt == Built(EmptyGraph) /\ Nodes(EmptyGraph) = {}
<1> DEFINE g == EmptyGraph
<1>1. g = [lvl |-> <<>>, link |-> <<>>, entry |-> NoNode, top |-> -1]
  BY DEF EmptyGraph
<1>2. /\ g.lvl = <<>> /\ g.link = <<>> /\ g.entry = NoNode /\ g.top = -1
      /\ g = [lvl |-> g.lvl, link |-> g.link, entry |-> g.entry, top |-> g.top]
  BY <1>1
<1> HIDE DEF g
<1>3. Nodes(g) = {} /\ DOMAIN g.link = {} /\ g.lvl \in [{} -> Nat]
  BY <1>2 DEF Nodes
<1>4. Sound(g)
  BY <1>2, <1>3 DEF Sound, IsGraph, OnLevel, WithinCap
<1> QED
  BY <1>2, <1>3, <1>4 DEF Built, g

\* The first node of a graph.
OnlyNode(g, v, level) == [StoreNode(g, v, level) EXCEPT !.entry = v, !.top = level]

LEMMA FirstNode ==
    ASSUME NEW g, Built(g), g.entry = NoNode, NEW v \in Points \ Nodes(g), NEW level \in Nat
    PROVE  LET h == OnlyNode(g, v, level) IN
           /\ Whole(h) /\ Nodes(h) = Nodes(g) \cup {v}
           /\ h.lvl[v] = level /\ \A u \in Nodes(g) : h.lvl[u] = g.lvl[u]
<1> DEFINE s == StoreNode(g, v, level)
           h == OnlyNode(g, v, level)
<1>1. /\ Sound(g) /\ NoNode \notin Nodes(g)
      /\ g.entry = NoNode <=> Nodes(g) = {}
      /\ Nodes(g) # {} => Whole(g)
  BY BuiltFacts
<1>2. /\ Sound(s) /\ Nodes(s) = Nodes(g) \cup {v} /\ s.entry = g.entry /\ s.top = g.top
      /\ s.lvl[v] = level /\ \A u \in Nodes(g) : s.lvl[u] = g.lvl[u]
      /\ \A l \in 0 .. level : Links(s, v, l) = <<>>
      /\ \A u \in Nodes(g) : \A l : Links(s, u, l) = Links(g, u, l)
      /\ \A l \in Nat : Unnamed(s, v, l)
      /\ s = [lvl |-> s.lvl, link |-> s.link, entry |-> s.entry, top |-> s.top]
  BY <1>1, StoreNodeFacts
<1>3. Beside(s, v) = {}
  <2>1. 0 \in 0 .. level
    OBVIOUS
  <2> QED
    BY <1>2, <2>1 DEF Beside, ToSet
<1> HIDE DEF s
<1>11. h = [s EXCEPT !.entry = v, !.top = level]
  BY DEF OnlyNode, s
<1> HIDE DEF h
<1>12. h = [lvl |-> s.lvl, link |-> s.link, entry |-> v, top |-> level]
  BY <1>2, <1>11
<1>13. /\ h.lvl = s.lvl /\ h.link = s.link /\ h.entry = v /\ h.top = level
      /\ h = [lvl |-> h.lvl, link |-> h.link, entry |-> h.entry, top |-> h.top]
  BY <1>12
<1>14. /\ Nodes(h) = Nodes(s) /\ \A u, m : Links(h, u, m) = Links(s, u, m)
      /\ \A u : Beside(h, u) = Beside(s, u)
  BY <1>13 DEF Nodes, Links, Beside
<1>15. Nodes(h) = {v}
  BY <1>1, <1>2, <1>14
<1>16. Sound(h)
  <2>1. IsGraph(s) /\ OnLevel(s) /\ WithinCap(s)
    BY <1>2 DEF Sound
  <2>2. IsGraph(h)
    BY <2>1, <1>13, <1>14 DEF IsGraph
  <2>3. OnLevel(h) /\ WithinCap(h)
    BY <2>1, <1>13, <1>14 DEF OnLevel, WithinCap
  <2> QED
    BY <2>2, <2>3 DEF Sound
<1>17. EntryOnTopOf(h) /\ h.entry \in Nodes(h)
  BY <1>2, <1>13, <1>15 DEF EntryOnTopOf
<1>18. Symmetric(h) /\ Joined(h, Nodes(h))
  BY <1>3, <1>14, <1>15 DEF Symmetric, Joined
<1>19. Whole(h) /\ Nodes(h) = Nodes(g) \cup {v} /\ h.lvl = s.lvl
  BY <1>2, <1>13, <1>14, <1>16, <1>17, <1>18 DEF Whole
<1> QED
  BY <1>2, <1>19 DEF h, s

\* A node stored in a graph that has some is ready to be wired.
LEMMA StoredUnwired ==
    ASSUME NEW g, Built(g), g.entry # NoNode, NEW v \in Points \ Nodes(g), NEW level \in Nat
    PROVE  LET s == StoreNode(g, v, level) IN
           /\ Unwired(s, v) /\ Nodes(s) = Nodes(g) \cup {v} /\ s.entry = g.entry
           /\ s.top = g.top /\ s.lvl[v] = level /\ \A u \in Nodes(g) : s.lvl[u] = g.lvl[u]
<1> DEFINE s == StoreNode(g, v, level)
<1>1. /\ Sound(g) /\ NoNode \notin Nodes(g)
      /\ g.entry = NoNode <=> Nodes(g) = {}
      /\ Nodes(g) # {} => Whole(g)
  BY BuiltFacts
<1>2. /\ Sound(s) /\ Nodes(s) = Nodes(g) \cup {v} /\ s.entry = g.entry /\ s.top = g.top
      /\ s.lvl[v] = level /\ \A u \in Nodes(g) : s.lvl[u] = g.lvl[u]
      /\ \A l \in 0 .. level : Links(s, v, l) = <<>>
      /\ \A u \in Nodes(g) : \A l : Links(s, u, l) = Links(g, u, l)
      /\ \A l \in Nat : Unnamed(s, v, l)
      /\ s = [lvl |-> s.lvl, link |-> s.link, entry |-> s.entry, top |-> s.top]
  BY <1>1, StoreNodeFacts
<1>3. Beside(s, v) = {}
  <2>1. 0 \in 0 .. level
    OBVIOUS
  <2> QED
    BY <1>2, <2>1 DEF Beside, ToSet
<1> HIDE DEF s
<1>12. Nodes(g) # {} /\ Whole(g)
  BY <1>1
<1>13. g.entry \in Nodes(g) /\ g.lvl[g.entry] = g.top /\ \A u \in Nodes(g) : g.lvl[u] <= g.top
  BY <1>12 DEF Whole, EntryOnTopOf
<1>14. Nodes(s) \ {v} = Nodes(g)
  BY <1>2
<1>15. ASSUME Small(s) PROVE Symmetric(s) /\ Joined(s, Nodes(s) \ {v})
  <2>1. IsGraph(s) /\ Nodes(s) \subseteq Points
    BY <1>2 DEF Sound, IsGraph
  <2>2. IsFiniteSet(Nodes(s)) /\ Cardinality(Nodes(s)) \in Nat /\ Nodes(g) \subseteq Nodes(s)
        /\ Nodes(g) \subseteq Points
    BY <1>2, <2>1, PointsFinite
  <2>3. Cardinality(Nodes(g)) <= Cardinality(Nodes(s)) /\ Cardinality(Nodes(g)) \in Nat
        /\ M0 \in Nat
    BY <2>2, PointsFinite, FS_Subset, HnswOpsAssumption DEF M0
  <2>4. Small(g)
    BY <1>15, <2>2, <2>3 DEF Small
  <2>5. Symmetric(g) /\ Joined(g, Nodes(g))
    BY <1>12, <2>4 DEF Whole
  <2>6. \A u \in Nodes(g) : Beside(s, u) = Beside(g, u)
    BY <1>2 DEF Beside
  <2>7. \A u \in Nodes(s) : v \notin Beside(s, u)
    BY <1>2, <2>1, BesideFacts DEF Unnamed, Beside
  <2>8. Symmetric(s)
    BY <1>2, <1>3, <2>5, <2>6, <2>7 DEF Symmetric
  <2>9. Joined(s, Nodes(g))
    BY <2>5, <2>6 DEF Joined
  <2> QED
    BY <1>14, <2>8, <2>9
<1>16. Unwired(s, v)
  BY <1>2, <1>13, <1>14, <1>15 DEF Unwired
<1> QED
  BY <1>2, <1>16 DEF s

\* vecdb_add keeps the graph whole, whatever the level drawn.
LEMMA AddNodeFacts ==
    ASSUME NEW g, Built(g), NEW v \in Points \ Nodes(g), NEW level \in Nat
    PROVE  LET h == AddNode(g, v, level) IN
           /\ Whole(h) /\ Nodes(h) = Nodes(g) \cup {v}
           /\ h.lvl[v] = level /\ \A u \in Nodes(g) : h.lvl[u] = g.lvl[u]
<1>1. CASE g.entry = NoNode
  <2> DEFINE h == OnlyNode(g, v, level)
  <2>1. /\ Whole(h) /\ Nodes(h) = Nodes(g) \cup {v}
        /\ h.lvl[v] = level /\ \A u \in Nodes(g) : h.lvl[u] = g.lvl[u]
    BY <1>1, FirstNode
  <2>2. AddNode(g, v, level) = h
    BY <1>1 DEF AddNode, OnlyNode
  <2> HIDE DEF h
  <2> QED
    BY <2>1, <2>2
<1>2. CASE g.entry # NoNode
  <2> DEFINE s == StoreNode(g, v, level)
             h == WireNode(s, v)
  <2>1. /\ Unwired(s, v) /\ Nodes(s) = Nodes(g) \cup {v}
        /\ s.lvl[v] = level /\ \A u \in Nodes(g) : s.lvl[u] = g.lvl[u]
    BY <1>2, StoredUnwired
  <2>2. AddNode(g, v, level) = h
    BY <1>2 DEF AddNode
  <2> HIDE DEF s
  <2>3. Whole(h) /\ Nodes(h) = Nodes(s) /\ h.lvl = s.lvl
    BY <2>1, WireNodeFacts
  <2> HIDE DEF h
  <2> QED
    BY <2>1, <2>2, <2>3
<1> QED
  BY <1>1, <1>2

-----------------------------------------------------------------------------
(***************************************************************************)
(* Reach is the least closed set: what a search can find.                  *)
(***************************************************************************)
ReachOp(c, R, n) == R \cup UNION {ToSet(Links(c.g, u, c.l)) : u \in R}
ReachInv(c, k, R) ==
    /\ c.from \subseteq R /\ R \subseteq c.in
    /\ \A V \in SUBSET c.in : c.from \subseteq V /\ Closed(c.g, c.l, V) => R \subseteq V
    /\ Closed(c.g, c.l, R) \/ Cardinality(R) > k

Spreads == INSTANCE FoldFacts WITH Op <- ReachOp, Inv <- ReachInv

LEMMA ClosedSets ==
    ASSUME NEW g, NEW l, NEW S, Closed(g, l, S), NEW V, V \subseteq S
    PROVE  Closed(g, l, V) <=> \A u \in V : ToSet(Links(g, u, l)) \subseteq V
<1>1. ASSUME NEW u \in V PROVE Links(g, u, l) \in Seq(V) <=> ToSet(Links(g, u, l)) \subseteq V
  <2>1. Links(g, u, l) \in Seq(S)
    BY DEF Closed
  <2> QED
    BY <2>1 DEF ToSet
<1> QED
  BY <1>1 DEF Closed

LEMMA ReachFacts ==
    ASSUME NEW g, Nodes(g) \subseteq Points, NEW l, NEW S, S \subseteq Nodes(g),
           Closed(g, l, S), NEW from, from \subseteq S, from # {}
    PROVE  LET R == Reach(g, from, l) IN
           /\ from \subseteq R /\ R \subseteq S /\ Closed(g, l, R)
           /\ \A V \in SUBSET S : from \subseteq V /\ Closed(g, l, V) => R \subseteq V
<1> DEFINE c == [g |-> g, l |-> l, in |-> S, from |-> from]
           n == Cardinality(Nodes(g))
           R == Reach(g, from, l)
<1>1. R = Spreads!Fold(c, from, Rounds(g))
  BY DEF Reach, ReachOp, Spreads!Fold, Spreads!FoldLeft, FoldLeft, MapThenFoldSet,
         Spreads!MapThenFoldSet, Max, Spreads!Max
<1>2. c.g = g /\ c.l = l /\ c.in = S /\ c.from = from
  OBVIOUS
<1>3. DOMAIN Rounds(g) = 1 .. n /\ n \in Nat /\ IsFiniteSet(Nodes(g))
  BY PointsFinite DEF Rounds
<1> HIDE DEF c, n, R
<1>4. ReachInv(c, 0, from)
  <2>1. Cardinality(from) > 0
    <3>1. from \subseteq Points
      OBVIOUS
    <3> QED
      BY <3>1, PointsFinite, FS_EmptySet
  <2> QED
    BY <1>2, <2>1 DEF ReachInv
<1>5. ASSUME NEW s, NEW k \in 0 .. n - 1, ReachInv(c, k, s), NEW x
      PROVE  ReachInv(c, k + 1, ReachOp(c, s, x))
  <2> DEFINE B == UNION {ToSet(Links(g, u, l)) : u \in s}
             r == s \cup B
  <2>1. /\ from \subseteq s /\ s \subseteq S
        /\ \A V \in SUBSET S : from \subseteq V /\ Closed(g, l, V) => s \subseteq V
        /\ Closed(g, l, s) \/ Cardinality(s) > k
    BY <1>2, <1>5 DEF ReachInv
  <2>2. \A V \in SUBSET S : s \subseteq V /\ Closed(g, l, V) => r \subseteq V
    <3> SUFFICES ASSUME NEW V \in SUBSET S, s \subseteq V, Closed(g, l, V), NEW y \in B
                 PROVE  y \in V
      OBVIOUS
    <3>1. PICK u \in s : y \in ToSet(Links(g, u, l))
      OBVIOUS
    <3> HIDE DEF B
    <3>2. ToSet(Links(g, u, l)) \subseteq V
      BY ClosedSets
    <3> QED
      BY <3>1, <3>2
  <2>3. r \subseteq S
    BY <2>1, <2>2
  <2>4. \A u \in s : ToSet(Links(g, u, l)) \subseteq r
    OBVIOUS
  <2> HIDE DEF B
  <2>5. Closed(g, l, r) \/ Cardinality(r) > k + 1
    <3>1. CASE Closed(g, l, s)
      <4>1. r \subseteq s
        BY <2>1, <2>2, <3>1
      <4>2. r = s
        BY <4>1
      <4> QED
        BY <3>1, <4>2
    <3>2. CASE r = s
      <4>1. Closed(g, l, s)
        BY <2>1, <2>4, <3>2, ClosedSets
      <4> QED
        BY <3>2, <4>1
    <3>3. CASE r # s /\ ~ Closed(g, l, s)
      <4>1. s \subseteq r /\ r \subseteq Points /\ s \subseteq Points
        BY <2>1, <2>3
      <4> HIDE DEF r
      <4>2. IsFiniteSet(r) /\ Cardinality(r) \in Nat /\ Cardinality(s) \in Nat
        BY <4>1, PointsFinite
      <4>3. Cardinality(s) <= Cardinality(r) /\ Cardinality(s) # Cardinality(r)
        BY <3>3, <4>1, <4>2, FS_Subset
      <4>4. Cardinality(s) > k /\ k \in Nat
        BY <1>3, <2>1, <3>3
      <4> QED
        BY <4>2, <4>3, <4>4
    <3> QED
      BY <3>1, <3>2, <3>3
  <2>6. ReachOp(c, s, x) = r
    BY <1>2 DEF ReachOp, B
  <2>7. from \subseteq r /\ \A V \in SUBSET S : from \subseteq V /\ Closed(g, l, V) => r \subseteq V
    BY <2>1, <2>2
  <2> HIDE DEF r
  <2> QED
    BY <1>2, <2>3, <2>5, <2>6, <2>7 DEF ReachInv
<1>6. ReachInv(c, n, R)
  BY <1>1, <1>3, <1>4, <1>5, Spreads!FoldInv
<1>7. /\ from \subseteq R /\ R \subseteq S
      /\ \A V \in SUBSET S : from \subseteq V /\ Closed(g, l, V) => R \subseteq V
      /\ Closed(g, l, R) \/ Cardinality(R) > n
  BY <1>2, <1>6 DEF ReachInv
<1>8. ~ (Cardinality(R) > n)
  <2>1. R \subseteq Nodes(g) /\ R \subseteq Points
    BY <1>7
  <2>2. Cardinality(R) <= n /\ Cardinality(R) \in Nat
    BY <1>3, <2>1, PointsFinite, FS_Subset DEF n
  <2> QED
    BY <1>3, <2>2
<1> QED
  BY <1>7, <1>8 DEF R

\* Where the bottom layer hangs together every node reaches every other.
LEMMA AllReached ==
    ASSUME NEW h, IsGraph(h), OnLevel(h), Joined(h, Nodes(h)), NEW v \in Nodes(h)
    PROVE  Reach(h, {v}, 0) = Nodes(h)
<1> DEFINE R == Reach(h, {v}, 0)
<1>1. Nodes(h) \subseteq Points
  BY DEF IsGraph
<1>2. OnLev(h, 0) = Nodes(h)
  BY BesideFacts
<1>3. Closed(h, 0, Nodes(h))
  BY <1>2, LevelClosed
<1>4. {v} \subseteq R /\ R \subseteq Nodes(h) /\ Closed(h, 0, R)
  BY <1>1, <1>3, ReachFacts
<1> HIDE DEF R
<1>5. \A u \in R : Beside(h, u) \subseteq R
  BY <1>4, BesideFacts
<1>6. R = Nodes(h)
  BY <1>4, <1>5 DEF Joined
<1> QED
  BY <1>6 DEF R

\* What a graph that is built promises.
LEMMA BuiltSound ==
    ASSUME NEW h, Built(h)
    PROVE  OnLevel(h) /\ WithinCap(h) /\ EntryOnTopOf(h) /\ BottomWhole(h)
<1>1. /\ Sound(h)
      /\ Nodes(h) = {} => h.entry = NoNode /\ h.top = -1
      /\ Nodes(h) # {} => Whole(h)
  BY DEF Built, Whole
<1>2. OnLevel(h) /\ WithinCap(h)
  BY <1>1 DEF Sound
<1>3. EntryOnTopOf(h)
  BY <1>1 DEF Whole, EntryOnTopOf
<1>4. BottomWhole(h)
  <2> SUFFICES ASSUME Cardinality(Nodes(h)) <= M0 + 1
               PROVE  /\ \A v, u \in Nodes(h) : u \in ToSet(Links(h, v, 0))
                                                  => v \in ToSet(Links(h, u, 0))
                      /\ \A v \in Nodes(h) : Reach(h, {v}, 0) = Nodes(h)
    BY DEF BottomWhole
  <2>1. Small(h)
    BY DEF Small
  <2>2. Nodes(h) # {} => Symmetric(h)
    BY <1>1, <2>1 DEF Whole
  <2>3. ASSUME NEW v \in Nodes(h) PROVE Reach(h, {v}, 0) = Nodes(h)
    BY <1>1, <2>1, AllReached DEF Whole, Sound
  <2> QED
    BY <2>2, <2>3 DEF Symmetric, Beside
<1> QED
  BY <1>2, <1>3, <1>4

-----------------------------------------------------------------------------
(***************************************************************************)
(* Searches.                                                               *)
(***************************************************************************)
\* The greedy descent of a search ends on a node.
LEMMA DescentEnds ==
    ASSUME NEW h, Whole(h), NEW q \in Points
    PROVE  Descend(h, q, h.entry, h.top, 1) \in Nodes(h)
<1>1. /\ IsGraph(h) /\ OnLevel(h) /\ h.entry \in Nodes(h) /\ h.lvl[h.entry] = h.top
      /\ h.lvl[h.entry] \in Nat
  BY DEF Whole, Sound, IsGraph, EntryOnTopOf
<1>2. \A l \in Nat : Closed(h, l, OnLev(h, l) \cap Nodes(h))
  <2> SUFFICES ASSUME NEW l \in Nat PROVE Closed(h, l, OnLev(h, l) \cap Nodes(h))
    OBVIOUS
  <2>1. OnLev(h, l) \cap Nodes(h) = OnLev(h, l)
    BY DEF OnLev
  <2>2. Closed(h, l, OnLev(h, l))
    BY <1>1, LevelClosed
  <2> QED
    BY <2>1, <2>2
<1>3. h.top \in Int /\ h.lvl[h.entry] >= h.top /\ \A l \in 1 .. h.top : l \in Nat
  BY <1>1
<1> QED
  BY <1>1, <1>2, <1>3, DescendFacts

\* Everything a search for q can find.
Within(h, q) == Reach(h, {Descend(h, q, h.entry, h.top, 1)}, 0)

\* What the search of the bottom layer finds: ef of the permitted nodes within its
\* reach, or all there are.
LEMMA SearchFinds ==
    ASSUME NEW h, Whole(h), NEW q \in Points, NEW ef \in Nat, ef >= 1, NEW ok
    PROVE  LET r == SearchLayer(h, q, Descend(h, q, h.entry, h.top, 1), ef, 0, ok) IN
           /\ Within(h, q) \subseteq Nodes(h) /\ r \subseteq Within(h, q) \cap ok
           /\ Cardinality(r) >= ef \/ r = Within(h, q) \cap ok
<1> DEFINE e == Descend(h, q, h.entry, h.top, 1)
           F == Reach(h, {e}, 0)
           r == SearchLayer(h, q, e, ef, 0, ok)
<1>1. IsGraph(h) /\ OnLevel(h) /\ Nodes(h) \subseteq Points
  BY DEF Whole, Sound, IsGraph
<1>2. e \in Nodes(h)
  BY DescentEnds
<1> HIDE DEF e
<1>4. Closed(h, 0, Nodes(h))
  BY <1>1, LevelClosed, BesideFacts
<1>5. /\ e \in F /\ F \subseteq Nodes(h) /\ Closed(h, 0, F)
      /\ \A V \in SUBSET Nodes(h) : e \in V /\ Closed(h, 0, V) => F \subseteq V
  <2>1. {e} \subseteq Nodes(h) /\ {e} # {}
    BY <1>2
  <2>2. /\ {e} \subseteq F /\ F \subseteq Nodes(h) /\ Closed(h, 0, F)
        /\ \A V \in SUBSET Nodes(h) : {e} \subseteq V /\ Closed(h, 0, V) => F \subseteq V
    BY <1>1, <1>4, <2>1, ReachFacts
  <2> HIDE DEF F
  <2> QED
    BY <2>2
<1> HIDE DEF F
<1>6. /\ r \subseteq F \cap ok
      /\ \/ Cardinality(r) >= ef
         \/ \E V \in SUBSET F : e \in V /\ Closed(h, 0, V) /\ r = V \cap ok
  <2>1. Explored(h, q, e, ef, 0, ok, F)
    BY <1>1, <1>5, SearchLayerFacts
  <2> QED
    BY <2>1 DEF Explored
<1> HIDE DEF r
<1>7. Cardinality(r) >= ef \/ r = F \cap ok
  <2>1. ASSUME NEW V \in SUBSET F, e \in V, Closed(h, 0, V) PROVE V = F
    BY <1>5, <2>1
  <2> QED
    BY <1>6, <2>1
<1> QED
  BY <1>5, <1>6, <1>7 DEF Within, F, r, e

\* The first members of a set in order of distance.
LEMMA NearestFew ==
    ASSUME NEW q \in Points, NEW S, S \subseteq Points, NEW k \in Nat
    PROVE  LET out == TopK(q, k, S)
           IN  /\ ToSet(out) \subseteq S /\ IsInjective(out)
               /\ Len(out) = IF Cardinality(S) < k THEN Cardinality(S) ELSE k
<1> DEFINE s == ByDistance(q, S)
           n == IF Len(s) < k THEN Len(s) ELSE k
           out == SubSeq(s, 1, n)
<1>1. s \in Seq(S) /\ Len(s) = Cardinality(S) /\ IsInjective(s)
  BY ByDistanceFacts
<1> HIDE DEF s
<1>2. Len(s) \in Nat /\ n \in 0 .. Len(s) /\ n \in Nat
  BY <1>1
<1>3. /\ Len(out) = n /\ DOMAIN out = 1 .. n /\ DOMAIN s = 1 .. Len(s)
      /\ \A j \in 1 .. n : out[j] = s[j] /\ j \in 1 .. Len(s) /\ s[j] \in S
  <2> HIDE DEF n
  <2> QED BY <1>1, <1>2
<1>4. ToSet(out) \subseteq S /\ IsInjective(out)
  <2> HIDE DEF n, out
  <2> QED BY <1>1, <1>3 DEF ToSet, IsInjective
<1>5. Len(out) = IF Cardinality(S) < k THEN Cardinality(S) ELSE k
  BY <1>1, <1>3
<1> QED
  BY <1>4, <1>5 DEF s, TopK
=============================================================================
