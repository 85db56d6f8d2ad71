----------------------------- MODULE ScanProofs -----------------------------
(***************************************************************************)
(* What the other proofs rest on: heaps, database bodies and the exact     *)
(* scan.  What the heap arrays hold after every operation, for any items   *)
(* with an integer distance (a heap in these lemmas is a sequence of       *)
(* distinct items); what single calls do to a well-formed body; and what   *)
(* the scan of a body returns.                                             *)
(***************************************************************************)
EXTENDS Scan, SequencesExt, FiniteSetTheorems, TLAPS

-----------------------------------------------------------------------------
(***************************************************************************)
(* Heaps.                                                                  *)
(***************************************************************************)
Weighed(X) == \A x \in X : x.dist \in Int

\* The array a holds the items S, each once, and the heap order.
Holding(max, a, X, S) ==
    a \in Seq(X) /\ IsInjective(a) /\ ToSet(a) = S /\ IsHeap(max, a)

LEMMA HoldingItems ==
    ASSUME NEW max, NEW a, NEW X, NEW S, Holding(max, a, X, S)
    PROVE  /\ a \in Seq(X) /\ Len(a) \in Nat /\ IsInjective(a) /\ ToSet(a) = S /\ S \subseteq X
           /\ Holding(max, a, X, ToSet(a))
<1>1. a \in Seq(X) /\ IsInjective(a) /\ ToSet(a) = S
  BY DEF Holding
<1>2. Holding(max, a, X, ToSet(a))
  BY <1>1
<1>3. S \subseteq X
  BY <1>1 DEF ToSet
<1> QED
  BY <1>1, <1>2, <1>3

\* A product grows with its factor.
LEMMA Rises ==
    ASSUME NEW k \in Nat, NEW a \in Nat, NEW b \in Nat, a < b
    PROVE  a * k + k <= b * k /\ a * k \in Nat /\ b * k \in Nat
<1>1. PICK m \in Nat : b = a + 1 + m
  <2>1. b - a - 1 \in Nat /\ b = a + 1 + (b - a - 1)
    OBVIOUS
  <2> QED
    BY <2>1
<1>2. b * k = a * k + k + m * k
  BY <1>1
<1>3. m * k \in Nat /\ a * k \in Nat
  OBVIOUS
<1> QED
  BY <1>2, <1>3

\* Rows of k cells do not overlap.
LEMMA RowsApart ==
    ASSUME NEW k \in Nat, NEW a \in Nat, NEW b \in Nat, a # b, NEW j \in 0 .. k - 1
    PROVE  (a * k + j) - b * k \notin 0 .. k - 1
<1>0. a * k \in Nat /\ b * k \in Nat
  OBVIOUS
<1>1. a * k + k <= b * k \/ b * k + k <= a * k
  <2>1. CASE a < b
    BY <2>1, Rises
  <2>2. CASE b < a
    BY <2>2, Rises
  <2> QED
    BY <2>1, <2>2
<1> QED
  BY <1>0, <1>1

\* A cell of a row is a cell of the array.
LEMMA RowInside ==
    ASSUME NEW k \in Nat, NEW n \in Nat, NEW i \in 0 .. n - 1, NEW j \in 0 .. k - 1
    PROVE  i * k + j \in 0 .. n * k - 1 /\ (i * k + j) - i * k = j
<1>1. i \in Nat /\ i < n
  OBVIOUS
<1>2. i * k + k <= n * k /\ i * k \in Nat /\ n * k \in Nat
  BY <1>1, Rises
<1> QED
  BY <1>2

-----------------------------------------------------------------------------
\* Where the parent of a cell is.
LEMMA Halves ==
    ASSUME NEW j \in Nat, j >= 2
    PROVE  /\ j \div 2 \in Nat /\ 1 <= j \div 2 /\ j \div 2 < j
           /\ j = 2 * (j \div 2) \/ j = 2 * (j \div 2) + 1
OBVIOUS

LEMMA Children ==
    ASSUME NEW i \in Nat, i >= 1, NEW j \in Nat, j >= 2
    PROVE  j \div 2 = i <=> j = 2 * i \/ j = 2 * i + 1
OBVIOUS

LEMMA BeforeOrder ==
    ASSUME NEW X, Weighed(X), NEW max
    PROVE  /\ \A x, y \in X : Before(max, x, y) => ~ Before(max, y, x)
           /\ \A x, y, z \in X : ~ Before(max, x, y) /\ ~ Before(max, y, z) => ~ Before(max, x, z)
           /\ \A x \in X : ~ Before(max, x, x)
BY DEF Weighed, Before

LEMMA SwapFacts ==
    ASSUME NEW X, NEW a \in Seq(X), IsInjective(a),
           NEW i \in 1 .. Len(a), NEW j \in 1 .. Len(a)
    PROVE  LET b == Swapped(a, i, j) IN
           /\ b \in Seq(X) /\ Len(b) = Len(a) /\ IsInjective(b) /\ ToSet(b) = ToSet(a)
           /\ b[i] = a[j] /\ b[j] = a[i]
           /\ \A m \in 1 .. Len(a) : m # i /\ m # j => b[m] = a[m]
<1> DEFINE b == Swapped(a, i, j)
           n == Len(a)
<1>1. n \in Nat /\ a \in [1 .. n -> X] /\ DOMAIN a = 1 .. n
  OBVIOUS
<1>2. b = [m \in 1 .. n |-> IF m = j THEN a[i] ELSE IF m = i THEN a[j] ELSE a[m]]
  BY <1>1 DEF Swapped
<1> HIDE DEF b
<1>3. b \in [1 .. n -> X] /\ DOMAIN b = 1 .. n
  BY <1>1, <1>2
<1>4. b \in Seq(X) /\ Len(b) = n
  BY <1>1, <1>3
<1>5. /\ b[i] = a[j] /\ b[j] = a[i]
      /\ \A m \in 1 .. n : m # i /\ m # j => b[m] = a[m]
  BY <1>2
<1>6. IsInjective(b)
  BY <1>1, <1>2, <1>3 DEF IsInjective
<1>7. ToSet(b) = ToSet(a)
  <2>1. ToSet(b) = {b[m] : m \in 1 .. n} /\ ToSet(a) = {a[m] : m \in 1 .. n}
    BY <1>1, <1>3 DEF ToSet
  <2>2. \A m \in 1 .. n : \E m2 \in 1 .. n : b[m] = a[m2]
    BY <1>2
  <2>3. \A m \in 1 .. n : \E m2 \in 1 .. n : a[m] = b[m2]
    BY <1>5
  <2> QED
    BY <2>1, <2>2, <2>3
<1> HIDE DEF n
<1> QED
  BY <1>4, <1>5, <1>6, <1>7 DEF b, n

-----------------------------------------------------------------------------
(***************************************************************************)
(* heap_push.  While the new item moves up, the heap order can fail only   *)
(* between it and its parent, and its children belong below that parent.   *)
(***************************************************************************)
Bounded(h, c) == /\ h = [a |-> h.a, i |-> h.i]
                 /\ h.a \in Seq(c.X) /\ Len(h.a) = c.n /\ h.i \in 1 .. c.n
                 /\ IsInjective(h.a) /\ ToSet(h.a) = c.S

UpOp(c, h, r) == SiftUp(c.max, h)
UpInv(c, k, h) ==
    /\ Bounded(h, c)
    /\ \A j \in 2 .. c.n : j # h.i => ~ Before(c.max, h.a[j], h.a[j \div 2])
    /\ \A j \in 2 .. c.n : h.i > 1 /\ j \div 2 = h.i => ~ Before(c.max, h.a[j], h.a[h.i \div 2])
    /\ \/ h.i + k <= c.n \/ h.i = 1
       \/ ~ Before(c.max, h.a[h.i], h.a[h.i \div 2])

Ups == INSTANCE FoldFacts WITH Op <- UpOp, Inv <- UpInv

\* The item on top goes before, or is equal to, every other.
LEMMA TopIsFirst ==
    ASSUME NEW X, Weighed(X), NEW max, NEW a \in Seq(X), IsHeap(max, a),
           NEW i \in 1 .. Len(a)
    PROVE  ~ Before(max, a[i], a[1])
<1> DEFINE n == Len(a)
           Bad == {j \in 1 .. n : Before(max, a[j], a[1])}
<1>1. n \in Nat /\ \A j \in 1 .. n : a[j] \in X
  OBVIOUS
<1> SUFFICES ASSUME Bad # {} PROVE FALSE
  OBVIOUS
<1>2. Bad \in SUBSET Nat
  BY <1>1
<1>3. PICK j \in Bad : \A m \in Bad : j <= m
  <2> HIDE DEF Bad
  <2> QED
    BY <1>2, Ups!LeastElement
<1>4. j \in 1 .. n /\ 1 \in 1 .. n /\ Before(max, a[j], a[1])
  BY <1>1
<1>5. j # 1
  BY <1>1, <1>4, BeforeOrder
<1> DEFINE p == j \div 2
<1>6. p \in 1 .. n /\ p < j /\ j \in 2 .. n
  BY <1>1, <1>4, <1>5, Halves
<1>7. ~ Before(max, a[j], a[p])
  BY <1>6 DEF IsHeap
<1>8. p \notin Bad
  BY <1>3, <1>6
<1>9. ~ Before(max, a[p], a[1])
  BY <1>6, <1>8
<1> QED
  BY <1>1, <1>4, <1>6, <1>7, <1>9, BeforeOrder

LEMMA UpStep ==
    ASSUME NEW c, Weighed(c.X), NEW k \in Nat, NEW h, UpInv(c, k, h), NEW x
    PROVE  UpInv(c, k + 1, UpOp(c, h, x))
<1> DEFINE a == h.a
           i == h.i
           p == i \div 2
           n == c.n
           b == Swapped(a, i, p)
<1>1. /\ h = [a |-> a, i |-> i] /\ a \in Seq(c.X) /\ n = Len(a) /\ n \in Nat
      /\ i \in 1 .. n /\ IsInjective(a) /\ ToSet(a) = c.S
  BY DEF UpInv, Bounded
<1>2. /\ \A j \in 2 .. n : j # i => ~ Before(c.max, a[j], a[j \div 2])
      /\ \A j \in 2 .. n : i > 1 /\ j \div 2 = i => ~ Before(c.max, a[j], a[p])
      /\ i + k <= n \/ i = 1 \/ ~ Before(c.max, a[i], a[p])
  BY DEF UpInv
<1>3. UpOp(c, h, x) = IF i > 1 /\ Before(c.max, a[i], a[p]) THEN [a |-> b, i |-> p] ELSE h
  BY DEF UpOp, SiftUp
<1> HIDE DEF a, i, n
<1>4. CASE ~ (i > 1 /\ Before(c.max, a[i], a[p]))
  <2>1. UpOp(c, h, x) = h
    BY <1>3, <1>4
  <2>2. i + (k + 1) <= n \/ i = 1 \/ ~ Before(c.max, a[i], a[p])
    BY <1>1, <1>4
  <2> QED
    BY <1>2, <2>1, <2>2 DEF UpInv, a, i, n
<1>5. CASE i > 1 /\ Before(c.max, a[i], a[p])
  <2>1. i \in 2 .. n /\ p \in 1 .. n /\ p < i /\ p \in Nat
    BY <1>1, <1>5, Halves
  <2> HIDE DEF p
  <2>2. /\ b \in Seq(c.X) /\ Len(b) = n /\ IsInjective(b) /\ ToSet(b) = c.S
        /\ b[i] = a[p] /\ b[p] = a[i]
        /\ \A m \in 1 .. n : m # i /\ m # p => b[m] = a[m]
    <3>1. p \in 1 .. Len(a) /\ i \in 1 .. Len(a)
      BY <1>1, <2>1
    <3>2. a \in Seq(c.X) /\ IsInjective(a) /\ ToSet(a) = c.S /\ Len(a) = n
      BY <1>1
    <3>3. /\ b \in Seq(c.X) /\ Len(b) = Len(a) /\ IsInjective(b) /\ ToSet(b) = ToSet(a)
          /\ b[i] = a[p] /\ b[p] = a[i]
          /\ \A m \in 1 .. Len(a) : m # i /\ m # p => b[m] = a[m]
      BY ONLY <3>1, <3>2, SwapFacts
    <3> HIDE DEF b
    <3> QED
      BY <3>2, <3>3
  <2> HIDE DEF b
  <2> DEFINE e == [a |-> b, i |-> p]
  <2>3. UpOp(c, h, x) = e /\ e.a = b /\ e.i = p
    BY <1>3, <1>5 DEF p
  <2>4. Bounded(e, c)
    BY <2>1, <2>2 DEF Bounded, n
  <2>5. \A j \in 1 .. n : a[j] \in c.X
    BY <1>1
  <2>6. ASSUME NEW j \in 2 .. n, j # p PROVE ~ Before(c.max, b[j], b[j \div 2])
    <3> DEFINE r == j \div 2
    <3>1. r \in 1 .. n /\ r < j /\ j \in 1 .. n
      BY <1>1, Halves
    <3>2. CASE j = i
      <4>1. r = p /\ b[j] = a[p] /\ b[r] = a[i]
        BY <2>2, <3>2 DEF p
      <4> QED
        BY <1>5, <2>1, <2>5, <4>1, BeforeOrder
    <3>3. CASE j # i /\ r = i
      <4>1. b[j] = a[j] /\ b[r] = a[p]
        BY <2>2, <2>6, <3>1, <3>3
      <4> QED
        BY <1>2, <1>5, <3>3, <4>1
    <3>4. CASE j # i /\ r = p
      <4>1. b[j] = a[j] /\ b[r] = a[i]
        BY <2>2, <2>6, <3>1, <3>4
      <4>2. ~ Before(c.max, a[j], a[p])
        BY <1>2, <3>4
      <4>3. ~ Before(c.max, a[p], a[i])
        BY <1>5, <2>1, <2>5, BeforeOrder
      <4> QED
        BY <2>1, <2>5, <3>1, <4>1, <4>2, <4>3, BeforeOrder
    <3>5. CASE j # i /\ r # i /\ r # p
      <4>1. b[j] = a[j] /\ b[r] = a[r]
        BY <2>2, <2>6, <3>1, <3>5
      <4> QED
        BY <1>2, <3>5, <4>1
    <3> QED
      BY <3>2, <3>3, <3>4, <3>5
  <2>7. ASSUME NEW j \in 2 .. n, p > 1, j \div 2 = p PROVE ~ Before(c.max, b[j], b[p \div 2])
    <3> DEFINE r == p \div 2
    <3>1. r \in 1 .. n /\ r < p /\ p \in 2 .. n /\ j \in 1 .. n /\ p < j
      BY <1>1, <2>1, <2>7, Halves
    <3>2. ~ Before(c.max, a[p], a[r])
      BY <1>2, <2>1, <3>1
    <3>3. b[r] = a[r]
      BY <2>1, <2>2, <3>1
    <3> HIDE DEF r
    <3>4. CASE j = i
      BY <2>2, <3>2, <3>3, <3>4 DEF r
    <3>5. CASE j # i
      <4>1. ~ Before(c.max, a[j], a[p])
        BY <1>2, <2>7, <3>5
      <4>2. b[j] = a[j]
        BY <2>2, <3>1, <3>5
      <4>3. ~ Before(c.max, a[j], a[r])
        BY <2>1, <2>5, <3>1, <3>2, <4>1, BeforeOrder
      <4> QED
        BY <3>3, <4>2, <4>3 DEF r
    <3> QED
      BY <3>4, <3>5
  <2>8. p + (k + 1) <= n \/ p = 1 \/ ~ Before(c.max, b[p], b[p \div 2])
    BY <1>1, <1>2, <1>5, <2>1 DEF p
  <2> HIDE DEF e
  <2>9. UpInv(c, k + 1, e)
    BY <2>3, <2>4, <2>6, <2>7, <2>8 DEF UpInv, n
  <2> QED
    BY <2>3, <2>9
<1> QED
  BY <1>4, <1>5

LEMMA AppendFacts ==
    ASSUME NEW X, NEW a \in Seq(X), IsInjective(a), NEW x \in X, x \notin ToSet(a)
    PROVE  LET b == Append(a, x) IN
           /\ b \in Seq(X) /\ Len(b) = Len(a) + 1 /\ b[Len(a) + 1] = x
           /\ IsInjective(b) /\ ToSet(b) = ToSet(a) \cup {x}
           /\ \A j \in 1 .. Len(a) : b[j] = a[j]
<1> DEFINE b == Append(a, x)
           n == Len(a)
<1>1. n \in Nat /\ DOMAIN a = 1 .. n /\ \A j \in 1 .. n : a[j] \in X
  OBVIOUS
<1>2. /\ b \in Seq(X) /\ Len(b) = n + 1 /\ b[n + 1] = x /\ DOMAIN b = 1 .. n + 1
      /\ \A j \in 1 .. n : b[j] = a[j]
  OBVIOUS
<1> HIDE DEF b, n
<1>3. \A j \in 1 .. n : a[j] # x
  BY <1>1 DEF ToSet
<1>4. \A j \in 1 .. n + 1 : j \in 1 .. n \/ j = n + 1
  BY <1>1
<1>5. IsInjective(b)
  BY <1>1, <1>2, <1>3, <1>4 DEF IsInjective
<1>6. ToSet(b) = ToSet(a) \cup {x}
  <2>1. ToSet(b) = {b[j] : j \in 1 .. n + 1} /\ ToSet(a) = {a[j] : j \in 1 .. n}
    BY <1>1, <1>2 DEF ToSet
  <2>2. \A j \in 1 .. n : j \in 1 .. n + 1
    BY <1>1
  <2>3. n + 1 \in 1 .. n + 1
    BY <1>1
  <2> QED
    BY <1>2, <1>4, <2>1, <2>2, <2>3
<1> QED
  BY <1>2, <1>5, <1>6 DEF b, n

\* heap_push adds its item and keeps the order.
LEMMA PushFacts ==
    ASSUME NEW X, Weighed(X), NEW max, NEW a, NEW S, Holding(max, a, X, S),
           NEW x \in X, x \notin S
    PROVE  /\ Holding(max, HeapPush(max, a, x), X, S \cup {x})
           /\ Len(HeapPush(max, a, x)) = Len(a) + 1
<1> DEFINE n == Len(a) + 1
           b == Append(a, x)
           c == [max |-> max, X |-> X, n |-> n, S |-> S \cup {x}]
           base == [a |-> b, i |-> n]
<1>1. /\ a \in Seq(X) /\ IsInjective(a) /\ ToSet(a) = S /\ IsHeap(max, a)
      /\ n \in Nat /\ n - 1 \in Nat /\ n >= 1 /\ Len(a) = n - 1
  BY DEF Holding
<1>2. HeapPush(max, a, x) = Ups!Fold(c, base, Steps(a)).a
  BY DEF HeapPush, UpOp, Ups!Fold, Ups!FoldLeft, FoldLeft, MapThenFoldSet,
         Ups!MapThenFoldSet, Max, Ups!Max
<1>3. DOMAIN Steps(a) = 1 .. n - 1
  BY <1>1 DEF Steps
<1>4. /\ b \in Seq(X) /\ Len(b) = n /\ IsInjective(b) /\ ToSet(b) = S \cup {x}
      /\ \A j \in 1 .. n - 1 : b[j] = a[j]
  BY <1>1, AppendFacts
<1>5. c.max = max /\ c.X = X /\ c.n = n /\ c.S = S \cup {x} /\ base.a = b /\ base.i = n
  OBVIOUS
<1>6. base = [a |-> base.a, i |-> base.i]
  OBVIOUS
<1> HIDE DEF n, b, c, base
<1>7. UpInv(c, 0, base)
  <2>1. Bounded(base, c)
    BY <1>1, <1>4, <1>5, <1>6 DEF Bounded
  <2>2. ASSUME NEW j \in 2 .. n, j # n PROVE ~ Before(max, b[j], b[j \div 2])
    <3>1. j \in 2 .. Len(a) /\ j \in 1 .. n - 1 /\ j \div 2 \in 1 .. n - 1
      BY <1>1, <2>2, Halves
    <3>2. ~ Before(max, a[j], a[j \div 2])
      BY <1>1, <3>1 DEF IsHeap
    <3> QED
      BY <1>4, <3>1, <3>2
  <2>3. ASSUME NEW j \in 2 .. n PROVE j \div 2 # n
    BY <1>1, Halves
  <2> QED
    BY <1>1, <1>5, <2>1, <2>2, <2>3 DEF UpInv
<1>8. \A h : \A k \in 0 .. (n - 1) - 1 :
         UpInv(c, k, h) => UpInv(c, k + 1, UpOp(c, h, Steps(a)[k + 1]))
  BY <1>5, UpStep
<1> DEFINE h == Ups!Fold(c, base, Steps(a))
<1>9. UpInv(c, n - 1, h)
  <2> HIDE DEF UpInv
  <2> QED
    BY <1>1, <1>3, <1>7, <1>8, Ups!FoldInv
<1> HIDE DEF h
<1>10. /\ h.a \in Seq(X) /\ Len(h.a) = n /\ IsInjective(h.a) /\ ToSet(h.a) = S \cup {x}
       /\ h.i \in 1 .. n
       /\ \A j \in 2 .. n : j # h.i => ~ Before(max, h.a[j], h.a[j \div 2])
       /\ h.i + (n - 1) <= n \/ h.i = 1 \/ ~ Before(max, h.a[h.i], h.a[h.i \div 2])
  BY <1>5, <1>9 DEF UpInv, Bounded
<1>11. IsHeap(max, h.a)
  <2>1. ASSUME NEW j \in 2 .. n PROVE ~ Before(max, h.a[j], h.a[j \div 2])
    <3>1. CASE j = h.i
      <4>1. ~ (h.i + (n - 1) <= n) /\ h.i # 1
        BY <1>1, <3>1
      <4> QED
        BY <1>10, <3>1, <4>1
    <3> QED
      BY <1>10, <3>1
  <2> QED
    BY <1>10, <2>1 DEF IsHeap
<1>12. HeapPush(max, a, x) = h.a
  BY <1>2 DEF h
<1> QED
  BY <1>10, <1>11, <1>12 DEF Holding, n

-----------------------------------------------------------------------------
(***************************************************************************)
(* heap_pop.  While the item moves down, the heap order can fail only      *)
(* between it and its children, and these belong below its parent.         *)
(***************************************************************************)
DownOp(c, h, r) == SiftDown(c.max, h)
DownInv(c, k, h) ==
    /\ Bounded(h, c)
    /\ \A j \in 2 .. c.n : j \div 2 # h.i => ~ Before(c.max, h.a[j], h.a[j \div 2])
    /\ \A j \in 2 .. c.n : h.i > 1 /\ j \div 2 = h.i => ~ Before(c.max, h.a[j], h.a[h.i \div 2])
    /\ h.i > k \/ Topmost(c.max, h.a, h.i) = h.i

Downs == INSTANCE FoldFacts WITH Op <- DownOp, Inv <- DownInv

LEMMA TopmostFacts ==
    ASSUME NEW X, Weighed(X), NEW max, NEW a \in Seq(X), NEW i \in 1 .. Len(a)
    PROVE  LET t == Topmost(max, a, i) IN
           /\ t \in 1 .. Len(a)
           /\ t # i => t \in 2 .. Len(a) /\ t \div 2 = i /\ Before(max, a[t], a[i])
           /\ ~ Before(max, a[i], a[t])
           /\ \A j \in 2 .. Len(a) : j \div 2 = i => ~ Before(max, a[j], a[t])
<1> DEFINE n == Len(a)
           Higher(b, c) == IF c <= n /\ Before(max, a[c], a[b]) THEN c ELSE b
           s == Higher(i, 2 * i)
           t == Higher(s, 2 * i + 1)
<1>1. n \in Nat /\ i \in 1 .. n /\ \A j \in 1 .. n : a[j] \in X
  OBVIOUS
<1>2. Topmost(max, a, i) = t
  BY DEF Topmost
<1> HIDE DEF n
<1>3. /\ s \in 1 .. n /\ (s = i \/ (s = 2 * i /\ s <= n /\ Before(max, a[s], a[i])))
      /\ 2 * i <= n => ~ Before(max, a[2 * i], a[s])
      /\ ~ Before(max, a[i], a[s])
  <2>1. CASE 2 * i <= n /\ Before(max, a[2 * i], a[i])
    <3>1. s = 2 * i /\ s \in 1 .. n
      BY <1>1, <2>1
    <3> HIDE DEF s
    <3> QED
      BY <1>1, <2>1, <3>1, BeforeOrder
  <2>2. CASE ~ (2 * i <= n /\ Before(max, a[2 * i], a[i]))
    <3>1. s = i
      BY <2>2
    <3> HIDE DEF s
    <3> QED
      BY <1>1, <2>2, <3>1, BeforeOrder
  <2> QED
    BY <2>1, <2>2
<1> DEFINE r == 2 * i + 1
<1> HIDE DEF s
<1>4. /\ t \in 1 .. n /\ (t = s \/ (t = r /\ t <= n /\ Before(max, a[t], a[s])))
      /\ r <= n => ~ Before(max, a[r], a[t])
      /\ ~ Before(max, a[s], a[t])
  <2>1. CASE r <= n /\ Before(max, a[r], a[s])
    <3>1. t = r /\ t \in 1 .. n
      BY <1>1, <2>1
    <3> HIDE DEF t
    <3> QED
      BY <1>1, <1>3, <2>1, <3>1, BeforeOrder
  <2>2. CASE ~ (r <= n /\ Before(max, a[r], a[s]))
    <3>1. t = s
      BY <2>2
    <3> HIDE DEF t
    <3> QED
      BY <1>1, <1>3, <2>2, <3>1, BeforeOrder
  <2> QED
    BY <2>1, <2>2
<1> HIDE DEF t
<1>5. /\ 2 * i <= n => ~ Before(max, a[2 * i], a[t])
      /\ ~ Before(max, a[i], a[t])
  <2>1. i \in 1 .. n /\ s \in 1 .. n /\ t \in 1 .. n /\ (2 * i <= n => 2 * i \in 1 .. n)
    BY <1>1, <1>3, <1>4
  <2> QED
    BY <1>1, <1>3, <1>4, <2>1, BeforeOrder
<1>6. ASSUME t # i
      PROVE  t \in 2 .. n /\ t \div 2 = i /\ Before(max, a[t], a[i])
  <2>1. t = 2 * i \/ t = r
    BY <1>3, <1>4, <1>6
  <2>2. t \in 2 .. n /\ t \div 2 = i
    BY <1>1, <1>4, <2>1, Children
  <2>3. CASE s = i
    BY <1>4, <1>6, <2>2, <2>3
  <2>4. CASE s # i /\ t = s
    BY <1>3, <2>2, <2>4
  <2>5. CASE s # i /\ t # s
    <3>1. Before(max, a[t], a[s]) /\ Before(max, a[s], a[i])
      BY <1>3, <1>4, <2>5
    <3>2. a[t] \in X /\ a[s] \in X /\ a[i] \in X
      BY <1>1, <1>3, <1>4
    <3> QED
      BY <2>2, <3>1, <3>2 DEF Before, Weighed
  <2> QED
    BY <2>3, <2>4, <2>5
<1>7. ASSUME NEW j \in 2 .. n, j \div 2 = i PROVE ~ Before(max, a[j], a[t])
  <2>1. j = 2 * i \/ j = r
    BY <1>1, <1>7, Children
  <2> QED
    BY <1>4, <1>5, <1>7, <2>1
<1> QED
  BY <1>2, <1>4, <1>5, <1>6, <1>7 DEF n

LEMMA DownStep ==
    ASSUME NEW c, Weighed(c.X), NEW k \in Nat, NEW h, DownInv(c, k, h), NEW x
    PROVE  DownInv(c, k + 1, DownOp(c, h, x))
<1> DEFINE a == h.a
           i == h.i
           n == c.n
           t == Topmost(c.max, a, i)
           b == Swapped(a, i, t)
<1>1. /\ h = [a |-> a, i |-> i] /\ a \in Seq(c.X) /\ n = Len(a) /\ n \in Nat
      /\ i \in 1 .. n /\ IsInjective(a) /\ ToSet(a) = c.S
  BY DEF DownInv, Bounded
<1>2. /\ \A j \in 2 .. n : j \div 2 # i => ~ Before(c.max, a[j], a[j \div 2])
      /\ \A j \in 2 .. n : i > 1 /\ j \div 2 = i => ~ Before(c.max, a[j], a[i \div 2])
      /\ i > k \/ t = i
  BY DEF DownInv
<1>3. DownOp(c, h, x) = IF t = i THEN h ELSE [a |-> b, i |-> t]
  BY DEF DownOp, SiftDown
<1> HIDE DEF a, i, n
<1>4. i \in 1 .. Len(a)
  BY <1>1
<1>5. /\ t \in 1 .. n
      /\ t # i => t \in 2 .. n /\ t \div 2 = i /\ Before(c.max, a[t], a[i])
      /\ ~ Before(c.max, a[i], a[t])
      /\ \A j \in 2 .. n : j \div 2 = i => ~ Before(c.max, a[j], a[t])
  BY <1>1, <1>4, TopmostFacts
<1>6. CASE t = i
  <2>1. DownOp(c, h, x) = h
    BY <1>3, <1>6
  <2> QED
    BY <1>2, <1>6, <2>1 DEF DownInv, a, i, n
<1>7. CASE t # i
  <2> HIDE DEF t
  <2>1. t \in 2 .. n /\ t \div 2 = i /\ i < t /\ t \in Nat /\ t \in 1 .. n
    BY <1>1, <1>5, <1>7, Halves
  <2>2. /\ b \in Seq(c.X) /\ Len(b) = n /\ IsInjective(b) /\ ToSet(b) = c.S
        /\ b[i] = a[t] /\ b[t] = a[i]
        /\ \A m \in 1 .. n : m # i /\ m # t => b[m] = a[m]
    <3>1. t \in 1 .. Len(a) /\ i \in 1 .. Len(a)
      BY <1>1, <2>1
    <3>2. a \in Seq(c.X) /\ IsInjective(a) /\ ToSet(a) = c.S /\ Len(a) = n
      BY <1>1
    <3>3. /\ b \in Seq(c.X) /\ Len(b) = Len(a) /\ IsInjective(b) /\ ToSet(b) = ToSet(a)
          /\ b[i] = a[t] /\ b[t] = a[i]
          /\ \A m \in 1 .. Len(a) : m # i /\ m # t => b[m] = a[m]
      BY ONLY <3>1, <3>2, SwapFacts
    <3> HIDE DEF b
    <3> QED
      BY <3>2, <3>3
  <2> HIDE DEF b
  <2> DEFINE e == [a |-> b, i |-> t]
  <2>3. DownOp(c, h, x) = e /\ e.a = b /\ e.i = t
    BY <1>3, <1>7 DEF t
  <2>4. Bounded(e, c)
    BY <2>1, <2>2 DEF Bounded, n
  <2>5. \A j \in 1 .. n : a[j] \in c.X
    BY <1>1
  <2>6. ASSUME NEW j \in 2 .. n, j \div 2 # t PROVE ~ Before(c.max, b[j], b[j \div 2])
    <3> DEFINE r == j \div 2
    <3>1. r \in 1 .. n /\ r < j /\ j \in 1 .. n
      BY <1>1, Halves
    <3>2. CASE j = t
      <4>1. r = i /\ b[j] = a[i] /\ b[r] = a[t]
        BY <2>1, <2>2, <3>2
      <4> QED
        BY <1>5, <4>1
    <3>3. CASE j # t /\ r = i
      <4>1. b[j] = a[j] /\ b[r] = a[t]
        BY <2>2, <3>1, <3>3
      <4> QED
        BY <1>5, <3>3, <4>1
    <3>4. CASE j = i
      <4>1. b[j] = a[t] /\ b[r] = a[r] /\ i > 1
        BY <1>1, <2>2, <2>6, <3>1, <3>4
      <4>2. ~ Before(c.max, a[t], a[r])
        BY <1>2, <2>1, <3>4, <4>1
      <4> QED
        BY <4>1, <4>2
    <3>5. CASE j # t /\ j # i /\ r # i
      <4>1. b[j] = a[j] /\ b[r] = a[r]
        BY <2>2, <2>6, <3>1, <3>5
      <4> QED
        BY <1>2, <3>5, <4>1
    <3> QED
      BY <3>2, <3>3, <3>4, <3>5
  <2>7. ASSUME NEW j \in 2 .. n, j \div 2 = t PROVE ~ Before(c.max, b[j], b[t \div 2])
    <3>1. t < j /\ j \in 1 .. n
      BY <1>1, <2>7, Halves
    <3>2. b[j] = a[j] /\ b[t \div 2] = a[t]
      BY <1>1, <2>1, <2>2, <3>1
    <3>3. j \div 2 # i
      BY <1>7, <2>7
    <3> QED
      BY <1>2, <2>7, <3>2, <3>3
  <2>8. t > k + 1
    BY <1>1, <1>2, <1>7, <2>1
  <2> HIDE DEF e
  <2>9. DownInv(c, k + 1, e)
    BY <2>3, <2>4, <2>6, <2>7, <2>8 DEF DownInv, n
  <2> QED
    BY <2>3, <2>9
<1> QED
  BY <1>6, <1>7

\* The last item in the place of the top: the others stay where they were.
LEMMA LastFacts ==
    ASSUME NEW X, NEW a \in Seq(X), Len(a) >= 2, IsInjective(a)
    PROVE  LET b == Front(<<a[Len(a)]>> \o Tail(a)) IN
           /\ b \in Seq(X) /\ Len(b) = Len(a) - 1 /\ b[1] = a[Len(a)]
           /\ \A j \in 2 .. Len(a) - 1 : b[j] = a[j]
           /\ IsInjective(b) /\ ToSet(b) = ToSet(a) \ {a[1]}
<1> DEFINE n == Len(a)
           s == <<a[n]>> \o Tail(a)
           b == Front(s)
<1>1. /\ n \in Nat /\ n >= 2 /\ DOMAIN a = 1 .. n /\ \A j \in 1 .. n : a[j] \in X
      /\ n \in 1 .. n /\ 1 \in 1 .. n
  OBVIOUS
<1>2. /\ Tail(a) \in Seq(X) /\ Len(Tail(a)) = n - 1
      /\ \A j \in 1 .. n - 1 : Tail(a)[j] = a[j + 1]
  BY <1>1
<1>3. /\ s \in Seq(X) /\ Len(s) = n /\ s[1] = a[n]
      /\ \A j \in 2 .. n : s[j] = a[j]
  BY <1>1, <1>2
<1> HIDE DEF s
<1>4. b = SubSeq(s, 1, n - 1)
  BY <1>3 DEF Front
<1> HIDE DEF b
<1>5. /\ b \in Seq(X) /\ Len(b) = n - 1 /\ DOMAIN b = 1 .. n - 1
      /\ \A j \in 1 .. n - 1 : b[j] = s[j]
  BY <1>1, <1>3, <1>4
<1> HIDE DEF n
<1>6. b[1] = a[n] /\ \A j \in 2 .. n - 1 : b[j] = a[j]
  BY <1>1, <1>3, <1>5
<1>7. \A j \in 1 .. n - 1 : j = 1 \/ j \in 2 .. n - 1
  BY <1>1
<1>8. \A j \in 2 .. n - 1 : j \in 1 .. n /\ j # n /\ j # 1
  BY <1>1
<1>9. IsInjective(b)
  <2> SUFFICES ASSUME NEW j \in 1 .. n - 1, NEW m \in 1 .. n - 1, b[j] = b[m]
               PROVE  j = m
    BY <1>5 DEF IsInjective
  <2>1. CASE j = 1 /\ m = 1
    BY <2>1
  <2>2. CASE j = 1 /\ m \in 2 .. n - 1
    BY <1>1, <1>6, <1>8, <2>2 DEF IsInjective
  <2>3. CASE m = 1 /\ j \in 2 .. n - 1
    BY <1>1, <1>6, <1>8, <2>3 DEF IsInjective
  <2>4. CASE m \in 2 .. n - 1 /\ j \in 2 .. n - 1
    BY <1>1, <1>6, <1>8, <2>4 DEF IsInjective
  <2> QED
    BY <1>7, <2>1, <2>2, <2>3, <2>4
<1>10. ToSet(b) = ToSet(a) \ {a[1]}
  <2>1. ToSet(b) = {b[j] : j \in 1 .. n - 1} /\ ToSet(a) = {a[j] : j \in 1 .. n}
    BY <1>1, <1>5 DEF ToSet
  <2>2. ASSUME NEW j \in 1 .. n - 1 PROVE b[j] \in {a[m] : m \in 1 .. n} \ {a[1]}
    <3>1. CASE j = 1
      <4>1. a[n] # a[1]
        BY <1>1 DEF IsInjective
      <4> QED
        BY <1>1, <1>6, <3>1, <4>1
    <3>2. CASE j \in 2 .. n - 1
      <4>1. a[j] # a[1]
        BY <1>1, <1>8, <3>2 DEF IsInjective
      <4> QED
        BY <1>6, <1>8, <3>2, <4>1
    <3> QED
      BY <1>7, <3>1, <3>2
  <2>3. ASSUME NEW m \in 1 .. n, a[m] # a[1] PROVE \E j \in 1 .. n - 1 : a[m] = b[j]
    <3>1. CASE m = n
      <4>1. 1 \in 1 .. n - 1
        BY <1>1
      <4> QED
        BY <1>6, <3>1, <4>1
    <3>2. CASE m # n
      <4>1. m \in 2 .. n - 1 /\ m \in 1 .. n - 1
        BY <1>1, <2>3, <3>2
      <4> QED
        BY <1>6, <4>1
    <3> QED
      BY <3>1, <3>2
  <2> QED
    BY <2>1, <2>2, <2>3
<1> QED
  BY <1>5, <1>6, <1>9, <1>10 DEF b, s, n

\* An item on top of a heap that may not belong there sinks to its place.
Sunk(max, b) == FoldLeft(LAMBDA h, r : SiftDown(max, h), [a |-> b, i |-> 1], Steps(b)).a

LEMMA SunkFacts ==
    ASSUME NEW X, Weighed(X), NEW max, NEW b \in Seq(X), IsInjective(b), b # <<>>,
           \A j \in 2 .. Len(b) : j \div 2 # 1 => ~ Before(max, b[j], b[j \div 2])
    PROVE  Holding(max, Sunk(max, b), X, ToSet(b)) /\ Len(Sunk(max, b)) = Len(b)
<1> DEFINE n == Len(b)
           c == [max |-> max, X |-> X, n |-> n, S |-> ToSet(b)]
           base == [a |-> b, i |-> 1]
           h == Downs!Fold(c, base, Steps(b))
           s == Sunk(max, b)
<1>1. n \in Nat /\ n # 0 /\ DOMAIN Steps(b) = 1 .. n
  BY DEF Steps
<1>2. s = h.a
  BY DEF Sunk, DownOp, Downs!Fold, Downs!FoldLeft, FoldLeft,
         MapThenFoldSet, Downs!MapThenFoldSet, Max, Downs!Max
<1>3. /\ c.max = max /\ c.X = X /\ c.n = n /\ c.S = ToSet(b)
      /\ base.a = b /\ base.i = 1 /\ base = [a |-> base.a, i |-> base.i]
  OBVIOUS
<1> HIDE DEF c, base
<1>4. DownInv(c, 0, base)
  <2>1. Bounded(base, c)
    BY <1>1, <1>3 DEF Bounded
  <2> QED
    BY <1>3, <2>1 DEF DownInv
<1> HIDE DEF n, h, s
<1>5. \A f : \A k \in 0 .. n - 1 :
         DownInv(c, k, f) => DownInv(c, k + 1, DownOp(c, f, Steps(b)[k + 1]))
  BY <1>3, DownStep
<1>6. DownInv(c, n, h)
  <2> HIDE DEF DownInv
  <2> QED
    BY <1>1, <1>4, <1>5, Downs!FoldInv DEF h
<1>7. /\ h.a \in Seq(X) /\ Len(h.a) = n /\ IsInjective(h.a) /\ ToSet(h.a) = ToSet(b)
      /\ h.i \in 1 .. n
      /\ \A j \in 2 .. n : j \div 2 # h.i => ~ Before(max, h.a[j], h.a[j \div 2])
      /\ Topmost(max, h.a, h.i) = h.i
  BY <1>1, <1>3, <1>6 DEF DownInv, Bounded
<1>8. \A j \in 2 .. n : j \div 2 = h.i => ~ Before(max, h.a[j], h.a[h.i])
  <2>1. h.i \in 1 .. Len(h.a)
    BY <1>7
  <2> QED
    BY <1>7, <2>1, TopmostFacts
<1>9. IsHeap(max, h.a)
  BY <1>7, <1>8 DEF IsHeap
<1>10. Holding(max, s, X, ToSet(b)) /\ Len(s) = n
  BY <1>2, <1>7, <1>9 DEF Holding
<1> QED
  BY <1>10 DEF s, n

\* heap_pop removes the top, which goes before whatever is left, and keeps the
\* order.
LEMMA PopFacts ==
    ASSUME NEW X, Weighed(X), NEW max, NEW a, NEW S, Holding(max, a, X, S), a # <<>>
    PROVE  /\ a[1] \in S /\ Len(a) \in Nat /\ Len(a) >= 1
           /\ \A x \in S : ~ Before(max, x, a[1])
           /\ Holding(max, HeapPop(max, a), X, S \ {a[1]})
           /\ Len(HeapPop(max, a)) = Len(a) - 1
<1> DEFINE n == Len(a) - 1
           b == Front(<<a[Len(a)]>> \o Tail(a))
<1>0. Len(a) \in Nat /\ DOMAIN a = 1 .. Len(a)
  BY DEF Holding
<1>1. /\ a \in Seq(X) /\ IsInjective(a) /\ ToSet(a) = S /\ IsHeap(max, a)
      /\ Len(a) \in Nat /\ n \in Nat /\ Len(a) = n + 1 /\ DOMAIN a = 1 .. n + 1
  BY DEF Holding
<1>2. a[1] \in S /\ \A x \in S : ~ Before(max, x, a[1])
  <2>1. S = {a[j] : j \in 1 .. Len(a)} /\ 1 \in 1 .. Len(a)
    BY <1>1 DEF ToSet
  <2> QED
    BY <1>1, <2>1, TopIsFirst
<1>3. CASE n = 0
  <2>1. HeapPop(max, a) = <<>>
    BY <1>1, <1>3 DEF HeapPop
  <2>2. S = {a[1]}
    <3>1. Len(a) = 1 /\ DOMAIN a = 1 .. Len(a)
      BY ONLY <1>0, <1>3
    <3>2. DOMAIN a = {1}
      BY ONLY <3>1
    <3> QED
      BY <1>1, <3>2 DEF ToSet
  <2>3. Holding(max, <<>>, X, {})
    BY DEF Holding, IsInjective, ToSet, IsHeap
  <2>4. S \ {a[1]} = {} /\ Len(HeapPop(max, a)) = 0 /\ Len(a) = 1
    <3>1. Len(<<>>) = 0
      OBVIOUS
    <3>2. Len(a) = 1
      BY ONLY <1>0, <1>3
    <3> QED
      BY <2>1, <2>2, <3>1, <3>2
  <2>5. Holding(max, HeapPop(max, a), X, S \ {a[1]})
    BY <2>1, <2>3, <2>4
  <2> QED
    BY <1>2, <2>4, <2>5
<1>4. CASE n # 0
  <2>1. /\ b \in Seq(X) /\ Len(b) = n /\ IsInjective(b) /\ ToSet(b) = S \ {a[1]}
        /\ \A j \in 2 .. n : b[j] = a[j]
    <3>1. Len(a) >= 2 /\ Len(a) - 1 = n
      BY <1>1, <1>4
    <3> QED
      BY <1>1, <3>1, LastFacts
  <2> DEFINE s == Sunk(max, b)
  <2>2. HeapPop(max, a) = s
    BY <1>1, <1>4 DEF HeapPop, Sunk
  <2> HIDE DEF n, b
  <2>3. \A j \in 2 .. Len(b) : j \div 2 # 1 => ~ Before(max, b[j], b[j \div 2])
    <3> SUFFICES ASSUME NEW j \in 2 .. n, j \div 2 # 1 PROVE ~ Before(max, b[j], b[j \div 2])
      BY <2>1
    <3>1. j \in 2 .. Len(a) /\ j \div 2 \in 2 .. n
      BY <1>1, Halves
    <3>2. ~ Before(max, a[j], a[j \div 2])
      BY <1>1, <3>1 DEF IsHeap
    <3> QED
      BY <2>1, <3>1, <3>2
  <2>4. b # <<>>
    BY <1>4, <2>1
  <2>5. Holding(max, s, X, ToSet(b)) /\ Len(s) = Len(b)
    BY ONLY Weighed(X), <2>1, <2>3, <2>4, SunkFacts
  <2> HIDE DEF s
  <2>6. Holding(max, HeapPop(max, a), X, S \ {a[1]}) /\ Len(HeapPop(max, a)) = n
    BY <2>1, <2>2, <2>5
  <2>7. Len(a) \in Nat /\ Len(a) >= 1 /\ n = Len(a) - 1
    BY <1>1 DEF n
  <2> QED
    BY <1>2, <2>6, <2>7
<1> QED
  BY <1>3, <1>4

-----------------------------------------------------------------------------
(***************************************************************************)
(* A heap cut to k items holds the k nearest of the items offered to it.   *)
(***************************************************************************)
AtMost(n, k) == IF n < k THEN n ELSE k

BestOf(a, X, S, k) ==
    /\ Holding(TRUE, a, X, ToSet(a)) /\ ToSet(a) \subseteq S
    /\ Len(a) = AtMost(Cardinality(S), k)
    /\ Cardinality(S) <= k => ToSet(a) = S
    /\ \A s \in S \ ToSet(a) : \A r \in ToSet(a) : r.dist <= s.dist

\* The heap b has the items of a and x; or the items of a with x in place of the
\* farthest of them.
Joins(b, a, x, X) == Holding(TRUE, b, X, ToSet(a) \cup {x}) /\ Len(b) = Len(a) + 1

Ousts(b, a, x, X) ==
    \E t \in ToSet(a) \cup {x} :
       /\ \A r \in ToSet(a) \cup {x} : ~ Before(TRUE, r, t)
       /\ Holding(TRUE, b, X, (ToSet(a) \cup {x}) \ {t}) /\ Len(b) = Len(a)

\* One more item offered to the heap a of the best of S leaves the heap b of the
\* best of S and the item, if b holds the item while there is room, and if it
\* beats the worst all but the worst of the items.
LEMMA BestKept ==
    ASSUME NEW X, Weighed(X), NEW S, S \subseteq X, IsFiniteSet(S), NEW k \in Nat, k >= 1,
           NEW a, BestOf(a, X, S, k), NEW x \in X, x \notin S, NEW b,
           Len(a) < k => Joins(b, a, x, X),
           Len(a) = k /\ x.dist < a[1].dist => Ousts(b, a, x, X),
           Len(a) = k /\ ~ (x.dist < a[1].dist) => b = a
    PROVE  BestOf(b, X, S \cup {x}, k)
<1> DEFINE R == ToSet(a)
           T == S \cup {x}
<1>1. Cardinality(T) = Cardinality(S) + 1 /\ Cardinality(S) \in Nat
  BY FS_AddElement, FS_CardinalityType
<1>2. /\ Holding(TRUE, a, X, R) /\ R \subseteq S /\ Len(a) = AtMost(Cardinality(S), k)
      /\ Cardinality(S) <= k => R = S
      /\ \A s \in S \ R : \A r \in R : r.dist <= s.dist
  BY DEF BestOf
<1>3. x \notin R
  BY <1>2
<1>4. \A y \in T : y.dist \in Int
  BY DEF Weighed
<1>5. a \in Seq(X) /\ Len(a) \in Nat /\ ToSet(a) = R
  BY <1>2 DEF Holding
<1> HIDE DEF R, T
<1>6. CASE Len(a) < k
  <2>1. Holding(TRUE, b, X, R \cup {x}) /\ Len(b) = Len(a) + 1
    BY <1>6 DEF R, Joins
  <2>2. R = S /\ Cardinality(S) < k /\ Len(a) = Cardinality(S)
    BY <1>1, <1>2, <1>6 DEF AtMost
  <2>3. ToSet(b) = T /\ Len(b) = AtMost(Cardinality(T), k)
    BY <1>1, <2>1, <2>2 DEF Holding, T, AtMost
  <2>4. Holding(TRUE, b, X, ToSet(b))
    BY <2>1 DEF Holding
  <2> QED
    BY <2>3, <2>4 DEF BestOf, T
<1>7. CASE ~ (Len(a) < k)
  <2>1. Len(a) = k /\ Cardinality(S) >= k
    BY <1>1, <1>2, <1>7 DEF AtMost
  <2>2. a # <<>> /\ a[1] \in R /\ \A r \in R : ~ Before(TRUE, r, a[1])
    <3>1. a # <<>>
      BY <2>1
    <3> QED
      BY <1>2, <3>1, PopFacts
  <2>3. AtMost(Cardinality(T), k) = k /\ ~ (Cardinality(T) <= k)
    BY <1>1, <2>1 DEF AtMost
  <2>4. R \subseteq T /\ S \subseteq T /\ T = S \cup {x} /\ x \in T
    BY <1>2 DEF T
  <2>5. CASE x.dist < a[1].dist
    <3>1. PICK t \in R \cup {x} :
             /\ \A r \in R \cup {x} : ~ Before(TRUE, r, t)
             /\ Holding(TRUE, b, X, (R \cup {x}) \ {t}) /\ Len(b) = k
      BY <2>1, <2>5 DEF R, Ousts
    <3>2. /\ ToSet(b) = (R \cup {x}) \ {t} /\ Holding(TRUE, b, X, ToSet(b)) /\ Len(b) = k
          /\ ToSet(b) \subseteq T
      <4>1. Holding(TRUE, b, X, ToSet(b)) /\ ToSet(b) = (R \cup {x}) \ {t}
        BY ONLY <3>1, HoldingItems
      <4> QED
        BY <2>4, <3>1, <4>1
    <3>3. ASSUME NEW s \in T \ ToSet(b), NEW r \in ToSet(b) PROVE r.dist <= s.dist
      <4>1. s = t \/ s \in S \ R
        BY <1>2, <2>4, <3>2
      <4>2. r \in R \/ r = x
        BY <3>2
      <4>3. r \in T /\ s \in T /\ a[1] \in T /\ x \in T /\ t \in T
        BY <2>2, <2>4, <3>1, <3>2
      <4>4. CASE s = t
        BY <1>4, <3>1, <3>2, <4>3, <4>4 DEF Before
      <4>5. CASE s \in S \ R /\ r \in R
        BY <1>2, <4>5
      <4>6. CASE s \in S \ R /\ r = x
        <5>1. a[1].dist <= s.dist
          BY <1>2, <2>2, <4>6
        <5> QED
          BY <1>4, <2>5, <4>3, <4>6, <5>1
      <4> QED
        BY <4>1, <4>2, <4>4, <4>5, <4>6
    <3> QED
      BY <2>3, <2>4, <3>2, <3>3 DEF BestOf
  <2>6. CASE ~ (x.dist < a[1].dist)
    <3>1. b = a
      BY <2>1, <2>6
    <3>2. ASSUME NEW s \in T \ R, NEW r \in R PROVE r.dist <= s.dist
      <4>1. CASE s = x
        <5>1. r.dist <= a[1].dist
          BY <1>4, <2>2, <2>4 DEF Before
        <5> QED
          BY <1>4, <2>2, <2>4, <2>6, <4>1, <5>1
      <4>2. CASE s \in S \ R
        BY <1>2, <4>2
      <4> QED
        BY <2>4, <4>1, <4>2
    <3> QED
      BY <1>2, <1>5, <2>1, <2>3, <2>4, <3>1, <3>2 DEF BestOf
  <2> QED
    BY <2>5, <2>6
<1> QED
  BY <1>6, <1>7 DEF T

\* heap_push and heap_pop on the max-heap of the best.
Pushed(a, x) == HeapPush(TRUE, a, x)
Popped(a) == HeapPop(TRUE, a)

\* What is known of a heap before it is offered an item, and of what heap_push does.

LEMMA BestPushed ==
    ASSUME NEW X, Weighed(X), NEW S, S \subseteq X, IsFiniteSet(S), NEW k \in Nat, k >= 1,
           NEW a, BestOf(a, X, S, k), NEW x \in X, x \notin S
    PROVE  Len(a) \in Nat /\ Len(a) <= k /\ x \notin ToSet(a) /\ Joins(Pushed(a, x), a, x, X)
<1> DEFINE R == ToSet(a)
<1>1. Cardinality(S) \in Nat
  BY FS_CardinalityType
<1>2. /\ Holding(TRUE, a, X, R) /\ R \subseteq S /\ Len(a) = AtMost(Cardinality(S), k)
  BY DEF BestOf
<1>3. x \notin R /\ Len(a) \in Nat /\ Len(a) <= k
  BY <1>1, <1>2 DEF AtMost
<1> HIDE DEF R
<1>4. \A max : Holding(max, a, X, R) =>
         Holding(max, HeapPush(max, a, x), X, R \cup {x}) /\ Len(HeapPush(max, a, x)) = Len(a) + 1
  BY <1>3, PushFacts
<1>5. Holding(TRUE, HeapPush(TRUE, a, x), X, R \cup {x}) /\ Len(HeapPush(TRUE, a, x)) = Len(a) + 1
  BY <1>2, <1>4
<1>6. Joins(Pushed(a, x), a, x, X)
  BY <1>5 DEF R, Joins, Pushed
<1> QED
  BY <1>3, <1>6 DEF R

LEMMA OfferFacts ==
    ASSUME NEW X, Weighed(X), NEW S, S \subseteq X, IsFiniteSet(S), NEW k \in Nat, k >= 1,
           NEW a, BestOf(a, X, S, k), NEW x \in X, x \notin S
    PROVE  BestOf(Offer(a, x, k), X, S \cup {x}, k)
<1> DEFINE b == Pushed(a, x)
           o == Offer(a, x, k)
<1>1. Len(a) \in Nat /\ Len(a) <= k /\ Joins(b, a, x, X)
  BY BestPushed
<1>2. /\ Len(a) < k => o = b
      /\ Len(a) = k /\ x.dist < a[1].dist => o = Popped(b)
      /\ Len(a) = k /\ ~ (x.dist < a[1].dist) => o = a
  <2>1. o = IF Len(a) < k THEN b ELSE IF x.dist < a[1].dist THEN Popped(b) ELSE a
    BY Zenon DEF Offer, Pushed, Popped
  <2> HIDE DEF b, o
  <2> QED
    BY <1>1, <2>1
<1> HIDE DEF b, o
<1>3. Ousts(Popped(b), a, x, X)
  <2> DEFINE S2 == ToSet(a) \cup {x}
             p(max) == HeapPop(max, b)
  <2>1. Holding(TRUE, b, X, S2) /\ Len(b) = Len(a) + 1
    BY <1>1 DEF Joins
  <2>2. b # <<>>
    BY <1>1, <2>1
  <2> HIDE DEF S2
  <2>3. \A max : Holding(max, b, X, S2) =>
           /\ b[1] \in S2 /\ \A r \in S2 : ~ Before(max, r, b[1])
           /\ Holding(max, p(max), X, S2 \ {b[1]}) /\ Len(p(max)) = Len(b) - 1
    BY <2>2, PopFacts
  <2>4. /\ b[1] \in S2 /\ \A r \in S2 : ~ Before(TRUE, r, b[1])
        /\ Holding(TRUE, p(TRUE), X, S2 \ {b[1]}) /\ Len(p(TRUE)) = Len(b) - 1
    BY <2>1, <2>3
  <2>5. p(TRUE) = Popped(b)
    BY Zenon DEF Popped
  <2> HIDE DEF p
  <2>6. /\ Holding(TRUE, Popped(b), X, S2 \ {b[1]})
        /\ Len(Popped(b)) = Len(b) - 1
    BY <2>4, <2>5
  <2>7. Len(Popped(b)) = Len(a)
    BY <1>1, <2>1, <2>6
  <2> QED
    BY <2>4, <2>6, <2>7 DEF Ousts, S2
<1>4. /\ Len(a) < k => Joins(o, a, x, X)
      /\ Len(a) = k /\ x.dist < a[1].dist => Ousts(o, a, x, X)
      /\ Len(a) = k /\ ~ (x.dist < a[1].dist) => o = a
  BY <1>1, <1>2, <1>3
<1>5. BestOf(o, X, S \cup {x}, k)
  BY <1>4, BestKept
<1> QED
  BY <1>5 DEF o

-----------------------------------------------------------------------------
(***************************************************************************)
(* emit_topk.  The items leave a max-heap from the farthest on and are     *)
(* written from the back.                                                  *)
(***************************************************************************)
Ascending(s) == \A i, j \in 1 .. Len(s) : i < j => s[i].dist <= s[j].dist

EmitOp(c, e, r) == [a |-> HeapPop(TRUE, e.a), out |-> <<e.a[1]>> \o e.out]
EmitInv(c, k, e) ==
    /\ Holding(TRUE, e.a, c.X, ToSet(e.a)) /\ Len(e.a) = c.n - k
    /\ e.out \in Seq(c.X) /\ Len(e.out) = k /\ IsInjective(e.out) /\ Ascending(e.out)
    /\ ToSet(e.a) \cup ToSet(e.out) = c.S /\ ToSet(e.a) \cap ToSet(e.out) = {}
    /\ \A r \in ToSet(e.a) : \A s \in ToSet(e.out) : r.dist <= s.dist

Emits == INSTANCE FoldFacts WITH Op <- EmitOp, Inv <- EmitInv

LEMMA PrependFacts ==
    ASSUME NEW X, Weighed(X), NEW s \in Seq(X), IsInjective(s), Ascending(s), NEW x \in X,
           x \notin ToSet(s), \A y \in ToSet(s) : x.dist <= y.dist
    PROVE  LET b == <<x>> \o s IN
           /\ b \in Seq(X) /\ Len(b) = Len(s) + 1 /\ IsInjective(b) /\ Ascending(b)
           /\ ToSet(b) = ToSet(s) \cup {x}
<1> DEFINE b == <<x>> \o s
           n == Len(s)
<1>1. n \in Nat /\ DOMAIN s = 1 .. n
  OBVIOUS
<1>2. /\ b \in Seq(X) /\ Len(b) = n + 1 /\ DOMAIN b = 1 .. n + 1 /\ b[1] = x
      /\ \A j \in 2 .. n + 1 : b[j] = s[j - 1]
  OBVIOUS
<1> HIDE DEF b, n
<1>3. \A j \in 1 .. n + 1 : j = 1 \/ (j \in 2 .. n + 1 /\ j - 1 \in 1 .. n)
  BY <1>1
<1>4. \A j \in 1 .. n : s[j] \in ToSet(s)
  BY <1>1 DEF ToSet
<1>5. ASSUME NEW i \in 1 .. n + 1, NEW j \in 1 .. n + 1, i < j
      PROVE  b[i] # b[j] /\ b[i].dist <= b[j].dist
  <2>1. j \in 2 .. n + 1 /\ j - 1 \in 1 .. n /\ b[j] = s[j - 1]
    BY <1>1, <1>2, <1>3, <1>5
  <2>2. CASE i = 1
    <3>1. b[i] = x /\ b[j] \in ToSet(s)
      BY <1>2, <1>4, <2>1, <2>2
    <3> QED
      BY <3>1
  <2>3. CASE i # 1
    <3>1. i - 1 \in 1 .. n /\ b[i] = s[i - 1] /\ i - 1 < j - 1 /\ i - 1 # j - 1
      BY <1>1, <1>2, <1>3, <1>5, <2>3
    <3>2. s[i - 1] # s[j - 1]
      BY <1>1, <2>1, <3>1 DEF IsInjective
    <3>3. s[i - 1].dist <= s[j - 1].dist
      BY <2>1, <3>1 DEF Ascending, n
    <3> QED
      BY <2>1, <3>1, <3>2, <3>3
  <2> QED
    BY <2>2, <2>3
<1>6. IsInjective(b)
  <2> SUFFICES ASSUME NEW i \in 1 .. n + 1, NEW j \in 1 .. n + 1, b[i] = b[j]
               PROVE  i = j
    BY <1>2 DEF IsInjective
  <2>1. i < j \/ j < i \/ i = j
    BY <1>1
  <2> QED
    BY <1>5, <2>1
<1>7. Ascending(b)
  BY <1>2, <1>5 DEF Ascending
<1>8. ToSet(b) = ToSet(s) \cup {x}
  <2>1. ToSet(b) = {b[j] : j \in 1 .. n + 1} /\ ToSet(s) = {s[j] : j \in 1 .. n}
    BY <1>1, <1>2 DEF ToSet
  <2>2. \A j \in 1 .. n : j + 1 \in 1 .. n + 1 /\ b[j + 1] = s[j]
    BY <1>1, <1>2
  <2>3. 1 \in 1 .. n + 1
    BY <1>1
  <2> QED
    BY <1>2, <1>3, <2>1, <2>2, <2>3
<1> QED
  BY <1>2, <1>6, <1>7, <1>8 DEF b, n

LEMMA EmitStep ==
    ASSUME NEW c, Weighed(c.X), c.n \in Nat, NEW k \in 0 .. c.n - 1, NEW e, EmitInv(c, k, e),
           NEW x
    PROVE  EmitInv(c, k + 1, EmitOp(c, e, x))
<1> DEFINE a == e.a
           t == a[1]
           b == HeapPop(TRUE, a)
           out == <<t>> \o e.out
           f == [a |-> b, out |-> out]
<1>1. /\ Holding(TRUE, a, c.X, ToSet(a)) /\ Len(a) = c.n - k
      /\ e.out \in Seq(c.X) /\ Len(e.out) = k /\ IsInjective(e.out) /\ Ascending(e.out)
      /\ ToSet(a) \cup ToSet(e.out) = c.S /\ ToSet(a) \cap ToSet(e.out) = {}
      /\ \A r \in ToSet(a) : \A s \in ToSet(e.out) : r.dist <= s.dist
  BY DEF EmitInv
<1>2. EmitOp(c, e, x) = f /\ f.a = b /\ f.out = out
  BY DEF EmitOp
<1> HIDE DEF a, b, f
<1>3. a # <<>>
  BY <1>1
<1>4. /\ t \in ToSet(a) /\ \A r \in ToSet(a) : ~ Before(TRUE, r, t)
      /\ Holding(TRUE, b, c.X, ToSet(a) \ {t}) /\ Len(b) = Len(a) - 1
  BY <1>1, <1>3, PopFacts DEF b
<1>5. ToSet(a) \subseteq c.X
  BY <1>1 DEF Holding, ToSet
<1>6. /\ out \in Seq(c.X) /\ Len(out) = k + 1 /\ IsInjective(out) /\ Ascending(out)
      /\ ToSet(out) = ToSet(e.out) \cup {t}
  <2>1. t \in c.X /\ t \notin ToSet(e.out) /\ \A y \in ToSet(e.out) : t.dist <= y.dist
    BY <1>1, <1>4, <1>5
  <2>2. e.out \in Seq(c.X) /\ IsInjective(e.out) /\ Ascending(e.out) /\ Len(e.out) = k
    BY <1>1
  <2> HIDE DEF t
  <2>3. /\ out \in Seq(c.X) /\ Len(out) = Len(e.out) + 1 /\ IsInjective(out) /\ Ascending(out)
        /\ ToSet(out) = ToSet(e.out) \cup {t}
    BY ONLY <2>1, <2>2, Weighed(c.X), PrependFacts
  <2> HIDE DEF out
  <2> QED
    BY <2>2, <2>3
<1> HIDE DEF t, out
<1>7. ToSet(b) = ToSet(a) \ {t} /\ Holding(TRUE, b, c.X, ToSet(b)) /\ Len(b) = c.n - (k + 1)
  <2>1. ToSet(b) = ToSet(a) \ {t} /\ Holding(TRUE, b, c.X, ToSet(b))
    BY ONLY <1>4, HoldingItems
  <2>2. Len(b) = c.n - (k + 1)
    BY <1>1, <1>4
  <2> QED
    BY <2>1, <2>2
<1>8. /\ ToSet(b) \cup ToSet(out) = c.S /\ ToSet(b) \cap ToSet(out) = {}
  BY <1>1, <1>4, <1>6, <1>7
<1>9. ASSUME NEW r \in ToSet(b), NEW s \in ToSet(out) PROVE r.dist <= s.dist
  <2>1. r \in ToSet(a) /\ (s = t \/ s \in ToSet(e.out))
    BY <1>6, <1>7
  <2>2. CASE s = t
    BY <1>4, <1>5, <2>1, <2>2 DEF Before, Weighed
  <2> QED
    BY <1>1, <2>1, <2>2
<1> QED
  BY <1>2, <1>6, <1>7, <1>8, <1>9 DEF EmitInv

\* emit_topk hands out the items of the heap in order, the first k of them.
LEMMA EmittedFacts ==
    ASSUME NEW X, Weighed(X), NEW a, NEW S, Holding(TRUE, a, X, S)
    PROVE  \E s \in Seq(X) :
              /\ IsInjective(s) /\ ToSet(s) = S /\ Ascending(s) /\ Len(s) = Len(a)
              /\ \A k : Emitted(a, k) = SubSeq(s, 1, IF k < Len(a) THEN k ELSE Len(a))
<1> DEFINE n == Len(a)
           c == [X |-> X, n |-> n, S |-> S]
           base == [a |-> a, out |-> <<>>]
           e == Emits!Fold(c, base, Steps(a))
<1>1. a \in Seq(X) /\ n \in Nat /\ ToSet(a) = S
  BY DEF Holding
<1>2. \A k : Emitted(a, k) = SubSeq(e.out, 1, IF k < n THEN k ELSE n)
  BY DEF Emitted, EmitOp, Emits!Fold, Emits!FoldLeft, FoldLeft,
         MapThenFoldSet, Emits!MapThenFoldSet, Max, Emits!Max
<1>3. DOMAIN Steps(a) = 1 .. n
  BY <1>1 DEF Steps
<1>4. c.X = X /\ c.n = n /\ c.S = S /\ base.a = a /\ base.out = <<>>
  OBVIOUS
<1> HIDE DEF c, base, n
<1>5. EmitInv(c, 0, base)
  <2>1. <<>> \in Seq(X) /\ Len(<<>>) = 0 /\ IsInjective(<<>>) /\ ToSet(<<>>) = {} /\ Ascending(<<>>)
    BY DEF IsInjective, ToSet, Ascending
  <2>2. Holding(TRUE, a, X, ToSet(a))
    BY HoldingItems
  <2>3. /\ Holding(TRUE, base.a, c.X, ToSet(base.a))
        /\ ToSet(base.a) \cup ToSet(base.out) = c.S /\ ToSet(base.a) \cap ToSet(base.out) = {}
    BY <1>1, <1>4, <2>1, <2>2
  <2>4. Len(base.a) = c.n - 0
    BY <1>1, <1>4 DEF n
  <2>5. \A r \in ToSet(base.a) : \A s \in ToSet(base.out) : r.dist <= s.dist
    BY <1>4, <2>1
  <2>6. /\ base.out \in Seq(c.X) /\ Len(base.out) = 0 /\ IsInjective(base.out)
        /\ Ascending(base.out)
    BY <1>4, <2>1
  <2> QED
    BY <2>3, <2>4, <2>5, <2>6 DEF EmitInv
<1>6. \A f : \A k \in 0 .. n - 1 :
         EmitInv(c, k, f) => EmitInv(c, k + 1, EmitOp(c, f, Steps(a)[k + 1]))
  BY <1>1, <1>4, EmitStep
<1>7. EmitInv(c, n, e)
  <2> HIDE DEF EmitInv
  <2> QED
    BY <1>1, <1>3, <1>5, <1>6, Emits!FoldInv
<1> HIDE DEF e
<1>8. /\ e.out \in Seq(X) /\ Len(e.out) = n /\ IsInjective(e.out) /\ Ascending(e.out)
      /\ ToSet(e.a) \cup ToSet(e.out) = S /\ Holding(TRUE, e.a, X, ToSet(e.a)) /\ Len(e.a) = 0
  <2>1. /\ Holding(TRUE, e.a, c.X, ToSet(e.a)) /\ Len(e.a) = c.n - n
        /\ e.out \in Seq(c.X) /\ Len(e.out) = n /\ IsInjective(e.out) /\ Ascending(e.out)
        /\ ToSet(e.a) \cup ToSet(e.out) = c.S
    BY <1>7 DEF EmitInv
  <2>2. c.n - n = 0
    BY <1>1, <1>4
  <2> QED
    BY <1>4, <2>1, <2>2
<1>9. ToSet(e.a) = {}
  <2>1. e.a \in Seq(X)
    BY <1>8 DEF Holding
  <2>2. DOMAIN e.a = {}
    BY <1>8, <2>1
  <2> QED
    BY <2>2 DEF ToSet
<1> QED
  BY <1>2, <1>8, <1>9 DEF n

-----------------------------------------------------------------------------
(***************************************************************************)
(* One body: n is the number of slots written, at least the slots counted. *)
(***************************************************************************)
Good(d, n) == /\ IsBody(d)
              /\ n \in Nat /\ d.count <= n /\ n <= d.cap
              /\ \A s \in 0 .. n - 1 : d.slot[s] \in Slot
              /\ MapExactFor(d, n)
              /\ d.alive = Cardinality(LiveSlots(d))

LEMMA LiveFinite ==
    ASSUME NEW d, IsBody(d)
    PROVE  IsFiniteSet(LiveSlots(d)) /\ Cardinality(LiveSlots(d)) \in Nat
<1>0. d.count - 1 \in Int
  BY DEF IsBody
<1>1. IsFiniteSet(0 .. d.count - 1)
  BY <1>0, FS_Interval
<1>2. LiveSlots(d) \in SUBSET (0 .. d.count - 1)
  BY DEF LiveSlots
<1> QED
  BY <1>1, <1>2, FS_Subset, FS_CardinalityType

\* vecdb_create yields an empty body of the capacity asked for.
LEMMA FreshGood ==
    ASSUME NEW c \in Nat
    PROVE  /\ Good(Fresh(c), 0)
           /\ Fresh(c).cap = c /\ Fresh(c).count = 0 /\ Fresh(c).alive = 0
           /\ \A id \in Ids : Absent(Fresh(c), id)
<1> DEFINE d == Fresh(c)
<1>1. /\ d.cap = c /\ d.count = 0 /\ d.alive = 0
      /\ d.slot = [s \in 0 .. c - 1 |-> Garbage]
      /\ d.map = [id \in Ids |-> NoSlot]
      /\ d = [cap |-> d.cap, count |-> d.count, alive |-> d.alive,
              slot |-> d.slot, map |-> d.map]
  BY DEF Fresh
<1> HIDE DEF d
<1>2. IsBody(d)
  BY <1>1 DEF IsBody, NoSlot
<1>3. LiveSlots(d) = {} /\ Mapped(d, 0) = {}
  BY <1>1 DEF LiveSlots, Mapped
<1>4. MapExactFor(d, 0)
  BY <1>1, <1>3 DEF MapExactFor
<1>5. d.alive = Cardinality(LiveSlots(d))
  BY <1>1, <1>3, FS_EmptySet
<1> QED
  BY <1>1, <1>2, <1>4, <1>5 DEF Good, Absent, d

\* Two bodies that agree on the first n slots, the counters and the map.
LEMMA SameContent ==
    ASSUME NEW d, NEW e, NEW n, Good(d, n), IsBody(e), n <= e.cap,
           e.count = d.count, e.alive = d.alive, e.map = d.map,
           \A s \in 0 .. n - 1 : e.slot[s] = d.slot[s]
    PROVE  Good(e, n) /\ LiveSlots(e) = LiveSlots(d)
<1>1. /\ n \in Nat /\ d.count \in Nat /\ d.count <= n
  BY DEF Good, IsBody
<1>2. LiveSlots(e) = LiveSlots(d) /\ Mapped(e, n) = Mapped(d, n)
  BY <1>1 DEF LiveSlots, Mapped, IsLive
<1>3. \A s \in Mapped(d, n) : e.slot[s] = d.slot[s]
  BY DEF Mapped
<1>4. MapExactFor(e, n)
  BY <1>2, <1>3 DEF MapExactFor, Good
<1> QED
  BY <1>1, <1>2, <1>4 DEF Good

\* grow() changes the capacity and nothing a caller can see.
LEMMA GrowGood ==
    ASSUME NEW d, NEW n, Good(d, n)
    PROVE  /\ Good(Grow(d), n) /\ LiveSlots(Grow(d)) = LiveSlots(d)
           /\ Grow(d).cap = d.cap * 2 /\ Grow(d).count = d.count
           /\ Grow(d).alive = d.alive /\ Grow(d).map = d.map
           /\ \A s \in 0 .. d.cap - 1 : Grow(d).slot[s] = d.slot[s]
<1> DEFINE g == Grow(d)
<1>1. IsBody(d) /\ d.cap \in Nat /\ n \in Nat /\ n <= d.cap
  BY DEF Good, IsBody
<1>2. /\ g.cap = d.cap * 2 /\ g.count = d.count /\ g.alive = d.alive
      /\ g.map = d.map
      /\ g.slot = [s \in 0 .. d.cap * 2 - 1 |->
                      IF s < d.cap THEN d.slot[s] ELSE Garbage]
      /\ g = [cap |-> g.cap, count |-> g.count, alive |-> g.alive,
              slot |-> g.slot, map |-> g.map]
  BY DEF Grow
<1> HIDE DEF g
<1>3. IsBody(g)
  BY <1>1, <1>2 DEF IsBody
<1>4. \A s \in 0 .. d.cap - 1 : g.slot[s] = d.slot[s]
  BY <1>1, <1>2
<1>5. Good(g, n) /\ LiveSlots(g) = LiveSlots(d)
  <2>1. n <= g.cap /\ \A s \in 0 .. n - 1 : g.slot[s] = d.slot[s]
    BY <1>1, <1>2, <1>4
  <2> QED
    BY <1>2, <1>3, <2>1, SameContent
<1> QED
  BY <1>2, <1>4, <1>5 DEF g

\* Writing the next slot under an id that was absent.
LEMMA FillGood ==
    ASSUME NEW d, NEW n, Good(d, n), n < d.cap,
           NEW id \in Ids, NEW v \in Vecs, Absent(d, id)
    PROVE  LET f == Fill(d, n, id, v) IN
           /\ Good(f, n + 1) /\ LiveSlots(f) = LiveSlots(d)
           /\ f.cap = d.cap /\ f.count = d.count /\ f.alive = d.alive
           /\ f.slot[n] = [id |-> id, vec |-> v, dead |-> FALSE]
           /\ \A s \in 0 .. d.cap - 1 : s # n => f.slot[s] = d.slot[s]
           /\ \A k \in Ids : f.map[k] = IF k = id THEN n ELSE d.map[k]
<1> DEFINE f == Fill(d, n, id, v)
           w == [id |-> id, vec |-> v, dead |-> FALSE]
<1>1. /\ IsBody(d) /\ d.cap \in Nat /\ n \in Nat /\ d.count \in Nat
      /\ d.count <= n /\ n <= d.cap /\ MapExactFor(d, n)
      /\ \A s \in 0 .. n - 1 : d.slot[s] \in Slot
  BY DEF Good, IsBody
<1>2. /\ f.cap = d.cap /\ f.count = d.count /\ f.alive = d.alive
      /\ f.slot = [q \in 0 .. d.cap - 1 |-> IF q = n THEN w ELSE d.slot[q]]
      /\ f.map = [k \in Ids |-> IF k = id THEN n ELSE d.map[k]]
      /\ f = [cap |-> f.cap, count |-> f.count, alive |-> f.alive,
              slot |-> f.slot, map |-> f.map]
  BY DEF Fill
<1>3. w \in Slot /\ w.id = id /\ w.dead = FALSE
  BY DEF Slot
<1> HIDE DEF f, w
<1>4. IsBody(f)
  BY <1>1, <1>2, <1>3 DEF IsBody
<1>5. /\ f.slot[n] = w /\ n \in 0 .. d.cap - 1
      /\ \A s \in 0 .. d.cap - 1 : s # n => f.slot[s] = d.slot[s]
      /\ \A k \in Ids : f.map[k] = IF k = id THEN n ELSE d.map[k]
  BY <1>1, <1>2
<1>6. LiveSlots(f) = LiveSlots(d)
  BY <1>1, <1>2, <1>5 DEF LiveSlots, IsLive
<1>7. Mapped(f, n + 1) = Mapped(d, n) \cup {n}
  BY <1>1, <1>3, <1>5 DEF Mapped, IsLive
<1>8. \A s \in Mapped(d, n) : s # n /\ f.slot[s] = d.slot[s] /\ d.slot[s].id \in Ids
  BY <1>1, <1>5 DEF Mapped, Slot
<1>9. MapExactFor(f, n + 1)
  <2>1. ASSUME NEW k \in Ids, f.map[k] # NoSlot
        PROVE  f.map[k] \in Mapped(f, n + 1) /\ f.slot[f.map[k]].id = k
    <3>1. CASE k = id
      BY <1>3, <1>5, <1>7, <3>1
    <3>2. CASE k # id
      BY <1>1, <1>5, <1>7, <1>8, <2>1, <3>2 DEF MapExactFor
    <3> QED
      BY <3>1, <3>2
  <2>2. ASSUME NEW s \in Mapped(f, n + 1)
        PROVE  f.map[f.slot[s].id] = s
    <3>1. CASE s = n
      BY <1>3, <1>5, <3>1
    <3>2. CASE s \in Mapped(d, n)
      <4>1. d.map[d.slot[s].id] = s /\ s # NoSlot
        BY <1>1, <3>2 DEF MapExactFor, Mapped, NoSlot
      <4>2. d.slot[s].id # id
        BY <4>1 DEF Absent
      <4> QED
        BY <1>5, <1>8, <3>2, <4>1, <4>2
    <3> QED
      BY <1>7, <2>2, <3>1, <3>2
  <2> QED
    BY <2>1, <2>2 DEF MapExactFor
<1>10. Good(f, n + 1)
  <2>1. \A s \in 0 .. n : f.slot[s] \in Slot
    BY <1>1, <1>3, <1>5
  <2>2. f.alive = Cardinality(LiveSlots(f))
    BY <1>2, <1>6 DEF Good
  <2> QED
    BY <1>1, <1>2, <1>4, <1>9, <2>1, <2>2 DEF Good
<1> QED
  BY <1>2, <1>5, <1>6, <1>10 DEF f, w

\* Counting the k live slots written past the old count.
LEMMA CountGood ==
    ASSUME NEW d, NEW k \in Nat, Good(d, d.count + k),
           \A s \in d.count .. d.count + k - 1 : IsLive(d, s)
    PROVE  /\ Good(Count(d, k), d.count + k)
           /\ Count(d, k).cap = d.cap /\ Count(d, k).count = d.count + k
           /\ Count(d, k).alive = d.alive + k
           /\ Count(d, k).slot = d.slot /\ Count(d, k).map = d.map
           /\ LiveSlots(Count(d, k)) = LiveSlots(d) \cup d.count .. d.count + k - 1
<1> DEFINE c == Count(d, k)
           new == d.count .. d.count + k - 1
<1>1. /\ IsBody(d) /\ d.count \in Nat /\ d.alive \in Nat
      /\ d.alive = Cardinality(LiveSlots(d)) /\ MapExactFor(d, d.count + k)
  BY DEF Good, IsBody
<1>2. /\ c.cap = d.cap /\ c.count = d.count + k /\ c.alive = d.alive + k
      /\ c.slot = d.slot /\ c.map = d.map
      /\ c = [cap |-> c.cap, count |-> c.count, alive |-> c.alive,
              slot |-> c.slot, map |-> c.map]
  BY DEF Count
<1> HIDE DEF c
<1>3. IsBody(c)
  BY <1>1, <1>2 DEF IsBody
<1>4. LiveSlots(c) = LiveSlots(d) \cup new
  BY <1>1, <1>2 DEF LiveSlots, IsLive
<1>5. IsFiniteSet(new) /\ Cardinality(new) = k
  <2> DEFINE top == d.count + k - 1
  <2>1. top \in Int /\ d.count \in Int
    BY <1>1
  <2> HIDE DEF top
  <2>2. /\ IsFiniteSet(d.count .. top)
        /\ Cardinality(d.count .. top) =
              IF d.count > top THEN 0 ELSE top - d.count + 1
    BY <2>1, FS_Interval
  <2> QED
    BY <1>1, <2>2 DEF top
<1>6. LiveSlots(d) \cap new = {}
  BY <1>1 DEF LiveSlots
<1>7. Cardinality(LiveSlots(c)) = d.alive + k
  <2> HIDE DEF new
  <2>1. IsFiniteSet(LiveSlots(d))
    BY <1>1, LiveFinite
  <2>2. Cardinality(LiveSlots(d) \cup new) =
           Cardinality(LiveSlots(d)) + Cardinality(new) - Cardinality(LiveSlots(d) \cap new)
    BY <1>5, <2>1, FS_Union
  <2> QED
    BY <1>1, <1>4, <1>5, <1>6, <2>2, FS_EmptySet
<1>8. MapExactFor(c, d.count + k)
  BY <1>1, <1>2 DEF MapExactFor, Mapped, IsLive
<1> QED
  BY <1>2, <1>3, <1>4, <1>7, <1>8 DEF Good, c

\* vecdb_add on a body that is full or not, of an id present or not.
LEMMA AddGood ==
    ASSUME NEW d, Good(d, d.count), d.cap > 0, NEW id \in Ids, NEW v \in Vecs
    PROVE  LET a == AddTo(d, id, v) IN
           /\ Good(a, a.count) /\ a.cap >= d.cap
           /\ d.count < d.cap => a.cap = d.cap
           /\ \A s \in 0 .. d.count - 1 : a.slot[s] = d.slot[s]
           /\ ~ Absent(d, id) => a.count = d.count
           /\ Absent(d, id) =>
                /\ a.count = d.count + 1
                /\ a.slot[d.count] = [id |-> id, vec |-> v, dead |-> FALSE]
                /\ LiveSlots(a) = LiveSlots(d) \cup {d.count}
<1> DEFINE g == IF d.count = d.cap THEN Grow(d) ELSE d
           f == Fill(g, g.count, id, v)
<1>1. IsBody(d) /\ d.cap \in Nat /\ d.count \in Nat /\ d.count <= d.cap
  BY DEF Good, IsBody
<1>2. /\ Good(g, d.count) /\ LiveSlots(g) = LiveSlots(d) /\ g.map = d.map
      /\ g.count = d.count /\ d.count < g.cap /\ g.cap >= d.cap
      /\ d.count < d.cap => g.cap = d.cap
      /\ \A s \in 0 .. d.count - 1 : g.slot[s] = d.slot[s]
  <2>0. Good(d, d.count)
    OBVIOUS
  <2>1. CASE d.count = d.cap
    <3>1. g = Grow(d)
      BY <2>1
    <3> HIDE DEF g
    <3>2. /\ Good(g, d.count) /\ LiveSlots(g) = LiveSlots(d) /\ g.map = d.map
          /\ g.count = d.count /\ g.cap = d.cap * 2
          /\ \A s \in 0 .. d.cap - 1 : g.slot[s] = d.slot[s]
      BY <2>0, <3>1, GrowGood
    <3> QED
      BY <1>1, <2>1, <3>2
  <2>2. CASE d.count # d.cap
    BY <1>1, <2>0, <2>2
  <2> QED
    BY <2>1, <2>2
<1>3. Absent(g, id) <=> Absent(d, id)
  BY <1>2 DEF Absent
<1>4. AddTo(d, id, v) = IF Absent(g, id) THEN Count(f, 1) ELSE g
  BY DEF AddTo
<1> HIDE DEF g
<1>5. CASE ~ Absent(d, id)
  BY <1>2, <1>3, <1>4, <1>5
<1>6. CASE Absent(d, id)
  <2>1. /\ Good(f, d.count + 1) /\ LiveSlots(f) = LiveSlots(d)
        /\ f.cap = g.cap /\ f.count = d.count
        /\ f.slot[d.count] = [id |-> id, vec |-> v, dead |-> FALSE]
        /\ \A s \in 0 .. g.cap - 1 : s # d.count => f.slot[s] = g.slot[s]
    BY <1>2, <1>3, <1>6, FillGood
  <2> HIDE DEF f
  <2>2. IsLive(f, d.count)
    BY <2>1 DEF IsLive, Slot
  <2>3. /\ Good(Count(f, 1), d.count + 1) /\ Count(f, 1).cap = f.cap
        /\ Count(f, 1).count = d.count + 1 /\ Count(f, 1).slot = f.slot
        /\ LiveSlots(Count(f, 1)) = LiveSlots(d) \cup d.count .. d.count
    BY <1>1, <2>1, <2>2, CountGood
  <2>4. AddTo(d, id, v) = Count(f, 1)
    BY <1>3, <1>4, <1>6
  <2>5. \A s \in 0 .. d.count - 1 : f.slot[s] = d.slot[s]
    <3>1. \A s \in 0 .. d.count - 1 : s \in 0 .. g.cap - 1 /\ s # d.count
      BY <1>1, <1>2 DEF Good, IsBody
    <3> QED
      BY <1>2, <2>1, <3>1
  <2>6. d.count .. d.count = {d.count}
    BY <1>1
  <2> QED
    BY <1>2, <1>6, <2>1, <2>3, <2>4, <2>5, <2>6
<1> QED
  BY <1>5, <1>6

\* vecdb_delete of a present id buries exactly its slot.
LEMMA BuryGood ==
    ASSUME NEW d, Good(d, d.count), NEW id \in Ids, ~ Absent(d, id)
    PROVE  LET b == Bury(d, id) IN
           /\ Good(b, d.count) /\ b.cap = d.cap /\ b.count = d.count
           /\ \A s \in 0 .. d.count - 1 :
                 /\ b.slot[s].id = d.slot[s].id /\ b.slot[s].vec = d.slot[s].vec
                 /\ d.slot[s].dead => b.slot[s].dead
<1> DEFINE b == Bury(d, id)
           t == d.map[id]
           w == [id |-> d.slot[t].id, vec |-> d.slot[t].vec, dead |-> TRUE]
<1>1. /\ IsBody(d) /\ d.cap \in Nat /\ d.count \in Nat /\ d.count <= d.cap
      /\ MapExactFor(d, d.count) /\ \A s \in 0 .. d.count - 1 : d.slot[s] \in Slot
      /\ d.alive = Cardinality(LiveSlots(d)) /\ d.alive \in Nat
  BY DEF Good, IsBody
<1>2. t \in 0 .. d.count - 1 /\ t \in Mapped(d, d.count) /\ d.slot[t].id = id
  BY <1>1 DEF MapExactFor, Absent, Mapped
<1>3. w \in Slot /\ w.dead /\ w.id = d.slot[t].id /\ w.vec = d.slot[t].vec
  BY <1>1, <1>2 DEF Slot
<1>4. /\ b.cap = d.cap /\ b.count = d.count /\ b.alive = d.alive - 1
      /\ b.slot = [s \in 0 .. d.cap - 1 |-> IF s = t THEN w ELSE d.slot[s]]
      /\ b.map = [k \in Ids |-> IF k = id THEN NoSlot ELSE d.map[k]]
      /\ b = [cap |-> b.cap, count |-> b.count, alive |-> b.alive,
              slot |-> b.slot, map |-> b.map]
  BY DEF Bury
<1> HIDE DEF b, w, t
<1>5. \A s \in 0 .. d.count - 1 : b.slot[s] = IF s = t THEN w ELSE d.slot[s]
  BY <1>1, <1>4
<1>6. LiveSlots(d) = Mapped(d, d.count) /\ LiveSlots(b) = Mapped(b, d.count)
  BY <1>4 DEF LiveSlots, Mapped
<1>7. Mapped(b, d.count) = Mapped(d, d.count) \ {t}
  BY <1>3, <1>5 DEF Mapped, IsLive
<1>8. Cardinality(LiveSlots(b)) = d.alive - 1 /\ d.alive - 1 \in Nat
  <2>1. Cardinality(LiveSlots(d) \ {t}) = Cardinality(LiveSlots(d)) - 1
    <3>1. IsFiniteSet(LiveSlots(d)) /\ t \in LiveSlots(d)
      BY <1>1, <1>2, <1>6, LiveFinite
    <3> QED
      BY <3>1, FS_RemoveElement
  <2>2. Cardinality(LiveSlots(d) \ {t}) \in Nat
    BY <1>1, LiveFinite, FS_RemoveElement, FS_CardinalityType
  <2> QED
    BY <1>1, <1>6, <1>7, <2>1, <2>2
<1>9. IsBody(b)
  BY <1>1, <1>3, <1>4, <1>8 DEF IsBody, NoSlot
<1>10. MapExactFor(b, d.count)
  <2>1. ASSUME NEW k \in Ids, b.map[k] # NoSlot
        PROVE  b.map[k] \in Mapped(b, d.count) /\ b.slot[b.map[k]].id = k
    <3>1. k # id /\ b.map[k] = d.map[k]
      BY <1>4, <2>1
    <3>2. d.map[k] \in Mapped(d, d.count) /\ d.slot[d.map[k]].id = k
      BY <1>1, <2>1, <3>1 DEF MapExactFor
    <3>3. d.map[k] # t
      BY <1>2, <3>1, <3>2
    <3> QED
      BY <1>5, <1>7, <3>1, <3>2, <3>3 DEF Mapped
  <2>2. ASSUME NEW s \in Mapped(b, d.count)
        PROVE  b.map[b.slot[s].id] = s
    <3>1. s \in Mapped(d, d.count) /\ s # t /\ b.slot[s] = d.slot[s]
          /\ d.slot[s].id \in Ids
      BY <1>1, <1>5, <1>7, <2>2 DEF Mapped, Slot
    <3>2. d.map[d.slot[s].id] = s
      BY <1>1, <3>1 DEF MapExactFor
    <3>3. d.slot[s].id # id
      BY <3>1, <3>2 DEF t
    <3> QED
      BY <1>4, <3>1, <3>2, <3>3
  <2> QED
    BY <2>1, <2>2 DEF MapExactFor
<1>11. \A s \in 0 .. d.count - 1 : b.slot[s] \in Slot
  BY <1>1, <1>3, <1>5
<1>12. Good(b, d.count)
  BY <1>1, <1>4, <1>8, <1>9, <1>10, <1>11 DEF Good
<1> QED
  BY <1>3, <1>4, <1>5, <1>12 DEF b

-----------------------------------------------------------------------------
(***************************************************************************)
(* A body is seen through the items its live slots hold; bodies with the   *)
(* same items give the same answers.                                       *)
(***************************************************************************)
Stored(d) == {[id |-> d.slot[s].id, vec |-> d.slot[s].vec] : s \in LiveSlots(d)}

Held(d, none) == [id \in Ids |->
              IF \E s \in LiveSlots(d) : d.slot[s].id = id
              THEN d.slot[CHOOSE s \in LiveSlots(d) : d.slot[s].id = id].vec
              ELSE none]

\* What is held under an id is the vector of the one item of that id.
LEMMA HeldFacts ==
    ASSUME NEW d, NEW n, Good(d, n), NEW none
    PROVE  /\ \A e \in Stored(d) : Held(d, none)[e.id] = e.vec
           /\ \A k \in Ids : (\A e \in Stored(d) : e.id # k) => Held(d, none)[k] = none
           /\ Stored(d) \subseteq Items
           /\ \A s \in LiveSlots(d) : d.map[d.slot[s].id] = s
<1>0. n \in Nat /\ d.count \in Nat /\ d.count <= n /\ MapExactFor(d, n)
  BY DEF Good, IsBody
<1>1. LiveSlots(d) \subseteq Mapped(d, n)
  BY <1>0 DEF LiveSlots, Mapped
<1>2. \A s \in LiveSlots(d) : d.map[d.slot[s].id] = s
  BY <1>0, <1>1 DEF MapExactFor
<1>3. Stored(d) \subseteq Items
  BY DEF Stored, LiveSlots, IsLive, Slot, Items
<1>4. ASSUME NEW e \in Stored(d) PROVE Held(d, none)[e.id] = e.vec
  <2>1. PICK s \in LiveSlots(d) : e.id = d.slot[s].id /\ e.vec = d.slot[s].vec
    BY DEF Stored
  <2>2. \A q \in LiveSlots(d) : d.slot[q].id = e.id => q = s
    BY <1>2, <2>1
  <2>3. (CHOOSE q \in LiveSlots(d) : d.slot[q].id = e.id) = s
    BY <2>1, <2>2
  <2>4. e.id \in Ids
    BY <1>3 DEF Items
  <2> QED
    BY <2>1, <2>3, <2>4 DEF Held
<1>5. ASSUME NEW k \in Ids, \A e \in Stored(d) : e.id # k
      PROVE  Held(d, none)[k] = none
  <2>1. ASSUME NEW s \in LiveSlots(d) PROVE d.slot[s].id # k
    <3>1. [id |-> d.slot[s].id, vec |-> d.slot[s].vec] \in Stored(d)
      BY DEF Stored
    <3> QED
      BY <1>5, <3>1
  <2> QED
    BY <2>1 DEF Held
<1> QED
  BY <1>2, <1>3, <1>4, <1>5

\* Nothing is held under an id exactly when the id map does not know it.
LEMMA HeldAbsent ==
    ASSUME NEW d, Good(d, d.count), NEW k \in Ids, NEW none, none \notin Vecs
    PROVE  /\ Absent(d, k) <=> Held(d, none)[k] = none
           /\ Absent(d, k) <=> \A e \in Stored(d) : e.id # k
<1>0. MapExactFor(d, d.count) /\ LiveSlots(d) = Mapped(d, d.count)
  BY DEF Good, LiveSlots, Mapped
<1>1. CASE Absent(d, k)
  <2>1. ASSUME NEW e \in Stored(d) PROVE e.id # k
    <3>1. PICK s \in LiveSlots(d) : e.id = d.slot[s].id
      BY DEF Stored
    <3>2. d.map[d.slot[s].id] = s /\ s # NoSlot
      BY <1>0, HeldFacts DEF LiveSlots, NoSlot
    <3> QED
      BY <1>1, <3>1, <3>2 DEF Absent
  <2> QED
    BY <1>1, <2>1, HeldFacts
<1>2. CASE ~ Absent(d, k)
  <2> DEFINE s == d.map[k]
             e == [id |-> d.slot[s].id, vec |-> d.slot[s].vec]
  <2>1. s \in LiveSlots(d) /\ d.slot[s].id = k
    BY <1>0, <1>2 DEF MapExactFor, Absent
  <2>2. e \in Stored(d) /\ e.id = k
    BY <2>1 DEF Stored
  <2>3. Held(d, none)[k] = e.vec /\ e.vec \in Vecs
    BY <2>2, HeldFacts DEF Items
  <2> HIDE DEF e
  <2> QED
    BY <1>2, <2>2, <2>3
<1> QED
  BY <1>1, <1>2

LEMMA SameHeld ==
    ASSUME NEW d, NEW n, Good(d, n), NEW e, NEW k, Good(e, k), Stored(d) = Stored(e), NEW none
    PROVE  Held(d, none) = Held(e, none)
<1>1. ASSUME NEW x \in Ids PROVE Held(d, none)[x] = Held(e, none)[x]
  <2>1. CASE \E w \in Stored(d) : w.id = x
    BY <2>1, HeldFacts
  <2>2. CASE \A w \in Stored(d) : w.id # x
    BY <2>2, HeldFacts
  <2> QED
    BY <2>1, <2>2
<1> QED
  BY <1>1 DEF Held

\* Bodies with the same live slots, and the same contents in them.
LEMMA SameStored ==
    ASSUME NEW d, NEW e, LiveSlots(e) = LiveSlots(d),
           \A s \in LiveSlots(d) : e.slot[s] = d.slot[s]
    PROVE  Stored(e) = Stored(d)
BY DEF Stored

\* grow() keeps what is stored.
LEMMA GrowStored ==
    ASSUME NEW d, NEW n, Good(d, n)
    PROVE  Stored(Grow(d)) = Stored(d)
<1> DEFINE g == Grow(d)
<1>1. /\ LiveSlots(g) = LiveSlots(d) /\ d.count \in Nat /\ d.cap \in Nat
      /\ n \in Nat /\ d.count <= n /\ n <= d.cap
      /\ \A s \in 0 .. d.cap - 1 : g.slot[s] = d.slot[s]
  BY GrowGood DEF Good, IsBody
<1> HIDE DEF g
<1>2. \A s \in LiveSlots(d) : s \in 0 .. d.cap - 1
  BY <1>1 DEF LiveSlots
<1>3. Stored(g) = Stored(d)
  BY <1>1, <1>2, SameStored
<1> QED
  BY <1>3 DEF g

\* vecdb_add of an absent id adds one item; of a present id, none.
LEMMA AddStored ==
    ASSUME NEW d, Good(d, d.count), d.cap > 0, NEW id \in Ids, NEW v \in Vecs
    PROVE  LET a == AddTo(d, id, v) IN
           /\ ~ Absent(d, id) => Stored(a) = Stored(d) /\ a.alive = d.alive
           /\ Absent(d, id) =>
                /\ Stored(a) = Stored(d) \cup {[id |-> id, vec |-> v]}
                /\ a.alive = d.alive + 1
<1> DEFINE a == AddTo(d, id, v)
           e == [id |-> id, vec |-> v]
<1>0. /\ IsBody(d) /\ d.count \in Nat /\ d.cap \in Nat /\ d.alive \in Nat
      /\ d.alive = Cardinality(LiveSlots(d))
  BY DEF Good, IsBody
<1>1. CASE ~ Absent(d, id)
  <2>1. a = Grow(d) \/ a = d
    BY <1>1 DEF AddTo, Absent, Grow
  <2>2. Grow(d).alive = d.alive /\ Stored(Grow(d)) = Stored(d)
    BY GrowStored, GrowGood
  <2> HIDE DEF a
  <2>3. Stored(a) = Stored(d) /\ a.alive = d.alive
    BY <2>1, <2>2
  <2> QED
    BY <1>1, <2>3 DEF a
<1>2. CASE Absent(d, id)
  <2>1. /\ Good(a, a.count) /\ \A s \in 0 .. d.count - 1 : a.slot[s] = d.slot[s]
        /\ a.slot[d.count] = [id |-> id, vec |-> v, dead |-> FALSE]
        /\ LiveSlots(a) = LiveSlots(d) \cup {d.count}
    BY <1>2, AddGood
  <2> HIDE DEF a
  <2>2. \A s \in LiveSlots(d) : a.slot[s] = d.slot[s]
    BY <2>1 DEF LiveSlots
  <2>3. a.slot[d.count].id = id /\ a.slot[d.count].vec = v
    BY <2>1
  <2>4. Stored(a) = Stored(d) \cup {e}
    BY <2>1, <2>2, <2>3 DEF Stored
  <2>5. a.alive = d.alive + 1
    <3>1. d.count \notin LiveSlots(d)
      BY <1>0 DEF LiveSlots
    <3>2. a.alive = Cardinality(LiveSlots(d) \cup {d.count})
      BY <2>1 DEF Good
    <3> QED
      BY <1>0, <3>1, <3>2, LiveFinite, FS_AddElement
  <2> QED
    BY <1>2, <2>4, <2>5 DEF a
<1> QED
  BY <1>1, <1>2

\* vecdb_delete of a present id removes exactly its item.
LEMMA BuryStored ==
    ASSUME NEW d, Good(d, d.count), NEW id \in Ids, ~ Absent(d, id)
    PROVE  /\ Stored(Bury(d, id)) = {e \in Stored(d) : e.id # id}
           /\ Bury(d, id).alive = d.alive - 1
<1> DEFINE b == Bury(d, id)
           t == d.map[id]
           w == [id |-> d.slot[t].id, vec |-> d.slot[t].vec, dead |-> TRUE]
<1>1. /\ IsBody(d) /\ d.cap \in Nat /\ d.count \in Nat /\ d.count <= d.cap
      /\ MapExactFor(d, d.count) /\ LiveSlots(d) = Mapped(d, d.count)
  BY DEF Good, IsBody, LiveSlots, Mapped
<1>2. t \in LiveSlots(d) /\ d.slot[t].id = id
  BY <1>1 DEF MapExactFor, Absent
<1>3. \A s \in LiveSlots(d) : d.slot[s].id = id <=> s = t
  BY <1>1, <1>2 DEF MapExactFor
<1>4. /\ b.count = d.count /\ b.alive = d.alive - 1
      /\ b.slot = [s \in 0 .. d.cap - 1 |-> IF s = t THEN w ELSE d.slot[s]]
  BY DEF Bury
<1> HIDE DEF b, t
<1>5. \A s \in 0 .. d.count - 1 : b.slot[s] = IF s = t THEN w ELSE d.slot[s]
  BY <1>1, <1>4
<1>6. w.dead
  OBVIOUS
<1> HIDE DEF w
<1>7. LiveSlots(b) = LiveSlots(d) \ {t}
  BY <1>2, <1>4, <1>5, <1>6 DEF LiveSlots, IsLive
<1>8. \A s \in LiveSlots(b) : b.slot[s] = d.slot[s]
  BY <1>5, <1>7 DEF LiveSlots
<1>9. Stored(b) = {e \in Stored(d) : e.id # id}
  <2>1. Stored(b) = {[id |-> d.slot[s].id, vec |-> d.slot[s].vec] : s \in LiveSlots(d) \ {t}}
    BY <1>7, <1>8 DEF Stored
  <2> QED
    BY <1>2, <1>3, <2>1 DEF Stored
<1> QED
  BY <1>4, <1>9 DEF b

-----------------------------------------------------------------------------
(***************************************************************************)
(* The exact scan, one query: after the first k slots the heap holds the   *)
(* nearest of those it did not skip.                                       *)
(***************************************************************************)
\* The distances from q are numbers.
Weighs(q) == \A v \in Vecs : Metric[q][v] \in Int

Hits == [dist : Int, node : Nat]

HitOf(d, q, s) == [dist |-> Metric[q][d.slot[s].vec], node |-> s]

LookOp(c, h, s) == IF Scanned(c.d, s, c.mask) THEN Offer(h, HitOf(c.d, c.q, s), c.kk) ELSE h

HitsOf(d, q, W) == {HitOf(d, q, s) : s \in W}

Passed(c, k) == HitsOf(c.d, c.q, {r \in 0 .. k - 1 : Scanned(c.d, r, c.mask)})
LookInv(c, k, h) == BestOf(h, Hits, Passed(c, k), c.kk)

Looks == INSTANCE FoldFacts WITH Op <- LookOp, Inv <- LookInv

LEMMA HitFacts ==
    ASSUME NEW d, Good(d, d.count), NEW q, Weighs(q), NEW s \in 0 .. d.count - 1
    PROVE  HitOf(d, q, s) \in Hits /\ HitOf(d, q, s).node = s
<1>1. d.slot[s] \in Slot /\ d.count \in Nat /\ s \in Nat
  BY DEF Good, IsBody
<1>2. Metric[q][d.slot[s].vec] \in Int
  BY <1>1 DEF Slot, Weighs
<1> QED
  BY <1>1, <1>2 DEF HitOf, Hits

LEMMA HitsWeighed == Weighed(Hits)
BY DEF Weighed, Hits

\* The hits of a set of slots, each its own.
LEMMA HitsCount ==
    ASSUME NEW d, Good(d, d.count), NEW q, Weighs(q), NEW W, W \subseteq 0 .. d.count - 1
    PROVE  /\ HitsOf(d, q, W) \subseteq Hits /\ IsFiniteSet(HitsOf(d, q, W))
           /\ Cardinality(HitsOf(d, q, W)) = Cardinality(W)
<1> DEFINE P == {HitOf(d, q, s) : s \in W}
           f == [s \in W |-> HitOf(d, q, s)]
<1>1. IsFiniteSet(W)
  <2>1. 0 \in Int /\ d.count - 1 \in Int
    BY DEF Good, IsBody
  <2> QED
    BY <2>1, FS_Interval, FS_Subset
<1>2. \A s \in W : HitOf(d, q, s) \in Hits /\ HitOf(d, q, s).node = s
  BY HitFacts
<1>3. f \in Bijection(W, P)
  <2>1. f \in [W -> P] /\ \A s \in W : f[s] = HitOf(d, q, s)
    OBVIOUS
  <2>2. \A s, r \in W : f[s] = f[r] => s = r
    BY <1>2, <2>1
  <2>3. \A y \in P : \E s \in W : f[s] = y
    BY <2>1
  <2> HIDE DEF f, P
  <2> QED
    BY <2>1, <2>2, <2>3 DEF Bijection, Injection, Surjection, IsInjective
<1>4. IsFiniteSet(P) /\ Cardinality(P) = Cardinality(W)
  BY <1>1, <1>3, FS_Bijection DEF ExistsBijection
<1> QED
  BY <1>2, <1>4 DEF HitsOf

\* The heap after the scan.
LEMMA LooksFacts ==
    ASSUME NEW d, Good(d, d.count), NEW q, Weighs(q), NEW kk \in Nat, kk >= 1, NEW mask
    PROVE  LET P == HitsOf(d, q, {r \in 0 .. d.count - 1 : Scanned(d, r, mask)})
               c == [d |-> d, q |-> q, kk |-> kk, mask |-> mask]
           IN  BestOf(Looks!Fold(c, <<>>, [s \in 1 .. d.count |-> s - 1]), Hits, P, kk)
<1> DEFINE c == [d |-> d, q |-> q, kk |-> kk, mask |-> mask]
           n == d.count
           seq == [s \in 1 .. n |-> s - 1]
           In(k) == {r \in 0 .. k - 1 : Scanned(d, r, mask)}
<1>1. n \in Nat
  BY DEF Good, IsBody
<1>2. c.d = d /\ c.q = q /\ c.kk = kk /\ c.mask = mask
  OBVIOUS
<1> HIDE DEF c, n
<1>3. \A k : Passed(c, k) = HitsOf(d, q, In(k))
  BY <1>2 DEF Passed
<1>4. LookInv(c, 0, <<>>)
  <2>1. In(0) = {}
    OBVIOUS
  <2>2. Passed(c, 0) = {}
    BY <1>3, <2>1 DEF HitsOf
  <2>3. Cardinality({}) = 0 /\ Len(<<>>) = 0 /\ ToSet(<<>>) = {} /\ AtMost(0, kk) = 0
    BY FS_EmptySet DEF ToSet, AtMost
  <2>4. Holding(TRUE, <<>>, Hits, {})
    BY DEF Holding, IsInjective, ToSet, IsHeap
  <2>5. BestOf(<<>>, Hits, {}, kk)
    BY <2>3, <2>4 DEF BestOf
  <2> QED
    BY <1>2, <2>2, <2>5 DEF LookInv
<1>5. ASSUME NEW h, NEW k \in 0 .. n - 1, LookInv(c, k, h)
      PROVE  LookInv(c, k + 1, LookOp(c, h, seq[k + 1]))
  <2>1. seq[k + 1] = k /\ k \in 0 .. d.count - 1 /\ k \in Nat
    BY <1>1 DEF n
  <2>2. BestOf(h, Hits, Passed(c, k), kk)
    BY <1>2, <1>5 DEF LookInv
  <2> DEFINE x == HitOf(d, q, k)
  <2>3. x \in Hits /\ x.node = k
    BY <2>1, HitFacts
  <2>4. CASE Scanned(d, k, mask)
    <3>1. LookOp(c, h, seq[k + 1]) = Offer(h, x, kk)
      BY <1>2, <2>1, <2>4 DEF LookOp
    <3>2. In(k + 1) = In(k) \cup {k}
      BY <2>1, <2>4
    <3>3. In(k) \subseteq 0 .. d.count - 1
      BY <1>1, <2>1 DEF n
    <3>4. Passed(c, k + 1) = Passed(c, k) \cup {x}
      <4> HIDE DEF In
      <4> QED
        BY <1>3, <3>2 DEF HitsOf
    <3>5. Passed(c, k) \subseteq Hits /\ IsFiniteSet(Passed(c, k))
      <4> HIDE DEF In
      <4> QED
        BY <1>3, <3>3, HitsCount
    <3>6. x \notin Passed(c, k)
      <4>1. \A s \in In(k) : HitOf(d, q, s).node = s /\ s # k
        BY <2>1, <3>3, HitFacts
      <4> HIDE DEF In
      <4> QED
        BY <1>3, <2>3, <4>1 DEF HitsOf
    <3> HIDE DEF x
    <3>7. BestOf(Offer(h, x, kk), Hits, Passed(c, k) \cup {x}, kk)
      BY <2>2, <2>3, <3>5, <3>6, HitsWeighed, OfferFacts
    <3> QED
      BY <1>2, <3>1, <3>4, <3>7 DEF LookInv
  <2>5. CASE ~ Scanned(d, k, mask)
    <3>1. LookOp(c, h, seq[k + 1]) = h
      BY <1>2, <2>1, <2>5 DEF LookOp
    <3>2. In(k + 1) = In(k)
      BY <2>1, <2>5
    <3>3. Passed(c, k + 1) = Passed(c, k)
      BY <1>3, <3>2
    <3> QED
      BY <1>2, <2>2, <3>1, <3>3 DEF LookInv
  <2> QED
    BY <2>4, <2>5
<1>6. DOMAIN seq = 1 .. n
  OBVIOUS
<1> HIDE DEF seq
<1>7. LookInv(c, n, Looks!Fold(c, <<>>, seq))
  <2>1. \A h : \A k \in 0 .. n - 1 : LookInv(c, k, h) => LookInv(c, k + 1, LookOp(c, h, seq[k + 1]))
    BY <1>5
  <2> QED
    BY <1>1, <1>4, <1>6, <2>1, Looks!FoldInv
<1> QED
  BY <1>2, <1>3, <1>7 DEF LookInv, n, seq, c

\* The slots of the items taken from a heap, each once.
LEMMA NodesCount ==
    ASSUME NEW hits \in Seq(Hits), IsInjective(hits),
           \A x, y \in ToSet(hits) : x.node = y.node => x = y
    PROVE  Cardinality({hits[j].node : j \in 1 .. Len(hits)}) = Len(hits)
<1> DEFINE n == Len(hits)
           In == {hits[j].node : j \in 1 .. n}
           f == [j \in 1 .. n |-> hits[j].node]
<1>1. n \in Nat /\ DOMAIN hits = 1 .. n /\ \A j \in 1 .. n : hits[j] \in ToSet(hits)
  BY DEF ToSet
<1>2. \A j, m \in 1 .. n : hits[j].node = hits[m].node => j = m
  BY <1>1 DEF IsInjective
<1>3. /\ f \in [1 .. n -> In] /\ \A j \in 1 .. n : f[j] = hits[j].node
      /\ \A y \in In : \E j \in 1 .. n : f[j] = y
  OBVIOUS
<1> HIDE DEF f, In, n
<1>4. ExistsBijection(1 .. n, In)
  <2>1. \A j, m \in 1 .. n : f[j] = f[m] => j = m
    BY <1>2, <1>3
  <2>2. f \in Bijection(1 .. n, In)
    BY <1>3, <2>1 DEF Bijection, Injection, Surjection, IsInjective
  <2> QED
    BY <2>2 DEF ExistsBijection
<1> QED
  BY <1>1, <1>4, FS_CountingElements DEF In, n

\* The scan returns the k nearest of the slots the mask lets through.
LEMMA ScanFacts ==
    ASSUME NEW d, Good(d, d.count), NEW W, W \subseteq LiveSlots(d),
           NEW mask, \A s \in LiveSlots(d) : mask[s] <=> s \in W,
           NEW q, Weighs(q), NEW k \in Nat, k >= 1
    PROVE  IsTopK(d, q, k, W, FlatScan(d, q, k, mask))
<1> DEFINE kk == IF k > d.alive THEN d.alive ELSE k
           R == {r \in 0 .. d.count - 1 : Scanned(d, r, mask)}
           P == HitsOf(d, q, W)
           w == Cardinality(W)
<1>1. /\ IsBody(d) /\ d.count \in Nat /\ d.alive \in Nat
      /\ \A s \in 0 .. d.count - 1 : d.slot[s] \in Slot
      /\ d.alive = Cardinality(LiveSlots(d)) /\ IsFiniteSet(LiveSlots(d))
  BY LiveFinite DEF Good, IsBody
<1>2. W \subseteq 0 .. d.count - 1 /\ IsFiniteSet(W) /\ w \in Nat /\ w <= d.alive
  BY <1>1, FS_Subset, FS_CardinalityType DEF LiveSlots
<1>3. R = W
  <2>1. \A r \in 0 .. d.count - 1 : Scanned(d, r, mask) <=> r \in LiveSlots(d) /\ mask[r]
    BY <1>1 DEF Scanned, LiveSlots, IsLive
  <2> QED
    BY <1>2, <2>1
<1>4. CASE d.alive = 0
  <2>1. FlatScan(d, q, k, mask) = <<>>
    BY <1>4 DEF FlatScan
  <2>2. W = {} /\ w = 0
    BY <1>1, <1>2, <1>4, FS_EmptySet
  <2>3. Len(<<>>) = 0
    OBVIOUS
  <2>4. IsTopK(d, q, k, W, <<>>)
    BY <2>2, <2>3, FS_EmptySet DEF IsTopK
  <2> QED
    BY <2>1, <2>4
<1>5. CASE d.alive # 0
  <2> DEFINE h == Looks!Fold([d |-> d, q |-> q, kk |-> kk, mask |-> mask], <<>>,
                             [s \in 1 .. d.count |-> s - 1])
  <2>1. FlatScan(d, q, k, mask) = Emitted(h, kk)
    BY <1>5 DEF FlatScan, LookOp, HitOf, Looks!Fold, Looks!FoldLeft, FoldLeft,
                MapThenFoldSet, Looks!MapThenFoldSet, Max, Looks!Max
  <2>2. kk \in Nat /\ kk >= 1 /\ w <= d.alive
    BY <1>1, <1>2, <1>5
  <2>3. BestOf(h, Hits, P, kk)
    <3>1. LET Q == HitsOf(d, q, R)
              c == [d |-> d, q |-> q, kk |-> kk, mask |-> mask]
          IN  BestOf(Looks!Fold(c, <<>>, [s \in 1 .. d.count |-> s - 1]), Hits, Q, kk)
      <4> HIDE DEF kk
      <4> QED BY ONLY Good(d, d.count), Weighs(q), <2>2, LooksFacts
    <3> QED
      BY <1>3, <3>1
  <2> HIDE DEF h, kk
  <2>4. P \subseteq Hits /\ IsFiniteSet(P) /\ Cardinality(P) = w
    BY <1>2, HitsCount
  <2>5. \A s \in W : HitOf(d, q, s).node = s /\ HitOf(d, q, s).dist = Metric[q][d.slot[s].vec]
    BY DEF HitOf
  <2> HIDE DEF P, w
  <2>6. /\ Holding(TRUE, h, Hits, ToSet(h)) /\ ToSet(h) \subseteq P
        /\ Len(h) = AtMost(w, kk)
        /\ \A s \in P \ ToSet(h) : \A r \in ToSet(h) : r.dist <= s.dist
    BY <2>3, <2>4 DEF BestOf
  <2>7. PICK s \in Seq(Hits) :
              /\ IsInjective(s) /\ ToSet(s) = ToSet(h) /\ Ascending(s) /\ Len(s) = Len(h)
              /\ \A m : Emitted(h, m) = SubSeq(s, 1, IF m < Len(h) THEN m ELSE Len(h))
    <3>1. Weighed(Hits) /\ Holding(TRUE, h, Hits, ToSet(h))
      BY <2>6, HitsWeighed
    <3> QED BY ONLY <3>1, EmittedFacts
  <2>8. Len(h) = IF w < k THEN w ELSE k
    BY <1>2, <2>2, <2>6 DEF AtMost, kk
  <2>9. Len(h) <= kk /\ Len(h) \in Nat
    BY <1>2, <2>2, <2>6 DEF AtMost
  <2>10. Emitted(h, kk) = s
    BY <2>2, <2>7, <2>9
  <2> DEFINE In == {s[j].node : j \in 1 .. Len(s)}
  <2>11. \A j \in 1 .. Len(s) : s[j] \in ToSet(s)
    BY <2>7 DEF ToSet
  <2>12. \A x \in ToSet(s) : \E r \in W : x = HitOf(d, q, r)
    BY <2>6, <2>7 DEF P, HitsOf
  <2>13. \A x \in ToSet(s) : x.node \in W /\ x = HitOf(d, q, x.node)
    BY <2>5, <2>12
  <2>14. In \subseteq W
    BY <2>11, <2>13
  <2>15. Cardinality(In) = Len(s)
    <3>1. \A x, y \in ToSet(s) : x.node = y.node => x = y
      BY <2>13
    <3> QED BY ONLY s \in Seq(Hits), <2>7, <3>1, NodesCount
  <2>16. \A j \in 1 .. Len(s) : s[j].dist = Metric[q][d.slot[s[j].node].vec]
    BY <2>5, <2>11, <2>13
  <2>17. \A j \in 2 .. Len(s) : s[j - 1].dist <= s[j].dist
    BY <2>7, <2>9 DEF Ascending
  <2>18. \A r \in W \ In, t \in In : Metric[q][d.slot[r].vec] >= Metric[q][d.slot[t].vec]
    <3> SUFFICES ASSUME NEW r \in W \ In, NEW t \in In
                 PROVE  Metric[q][d.slot[r].vec] >= Metric[q][d.slot[t].vec]
      OBVIOUS
    <3>1. HitOf(d, q, t) \in ToSet(h)
      BY <2>7, <2>11, <2>13
    <3>2. HitOf(d, q, r) \in P \ ToSet(h)
      <4>1. HitOf(d, q, r) \in P /\ HitOf(d, q, r).node = r
        BY <2>5 DEF P, HitsOf
      <4>2. \A x \in ToSet(s) : \E j \in 1 .. Len(s) : x = s[j]
        BY <2>7 DEF ToSet
      <4> QED
        BY <2>7, <4>1, <4>2
    <3>3. HitOf(d, q, t).dist <= HitOf(d, q, r).dist
      BY <2>6, <3>1, <3>2
    <3>4. HitOf(d, q, t).dist = Metric[q][d.slot[t].vec] /\ HitOf(d, q, r).dist = Metric[q][d.slot[r].vec]
      BY DEF HitOf
    <3>5. Metric[q][d.slot[t].vec] \in Int /\ Metric[q][d.slot[r].vec] \in Int
      BY <2>4, <2>6, <3>1, <3>2, <3>4 DEF Hits
    <3> QED
      BY <3>3, <3>4, <3>5
  <2>19. IsTopK(d, q, k, W, s)
    BY <2>7, <2>8, <2>14, <2>15, <2>16, <2>17, <2>18 DEF IsTopK, w
  <2> QED
    BY <2>1, <2>10, <2>19
<1> QED
  BY <1>4, <1>5

\* A mask made before a delete still stands for the same live vectors after it.
LEMMA MaskWanted ==
    ASSUME NEW d, Good(d, d.count), NEW e, Good(e, e.count), e.count = d.count,
           \A s \in LiveSlots(e) : s \in LiveSlots(d) /\ e.slot[s].id = d.slot[s].id,
           NEW S \in SUBSET Ids, NEW mode \in {"allow", "deny"}
    PROVE  \A s \in LiveSlots(e) : MakeMask(d, S, mode)[s] <=> s \in Wanted(e, S, mode)
<1> SUFFICES ASSUME NEW s \in LiveSlots(e)
             PROVE  MakeMask(d, S, mode)[s] <=> s \in Wanted(e, S, mode)
  OBVIOUS
<1>1. s \in LiveSlots(d) /\ e.slot[s].id = d.slot[s].id
  OBVIOUS
<1>2. s \in 0 .. d.count - 1 /\ s \in Mapped(d, d.count) /\ d.slot[s].id \in Ids
  BY <1>1 DEF LiveSlots, Mapped, IsLive, Slot
<1>3. (\E id \in S : d.map[id] = s) <=> d.slot[s].id \in S
  <2>1. d.map[d.slot[s].id] = s
    BY <1>2 DEF Good, MapExactFor
  <2>2. ASSUME NEW id \in Ids, d.map[id] = s PROVE d.slot[s].id = id
    <3>1. s # NoSlot
      BY <1>2 DEF NoSlot
    <3> QED
      BY <2>2, <3>1 DEF Good, MapExactFor
  <2> QED
    BY <2>1, <2>2
<1>4. MakeMask(d, S, mode)[s] = IF d.slot[s].id \in S THEN mode = "allow" ELSE mode = "deny"
  BY <1>2, <1>3 DEF MakeMask
<1>5. s \in Wanted(e, S, mode) <=> (d.slot[s].id \in S <=> mode = "allow")
  BY <1>1 DEF Wanted
<1>0. mode = "deny" <=> mode # "allow"
  OBVIOUS
<1>6. CASE d.slot[s].id \in S
  BY <1>0, <1>4, <1>5, <1>6
<1>7. CASE d.slot[s].id \notin S
  BY <1>0, <1>4, <1>5, <1>7
<1> QED
  BY <1>6, <1>7
=============================================================================
