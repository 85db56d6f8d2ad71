----------------------------- MODULE FoldFacts -----------------------------
(***************************************************************************)
(* Induction over the loops of the models.  A loop of the code is FoldLeft *)
(* of its body over the sequence it goes through; this module proves, for  *)
(* any body Op and any invariant Inv of it, that the invariant holds when  *)
(* the loop ends.  A module that reasons about a loop INSTANCEs this one   *)
(* with the body and the invariant as operators of its own; c is what the  *)
(* body reads and does not change.                                         *)
(***************************************************************************)
EXTENDS SequencesExt, WellFoundedInduction, TLAPS

CONSTANTS
    Op(_, _, _),    \* Op(c, s, x): one turn of the loop, with element x
    Inv(_, _, _)    \* Inv(c, k, s): s may be the accumulator after k turns

Fold(c, base, seq) == FoldLeft(LAMBDA s, x : Op(c, s, x), base, seq)

-----------------------------------------------------------------------------
\* A non-empty set of natural numbers has a least element.
LEMMA LeastElement ==
    ASSUME NEW S \in SUBSET Nat, S # {}
    PROVE  \E x \in S : \A y \in S : x <= y
<1> DEFINE R == OpToRel(<, Nat)
<1>1. IsWellFoundedOn(R, Nat)
  BY NatLessThanWellFounded
<1>2. \E x \in S : \A y \in S : ~ (<<y, x>> \in R)
  <2> HIDE DEF R
  <2> QED BY <1>1, WFMin
<1>3. \A x, y \in S : y < x => <<y, x>> \in R
  BY DEF OpToRel
<1> HIDE DEF R
<1>4. \A x, y \in S : x <= y \/ y < x
  OBVIOUS
<1> QED
  BY <1>2, <1>3, <1>4

\* Induction over the natural numbers, for the members of a set.
LEMMA SetInduction ==
    ASSUME NEW S, 0 \in S, \A n \in Nat : n \in S => n + 1 \in S
    PROVE  Nat \subseteq S
<1> SUFFICES ASSUME ~ (Nat \subseteq S) PROVE FALSE
  OBVIOUS
<1>1. Nat \ S \in SUBSET Nat /\ Nat \ S # {}
  OBVIOUS
<1>2. PICK x \in Nat \ S : \A y \in Nat \ S : x <= y
  BY <1>1, LeastElement
<1>3. x # 0 /\ x - 1 \in Nat /\ ~ (x <= x - 1) /\ (x - 1) + 1 = x
  BY <1>2
<1> QED
  BY <1>2, <1>3

-----------------------------------------------------------------------------
\* The function a fold is defined by: the result for every set of indices,
\* the greatest of them taken last.

Iter(c, base, seq, S, it) ==
    it = [T \in SUBSET S |-> IF T = {} THEN base
                             ELSE Op(c, it[T \ {Max(T)}], seq[Max(T)])]

\* FoldLeft is the value of that function at the indices of the sequence.
LEMMA FoldIter ==
    ASSUME NEW c, NEW base, NEW seq
    PROVE  Fold(c, base, seq) =
              (CHOOSE it : Iter(c, base, seq, DOMAIN seq, it))[DOMAIN seq]
BY DEF Fold, FoldLeft, MapThenFoldSet, Iter

LEMMA MaxIs ==
    ASSUME NEW n \in Nat, NEW T \in SUBSET (1 .. n + 1), n + 1 \in T
    PROVE  Max(T) = n + 1 /\ T \ {Max(T)} \in SUBSET (1 .. n)
<1>1. \A x \in T : n + 1 >= x
  OBVIOUS
<1>2. \A x \in T : (\A y \in T : x >= y) => x = n + 1
  OBVIOUS
<1>3. Max(T) = n + 1
  BY <1>1, <1>2 DEF Max
<1> QED
  BY <1>3

\* The recursion is well founded, so the function exists.
LEMMA IterExists ==
    ASSUME NEW c, NEW base, NEW seq, NEW n \in Nat
    PROVE  \E it : Iter(c, base, seq, 1 .. n, it)
<1> DEFINE S == {k \in Nat : \E it : Iter(c, base, seq, 1 .. k, it)}
<1>1. 0 \in S
  <2> DEFINE it == [T \in SUBSET (1 .. 0) |-> base]
  <2>1. 1 .. 0 = {}
    OBVIOUS
  <2>2. it = [T \in SUBSET (1 .. 0) |-> IF T = {} THEN base
                             ELSE Op(c, it[T \ {Max(T)}], seq[Max(T)])]
    BY <2>1
  <2>3. Iter(c, base, seq, 1 .. 0, it)
    BY <2>2 DEF Iter
  <2> QED
    BY <2>3
<1>2. ASSUME NEW k \in Nat, k \in S PROVE k + 1 \in S
  <2>1. PICK h : Iter(c, base, seq, 1 .. k, h)
    BY <1>2
  <2> DEFINE it == [T \in SUBSET (1 .. k + 1) |->
                       IF k + 1 \in T THEN Op(c, h[T \ {Max(T)}], seq[Max(T)])
                       ELSE h[T]]
  <2>2. ASSUME NEW T \in SUBSET (1 .. k + 1)
        PROVE  it[T] = IF T = {} THEN base ELSE Op(c, it[T \ {Max(T)}], seq[Max(T)])
    <3>1. CASE k + 1 \in T
      <4>1. T \ {Max(T)} \in SUBSET (1 .. k) /\ T # {}
        BY <3>1, MaxIs
      <4>2. k + 1 \notin T \ {Max(T)} /\ T \ {Max(T)} \in SUBSET (1 .. k + 1)
        BY <4>1
      <4>3. it[T \ {Max(T)}] = h[T \ {Max(T)}]
        BY <4>2
      <4> QED
        BY <3>1, <4>1, <4>3
    <3>2. CASE k + 1 \notin T
      <4>1. T \in SUBSET (1 .. k)
        BY <3>2
      <4>2. T \ {Max(T)} \in SUBSET (1 .. k)
        BY <4>1
      <4>3. k + 1 \notin T \ {Max(T)} /\ T \ {Max(T)} \in SUBSET (1 .. k + 1)
        BY <4>2
      <4>4. it[T \ {Max(T)}] = h[T \ {Max(T)}] /\ it[T] = h[T]
        BY <3>2, <4>3
      <4>5. h[T] = IF T = {} THEN base ELSE Op(c, h[T \ {Max(T)}], seq[Max(T)])
        BY <2>1, <4>1 DEF Iter
      <4> HIDE DEF it
      <4> QED
        BY <4>4, <4>5
    <3> QED
      BY <3>1, <3>2
  <2>3. it = [T \in SUBSET (1 .. k + 1) |-> it[T]]
    OBVIOUS
  <2> HIDE DEF it
  <2>4. Iter(c, base, seq, 1 .. k + 1, it)
    BY <2>2, <2>3 DEF Iter
  <2> QED
    BY <2>4
<1>3. Nat \subseteq S
  <2> HIDE DEF S
  <2> QED BY <1>1, <1>2, SetInduction
<1> QED
  BY <1>3

\* A fold over n elements runs through n turns, starting from base.
THEOREM FoldTrace ==
    ASSUME NEW c, NEW base, NEW seq, NEW n \in Nat, DOMAIN seq = 1 .. n
    PROVE  \E h : /\ h[0] = base
                  /\ \A k \in 0 .. n - 1 : h[k + 1] = Op(c, h[k], seq[k + 1])
                  /\ Fold(c, base, seq) = h[n]
<1> DEFINE it == CHOOSE f : Iter(c, base, seq, 1 .. n, f)
           h == [k \in 0 .. n |-> it[1 .. k]]
<1>1. Iter(c, base, seq, 1 .. n, it)
  BY IterExists
<1>2. Fold(c, base, seq) = it[1 .. n]
  BY FoldIter
<1> HIDE DEF it
<1>3. h[0] = base
  <2>1. 1 .. 0 = {} /\ {} \in SUBSET (1 .. n)
    OBVIOUS
  <2> QED
    BY <1>1, <2>1 DEF Iter
<1>4. ASSUME NEW k \in 0 .. n - 1 PROVE h[k + 1] = Op(c, h[k], seq[k + 1])
  <2> DEFINE T == 1 .. k + 1
  <2>1. k \in Nat /\ k + 1 \in T /\ T \in SUBSET (1 .. n) /\ T # {}
    <3>1. k \in Nat /\ k + 1 \in T /\ k + 1 <= n
      OBVIOUS
    <3>2. T \in SUBSET (1 .. n)
      BY <3>1
    <3> QED
      BY <3>1, <3>2
  <2>2. Max(T) = k + 1
    BY <2>1, MaxIs
  <2>3. T \ {k + 1} = 1 .. k
    BY <2>1
  <2> HIDE DEF T
  <2>4. it[T] = Op(c, it[T \ {Max(T)}], seq[Max(T)])
    BY <1>1, <2>1 DEF Iter
  <2>5. h[k + 1] = it[T] /\ h[k] = it[1 .. k]
    BY DEF T
  <2> QED
    BY <2>2, <2>3, <2>4, <2>5
<1> HIDE DEF h
<1>5. Fold(c, base, seq) = h[n]
  BY <1>2 DEF h
<1> QED
  BY <1>3, <1>4, <1>5

\* What holds before the loop and is kept by every turn holds after it.
THEOREM FoldInv ==
    ASSUME NEW c, NEW base, NEW seq, NEW n \in Nat, DOMAIN seq = 1 .. n,
           Inv(c, 0, base),
           \A s : \A k \in 0 .. n - 1 :
              Inv(c, k, s) => Inv(c, k + 1, Op(c, s, seq[k + 1]))
    PROVE  Inv(c, n, Fold(c, base, seq))
<1>1. PICK h : /\ h[0] = base
               /\ \A k \in 0 .. n - 1 : h[k + 1] = Op(c, h[k], seq[k + 1])
               /\ Fold(c, base, seq) = h[n]
  BY FoldTrace
<1> DEFINE S == {k \in Nat : k <= n => Inv(c, k, h[k])}
<1>2. 0 \in S
  BY <1>1
<1>3. ASSUME NEW k \in Nat, k \in S PROVE k + 1 \in S
  <2>1. CASE k + 1 <= n
    <3>1. k \in 0 .. n - 1 /\ k <= n
      BY <2>1
    <3>2. Inv(c, k + 1, Op(c, h[k], seq[k + 1]))
      BY <1>3, <3>1
    <3>3. h[k + 1] = Op(c, h[k], seq[k + 1])
      BY <1>1, <3>1
    <3> QED
      BY <3>2, <3>3
  <2> QED
    BY <2>1
<1>4. Nat \subseteq S
  <2> HIDE DEF S
  <2> QED BY <1>2, <1>3, SetInduction
<1> QED
  BY <1>1, <1>4

\* No turns, no change.
LEMMA FoldEmpty ==
    ASSUME NEW c, NEW base
    PROVE  Fold(c, base, <<>>) = base
<1>1. DOMAIN <<>> = 1 .. 0
  OBVIOUS
<1> QED
  BY <1>1, FoldTrace

\* A loop is its first turn and the loop over the rest.
LEMMA FoldShift ==
    ASSUME NEW c, NEW base, NEW seq, NEW rest, NEW m \in Nat, NEW n \in Nat, n = m + 1,
           DOMAIN seq = 1 .. n, DOMAIN rest = 1 .. m,
           \A k \in 0 .. m - 1 : rest[k + 1] = seq[(k + 1) + 1]
    PROVE  Fold(c, base, seq) = Fold(c, Op(c, base, seq[1]), rest)
<1>1. PICK h : /\ h[0] = base
               /\ \A k \in 0 .. n - 1 : h[k + 1] = Op(c, h[k], seq[k + 1])
               /\ Fold(c, base, seq) = h[n]
  BY FoldTrace
<1>2. PICK g : /\ g[0] = Op(c, base, seq[1])
               /\ \A k \in 0 .. m - 1 : g[k + 1] = Op(c, g[k], rest[k + 1])
               /\ Fold(c, Op(c, base, seq[1]), rest) = g[m]
  BY FoldTrace
<1> DEFINE S == {k \in Nat : k <= m => h[k + 1] = g[k]}
<1>3. 0 \in S
  <2>1. 0 \in 0 .. n - 1 /\ 0 + 1 = 1
    OBVIOUS
  <2>2. h[0 + 1] = Op(c, h[0], seq[0 + 1])
    BY <1>1, <2>1
  <2> QED
    BY <1>1, <1>2, <2>1, <2>2
<1>4. ASSUME NEW k \in Nat, k \in S PROVE k + 1 \in S
  <2>1. CASE k + 1 <= m
    <3>1. k \in 0 .. m - 1 /\ k + 1 \in 0 .. n - 1
      BY <2>1
    <3>2. h[(k + 1) + 1] = Op(c, h[k + 1], seq[(k + 1) + 1])
      BY <1>1, <3>1
    <3>3. g[k + 1] = Op(c, g[k], seq[(k + 1) + 1])
      BY <1>2, <3>1
    <3> QED
      BY <1>4, <2>1, <3>2, <3>3
  <2> QED
    BY <2>1
<1>5. Nat \subseteq S
  <2> HIDE DEF S
  <2> QED BY <1>3, <1>4, SetInduction
<1> QED
  BY <1>1, <1>2, <1>5

\* The same for a sequence taken apart.
LEMMA FoldHead ==
    ASSUME NEW c, NEW base, NEW X, NEW seq \in Seq(X), seq # <<>>
    PROVE  Fold(c, base, seq) = Fold(c, Op(c, base, Head(seq)), Tail(seq))
<1> DEFINE n == Len(seq)
           m == n - 1
           rest == Tail(seq)
<1>1. n \in Nat /\ m \in Nat /\ n = m + 1 /\ Head(seq) = seq[1]
  OBVIOUS
<1>2. DOMAIN seq = 1 .. n /\ DOMAIN rest = 1 .. m
  OBVIOUS
<1>3. \A k \in 0 .. m - 1 : rest[k + 1] = seq[(k + 1) + 1]
  OBVIOUS
<1> HIDE DEF rest, n, m
<1>4. Fold(c, base, seq) = Fold(c, Op(c, base, seq[1]), rest)
  BY ONLY <1>1, <1>2, <1>3, FoldShift
<1> QED
  BY <1>1, <1>4 DEF rest
=============================================================================
