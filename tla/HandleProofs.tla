---------------------------- MODULE HandleProofs ----------------------------
(***************************************************************************)
(* Theorems about what surrounds a handle: the file it is saved to and     *)
(* loaded from, for every number of links per node, level, id and vector   *)
(* and any history of crashes and full disks; and the Python class, for    *)
(* every batch, list, thread count and block size.                         *)
(***************************************************************************)
EXTENDS Persistence, Bindings, ScanProofs

-----------------------------------------------------------------------------
(***************************************************************************)
(* Sequences inside sequences.                                             *)
(***************************************************************************)

\* The sequence s stands in g behind position p.
Block(g, p, s) == p + Len(s) <= Len(g) /\ \A i \in 1 .. Len(s) : g[p + i] = s[i]

LEMMA FunctionIsSeq ==
    ASSUME NEW X, NEW n \in Nat, NEW f \in [1 .. n -> X]
    PROVE  f \in Seq(X) /\ Len(f) = n
OBVIOUS

LEMMA CatBlocks ==
    ASSUME NEW X, NEW s \in Seq(X), NEW t \in Seq(X)
    PROVE  /\ s \o t \in Seq(X) /\ Len(s \o t) = Len(s) + Len(t)
           /\ Block(s \o t, 0, s) /\ Block(s \o t, Len(s), t)
BY DEF Block

LEMMA BlockIn ==
    ASSUME NEW X, NEW g \in Seq(X), NEW s \in Seq(X), NEW t \in Seq(X),
           NEW p \in Nat, NEW q \in Nat, Block(g, p, s), Block(s, q, t)
    PROVE  Block(g, p + q, t)
<1>1. Len(s) \in Nat /\ Len(t) \in Nat /\ Len(g) \in Nat
  OBVIOUS
<1>2. p + q + Len(t) <= Len(g)
  BY <1>1 DEF Block
<1>3. ASSUME NEW i \in 1 .. Len(t) PROVE g[p + q + i] = t[i]
  <2>1. q + i \in 1 .. Len(s) /\ s[q + i] = t[i]
    BY <1>1 DEF Block
  <2>2. g[p + (q + i)] = s[q + i]
    BY <2>1 DEF Block
  <2>3. p + (q + i) = p + q + i
    BY <1>1
  <2> QED
    BY <2>1, <2>2, <2>3
<1> QED
  BY <1>2, <1>3 DEF Block

\* The parts of a joined sequence stand in it one behind the other, the j-th
\* behind position at[j - 1].
Laid(a, at, parts, k) ==
    /\ at \in [0 .. k -> Nat] /\ at[0] = 0 /\ at[k] = Len(a)
    /\ \A j \in 1 .. k : at[j] = at[j - 1] + Len(parts[j]) /\ Block(a, at[j - 1], parts[j])

JoinOp(c, a, p) == a \o p
JoinInv(c, k, a) == a \in Seq(c.set) /\ \E at : Laid(a, at, c.parts, k)

PartsJoin == INSTANCE FoldFacts WITH Op <- JoinOp, Inv <- JoinInv

LEMMA JoinedFacts ==
    ASSUME NEW X, NEW parts, NEW n \in Nat, DOMAIN parts = 1 .. n,
           \A j \in 1 .. n : parts[j] \in Seq(X)
    PROVE  Joined(parts) \in Seq(X) /\ \E at : Laid(Joined(parts), at, parts, n)
<1> DEFINE c == [set |-> X, parts |-> parts]
<1>1. c.set = X /\ c.parts = parts
  OBVIOUS
<1> HIDE DEF c
<1>2. JoinInv(c, 0, <<>>)
  <2>1. Laid(<<>>, [j \in 0 .. 0 |-> 0], parts, 0)
    BY DEF Laid
  <2> QED
    BY <1>1, <2>1 DEF JoinInv
<1>3. ASSUME NEW a, NEW k \in 0 .. n - 1, JoinInv(c, k, a)
      PROVE  JoinInv(c, k + 1, JoinOp(c, a, parts[k + 1]))
  <2> DEFINE p == parts[k + 1]
             b == a \o p
  <2>1. a \in Seq(X) /\ p \in Seq(X) /\ k \in Nat /\ k + 1 \in 1 .. n
    BY <1>1, <1>3 DEF JoinInv
  <2>2. PICK at : Laid(a, at, parts, k)
    BY <1>1, <1>3 DEF JoinInv
  <2> HIDE DEF p
  <2>3. /\ b \in Seq(X) /\ Len(b) = Len(a) + Len(p) /\ Len(a) \in Nat /\ Len(p) \in Nat
        /\ Block(b, 0, a) /\ Block(b, Len(a), p)
    BY <2>1, CatBlocks
  <2> DEFINE bt == [j \in 0 .. k + 1 |-> IF j <= k THEN at[j] ELSE Len(b)]
  <2> HIDE DEF b
  <2>4. bt \in [0 .. k + 1 -> Nat] /\ bt[k + 1] = Len(b) /\ \A j \in 0 .. k : bt[j] = at[j]
    BY <2>1, <2>2, <2>3 DEF Laid
  <2> HIDE DEF bt
  <2>5. ASSUME NEW j \in 1 .. k + 1
        PROVE  bt[j] = bt[j - 1] + Len(parts[j]) /\ Block(b, bt[j - 1], parts[j])
    <3>1. CASE j = k + 1
      <4>1. bt[j - 1] = Len(a) /\ parts[j] = p
        BY <2>1, <2>2, <2>4, <3>1 DEF Laid, p
      <4> QED
        BY <2>3, <2>4, <3>1, <4>1
    <3>2. CASE j # k + 1
      <4>1. j \in 1 .. k /\ j - 1 \in 0 .. k /\ j \in 0 .. k
        BY <2>1, <3>2
      <4>2. at[j] = at[j - 1] + Len(parts[j]) /\ Block(a, at[j - 1], parts[j])
            /\ at[j - 1] \in Nat /\ parts[j] \in Seq(X)
        BY <2>1, <2>2, <4>1 DEF Laid
      <4>3. Block(b, 0 + at[j - 1], parts[j])
        BY ONLY <2>1, <2>3, <4>2, BlockIn
      <4>4. 0 + at[j - 1] = at[j - 1]
        BY <4>2
      <4> QED
        BY <2>4, <4>1, <4>2, <4>3, <4>4
    <3> QED
      BY <3>1, <3>2
  <2>6. Laid(b, bt, parts, k + 1)
    BY <2>1, <2>2, <2>4, <2>5 DEF Laid
  <2> QED
    BY <1>1, <2>3, <2>6 DEF JoinInv, JoinOp, b, p
<1>4. JoinInv(c, n, PartsJoin!Fold(c, <<>>, parts))
  <2>1. \A a : \A k \in 0 .. n - 1 : JoinInv(c, k, a) => JoinInv(c, k + 1, JoinOp(c, a, parts[k + 1]))
    BY <1>3
  <2> QED
    BY <1>2, <2>1, PartsJoin!FoldInv
<1>5. PartsJoin!Fold(c, <<>>, parts) = Joined(parts)
  BY DEF Joined, JoinOp, PartsJoin!Fold, PartsJoin!FoldLeft, FoldLeft, MapThenFoldSet,
         PartsJoin!MapThenFoldSet, Max, PartsJoin!Max
<1> QED
  BY <1>1, <1>4, <1>5 DEF JoinInv

\* Every part stands behind the parts before it.
LEMMA LaidBlocks ==
    ASSUME NEW X, NEW a \in Seq(X), NEW at, NEW parts, NEW n \in Nat, Laid(a, at, parts, n),
           \A j \in 1 .. n : parts[j] \in Seq(X),
           NEW g \in Seq(X), NEW p \in Nat, Block(g, p, a)
    PROVE  \A j \in 1 .. n : /\ at[j - 1] \in Nat /\ at[j] \in Nat
                             /\ Block(g, p + at[j - 1], parts[j])
<1> SUFFICES ASSUME NEW j \in 1 .. n
             PROVE  /\ at[j - 1] \in Nat /\ at[j] \in Nat
                    /\ Block(g, p + at[j - 1], parts[j])
  OBVIOUS
<1>1. j - 1 \in 0 .. n /\ j \in 0 .. n
  OBVIOUS
<1>2. at[j - 1] \in Nat /\ at[j] \in Nat /\ Block(a, at[j - 1], parts[j]) /\ parts[j] \in Seq(X)
  BY <1>1 DEF Laid
<1>3. Block(g, p + at[j - 1], parts[j])
  BY ONLY <1>2, a \in Seq(X), g \in Seq(X), p \in Nat, Block(g, p, a), BlockIn
<1> QED
  BY <1>2, <1>3
-----------------------------------------------------------------------------
(***************************************************************************)
(* One handle.  Its lists keep to the caps, whatever links were selected   *)
(* and whatever links a full list gave up: that is what makes them fit     *)
(* what a load checks.                                                     *)
(***************************************************************************)
IsList(l, n, lev) == l \in Seq(0 .. n - 1) /\ Len(l) <= LinkCap(lev)

NodeFits(nd, n) == /\ nd \in Node /\ Len(nd.list) = nd.lvl + 1
                   /\ \A j \in 1 .. Len(nd.list) : IsList(nd.list[j], n, j - 1)

Sound(x) ==
    /\ x = [body |-> x.body, node |-> x.node, entry |-> x.entry, top |-> x.top]
    /\ Good(x.body, x.body.count) /\ x.body.cap > 0
    /\ x.node \in Seq(Node) /\ Len(x.node) = x.body.count
    /\ \A j \in 1 .. x.body.count : NodeFits(x.node[j], x.body.count)
    /\ x.entry \in -1 .. x.body.count - 1 /\ x.top \in -1 .. MaxLevel
    /\ x.entry # NoSlot => x.node[x.entry + 1].lvl = x.top

\* The constants, without the bounds of model checking.
LEMMA Params == /\ Garbage \notin Slot /\ M \in Nat /\ M >= 2 /\ MaxLevel \in Nat
                /\ InitialCap \in Nat /\ InitialCap > 0 /\ DefaultCap \in Nat /\ DefaultCap > 0
BY PersistenceAssumption

LEMMA Caps == \A l : LinkCap(l) \in Nat /\ M <= LinkCap(l)
BY Params DEF LinkCap, M0

LEMMA ListIs ==
    ASSUME NEW n \in Nat, NEW lev, NEW l \in Seq(Nat)
    PROVE  IsList(l, n, lev) <=> /\ Len(l) <= LinkCap(lev)
                                 /\ \A i \in 1 .. Len(l) : l[i] < n
<1>1. Len(l) \in Nat /\ \A i \in 1 .. Len(l) : l[i] \in Nat
  OBVIOUS
<1>2. ASSUME \A i \in 1 .. Len(l) : l[i] < n PROVE l \in Seq(0 .. n - 1)
  <2>1. \A i \in 1 .. Len(l) : l[i] \in 0 .. n - 1
    BY <1>1, <1>2
  <2>2. l \in [1 .. Len(l) -> 0 .. n - 1]
    BY <2>1
  <2> QED
    BY ONLY <1>1, <2>2, FunctionIsSeq
<1>3. ASSUME l \in Seq(0 .. n - 1) PROVE \A i \in 1 .. Len(l) : l[i] < n
  <2>1. \A i \in 1 .. Len(l) : l[i] \in 0 .. n - 1
    BY ONLY <1>3
  <2> QED
    BY <2>1
<1> QED
  BY <1>2, <1>3 DEF IsList

LEMMA FitsIsSound ==
    ASSUME NEW n \in Nat, NEW nd
    PROVE  NodeFits(nd, n) <=> NodeSound(nd, n)
<1> SUFFICES ASSUME nd \in Node, Len(nd.list) = nd.lvl + 1
             PROVE  NodeFits(nd, n) <=> NodeSound(nd, n)
  BY DEF NodeFits, NodeSound
<1>1. \A j \in 1 .. Len(nd.list) : nd.list[j] \in Seq(Nat)
  BY DEF Node
<1>2. \A j \in 1 .. Len(nd.list) :
         IsList(nd.list[j], n, j - 1) <=> /\ Len(nd.list[j]) <= LinkCap(j - 1)
                                          /\ \A i \in 1 .. Len(nd.list[j]) : nd.list[j][i] < n
  BY <1>1, ListIs
<1> QED
  BY <1>2 DEF NodeFits, NodeSound

LEMMA SoundIs == ASSUME NEW x PROVE Sound(x) <=> HandleSound(x)
<1> DEFINE n == x.body.count
<1>1. n \in Nat => ((\A j \in 1 .. n : NodeFits(x.node[j], n))
                      <=> (\A j \in 1 .. n : NodeSound(x.node[j], n)))
  BY FitsIsSound
<1>2. IsBody(x.body) => n \in Nat /\ n <= n
  BY DEF IsBody
<1> QED
  BY <1>1, <1>2 DEF Sound, HandleSound, Good

LEMMA NewSound == Sound(New) /\ New.body.count = 0
<1> DEFINE b == Fresh(InitialCap)
<1>1. /\ Good(b, 0) /\ b.count = 0 /\ b.cap = InitialCap
  BY FreshGood, Params
<1> HIDE DEF b
<1>2. /\ New = [body |-> b, node |-> <<>>, entry |-> -1, top |-> -1]
      /\ New.body = b /\ New.node = <<>> /\ New.entry = -1 /\ New.top = -1
  BY DEF New, b, NoSlot
<1> QED
  BY <1>1, <1>2, Params DEF Sound, NoSlot

\* What wiring does to nodes: their levels stay, their lists fit.
Like(base, node, n) ==
    /\ node \in Seq(Node) /\ Len(node) = n
    /\ \A j \in 1 .. n : NodeFits(node[j], n) /\ node[j].lvl = base[j].lvl

LEMMA WithListFits ==
    ASSUME NEW n \in Nat, NEW base, NEW node, Like(base, node, n),
           NEW s \in 0 .. n - 1, NEW l \in Nat, l <= base[s + 1].lvl,
           NEW list, IsList(list, n, l)
    PROVE  Like(base, WithList(node, s, l, list), n)
<1> DEFINE nd == node[s + 1]
           lists == [nd.list EXCEPT ![l + 1] = list]
           e == [lvl |-> nd.lvl, list |-> lists]
           w == WithList(node, s, l, list)
<1>1. /\ node \in Seq(Node) /\ Len(node) = n /\ s + 1 \in 1 .. n
      /\ nd \in Node /\ NodeFits(nd, n) /\ nd.lvl = base[s + 1].lvl
  BY DEF Like
<1>2. /\ nd.list \in Seq(Seq(Nat)) /\ nd.lvl \in Nat /\ nd.lvl \in 0 .. MaxLevel
      /\ Len(nd.list) = nd.lvl + 1 /\ l + 1 \in 1 .. nd.lvl + 1
      /\ \A j \in 1 .. nd.lvl + 1 : IsList(nd.list[j], n, j - 1)
  BY <1>1, Params DEF NodeFits, Node
<1>3. w = [node EXCEPT ![s + 1] = e]
  BY <1>1 DEF WithList
<1>4. list \in Seq(Nat)
  <2>1. 0 .. n - 1 \subseteq Nat
    OBVIOUS
  <2> QED
    BY <2>1 DEF IsList
<1> HIDE DEF nd, w
<1>5. lists \in Seq(Seq(Nat)) /\ Len(lists) = nd.lvl + 1
      /\ \A j \in 1 .. nd.lvl + 1 : lists[j] = IF j = l + 1 THEN list ELSE nd.list[j]
  BY <1>2, <1>4
<1> HIDE DEF lists
<1>6. \A j \in 1 .. nd.lvl + 1 : IsList(lists[j], n, j - 1)
  <2> SUFFICES ASSUME NEW j \in 1 .. nd.lvl + 1 PROVE IsList(lists[j], n, j - 1)
    OBVIOUS
  <2>1. CASE j = l + 1
    <3>1. lists[j] = list /\ j - 1 = l
      BY <1>5, <2>1
    <3> QED
      BY <3>1
  <2>2. CASE j # l + 1
    BY <1>2, <1>5, <2>2
  <2> QED
    BY <2>1, <2>2
<1>7. e \in Node /\ e.lvl = nd.lvl /\ e.list = lists
  BY <1>2, <1>5 DEF Node
<1> HIDE DEF e
<1>8. NodeFits(e, n)
  BY <1>5, <1>6, <1>7 DEF NodeFits
<1>9. /\ w \in Seq(Node) /\ Len(w) = n
      /\ \A j \in 1 .. n : w[j] = IF j = s + 1 THEN e ELSE node[j]
  BY <1>1, <1>3, <1>7
<1> QED
  BY <1>1, <1>7, <1>8, <1>9 DEF Like, w

LEMMA LinkedBackFits ==
    ASSUME NEW n \in Nat, NEW base, NEW node, Like(base, node, n),
           NEW s \in 0 .. n - 1, NEW u \in 0 .. n - 1, NEW l \in Nat, l <= base[u + 1].lvl
    PROVE  \A w \in LinkedBack(node, u, s, l) : Like(base, w, n)
<1> DEFINE long == Append(node[u + 1].list[l + 1], s)
           cap == LinkCap(l)
<1>0. u + 1 \in 1 .. n
  OBVIOUS
<1>1. /\ NodeFits(node[u + 1], n) /\ node[u + 1].lvl = base[u + 1].lvl
      /\ node[u + 1].lvl \in Nat
  <2>1. NodeFits(node[u + 1], n) /\ node[u + 1].lvl = base[u + 1].lvl
    BY <1>0 DEF Like
  <2> QED
    BY <2>1, Params DEF NodeFits, Node
<1>2. l + 1 \in 1 .. Len(node[u + 1].list) /\ (l + 1) - 1 = l
  BY <1>1 DEF NodeFits
<1>3. IsList(node[u + 1].list[l + 1], n, l)
  BY <1>1, <1>2 DEF NodeFits
<1>4. long \in Seq(0 .. n - 1) /\ cap \in Nat
  BY <1>3, Caps DEF IsList
<1> HIDE DEF long, cap
<1>5. ToSet(long) \subseteq 0 .. n - 1
  BY <1>4 DEF ToSet
<1>6. ASSUME NEW list \in Shrunk(long, l) PROVE IsList(list, n, l)
  <2>1. CASE Len(long) <= cap
    BY <1>4, <1>6, <2>1 DEF Shrunk, IsList, cap
  <2>2. CASE ~ (Len(long) <= cap)
    <3>1. list \in [1 .. cap -> ToSet(long)]
      BY <1>6, <2>2 DEF Shrunk, cap
    <3>2. list \in [1 .. cap -> 0 .. n - 1]
      BY <1>5, <3>1
    <3>3. list \in Seq(0 .. n - 1) /\ Len(list) = cap
      BY ONLY <1>4, <3>2, FunctionIsSeq
    <3> QED
      BY <1>4, <3>3 DEF IsList, cap
  <2> QED
    BY <2>1, <2>2
<1>7. SUFFICES ASSUME NEW w \in LinkedBack(node, u, s, l) PROVE Like(base, w, n)
  OBVIOUS
<1>8. PICK list \in Shrunk(long, l) : w = WithList(node, u, l, list)
  BY DEF LinkedBack, long
<1> QED
  BY <1>6, <1>8, WithListFits

BackOp(c, G, u) == UNION {LinkedBack(n, u, c.s, c.l) : n \in G}
BackInv(c, k, G) == \A w \in G : Like(c.base, w, c.n)

Backs == INSTANCE FoldFacts WITH Op <- BackOp, Inv <- BackInv

LEMMA WiredLevelFits ==
    ASSUME NEW n \in Nat, NEW base, NEW node, Like(base, node, n),
           NEW s \in 0 .. n - 1, NEW l \in Nat, l <= base[s + 1].lvl
    PROVE  \A w \in WiredLevel(node, s, l) : Like(base, w, n)
<1> DEFINE living == {u \in 0 .. n - 1 : u # s /\ node[u + 1].lvl >= l}
           F(sel) == FoldLeft(LAMBDA G, u : UNION {LinkedBack(m, u, s, l) : m \in G},
                              {WithList(node, s, l, sel)}, sel)
<1>1. Len(node) = n
  BY DEF Like
<1>2. WiredLevel(node, s, l) = UNION {F(sel) : sel \in Picks(living, M)}
  BY <1>1 DEF WiredLevel
<1>3. ASSUME NEW sel \in Picks(living, M) PROVE \A w \in F(sel) : Like(base, w, n)
  <2>1. PICK m \in 1 .. M : sel \in [1 .. m -> living]
    BY DEF Picks
  <2>2. living \subseteq 0 .. n - 1 /\ m \in Nat /\ m <= M /\ M <= LinkCap(l) /\ LinkCap(l) \in Nat /\ M \in Nat
    BY <2>1, Params, Caps
  <2>3. \A u \in living : u \in 0 .. n - 1 /\ l <= base[u + 1].lvl
    <3> SUFFICES ASSUME NEW u \in 0 .. n - 1, node[u + 1].lvl >= l PROVE l <= base[u + 1].lvl
      OBVIOUS
    <3>1. u + 1 \in 1 .. n
      OBVIOUS
    <3>2. node[u + 1].lvl = base[u + 1].lvl /\ node[u + 1].lvl \in Nat
      BY <3>1, Params DEF Like, NodeFits, Node
    <3> QED
      BY <3>2
  <2> HIDE DEF living
  <2>4. sel \in [1 .. m -> 0 .. n - 1]
    BY <2>1, <2>2
  <2>5. sel \in Seq(0 .. n - 1) /\ Len(sel) = m
    BY ONLY <2>2, <2>4, FunctionIsSeq
  <2>6. IsList(sel, n, l)
    BY <2>2, <2>5 DEF IsList
  <2> DEFINE c == [s |-> s, l |-> l, base |-> base, n |-> n]
             start == {WithList(node, s, l, sel)}
  <2>7. c.s = s /\ c.l = l /\ c.base = base /\ c.n = n
    OBVIOUS
  <2> HIDE DEF c
  <2>8. BackInv(c, 0, start)
    BY <2>6, <2>7, WithListFits DEF BackInv
  <2>9. ASSUME NEW G, NEW k \in 0 .. m - 1, BackInv(c, k, G)
        PROVE  BackInv(c, k + 1, BackOp(c, G, sel[k + 1]))
    <3>1. k + 1 \in 1 .. m
      BY <2>2
    <3>2. sel[k + 1] \in living
      BY <2>1, <3>1
    <3>3. sel[k + 1] \in 0 .. n - 1 /\ l <= base[sel[k + 1] + 1].lvl
      BY <2>3, <3>2
    <3>4. \A w \in G : Like(base, w, n)
      BY <2>7, <2>9 DEF BackInv
    <3>5. \A w \in G : \A z \in LinkedBack(w, sel[k + 1], s, l) : Like(base, z, n)
      BY <3>3, <3>4, LinkedBackFits
    <3> QED
      BY <2>7, <3>5 DEF BackInv, BackOp
  <2> HIDE DEF start
  <2>10. BackInv(c, m, Backs!Fold(c, start, sel))
    <3>1. \A G : \A k \in 0 .. m - 1 : BackInv(c, k, G) => BackInv(c, k + 1, BackOp(c, G, sel[k + 1]))
      BY <2>9
    <3>2. DOMAIN sel = 1 .. m
      BY <2>1
    <3> QED
      BY ONLY <2>2, <2>8, <3>1, <3>2, Backs!FoldInv
  <2>11. Backs!Fold(c, start, sel) = F(sel)
    BY <2>7 DEF BackOp, start, Backs!Fold, Backs!FoldLeft, FoldLeft, MapThenFoldSet,
                Backs!MapThenFoldSet, Max, Backs!Max
  <2> QED
    BY <2>7, <2>10, <2>11 DEF BackInv
<1> HIDE DEF F, living
<1> QED
  BY <1>2, <1>3

WireOp(c, G, l) == UNION {WiredLevel(n, c.s, l) : n \in G}
WireInv(c, k, G) == \A w \in G : Like(c.base, w, c.n)

Wires == INSTANCE FoldFacts WITH Op <- WireOp, Inv <- WireInv

LEMMA WiredFits ==
    ASSUME NEW n \in Nat, NEW node, Like(node, node, n),
           NEW s \in 0 .. n - 1, NEW start \in -1 .. node[s + 1].lvl
    PROVE  \A w \in Wired(node, s, start) : Like(node, w, n)
<1> DEFINE m == start + 1
           seq == [j \in 1 .. start + 1 |-> start + 1 - j]
           c == [s |-> s, base |-> node, n |-> n]
<1>1. node[s + 1].lvl \in Nat
  BY Params DEF Like, NodeFits, Node
<1>2. m \in Nat /\ DOMAIN seq = 1 .. m
      /\ \A k \in 0 .. m - 1 : seq[k + 1] \in Nat /\ seq[k + 1] <= node[s + 1].lvl
  BY <1>1
<1>3. c.s = s /\ c.base = node /\ c.n = n
  OBVIOUS
<1> HIDE DEF c, seq, m
<1>4. WireInv(c, 0, {node})
  BY <1>3 DEF WireInv
<1>5. ASSUME NEW G, NEW k \in 0 .. m - 1, WireInv(c, k, G)
      PROVE  WireInv(c, k + 1, WireOp(c, G, seq[k + 1]))
  <2>1. \A w \in G : Like(node, w, n)
    BY <1>3, <1>5 DEF WireInv
  <2>2. seq[k + 1] \in Nat /\ seq[k + 1] <= node[s + 1].lvl
    BY <1>2
  <2>3. \A w \in G : \A z \in WiredLevel(w, s, seq[k + 1]) : Like(node, z, n)
    BY <2>1, <2>2, WiredLevelFits
  <2> QED
    BY <1>3, <2>3 DEF WireInv, WireOp
<1>6. WireInv(c, m, Wires!Fold(c, {node}, seq))
  <2>1. \A G : \A k \in 0 .. m - 1 : WireInv(c, k, G) => WireInv(c, k + 1, WireOp(c, G, seq[k + 1]))
    BY <1>5
  <2> QED
    BY ONLY <1>2, <1>4, <2>1, Wires!FoldInv
<1>7. Wires!Fold(c, {node}, seq) = Wired(node, s, start)
  <2>1. Wired(node, s, start) =
          FoldLeft(LAMBDA G, l : UNION {WiredLevel(w, s, l) : w \in G}, {node}, seq)
    BY DEF Wired, seq
  <2> QED
    BY <1>3, <2>1 DEF WireOp, Wires!Fold, Wires!FoldLeft, FoldLeft, MapThenFoldSet,
                      Wires!MapThenFoldSet, Max, Wires!Max
<1> QED
  BY <1>3, <1>6, <1>7 DEF WireInv

\* The nodes of a graph and a new one, before it is wired.
LEMMA NewNodeFits ==
    ASSUME NEW n \in Nat, NEW node \in Seq(Node), Len(node) = n,
           \A j \in 1 .. n : NodeFits(node[j], n), NEW lv \in 0 .. MaxLevel
    PROVE  LET e == [lvl |-> lv, list |-> [j \in 1 .. lv + 1 |-> <<>>]]
               w == Append(node, e)
           IN  /\ Like(w, w, n + 1) /\ w[n + 1].lvl = lv
               /\ \A j \in 1 .. n : w[j] = node[j]
<1> DEFINE lists == [j \in 1 .. lv + 1 |-> <<>>]
           e == [lvl |-> lv, list |-> lists]
           w == Append(node, e)
<1>1. MaxLevel \in Nat /\ lv \in Nat /\ lv + 1 \in Nat
  BY Params
<1>2. lists \in Seq(Seq(Nat)) /\ Len(lists) = lv + 1 /\ \A j \in 1 .. lv + 1 : lists[j] = <<>>
  <2>1. lists \in [1 .. lv + 1 -> Seq(Nat)]
    OBVIOUS
  <2> QED
    BY <1>1, <2>1
<1>3. \A j : IsList(<<>>, n + 1, j)
  BY Caps DEF IsList
<1> HIDE DEF lists
<1>4. NodeFits(e, n + 1) /\ e \in Node /\ e.lvl = lv
  BY <1>1, <1>2, <1>3 DEF NodeFits, Node
<1> HIDE DEF e
<1>5. \A j \in 1 .. n : NodeFits(node[j], n + 1)
  <2> SUFFICES ASSUME NEW j \in 1 .. n PROVE NodeFits(node[j], n + 1)
    OBVIOUS
  <2>1. NodeFits(node[j], n)
    OBVIOUS
  <2>2. 0 .. n - 1 \subseteq 0 .. (n + 1) - 1
    OBVIOUS
  <2>3. \A l, lev : IsList(l, n, lev) => IsList(l, n + 1, lev)
    BY <2>2 DEF IsList
  <2> QED
    BY <2>1, <2>3 DEF NodeFits
<1>6. /\ w \in Seq(Node) /\ Len(w) = n + 1 /\ w[n + 1] = e
      /\ \A j \in 1 .. n : w[j] = node[j]
  BY <1>4
<1> HIDE DEF w
<1>7. \A j \in 1 .. n + 1 : j = n + 1 \/ j \in 1 .. n
  OBVIOUS
<1>8. Like(w, w, n + 1)
  BY <1>4, <1>5, <1>6, <1>7 DEF Like
<1> QED
  BY <1>4, <1>6, <1>8 DEF w, e, lists

\* vecdb_add of an absent id.
LEMMA AddedSound ==
    ASSUME NEW x, Sound(x), NEW id \in Ids, Absent(x.body, id),
           NEW v \in Vecs, NEW lv \in 0 .. MaxLevel, NEW y \in Added(x, id, v, lv)
    PROVE  Sound(y)
<1> DEFINE n == x.body.count
           a == AddTo(x.body, id, v)
           w == Append(x.node, [lvl |-> lv, list |-> [j \in 1 .. lv + 1 |-> <<>>]])
           start == IF lv < x.top THEN lv ELSE x.top
<1>1. /\ n \in Nat /\ x.node \in Seq(Node) /\ Len(x.node) = n
      /\ \A j \in 1 .. n : NodeFits(x.node[j], n)
      /\ x.entry \in -1 .. n - 1 /\ x.top \in -1 .. MaxLevel
      /\ x.entry # NoSlot => x.node[x.entry + 1].lvl = x.top
      /\ Good(x.body, n) /\ x.body.cap > 0 /\ x.body.cap \in Nat
  BY DEF Sound, Good, IsBody
<1>2. Good(a, a.count) /\ a.cap >= x.body.cap /\ a.count = n + 1
  BY <1>1, AddGood
<1>3. a.cap > 0
  BY <1>1, <1>2 DEF Good, IsBody
<1>4. PICK node \in Wired(w, n, start) :
        /\ y = [body |-> a, node |-> node,
                entry |-> IF lv > x.top THEN n ELSE x.entry,
                top |-> IF lv > x.top THEN lv ELSE x.top]
        /\ y.body = a /\ y.node = node
        /\ y.entry = IF lv > x.top THEN n ELSE x.entry
        /\ y.top = IF lv > x.top THEN lv ELSE x.top
  BY DEF Added
<1> HIDE DEF a
<1>5. /\ Like(w, w, n + 1) /\ w[n + 1].lvl = lv
      /\ \A j \in 1 .. n : w[j] = x.node[j]
  BY <1>1, NewNodeFits
<1>6. start \in -1 .. w[n + 1].lvl /\ n \in 0 .. (n + 1) - 1 /\ n + 1 \in Nat
  <2> HIDE DEF w
  <2>1. n \in Nat /\ x.top \in Int /\ x.top >= -1
    BY <1>1, Params
  <2>2. lv \in Nat
    BY Params
  <2>3. start \in -1 .. lv
    BY <2>1, <2>2
  <2> HIDE DEF start, n
  <2>4. w[n + 1].lvl = lv
    BY ONLY <1>5
  <2> QED
    BY ONLY <2>1, <2>2, <2>3, <2>4
<1> HIDE DEF w, start, n
<1>7. Like(w, node, n + 1)
  BY ONLY <1>4, <1>5, <1>6, WiredFits
<1>8. /\ node \in Seq(Node) /\ Len(node) = n + 1
      /\ \A j \in 1 .. n + 1 : NodeFits(node[j], n + 1) /\ node[j].lvl = w[j].lvl
  BY <1>7 DEF Like
<1>9. /\ y.entry \in -1 .. (n + 1) - 1 /\ y.top \in -1 .. MaxLevel
      /\ y.entry # NoSlot => y.node[y.entry + 1].lvl = y.top
  <2>1. CASE lv > x.top
    <3>1. y.entry = n /\ y.top = lv /\ n + 1 \in 1 .. n + 1
      BY <1>1, <1>4, <2>1
    <3> QED
      BY <1>1, <1>4, <1>5, <1>8, <3>1, Params
  <2>2. CASE ~ (lv > x.top)
    <3>1. y.entry = x.entry /\ y.top = x.top
      BY <1>4, <2>2
    <3>2. ASSUME x.entry # NoSlot PROVE node[x.entry + 1].lvl = x.top
      <4>1. x.entry + 1 \in 1 .. n /\ x.entry + 1 \in 1 .. n + 1
        BY <1>1, <3>2 DEF NoSlot
      <4> QED
        BY <1>1, <1>5, <1>8, <3>2, <4>1
    <3> QED
      BY <1>1, <1>4, <3>1, <3>2
  <2> QED
    BY <2>1, <2>2
<1> QED
  BY <1>2, <1>3, <1>4, <1>8, <1>9 DEF Sound
-----------------------------------------------------------------------------
(***************************************************************************)
(* What vecdb_save writes: where every field of an index stands.           *)
(***************************************************************************)
Headers == [version : {1, 2}, top : Int, entry : Int, count : Nat]
Word == Headers \cup Int \cup Ids \cup Vecs \cup BOOLEAN

ListImages(nd) == [j \in DOMAIN nd.list |-> ListImage(nd.list[j])]
NodeImages(x) == [j \in DOMAIN x.node |-> NodeImage(x.node[j])]

LEMMA ListImageFacts ==
    ASSUME NEW n \in Nat, NEW l, NEW lev, IsList(l, n, lev)
    PROVE  /\ ListImage(l) \in Seq(Nat) /\ Len(ListImage(l)) = Len(l) + 1 /\ Len(l) \in Nat
           /\ ListImage(l)[1] = Len(l)
           /\ \A i \in 1 .. Len(l) : ListImage(l)[1 + i] = l[i]
<1>1. l \in Seq(Nat) /\ Len(l) \in Nat
  BY DEF IsList
<1> DEFINE head == <<Len(l)>>
<1>2. head \in Seq(Nat) /\ Len(head) = 1 /\ head[1] = Len(l)
  BY <1>1
<1> HIDE DEF head
<1>3. /\ head \o l \in Seq(Nat) /\ Len(head \o l) = Len(head) + Len(l)
      /\ Block(head \o l, 0, head) /\ Block(head \o l, Len(head), l)
  BY ONLY <1>1, <1>2, CatBlocks
<1>4. ListImage(l) = head \o l
  BY DEF ListImage, head
<1> QED
  BY <1>1, <1>2, <1>3, <1>4 DEF Block

LEMMA NodeImageFacts ==
    ASSUME NEW n \in Nat, NEW nd, NodeFits(nd, n)
    PROVE  /\ NodeImage(nd) \in Seq(Nat) /\ NodeImage(nd)[1] = nd.lvl
           /\ Joined(ListImages(nd)) \in Seq(Nat)
           /\ Block(NodeImage(nd), 0, <<nd.lvl>>)
           /\ Block(NodeImage(nd), 1, Joined(ListImages(nd)))
           /\ Len(NodeImage(nd)) = 1 + Len(Joined(ListImages(nd)))
           /\ \E at : Laid(Joined(ListImages(nd)), at, ListImages(nd), nd.lvl + 1)
<1> DEFINE k == nd.lvl + 1
           parts == ListImages(nd)
           head == <<nd.lvl>>
<1>1. /\ nd.lvl \in Nat /\ k \in Nat /\ DOMAIN nd.list = 1 .. k
      /\ \A j \in 1 .. k : IsList(nd.list[j], n, j - 1)
  BY Params DEF NodeFits, Node
<1>2. head \in Seq(Nat) /\ Len(head) = 1 /\ head[1] = nd.lvl
  BY <1>1
<1>3. parts = [j \in 1 .. k |-> ListImage(nd.list[j])]
  BY <1>1 DEF ListImages
<1>4. \A j \in 1 .. k : parts[j] \in Seq(Nat)
  <2> SUFFICES ASSUME NEW j \in 1 .. k PROVE parts[j] \in Seq(Nat)
    OBVIOUS
  <2>1. parts[j] = ListImage(nd.list[j]) /\ IsList(nd.list[j], n, j - 1)
    BY <1>1, <1>3
  <2> HIDE DEF parts, k
  <2> QED
    BY <2>1, ListImageFacts
<1>5. DOMAIN parts = 1 .. k
  BY <1>3
<1> HIDE DEF parts, k
<1>6. Joined(parts) \in Seq(Nat) /\ \E at : Laid(Joined(parts), at, parts, k)
  BY ONLY <1>1, <1>4, <1>5, JoinedFacts
<1> HIDE DEF head
<1>7. /\ head \o Joined(parts) \in Seq(Nat)
      /\ Len(head \o Joined(parts)) = Len(head) + Len(Joined(parts))
      /\ Block(head \o Joined(parts), 0, head)
      /\ Block(head \o Joined(parts), Len(head), Joined(parts))
  BY ONLY <1>2, <1>6, CatBlocks
<1>8. NodeImage(nd) = head \o Joined(parts)
  BY DEF NodeImage, ListImages, head, parts
<1>9. NodeImage(nd)[1] = nd.lvl
  BY <1>2, <1>7, <1>8 DEF Block
<1> QED
  BY <1>2, <1>6, <1>7, <1>8, <1>9 DEF head, parts, k

LEMMA NodesFacts ==
    ASSUME NEW x, Sound(x)
    PROVE  /\ DOMAIN NodeImages(x) = 1 .. x.body.count
           /\ \A j \in 1 .. x.body.count : /\ NodeImages(x)[j] = NodeImage(x.node[j])
                                           /\ NodeImages(x)[j] \in Seq(Nat)
           /\ Joined(NodeImages(x)) \in Seq(Nat)
           /\ \E at : Laid(Joined(NodeImages(x)), at, NodeImages(x), x.body.count)
<1> DEFINE n == x.body.count
           parts == NodeImages(x)
<1>1. /\ n \in Nat /\ DOMAIN x.node = 1 .. n /\ \A j \in 1 .. n : NodeFits(x.node[j], n)
  BY DEF Sound, Good, IsBody
<1>2. parts = [j \in 1 .. n |-> NodeImage(x.node[j])]
  BY <1>1 DEF NodeImages
<1> HIDE DEF parts, n
<1>3. \A j \in 1 .. n : parts[j] = NodeImage(x.node[j]) /\ parts[j] \in Seq(Nat)
  BY <1>1, <1>2, NodeImageFacts
<1>4. DOMAIN parts = 1 .. n
  BY <1>2
<1>5. Joined(parts) \in Seq(Nat) /\ \E at : Laid(Joined(parts), at, parts, n)
  BY ONLY <1>1, <1>3, <1>4, JoinedFacts
<1> QED
  BY <1>3, <1>4, <1>5 DEF parts, n

Header(x, version) == [version |-> version, top |-> x.top, entry |-> x.entry,
                       count |-> x.body.count]

\* The blocks of a file.
LEMMA ImageFacts ==
    ASSUME NEW x, Sound(x), NEW version \in {1, 2}
    PROVE  LET g == Image(x, version)
               n == x.body.count
               J == Joined(NodeImages(x))
           IN  /\ g \in Seq(Word) /\ g[1] = Header(x, version) /\ n \in Nat /\ Len(J) \in Nat
               /\ Len(g) = 1 + 2 * n + Len(J) + (IF version = 1 THEN 0 ELSE n)
               /\ \A s \in 0 .. n - 1 : /\ g[2 + s] = x.body.slot[s].id
                                        /\ g[2 + n + s] = x.body.slot[s].vec
               /\ Block(g, 1 + 2 * n, J)
               /\ version = 2 => \A s \in 0 .. n - 1 :
                     g[1 + 2 * n + Len(J) + 1 + s] = x.body.slot[s].dead
<1> DEFINE n == x.body.count
           A == <<Header(x, version)>>
           B == Counted(x, "id")
           C == Counted(x, "vec")
           J == Joined(NodeImages(x))
           E == IF version = 1 THEN <<>> ELSE Counted(x, "dead")
           m == IF version = 1 THEN 0 ELSE n
<1>1. /\ n \in Nat /\ \A s \in 0 .. n - 1 : x.body.slot[s] \in Slot
      /\ x.top \in Int /\ x.entry \in Int
  BY Params DEF Sound, Good, IsBody
<1>2. A \in Seq(Word) /\ Len(A) = 1 /\ A[1] = Header(x, version)
  <2>1. Header(x, version) \in Headers
    BY <1>1 DEF Header, Headers
  <2> QED
    BY <2>1 DEF Word
<1>3. /\ B \in Seq(Word) /\ Len(B) = n
      /\ \A j \in 1 .. n : B[j] = x.body.slot[j - 1].id
  <2>1. B = [j \in 1 .. n |-> x.body.slot[j - 1].id]
    BY DEF Counted
  <2>2. \A j \in 1 .. n : x.body.slot[j - 1].id \in Word
    BY <1>1 DEF Word, Slot
  <2> HIDE DEF B, n
  <2>3. B \in [1 .. n -> Word]
    BY <2>1, <2>2
  <2>4. B \in Seq(Word) /\ Len(B) = n
    BY ONLY <1>1, <2>3, FunctionIsSeq
  <2> QED
    BY <2>1, <2>4
<1>4. /\ C \in Seq(Word) /\ Len(C) = n
      /\ \A j \in 1 .. n : C[j] = x.body.slot[j - 1].vec
  <2>1. C = [j \in 1 .. n |-> x.body.slot[j - 1].vec]
    BY DEF Counted
  <2>2. \A j \in 1 .. n : x.body.slot[j - 1].vec \in Word
    BY <1>1 DEF Word, Slot
  <2> HIDE DEF C, n
  <2>3. C \in [1 .. n -> Word]
    BY <2>1, <2>2
  <2>4. C \in Seq(Word) /\ Len(C) = n
    BY ONLY <1>1, <2>3, FunctionIsSeq
  <2> QED
    BY <2>1, <2>4
<1>5. J \in Seq(Word) /\ Len(J) \in Nat
  <2>1. J \in Seq(Nat)
    BY NodesFacts
  <2> HIDE DEF J
  <2> QED
    BY <2>1 DEF Word
<1>6. /\ E \in Seq(Word) /\ Len(E) = m
      /\ version = 2 => \A j \in 1 .. n : E[j] = x.body.slot[j - 1].dead
  <2>1. CASE version = 1
    BY <2>1
  <2>2. CASE version = 2
    <3>1. E = [j \in 1 .. n |-> x.body.slot[j - 1].dead] /\ m = n
      BY <2>2 DEF Counted
    <3>2. \A j \in 1 .. n : x.body.slot[j - 1].dead \in Word
      BY <1>1 DEF Word, Slot
    <3> HIDE DEF E, n, m
    <3>3. E \in [1 .. n -> Word]
      BY <3>1, <3>2
    <3>4. E \in Seq(Word) /\ Len(E) = n
      BY ONLY <1>1, <3>3, FunctionIsSeq
    <3> QED
      BY <3>1, <3>4
  <2> QED
    BY <2>1, <2>2
<1>7. Image(x, version) = A \o B \o C \o J \o E
  BY DEF Image, Header, NodeImages
<1>8. m \in Nat
  BY <1>1
<1> HIDE DEF A, B, C, J, E, n, m
<1> DEFINE AB == A \o B
           ABC == AB \o C
           ABCJ == ABC \o J
           g == ABCJ \o E
<1>9. AB \in Seq(Word) /\ Len(AB) = 1 + n /\ Block(AB, 0, A) /\ Block(AB, 1, B)
  <2>1. /\ AB \in Seq(Word) /\ Len(AB) = Len(A) + Len(B)
        /\ Block(AB, 0, A) /\ Block(AB, Len(A), B)
    BY ONLY <1>2, <1>3, CatBlocks
  <2> QED
    BY <1>2, <1>3, <2>1
<1> HIDE DEF AB
<1>10. ABC \in Seq(Word) /\ Len(ABC) = 1 + n + n /\ Block(ABC, 0, AB) /\ Block(ABC, 1 + n, C)
  BY <1>1, <1>4, <1>9, CatBlocks
<1> HIDE DEF ABC
<1>11. /\ ABCJ \in Seq(Word) /\ Len(ABCJ) = 1 + n + n + Len(J)
       /\ Block(ABCJ, 0, ABC) /\ Block(ABCJ, 1 + n + n, J)
  BY <1>1, <1>5, <1>10, CatBlocks
<1> HIDE DEF ABCJ
<1>12. /\ g \in Seq(Word) /\ Len(g) = 1 + n + n + Len(J) + m
       /\ Block(g, 0, ABCJ) /\ Block(g, 1 + n + n + Len(J), E)
  BY <1>1, <1>5, <1>6, <1>8, <1>11, CatBlocks
<1> HIDE DEF g
<1>21. \A i \in 1 .. 1 + n + n : g[i] = ABC[i]
  <2> SUFFICES ASSUME NEW i \in 1 .. 1 + n + n PROVE g[i] = ABC[i]
    OBVIOUS
  <2>1. i \in 1 .. Len(ABC) /\ i \in 1 .. Len(ABCJ) /\ 0 + i = i
    BY <1>1, <1>5, <1>10, <1>11
  <2>2. ABCJ[0 + i] = ABC[i]
    BY <1>11, <2>1 DEF Block
  <2>3. g[0 + i] = ABCJ[i]
    BY <1>12, <2>1 DEF Block
  <2> QED
    BY <2>1, <2>2, <2>3
<1>13. \A i \in 1 .. 1 + n : g[i] = AB[i]
  <2> SUFFICES ASSUME NEW i \in 1 .. 1 + n PROVE g[i] = AB[i]
    OBVIOUS
  <2>1. i \in 1 .. Len(AB) /\ i \in 1 .. 1 + n + n /\ 0 + i = i
    BY <1>1, <1>9
  <2>2. ABC[0 + i] = AB[i]
    BY <1>10, <2>1 DEF Block
  <2> QED
    BY <1>21, <2>1, <2>2
<1>14. \A i \in 1 .. n : g[1 + n + i] = C[i]
  <2> SUFFICES ASSUME NEW i \in 1 .. n PROVE g[1 + n + i] = C[i]
    OBVIOUS
  <2>1. i \in 1 .. Len(C) /\ 1 + n + i \in 1 .. 1 + n + n
    BY <1>1, <1>4
  <2>2. ABC[1 + n + i] = C[i]
    BY <1>10, <2>1 DEF Block
  <2> QED
    BY <1>21, <2>1, <2>2
<1>15. g[1] = Header(x, version)
  BY <1>1, <1>2, <1>9, <1>13 DEF Block
<1>16. ASSUME NEW s \in 0 .. n - 1
       PROVE  g[2 + s] = x.body.slot[s].id /\ g[2 + n + s] = x.body.slot[s].vec
  <2>1. s + 1 \in 1 .. n /\ (s + 1) - 1 = s /\ 2 + s = 1 + (s + 1) /\ 2 + n + s = 1 + n + (s + 1)
    BY <1>1
  <2>2. AB[1 + (s + 1)] = B[s + 1] /\ g[1 + (s + 1)] = AB[1 + (s + 1)]
    BY <1>1, <1>3, <1>9, <1>13, <2>1 DEF Block
  <2> QED
    BY <1>3, <1>4, <1>14, <2>1, <2>2
<1>17. Block(g, 1 + 2 * n, J)
  <2>1. Block(g, 0 + (1 + n + n), J)
    BY <1>1, <1>5, <1>11, <1>12, BlockIn
  <2>2. 0 + (1 + n + n) = 1 + 2 * n
    BY <1>1
  <2> QED
    BY <2>1, <2>2
<1>18. ASSUME version = 2, NEW s \in 0 .. n - 1
       PROVE  g[1 + 2 * n + Len(J) + 1 + s] = x.body.slot[s].dead
  <2>1. s + 1 \in 1 .. n /\ (s + 1) - 1 = s /\ m = n
        /\ 1 + 2 * n + Len(J) + 1 + s = 1 + n + n + Len(J) + (s + 1)
    BY <1>1, <1>5, <1>18 DEF m
  <2>2. g[1 + n + n + Len(J) + (s + 1)] = E[s + 1]
    BY <1>6, <1>12, <2>1 DEF Block
  <2> QED
    BY <1>6, <1>18, <2>1, <2>2
<1>19. Len(g) = 1 + 2 * n + Len(J) + m
  BY <1>1, <1>5, <1>8, <1>12
<1>20. Image(x, version) = g
  BY <1>7 DEF g, ABCJ, ABC, AB
<1> QED
  BY <1>1, <1>5, <1>12, <1>15, <1>16, <1>17, <1>18, <1>19, <1>20 DEF n, J, m
-----------------------------------------------------------------------------
(***************************************************************************)
(* What vecdb_load reads: of any prefix of such a file, the nodes it was   *)
(* written from as long as it does not fail, and it does not fail before   *)
(* the end of the prefix.                                                  *)
(***************************************************************************)
Prefix(f, g) == Len(f) <= Len(g) /\ \A i \in 1 .. Len(f) : f[i] = g[i]

IsReader(a) == a.ok \in BOOLEAN /\ a = [pos |-> a.pos, ok |-> a.ok, node |-> a.node, list |-> a.list]

LEMMA FailFacts ==
    ASSUME NEW a, IsReader(a)
    PROVE  IsReader(Fail(a)) /\ ~ Fail(a).ok
<1> DEFINE b == [pos |-> a.pos, ok |-> FALSE, node |-> a.node, list |-> a.list]
<1>1. Fail(a) = b
  <2>1. a = [pos |-> a.pos, ok |-> a.ok, node |-> a.node, list |-> a.list]
    BY DEF IsReader
  <2>2. Fail(a) = [a EXCEPT !.ok = FALSE]
    BY DEF Fail
  <2> QED
    BY <2>1, <2>2
<1> QED
  BY <1>1 DEF IsReader

LEMMA MoveFacts ==
    ASSUME NEW a, IsReader(a)
    PROVE  [a EXCEPT !.pos = @ + 1]
             = [pos |-> a.pos + 1, ok |-> a.ok, node |-> a.node, list |-> a.list]
<1>1. PICK p, o, n, l : a = [pos |-> p, ok |-> o, node |-> n, list |-> l]
  BY DEF IsReader
<1>2. a.pos = p /\ a.ok = o /\ a.node = n /\ a.list = l
  BY <1>1
<1>3. [[pos |-> p, ok |-> o, node |-> n, list |-> l] EXCEPT !.pos = @ + 1]
        = [pos |-> p + 1, ok |-> o, node |-> n, list |-> l]
  OBVIOUS
<1> QED
  BY <1>1, <1>2, <1>3

\* A block of the file behind p, seen through a prefix of it.
LEMMA BlockSeen ==
    ASSUME NEW X, NEW g \in Seq(X), NEW f \in Seq(X), Prefix(f, g),
           NEW s \in Seq(X), NEW p \in Nat, Block(g, p, s)
    PROVE  \A i \in 1 .. Len(s) : p + i <= Len(f) => f[p + i] = s[i]
<1> SUFFICES ASSUME NEW i \in 1 .. Len(s), p + i <= Len(f) PROVE f[p + i] = s[i]
  OBVIOUS
<1>1. p + i \in 1 .. Len(f) /\ g[p + i] = s[i]
  BY DEF Block
<1> QED
  BY <1>1 DEF Prefix

\* One list, of any level.
LEMMA ReadListFacts ==
    ASSUME NEW g \in Seq(Word), NEW f \in Seq(Word), Prefix(f, g),
           NEW n \in Nat, f[1].count = n,
           NEW lev \in Nat, NEW l, IsList(l, n, lev),
           NEW p \in Nat, Block(g, p, ListImage(l)),
           NEW a, IsReader(a), a.ok, a.pos = p + 1
    PROVE  LET b == ReadList(f, a, lev)
               e == p + Len(ListImage(l))
           IN  /\ IsReader(b)
               /\ b.ok => /\ b.pos = e + 1 /\ b.pos <= Len(f) + 1 /\ b.node = a.node
                          /\ b.list = Append(a.list, l)
               /\ e <= Len(f) => b.ok
<1> DEFINE im == ListImage(l)
           k == Len(l)
           fail == Fail(a)
           took == [pos |-> a.pos + k + 1, ok |-> a.ok, node |-> a.node,
                    list |-> Append(a.list, l)]
           b == ReadList(f, a, lev)
<1>1. /\ im \in Seq(Nat) /\ im \in Seq(Word) /\ Len(im) = k + 1 /\ k \in Nat /\ im[1] = k
      /\ \A i \in 1 .. k : im[1 + i] = l[i]
  <2>1. im \in Seq(Nat)
    BY ListImageFacts
  <2>2. im \in Seq(Word)
    BY <2>1 DEF Word
  <2> QED
    BY <2>1, <2>2, ListImageFacts
<1> HIDE DEF im
<1>2. l \in Seq(0 .. n - 1) /\ k <= LinkCap(lev) + 1 /\ LinkCap(lev) \in Nat
  BY <1>1, Caps DEF IsList
<1>2a. \A i \in 1 .. k : l[i] \in 0 .. n - 1
  BY ONLY <1>2, SMT DEF k
<1>3. \A i \in 1 .. k + 1 : p + i <= Len(f) => f[p + i] = im[i]
  <2>1. im \in Seq(Word) /\ Block(g, p, im)
    BY <1>1 DEF im
  <2>2. \A i \in 1 .. Len(im) : p + i <= Len(f) => f[p + i] = im[i]
    BY ONLY <2>1, g \in Seq(Word), f \in Seq(Word), Prefix(f, g), p \in Nat, BlockSeen
  <2> QED
    BY <1>1, <2>2
<1>4. Len(f) \in Nat /\ IsReader(fail) /\ ~ fail.ok
  BY FailFacts
<1> HIDE DEF fail
<1>5. CASE a.pos > Len(f)
  <2>1. b = fail
    BY <1>5 DEF ReadList, fail
  <2> QED
    BY <1>1, <1>4, <1>5, <2>1 DEF im
<1>6. CASE a.pos <= Len(f)
  <2>1. f[a.pos] = k
    BY <1>1, <1>3, <1>6
  <2>2. ~ (a.pos > Len(f)) /\ LengthAllowed(k, lev)
    BY <1>1, <1>2, <1>4, <1>6 DEF LengthAllowed
  <2>3. b = IF a.pos + k > Len(f) \/ ~ LinksInRange(f, a.pos + 1, k, n) THEN fail
            ELSE [a EXCEPT !.pos = @ + k + 1,
                           !.list = Append(@, SubSeq(f, a.pos + 1, a.pos + k))]
    BY <2>1, <2>2 DEF ReadList, fail
  <2>4. CASE a.pos + k > Len(f)
    <3>1. b = fail
      BY <2>3, <2>4
    <3> QED
      BY <1>1, <1>4, <2>4, <3>1 DEF im
  <2>5. CASE a.pos + k <= Len(f)
    <3>1. \A i \in 1 .. k : f[a.pos + i] = l[i]
      <4> SUFFICES ASSUME NEW i \in 1 .. k PROVE f[a.pos + i] = l[i]
        OBVIOUS
      <4>1. 1 + i \in 1 .. k + 1 /\ p + (1 + i) <= Len(f) /\ a.pos + i = p + (1 + i)
        BY <1>1, <1>4, <2>5
      <4>2. f[p + (1 + i)] = im[1 + i]
        BY <1>3, <4>1
      <4> QED
        BY <1>1, <4>1, <4>2
    <3>2. LinksInRange(f, a.pos + 1, k, n)
      <4> SUFFICES ASSUME NEW j \in a.pos + 1 .. a.pos + 1 + k - 1 PROVE f[j] < n
        BY DEF LinksInRange
      <4>1. j - a.pos \in 1 .. k /\ a.pos + (j - a.pos) = j
        BY <1>1
      <4>2. f[j] = l[j - a.pos]
        BY <3>1, <4>1
      <4>3. l[j - a.pos] \in 0 .. n - 1
        BY <1>2a, <4>1, Zenon
      <4> QED
        BY <4>2, <4>3
    <3>3. SubSeq(f, a.pos + 1, a.pos + k) = l
      <4>1. /\ SubSeq(f, a.pos + 1, a.pos + k) = [i \in 1 .. k |-> f[a.pos + i]]
        <5>1. SubSeq(f, a.pos + 1, a.pos + k)
                = [i \in 1 .. (1 + (a.pos + k) - (a.pos + 1)) |-> f[i + (a.pos + 1) - 1]]
          BY <1>1
        <5>2. 1 + (a.pos + k) - (a.pos + 1) = k
          BY <1>1
        <5>3. \A i \in 1 .. k : i + (a.pos + 1) - 1 = a.pos + i
          BY <1>1
        <5> QED
          BY <5>1, <5>2, <5>3
      <4>2. l = [i \in 1 .. k |-> l[i]]
        BY <1>2
      <4> QED
        BY <3>1, <4>1, <4>2
    <3>4. b = [a EXCEPT !.pos = @ + k + 1, !.list = Append(@, l)]
      <4>1. ~ (a.pos + k > Len(f))
        BY <1>1, <1>4, <2>5
      <4> QED
        BY <2>3, <3>2, <3>3, <4>1
    <3>5. a = [pos |-> a.pos, ok |-> a.ok, node |-> a.node, list |-> a.list]
      BY DEF IsReader
    <3> HIDE DEF b
    <3>6. b = took
      BY <3>4, <3>5
    <3>7. IsReader(b) /\ b.pos = a.pos + k + 1 /\ b.node = a.node /\ b.ok
          /\ b.list = Append(a.list, l)
      BY <3>6 DEF IsReader
    <3> QED
      BY <1>1, <1>4, <2>5, <3>7 DEF im, b
  <2> QED
    BY <1>1, <1>4, <2>4, <2>5
<1> QED
  BY <1>4, <1>5, <1>6
\* All lists of one node: c.start is where they begin, c.at where each ends.
ReadOp(c, a, l) == ReadList(c.f, a, l)
ReadInv(c, k, a) ==
    /\ IsReader(a)
    /\ a.ok => /\ a.pos = c.start + c.at[k] + 1 /\ a.pos <= Len(c.f) + 1
               /\ a.node = c.before /\ a.list = SubSeq(c.lists, 1, k)
    /\ c.start + c.at[k] <= Len(c.f) => a.ok

Reads == INSTANCE FoldFacts WITH Op <- ReadOp, Inv <- ReadInv

LEMMA TakeNext ==
    ASSUME NEW X, NEW s \in Seq(X), NEW k \in Nat, k + 1 <= Len(s)
    PROVE  Append(SubSeq(s, 1, k), s[k + 1]) = SubSeq(s, 1, k + 1)
<1> DEFINE a == Append(SubSeq(s, 1, k), s[k + 1])
           b == SubSeq(s, 1, k + 1)
<1>1. s[k + 1] \in X /\ SubSeq(s, 1, k) \in Seq(X) /\ Len(SubSeq(s, 1, k)) = k
      /\ \A i \in 1 .. k : SubSeq(s, 1, k)[i] = s[i]
  OBVIOUS
<1>2. a \in Seq(X) /\ Len(a) = k + 1 /\ \A i \in 1 .. k + 1 : a[i] = s[i]
  BY <1>1
<1>3. b \in Seq(X) /\ Len(b) = k + 1 /\ \A i \in 1 .. k + 1 : b[i] = s[i]
  OBVIOUS
<1> HIDE DEF a, b
<1>4. a = b
  BY <1>2, <1>3
<1> QED
  BY <1>4 DEF a, b

LEMMA ReadListsFacts ==
    ASSUME NEW g \in Seq(Word), NEW f \in Seq(Word), Prefix(f, g),
           NEW n \in Nat, f[1].count = n,
           NEW nd, NodeFits(nd, n),
           NEW p \in Nat, Block(g, p, Joined(ListImages(nd))),
           NEW a, IsReader(a), a.ok, a.pos = p + 1, a.pos <= Len(f) + 1, a.list = <<>>
    PROVE  LET b == FoldLeft(LAMBDA r, l : ReadList(f, r, l), a, [j \in 1 .. nd.lvl + 1 |-> j - 1])
               e == p + Len(Joined(ListImages(nd)))
           IN  /\ IsReader(b)
               /\ b.ok => /\ b.pos = e + 1 /\ b.pos <= Len(f) + 1 /\ b.node = a.node
                          /\ b.list = nd.list
               /\ e <= Len(f) => b.ok
<1> DEFINE m == nd.lvl + 1
           J == Joined(ListImages(nd))
           seq == [j \in 1 .. m |-> j - 1]
<1>1. /\ m \in Nat /\ nd.list \in Seq(Seq(Nat)) /\ Len(nd.list) = m
      /\ \A j \in 1 .. m : IsList(nd.list[j], n, j - 1)
  BY Params DEF NodeFits, Node
<1>2. J \in Seq(Nat) /\ J \in Seq(Word)
  <2>1. J \in Seq(Nat)
    BY NodeImageFacts
  <2> HIDE DEF J
  <2> QED
    BY <2>1 DEF Word
<1>3. PICK at : Laid(J, at, ListImages(nd), m)
  BY NodeImageFacts
<1>4. \A j \in 1 .. m : /\ ListImages(nd)[j] = ListImage(nd.list[j])
                        /\ ListImages(nd)[j] \in Seq(Nat)
  <2> SUFFICES ASSUME NEW j \in 1 .. m
               PROVE  /\ ListImages(nd)[j] = ListImage(nd.list[j])
                      /\ ListImages(nd)[j] \in Seq(Nat)
    OBVIOUS
  <2>1. ListImages(nd)[j] = ListImage(nd.list[j])
    BY <1>1 DEF ListImages
  <2>2. ListImage(nd.list[j]) \in Seq(Nat)
    BY <1>1, ListImageFacts
  <2> QED
    BY <2>1, <2>2
<1>5. \A j \in 1 .. m : ListImages(nd)[j] \in Seq(Word)
  <2> SUFFICES ASSUME NEW j \in 1 .. m PROVE ListImages(nd)[j] \in Seq(Word)
    OBVIOUS
  <2>1. ListImages(nd)[j] \in Seq(Nat)
    BY <1>4
  <2> QED
    BY <2>1 DEF Word
<1> HIDE DEF J, m
<1>6. \A j \in 1 .. m : /\ at[j - 1] \in Nat /\ at[j] \in Nat
                        /\ Block(g, p + at[j - 1], ListImages(nd)[j])
  <2>1. Block(g, p, J)
    BY DEF J
  <2> QED
    BY ONLY <1>1, <1>2, <1>3, <1>5, <2>1, g \in Seq(Word), p \in Nat, LaidBlocks
<1>7. /\ at[0] = 0 /\ at[m] = Len(J) /\ Len(J) \in Nat
      /\ \A j \in 1 .. m : at[j] = at[j - 1] + Len(ListImages(nd)[j])
  BY <1>1, <1>2, <1>3 DEF Laid
<1> DEFINE c == [f |-> f, start |-> p, at |-> at, lists |-> nd.list, before |-> a.node]
<1>8. c.f = f /\ c.start = p /\ c.at = at /\ c.lists = nd.list /\ c.before = a.node
  OBVIOUS
<1>9. DOMAIN seq = 1 .. m /\ \A k \in 0 .. m - 1 : seq[k + 1] = k
  BY <1>1
<1> HIDE DEF c, seq
<1>10. ReadInv(c, 0, a)
  <2>1. SubSeq(nd.list, 1, 0) = <<>>
    BY <1>1
  <2> QED
    BY <1>7, <1>8, <2>1 DEF ReadInv
<1>11. ASSUME NEW r, NEW k \in 0 .. m - 1, ReadInv(c, k, r)
       PROVE  ReadInv(c, k + 1, ReadOp(c, r, seq[k + 1]))
  <2> DEFINE b == ReadOp(c, r, seq[k + 1])
             l == nd.list[k + 1]
             s == p + at[k]
  <2>1. b = ReadList(f, r, k) /\ k \in Nat /\ k + 1 \in 1 .. m /\ (k + 1) - 1 = k
    BY <1>1, <1>8, <1>9, SMTT(30) DEF ReadOp
  <2>2. /\ IsReader(r) /\ r.ok \in BOOLEAN
        /\ r.ok => /\ r.pos = s + 1 /\ r.pos <= Len(f) + 1
                   /\ r.node = a.node /\ r.list = SubSeq(nd.list, 1, k)
        /\ s <= Len(f) => r.ok
    BY <1>8, <1>11 DEF ReadInv, IsReader
  <2>3. at[k] \in Nat /\ at[k + 1] \in Nat /\ s \in Nat /\ Len(f) \in Nat
    BY <1>6, <2>1
  <2>4. /\ IsList(l, n, k) /\ Block(g, s, ListImage(l)) /\ ListImages(nd)[k + 1] = ListImage(l)
        /\ at[k + 1] = at[k] + Len(ListImage(l)) /\ Len(ListImage(l)) \in Nat
    BY <1>1, <1>4, <1>6, <1>7, <2>1, SMTT(30)
  <2> HIDE DEF b, l, s
  <2>5. CASE ~ r.ok
    <3>1. b = Fail(r)
      BY <2>1, <2>5 DEF ReadList
    <3>2. ~ (s <= Len(f)) /\ ~ (p + at[k + 1] <= Len(f))
      BY <2>2, <2>3, <2>4, <2>5, SMTT(30) DEF s
    <3> QED
      BY <1>8, <2>2, <3>1, <3>2, FailFacts DEF ReadInv, b
  <2>6. CASE r.ok
    <3>1. /\ IsReader(b)
          /\ b.ok => /\ b.pos = s + Len(ListImage(l)) + 1 /\ b.pos <= Len(f) + 1
                     /\ b.node = r.node /\ b.list = Append(r.list, l)
          /\ s + Len(ListImage(l)) <= Len(f) => b.ok
      <4>1. r.pos = s + 1 /\ f[1].count = n /\ IsReader(r) /\ r.ok /\ Prefix(f, g)
        BY <2>2, <2>6
      <4> QED
        BY ONLY <4>1, <2>1, <2>3, <2>4, g \in Seq(Word), f \in Seq(Word), n \in Nat, ReadListFacts,
           SMTT(30)
    <3>2. s + Len(ListImage(l)) = p + at[k + 1]
      BY <2>3, <2>4 DEF s
    <3>3. Append(SubSeq(nd.list, 1, k), l) = SubSeq(nd.list, 1, k + 1)
      <4>1. k + 1 <= Len(nd.list)
        BY <1>1, <2>1
      <4> QED
        BY ONLY <1>1, <2>1, <4>1, TakeNext DEF l
    <3> QED
      BY <1>8, <2>2, <2>6, <3>1, <3>2, <3>3 DEF ReadInv, b
  <2> QED
    BY <2>2, <2>5, <2>6
<1>12. ReadInv(c, m, Reads!Fold(c, a, seq))
  <2>1. \A r : \A k \in 0 .. m - 1 : ReadInv(c, k, r) => ReadInv(c, k + 1, ReadOp(c, r, seq[k + 1]))
    BY <1>11
  <2> QED
    BY <1>1, <1>9, <1>10, <2>1, Reads!FoldInv
<1>13. Reads!Fold(c, a, seq) = FoldLeft(LAMBDA r, l : ReadList(f, r, l), a, [j \in 1 .. nd.lvl + 1 |-> j - 1])
  BY <1>8 DEF ReadOp, seq, m, Reads!Fold, Reads!FoldLeft, FoldLeft, MapThenFoldSet,
              Reads!MapThenFoldSet, Max, Reads!Max
<1>14. SubSeq(nd.list, 1, m) = nd.list
  BY <1>1
<1> DEFINE b == Reads!Fold(c, a, seq)
<1>15. /\ IsReader(b)
       /\ b.ok => /\ b.pos = p + Len(J) + 1 /\ b.pos <= Len(f) + 1 /\ b.node = a.node
                  /\ b.list = nd.list
       /\ p + Len(J) <= Len(f) => b.ok
  BY <1>7, <1>8, <1>12, <1>14 DEF ReadInv
<1> QED
  BY <1>13, <1>15 DEF J
\* One node.
LEMMA ReadNodeFacts ==
    ASSUME NEW g \in Seq(Word), NEW f \in Seq(Word), Prefix(f, g),
           NEW n \in Nat, f[1].count = n,
           NEW nd, NodeFits(nd, n),
           NEW p \in Nat, Block(g, p, NodeImage(nd)),
           NEW a, IsReader(a), a.ok, a.pos = p + 1, a.list = <<>>
    PROVE  LET b == ReadNode(f, a)
               e == p + Len(NodeImage(nd))
           IN  /\ IsReader(b)
               /\ b.ok => /\ b.pos = e + 1 /\ b.pos <= Len(f) + 1
                          /\ b.node = Append(a.node, nd) /\ b.list = <<>>
               /\ e <= Len(f) => b.ok
<1> DEFINE im == NodeImage(nd)
           J == Joined(ListImages(nd))
           b == ReadNode(f, a)
           a1 == [pos |-> a.pos + 1, ok |-> a.ok, node |-> a.node, list |-> a.list]
           q == FoldLeft(LAMBDA r, l : ReadList(f, r, l), a1, [j \in 1 .. nd.lvl + 1 |-> j - 1])
<1>1. /\ im \in Seq(Nat) /\ im[1] = nd.lvl /\ J \in Seq(Nat) /\ Block(im, 1, J)
      /\ Len(im) = 1 + Len(J) /\ nd.lvl \in Nat /\ nd = [lvl |-> nd.lvl, list |-> nd.list]
  <2>1. nd.lvl \in Nat /\ nd = [lvl |-> nd.lvl, list |-> nd.list]
    BY Params DEF NodeFits, Node
  <2> QED
    BY <2>1, NodeImageFacts
<1> HIDE DEF im, J
<1>2. im \in Seq(Word) /\ J \in Seq(Word) /\ Len(J) \in Nat
  BY <1>1 DEF Word
<1>3. Block(g, p, im)
  BY DEF im
<1>4. Block(g, p + 1, J)
  <2>1. 1 \in Nat
    OBVIOUS
  <2> QED
    BY ONLY <1>1, <1>2, <1>3, <2>1, g \in Seq(Word), p \in Nat, BlockIn
<1>5. Len(f) \in Nat /\ a = [pos |-> a.pos, ok |-> a.ok, node |-> a.node, list |-> a.list]
  BY DEF IsReader
<1>6. CASE a.pos > Len(f)
  <2>1. b = Fail(a)
    BY <1>6 DEF ReadNode
  <2>2. ~ (p + Len(im) <= Len(f))
    BY <1>1, <1>2, <1>5, <1>6
  <2> HIDE DEF b
  <2> QED
    BY <2>1, <2>2, FailFacts DEF im, b
<1>7. CASE ~ (a.pos > Len(f))
  <2>1. f[a.pos] = nd.lvl
    <3>1. Len(im) \in Nat /\ 1 \in 1 .. Len(im) /\ p + 1 <= Len(f)
      BY <1>1, <1>2, <1>5, <1>7
    <3>2. \A i \in 1 .. Len(im) : p + i <= Len(f) => f[p + i] = im[i]
      BY ONLY <1>2, <1>3, g \in Seq(Word), f \in Seq(Word), Prefix(f, g), p \in Nat, BlockSeen
    <3> QED
      BY <1>1, <3>1, <3>2
  <2>2. [a EXCEPT !.pos = @ + 1] = a1
    BY MoveFacts
  <2>3. b = [q EXCEPT !.list = <<>>, !.node = Append(@, [lvl |-> nd.lvl, list |-> q.list])]
    <3>1. b = LET lv == f[a.pos]
                  r == FoldLeft(LAMBDA x, l : ReadList(f, x, l), [a EXCEPT !.pos = @ + 1],
                                [j \in 1 .. lv + 1 |-> j - 1])
              IN  [r EXCEPT !.list = <<>>, !.node = Append(@, [lvl |-> lv, list |-> r.list])]
      BY <1>7 DEF ReadNode
    <3> QED
      BY <2>1, <2>2, <3>1
  <2>4. IsReader(a1) /\ a1.ok /\ a1.pos = (p + 1) + 1 /\ a1.pos <= Len(f) + 1
        /\ a1.list = <<>> /\ a1.node = a.node
    BY <1>5, <1>7 DEF IsReader
  <2>5. /\ IsReader(q)
        /\ q.ok => /\ q.pos = (p + 1) + Len(J) + 1 /\ q.pos <= Len(f) + 1 /\ q.node = a1.node
                   /\ q.list = nd.list
        /\ (p + 1) + Len(J) <= Len(f) => q.ok
    <3>1. p + 1 \in Nat /\ Block(g, p + 1, Joined(ListImages(nd)))
      BY <1>4 DEF J
    <3> HIDE DEF a1
    <3> QED
      BY ONLY <2>4, <3>1, g \in Seq(Word), f \in Seq(Word), Prefix(f, g), n \in Nat,
              f[1].count = n, NodeFits(nd, n), ReadListsFacts DEF J
  <2> HIDE DEF q, b, a1
  <2>6. b = [pos |-> q.pos, ok |-> q.ok, node |-> Append(q.node, [lvl |-> nd.lvl, list |-> q.list]),
             list |-> <<>>]
    BY <2>3, <2>5 DEF IsReader
  <2>7. IsReader(b) /\ b.ok = q.ok /\ b.pos = q.pos /\ b.list = <<>>
        /\ b.node = Append(q.node, [lvl |-> nd.lvl, list |-> q.list])
    BY <2>5, <2>6 DEF IsReader
  <2>8. (p + 1) + Len(J) = p + Len(im)
    BY <1>1, <1>2
  <2>9. b.ok => b.node = Append(a.node, nd)
    BY <1>1, <2>4, <2>5, <2>7
  <2> QED
    BY <2>5, <2>7, <2>8, <2>9 DEF im, b
<1> QED
  BY <1>6, <1>7

\* All nodes.
NodeOp(c, a, j) == ReadNode(c.f, a)
NodeInv(c, k, a) ==
    /\ IsReader(a)
    /\ a.ok => /\ a.pos = c.start + c.at[k] + 1 /\ a.pos <= Len(c.f) + 1
               /\ a.node = SubSeq(c.nodes, 1, k) /\ a.list = <<>>
    /\ c.start + c.at[k] <= Len(c.f) => a.ok

NodeReads == INSTANCE FoldFacts WITH Op <- NodeOp, Inv <- NodeInv

LEMMA ReadNodesFacts ==
    ASSUME NEW x, Sound(x), NEW version \in {1, 2}, NEW f \in Seq(Word), f # <<>>,
           Prefix(f, Image(x, version)), Len(f) >= 1 + 2 * x.body.count
    PROVE  LET r == ReadNodes(f)
               e == 1 + 2 * x.body.count + Len(Joined(NodeImages(x)))
           IN  /\ r.ok => r.pos = e + 1 /\ r.pos <= Len(f) + 1 /\ r.node = x.node
               /\ e <= Len(f) => r.ok
<1> DEFINE g == Image(x, version)
           n == x.body.count
           J == Joined(NodeImages(x))
           S == 1 + 2 * n
           seq == [j \in 1 .. n |-> j]
           a == [pos |-> 2 + 2 * f[1].count, ok |-> TRUE, node |-> <<>>, list |-> <<>>]
<1>1. /\ g \in Seq(Word) /\ g[1] = Header(x, version) /\ n \in Nat /\ Len(J) \in Nat
      /\ Block(g, S, J)
  BY ImageFacts
<1>2. /\ x.node \in Seq(Node) /\ Len(x.node) = n
      /\ \A j \in 1 .. n : NodeFits(x.node[j], n)
  BY DEF Sound
<1>3. /\ J \in Seq(Nat) /\ \A j \in 1 .. n : /\ NodeImages(x)[j] = NodeImage(x.node[j])
                                             /\ NodeImages(x)[j] \in Seq(Nat)
  BY NodesFacts
<1>4. PICK at : Laid(J, at, NodeImages(x), n)
  BY NodesFacts
<1> HIDE DEF J
<1>5. J \in Seq(Word) /\ \A j \in 1 .. n : NodeImages(x)[j] \in Seq(Word)
  <2>1. J \in Seq(Word)
    BY <1>3 DEF Word
  <2>2. ASSUME NEW j \in 1 .. n PROVE NodeImages(x)[j] \in Seq(Word)
    <3>1. NodeImages(x)[j] \in Seq(Nat)
      BY <1>3
    <3> QED
      BY <3>1 DEF Word
  <2> QED
    BY <2>1, <2>2
<1>6. f[1] = Header(x, version) /\ f[1].count = n /\ Len(f) \in Nat
  <2>1. Len(f) \in Nat /\ 1 \in 1 .. Len(f)
    OBVIOUS
  <2> QED
    BY <1>1, <2>1 DEF Prefix, Header
<1>7. S \in Nat
  BY <1>1, SMTT(30)
<1> HIDE DEF g, n, S
<1>8. \A j \in 1 .. n : /\ at[j - 1] \in Nat /\ at[j] \in Nat
                        /\ Block(g, S + at[j - 1], NodeImages(x)[j])
  BY ONLY <1>1, <1>4, <1>5, <1>7, LaidBlocks
<1>9. /\ at[0] = 0 /\ at[n] = Len(J)
      /\ \A j \in 1 .. n : at[j] = at[j - 1] + Len(NodeImages(x)[j])
  BY <1>1, <1>4 DEF Laid
<1> DEFINE c == [f |-> f, start |-> S, at |-> at, nodes |-> x.node]
<1>10. c.f = f /\ c.start = S /\ c.at = at /\ c.nodes = x.node
  OBVIOUS
<1>11. DOMAIN seq = 1 .. n
  OBVIOUS
<1> HIDE DEF c, seq
<1>12. NodeInv(c, 0, a)
  <2>1. SubSeq(x.node, 1, 0) = <<>>
    BY <1>2
  <2>2. a.pos = S + 0 + 1 /\ a.pos <= Len(f) + 1
    BY <1>1, <1>6 DEF S, n
  <2>3. IsReader(a) /\ a.ok /\ a.node = <<>> /\ a.list = <<>>
    BY DEF IsReader
  <2> HIDE DEF a
  <2> QED
    BY <1>9, <1>10, <2>1, <2>2, <2>3 DEF NodeInv
<1> HIDE DEF a
<1>13. ASSUME NEW r, NEW k \in 0 .. n - 1, NodeInv(c, k, r)
       PROVE  NodeInv(c, k + 1, NodeOp(c, r, seq[k + 1]))
  <2> DEFINE b == NodeOp(c, r, seq[k + 1])
             nd == x.node[k + 1]
             s == S + at[k]
  <2>1. b = ReadNode(f, r) /\ k \in Nat /\ k + 1 \in 1 .. n /\ (k + 1) - 1 = k
    BY <1>1, <1>10 DEF NodeOp
  <2>2. /\ IsReader(r) /\ r.ok \in BOOLEAN
        /\ r.ok => /\ r.pos = s + 1 /\ r.pos <= Len(f) + 1
                   /\ r.node = SubSeq(x.node, 1, k) /\ r.list = <<>>
        /\ s <= Len(f) => r.ok
    BY <1>10, <1>13 DEF NodeInv, IsReader
  <2>3. at[k] \in Nat /\ at[k + 1] \in Nat /\ s \in Nat
    BY <1>7, <1>8, <2>1
  <2>4. /\ NodeFits(nd, n) /\ Block(g, s, NodeImage(nd))
        /\ at[k + 1] = at[k] + Len(NodeImage(nd)) /\ Len(NodeImage(nd)) \in Nat
    <3>1. NodeImages(x)[k + 1] = NodeImage(nd) /\ NodeImage(nd) \in Seq(Nat)
      BY <1>3, <2>1
    <3>2. NodeFits(nd, n)
      BY <1>2, <2>1
    <3>3. Block(g, s, NodeImages(x)[k + 1])
      BY <1>8, <2>1
    <3>4. at[k + 1] = at[k] + Len(NodeImages(x)[k + 1])
      BY <1>9, <2>1
    <3> HIDE DEF nd, s
    <3> QED
      BY <3>1, <3>2, <3>3, <3>4
  <2> HIDE DEF b, nd, s
  <2>5. CASE ~ r.ok
    <3>1. b = Fail(r)
      BY <2>1, <2>5 DEF ReadNode
    <3>2. ~ (s <= Len(f)) /\ ~ (S + at[k + 1] <= Len(f))
      BY <1>6, <1>7, <2>2, <2>3, <2>4, <2>5, SMTT(30) DEF s
    <3> QED
      BY <1>10, <2>2, <3>1, <3>2, FailFacts DEF NodeInv, b
  <2>6. CASE r.ok
    <3>1. /\ IsReader(b)
          /\ b.ok => /\ b.pos = s + Len(NodeImage(nd)) + 1 /\ b.pos <= Len(f) + 1
                     /\ b.node = Append(r.node, nd) /\ b.list = <<>>
          /\ s + Len(NodeImage(nd)) <= Len(f) => b.ok
      <4>1. r.pos = s + 1 /\ IsReader(r) /\ r.ok /\ Prefix(f, g) /\ r.list = <<>>
        BY <2>2, <2>6 DEF g
      <4>2. /\ g \in Seq(Word) /\ n \in Nat /\ f[1].count = n /\ s \in Nat
            /\ NodeFits(nd, n) /\ Block(g, s, NodeImage(nd))
        BY <1>1, <1>2, <1>6, <2>3, <2>4
      <4>3. LET e == s + Len(NodeImage(nd))
                z == ReadNode(f, r)
            IN  /\ IsReader(z)
                /\ z.ok => /\ z.pos = e + 1 /\ z.pos <= Len(f) + 1
                           /\ z.node = Append(r.node, nd) /\ z.list = <<>>
                /\ e <= Len(f) => z.ok
        BY ONLY <4>1, <4>2, f \in Seq(Word), ReadNodeFacts
      <4> QED
        BY <2>1, <4>3
    <3>2. s + Len(NodeImage(nd)) = S + at[k + 1]
      BY <1>7, <2>3, <2>4 DEF s
    <3>3. Append(SubSeq(x.node, 1, k), nd) = SubSeq(x.node, 1, k + 1)
      <4>1. k + 1 <= Len(x.node)
        BY <1>2, <2>1
      <4> QED
        BY ONLY <1>2, <2>1, <4>1, TakeNext DEF nd
    <3> QED
      BY <1>10, <2>2, <2>6, <3>1, <3>2, <3>3 DEF NodeInv, b
  <2> QED
    BY <2>2, <2>5, <2>6
<1>14. NodeInv(c, n, NodeReads!Fold(c, a, seq))
  <2>1. \A r : \A k \in 0 .. n - 1 : NodeInv(c, k, r) => NodeInv(c, k + 1, NodeOp(c, r, seq[k + 1]))
    BY <1>13
  <2> QED
    BY <1>1, <1>11, <1>12, <2>1, NodeReads!FoldInv
<1>15. NodeReads!Fold(c, a, seq) = ReadNodes(f)
  BY <1>6, <1>10 DEF ReadNodes, NodeOp, seq, a, NodeReads!Fold, NodeReads!FoldLeft, FoldLeft,
              MapThenFoldSet, NodeReads!MapThenFoldSet, Max, NodeReads!Max
<1>16. SubSeq(x.node, 1, n) = x.node
  BY <1>1, <1>2
<1>17. /\ ReadNodes(f).ok => /\ ReadNodes(f).pos = S + Len(J) + 1
                             /\ ReadNodes(f).pos <= Len(f) + 1 /\ ReadNodes(f).node = x.node
       /\ S + Len(J) <= Len(f) => ReadNodes(f).ok
  BY <1>9, <1>10, <1>14, <1>15, <1>16 DEF NodeInv
<1> QED
  BY <1>17 DEF S, J, n
-----------------------------------------------------------------------------
(***************************************************************************)
(* A file that is accepted gives back the index it was written from, and a *)
(* complete one is accepted.  Version 1 has no room for tombstones.        *)
(***************************************************************************)
NoneDead(x) == \A s \in 0 .. x.body.count - 1 : ~ x.body.slot[s].dead

\* A reader that does not fail has the entries of every slot before it.
LEMMA SeenFacts ==
    ASSUME NEW x, Sound(x), NEW version \in {1, 2}, NEW f \in Seq(Word),
           Prefix(f, Image(x, version)), f # <<>>
    PROVE  LET n == x.body.count
               at == 1 + 2 * n + Len(Joined(NodeImages(x))) + 1
           IN  /\ f[1] = Header(x, version) /\ f[1].count = n /\ n \in Nat
               /\ at \in Nat /\ Len(f) \in Nat
               /\ Len(f) >= 1 + 2 * n => \A s \in 0 .. n - 1 :
                     f[2 + s] = x.body.slot[s].id /\ f[2 + n + s] = x.body.slot[s].vec
               /\ version = 2 /\ Len(f) >= at + n - 1 => \A s \in 0 .. n - 1 :
                     f[at + s] = x.body.slot[s].dead
<1> DEFINE g == Image(x, version)
           n == x.body.count
           J == Joined(NodeImages(x))
           at == 1 + 2 * n + Len(J) + 1
<1>1. /\ g \in Seq(Word) /\ g[1] = Header(x, version) /\ n \in Nat /\ Len(J) \in Nat
      /\ \A s \in 0 .. n - 1 : /\ g[2 + s] = x.body.slot[s].id
                               /\ g[2 + n + s] = x.body.slot[s].vec
      /\ version = 2 => \A s \in 0 .. n - 1 :
            g[1 + 2 * n + Len(J) + 1 + s] = x.body.slot[s].dead
  BY ImageFacts
<1>2. at \in Nat /\ Len(f) \in Nat /\ 1 \in 1 .. Len(f)
  BY <1>1, SMTT(30)
<1>3. \A i \in 1 .. Len(f) : f[i] = g[i]
  BY DEF Prefix
<1> HIDE DEF g, J
<1>4. f[1] = Header(x, version) /\ f[1].count = n
  BY <1>1, <1>2, <1>3 DEF Header
<1> HIDE DEF n
<1>5. ASSUME Len(f) >= 1 + 2 * n, NEW s \in 0 .. n - 1
      PROVE  f[2 + s] = x.body.slot[s].id /\ f[2 + n + s] = x.body.slot[s].vec
  <2>1. 2 + s \in 1 .. Len(f) /\ 2 + n + s \in 1 .. Len(f)
    BY <1>1, <1>2, <1>5
  <2> QED
    BY <1>1, <1>3, <2>1
<1>6. ASSUME version = 2, Len(f) >= at + n - 1, NEW s \in 0 .. n - 1
      PROVE  f[at + s] = x.body.slot[s].dead
  <2>1. at + s \in 1 .. Len(f)
    BY <1>1, <1>2, <1>6
  <2>2. g[at + s] = x.body.slot[s].dead
    BY <1>1, <1>6
  <2> QED
    BY <1>3, <2>1, <2>2
<1> QED
  BY <1>1, <1>2, <1>4, <1>5, <1>6 DEF J, n

\* The map rebuilt from slots in which a live id owns one slot is exact.
LEMMA RebuiltExact ==
    ASSUME NEW n \in Nat, NEW slot, \A s \in 0 .. n - 1 : slot[s] \in Slot,
           NEW map, \A s \in 0 .. n - 1 : ~ slot[s].dead => map[slot[s].id] = s
    PROVE  LET m == RebuiltMap(slot, n) IN
           /\ m \in [Ids -> Int]
           /\ \A id \in Ids : m[id] # NoSlot =>
                 m[id] \in 0 .. n - 1 /\ ~ slot[m[id]].dead /\ slot[m[id]].id = id
           /\ \A s \in 0 .. n - 1 : ~ slot[s].dead => m[slot[s].id] = s
<1> DEFINE mine(id) == {s \in 0 .. n - 1 : ~ slot[s].dead /\ slot[s].id = id}
           m == RebuiltMap(slot, n)
<1>1. m = [id \in Ids |-> IF mine(id) = {} THEN NoSlot
                          ELSE CHOOSE s \in mine(id) : \A t \in mine(id) : t <= s]
  BY DEF RebuiltMap
<1>2. \A id \in Ids : \A s \in mine(id) : s = map[id]
  OBVIOUS
<1> HIDE DEF m
<1>3. ASSUME NEW id \in Ids, mine(id) # {} PROVE m[id] \in mine(id)
  <2>1. PICK s \in mine(id) : TRUE
    BY <1>3
  <2>2. s \in Int /\ \A t \in mine(id) : t = s
    BY <1>2
  <2>3. \E w \in mine(id) : \A t \in mine(id) : t <= w
    BY <2>2
  <2>4. m[id] = CHOOSE w \in mine(id) : \A t \in mine(id) : t <= w
    BY <1>1, <1>3
  <2> HIDE DEF mine
  <2> QED
    BY <2>3, <2>4
<1>4. ASSUME NEW id \in Ids, mine(id) = {} PROVE m[id] = NoSlot
  BY <1>1, <1>4
<1>5. ASSUME NEW s \in 0 .. n - 1, ~ slot[s].dead PROVE m[slot[s].id] = s
  <2>1. slot[s].id \in Ids /\ s \in mine(slot[s].id)
    BY <1>5 DEF Slot
  <2>2. m[slot[s].id] \in mine(slot[s].id)
    BY <1>3, <2>1
  <2> QED
    BY <1>2, <2>1, <2>2
<1>6. ASSUME NEW id \in Ids PROVE m[id] \in Int
  BY <1>3, <1>4 DEF NoSlot
<1>7. m \in [Ids -> Int]
  BY <1>1, <1>6
<1> QED
  BY <1>3, <1>4, <1>5, <1>7 DEF m

LEMMA LoadedFacts ==
    ASSUME NEW x, Sound(x), NEW version \in {1, 2}, version = 1 => NoneDead(x),
           NEW f \in Seq(Word), Prefix(f, Image(x, version)), Loadable(f)
    PROVE  Sound(Loaded(f)) /\ SameIndex(Loaded(f), x)
<1> DEFINE n == x.body.count
           r == ReadNodes(f)
           cap == IF n = 0 THEN DefaultCap ELSE n
           at == 1 + 2 * n + Len(Joined(NodeImages(x))) + 1
           slot == [s \in 0 .. cap - 1 |->
                       IF s >= n THEN Garbage
                       ELSE [id |-> f[2 + s], vec |-> f[2 + n + s],
                             dead |-> IF DeadBytes(f) THEN f[r.pos + s] ELSE FALSE]]
           live == {s \in 0 .. n - 1 : ~ slot[s].dead}
           map == RebuiltMap(slot, n)
           body == [cap |-> cap, count |-> n, alive |-> Cardinality(live),
                    slot |-> slot, map |-> map]
           y == Loaded(f)
<1>1. /\ f # <<>> /\ Len(f) >= 1 + 2 * f[1].count /\ r.ok
      /\ DeadBytes(f) => r.pos + f[1].count - 1 <= Len(f)
  BY DEF Loadable
<1>2. /\ f[1] = Header(x, version) /\ f[1].count = n /\ n \in Nat
      /\ at \in Nat /\ Len(f) \in Nat
      /\ Len(f) >= 1 + 2 * n => \A s \in 0 .. n - 1 :
            f[2 + s] = x.body.slot[s].id /\ f[2 + n + s] = x.body.slot[s].vec
      /\ version = 2 /\ Len(f) >= at + n - 1 => \A s \in 0 .. n - 1 :
            f[at + s] = x.body.slot[s].dead
  BY <1>1, SeenFacts
<1>3. r.pos = at /\ r.node = x.node
  BY <1>1, <1>2, ReadNodesFacts
<1>4. DeadBytes(f) <=> version = 2
  BY <1>2 DEF DeadBytes, Header
<1>5. /\ y = [body |-> body, node |-> x.node, entry |-> x.entry, top |-> x.top]
  BY <1>2, <1>3 DEF Loaded, Header
<1>6. /\ Good(x.body, n) /\ \A s \in 0 .. n - 1 : x.body.slot[s] \in Slot
      /\ x.node \in Seq(Node) /\ Len(x.node) = n
      /\ \A j \in 1 .. n : NodeFits(x.node[j], n)
      /\ x.entry \in -1 .. n - 1 /\ x.top \in -1 .. MaxLevel
      /\ x.entry # NoSlot => x.node[x.entry + 1].lvl = x.top
  BY DEF Sound, Good
<1>7. cap \in Nat /\ cap > 0 /\ n <= cap
  BY <1>2, Params, SMTT(30)
<1> HIDE DEF cap, at, r, y
<1>8. ASSUME NEW s \in 0 .. n - 1 PROVE slot[s] = x.body.slot[s]
  <2>1. f[2 + s] = x.body.slot[s].id /\ f[2 + n + s] = x.body.slot[s].vec
    BY <1>1, <1>2
  <2>2. (IF DeadBytes(f) THEN f[r.pos + s] ELSE FALSE) = x.body.slot[s].dead
    <3>1. CASE version = 2
      <4>1. DeadBytes(f) /\ Len(f) >= at + n - 1
        BY <1>1, <1>2, <1>3, <1>4, <3>1
      <4>2. f[at + s] = x.body.slot[s].dead
        BY <1>2, <3>1, <4>1
      <4> QED
        BY <1>3, <4>1, <4>2
    <3>2. CASE version # 2
      <4>1. ~ x.body.slot[s].dead /\ x.body.slot[s].dead \in BOOLEAN
        BY <1>6, <3>2 DEF NoneDead, Slot
      <4> QED
        BY <1>4, <3>2, <4>1
    <3> QED
      BY <3>1, <3>2
  <2>3. s \in 0 .. cap - 1 /\ ~ (s >= n)
    BY <1>2, <1>7
  <2>4. slot[s] = [id |-> x.body.slot[s].id, vec |-> x.body.slot[s].vec,
                   dead |-> x.body.slot[s].dead]
    BY <2>1, <2>2, <2>3
  <2>5. x.body.slot[s] = [id |-> x.body.slot[s].id, vec |-> x.body.slot[s].vec,
                          dead |-> x.body.slot[s].dead]
    BY <1>6 DEF Slot
  <2> QED
    BY <2>4, <2>5
<1>9. slot \in [0 .. cap - 1 -> Slot \cup {Garbage}]
  <2>1. \A s \in 0 .. cap - 1 : s >= n \/ s \in 0 .. n - 1
    BY <1>2, <1>7
  <2>2. \A s \in 0 .. cap - 1 : slot[s] \in Slot \cup {Garbage}
    BY <1>6, <1>8, <2>1
  <2> QED
    BY <2>2
<1> HIDE DEF slot
<1>10. /\ map \in [Ids -> Int]
       /\ \A id \in Ids : map[id] # NoSlot =>
             map[id] \in 0 .. n - 1 /\ ~ slot[map[id]].dead /\ slot[map[id]].id = id
       /\ \A s \in 0 .. n - 1 : ~ slot[s].dead => map[slot[s].id] = s
  <2>1. \A s \in 0 .. n - 1 : slot[s] \in Slot
    BY <1>6, <1>8
  <2>2. \A s \in 0 .. n - 1 : ~ slot[s].dead => x.body.map[slot[s].id] = s
    BY <1>6, <1>8 DEF Good, MapExactFor, Mapped, IsLive
  <2> HIDE DEF n
  <2> QED
    BY <1>2, <2>1, <2>2, RebuiltExact
<1> HIDE DEF map
<1>11. live \subseteq 0 .. n - 1 /\ Cardinality(live) \in Nat
  <2>1. IsFiniteSet(0 .. n - 1)
    BY <1>2, FS_Interval, SMTT(30)
  <2>2. live \in SUBSET (0 .. n - 1)
    OBVIOUS
  <2> HIDE DEF live
  <2> QED
    BY <2>1, <2>2, FS_Subset, FS_CardinalityType
<1>12. /\ body.cap = cap /\ body.count = n /\ body.alive = Cardinality(live)
       /\ body.slot = slot /\ body.map = map
       /\ body = [cap |-> body.cap, count |-> body.count, alive |-> body.alive,
                  slot |-> body.slot, map |-> body.map]
  OBVIOUS
<1> HIDE DEF body
<1>13. IsBody(body)
  BY <1>2, <1>7, <1>9, <1>10, <1>11, <1>12 DEF IsBody
<1>14. LiveSlots(body) = live /\ Mapped(body, n) = live
  BY <1>6, <1>8, <1>12 DEF LiveSlots, Mapped, IsLive
<1>15. MapExactFor(body, n)
  BY <1>6, <1>8, <1>10, <1>12, <1>14 DEF MapExactFor
<1>16. Good(body, body.count) /\ body.cap > 0
  BY <1>2, <1>6, <1>7, <1>8, <1>12, <1>13, <1>14, <1>15 DEF Good
<1>17. /\ y.body = body /\ y.node = x.node /\ y.entry = x.entry /\ y.top = x.top
       /\ y = [body |-> y.body, node |-> y.node, entry |-> y.entry, top |-> y.top]
  BY <1>5
<1>18. Sound(y)
  BY <1>6, <1>12, <1>16, <1>17 DEF Sound
<1>19. SameIndex(y, x)
  BY <1>8, <1>12, <1>17 DEF SameIndex
<1> QED
  BY <1>18, <1>19 DEF y

LEMMA WholeLoads ==
    ASSUME NEW x, Sound(x), NEW version \in {1, 2}, Image(x, version) # NoFile
    PROVE  Loadable(Image(x, version))
<1> DEFINE g == Image(x, version)
           n == x.body.count
           J == Joined(NodeImages(x))
           r == ReadNodes(g)
<1>1. /\ g \in Seq(Word) /\ g[1] = Header(x, version) /\ n \in Nat /\ Len(J) \in Nat
      /\ Len(g) = 1 + 2 * n + Len(J) + (IF version = 1 THEN 0 ELSE n)
  BY ImageFacts
<1> HIDE DEF g, J
<1>2. g # <<>> /\ Prefix(g, g) /\ g[1].count = n
  BY <1>1 DEF Prefix, Header
<1>3. Len(g) >= 1 + 2 * n /\ 1 + 2 * n + Len(J) <= Len(g)
      /\ (version = 2 => 1 + 2 * n + Len(J) + n <= Len(g))
  BY <1>1
<1>4. r.ok /\ r.pos = 1 + 2 * n + Len(J) + 1
  BY <1>1, <1>2, <1>3, ReadNodesFacts DEF g, J
<1>5. DeadBytes(g) => version = 2
  BY <1>1 DEF DeadBytes, Header
<1> HIDE DEF r
<1>6. DeadBytes(g) => r.pos + n - 1 <= Len(g)
  BY <1>1, <1>3, <1>4, <1>5
<1> QED
  BY <1>2, <1>3, <1>4, <1>6 DEF Loadable, g, r
-----------------------------------------------------------------------------
(***************************************************************************)
(* The state machine.  Together with what is still to be written, the file *)
(* is a prefix of an image of the index it was opened with.                *)
(***************************************************************************)
Written(f, t, x, all) ==
    \E version \in {1, 2} :
        /\ version = 1 => NoneDead(x)
        /\ f \in Seq(Word) /\ t \in Seq(Word) /\ Prefix(f \o t, Image(x, version))
        /\ all => f \o t = Image(x, version)

FileInv == /\ pc # "saving" => todo = <<>>
           /\ \/ file = NoFile /\ pc # "saving"
              \/ Written(file, todo, origin, whole)

HandleInv ==
    /\ Sound(h) /\ Sound(origin)
    /\ pc \in {"up", "saving", "down"} /\ whole \in BOOLEAN
    /\ status \in {"none", "added", "deleted", "saved", "loaded", "fail"}
    /\ FileInv

LEMMA OldSound == ASSUME NEW x \in Old PROVE Sound(x)
BY PersistenceAssumption, SoundIs

LEMMA WholeImage ==
    ASSUME NEW x, Sound(x), NEW version \in {1, 2}, version = 1 => NoneDead(x)
    PROVE  /\ Written(Image(x, version), <<>>, x, TRUE)
           /\ version = 2 => Written(<<>>, Image(x, version), x, TRUE)
<1> DEFINE g == Image(x, version)
<1>1. g \in Seq(Word) /\ <<>> \in Seq(Word)
  BY ImageFacts
<1> HIDE DEF g
<1>2. g \o <<>> = g /\ <<>> \o g = g /\ Prefix(g, g)
  BY <1>1 DEF Prefix
<1> QED
  BY <1>1, <1>2 DEF Written, g

LEMMA HandleInit == Init => HandleInv
<1> SUFFICES ASSUME Init PROVE HandleInv
  OBVIOUS
<1>1. /\ h = New /\ pc = "up" /\ todo = <<>> /\ whole = TRUE /\ status = "none"
      /\ \/ file = NoFile /\ origin = New
         \/ \E x \in Old, version \in {1, 2} :
               /\ version = 1 => NoneDead(x)
               /\ origin = x /\ file = Image(x, version)
  BY DEF Init, NoneDead
<1>2. CASE file = NoFile /\ origin = New
  BY <1>1, <1>2, NewSound DEF HandleInv, FileInv
<1>3. ASSUME NEW x \in Old, NEW version \in {1, 2}, version = 1 => NoneDead(x),
             origin = x, file = Image(x, version)
      PROVE  HandleInv
  <2>1. Sound(x)
    BY OldSound
  <2>2. Written(Image(x, version), <<>>, x, TRUE)
    BY <1>3, <2>1, WholeImage
  <2> QED
    BY <1>1, <1>3, <2>1, <2>2, NewSound DEF HandleInv, FileInv
<1> QED
  BY <1>1, <1>2, <1>3

\* What an accepted file gives back.
LEMMA LoadStep ==
    ASSUME HandleInv, pc # "saving", Loadable(file)
    PROVE  Sound(Loaded(file)) /\ SameIndex(Loaded(file), origin)
<1>1. Sound(origin) /\ todo = <<>> /\ file # NoFile
  BY DEF HandleInv, FileInv, Loadable
<1>2. PICK version \in {1, 2} :
        /\ version = 1 => NoneDead(origin)
        /\ file \in Seq(Word) /\ Prefix(file \o todo, Image(origin, version))
  BY <1>1 DEF HandleInv, FileInv, Written
<1>3. file \o todo = file
  BY <1>1, <1>2
<1>4. Prefix(file, Image(origin, version))
  BY <1>2, <1>3
<1> QED
  BY ONLY <1>1, <1>2, <1>4, Loadable(file), LoadedFacts

LEMMA AddStep ==
    ASSUME HandleInv, NEW id \in Ids, NEW v \in Vecs, NEW lv \in 0 .. MaxLevel, Add(id, v, lv)
    PROVE  Sound(h')
<1>1. /\ Sound(h)
      /\ h' \in IF Absent(h.body, id) THEN Added(h, id, v, lv)
               ELSE {[h EXCEPT !.body = AddTo(@, id, v)]}
  BY DEF HandleInv, Add
<1>2. /\ h = [body |-> h.body, node |-> h.node, entry |-> h.entry, top |-> h.top]
      /\ Good(h.body, h.body.count) /\ h.body.cap > 0 /\ h.body.cap \in Nat /\ h.body.count \in Nat
  BY <1>1 DEF Sound, Good, IsBody
<1>3. CASE Absent(h.body, id)
  BY <1>1, <1>3, AddedSound
<1>4. CASE ~ Absent(h.body, id)
  <2> DEFINE a == AddTo(h.body, id, v)
  <2>1. Good(a, a.count) /\ a.cap >= h.body.cap /\ a.count = h.body.count
    BY <1>2, <1>4, AddGood
  <2>2. a.cap \in Nat
    BY <2>1 DEF Good, IsBody
  <2>3. h' = [h EXCEPT !.body = a]
    BY <1>1, <1>4
  <2> HIDE DEF a
  <2>4. h' = [body |-> a, node |-> h.node, entry |-> h.entry, top |-> h.top]
    BY <1>2, <2>3
  <2>5. a.cap > 0
    BY <1>2, <2>1, <2>2
  <2>6. h'.body = a /\ h'.node = h.node /\ h'.entry = h.entry /\ h'.top = h.top
    BY <2>4
  <2> QED
    BY <1>1, <2>1, <2>4, <2>5, <2>6 DEF Sound
<1> QED
  BY <1>3, <1>4

LEMMA DeleteStepSound ==
    ASSUME HandleInv, NEW id \in Ids, Delete(id)
    PROVE  Sound(h')
<1> DEFINE b == Bury(h.body, id)
<1>1. Sound(h) /\ ~ Absent(h.body, id) /\ h' = [h EXCEPT !.body = b]
  BY DEF HandleInv, Delete
<1>2. /\ h = [body |-> h.body, node |-> h.node, entry |-> h.entry, top |-> h.top]
      /\ Good(h.body, h.body.count) /\ h.body.cap > 0
  BY <1>1 DEF Sound
<1>3. Good(b, b.count) /\ b.cap = h.body.cap /\ b.count = h.body.count
  BY <1>1, <1>2, BuryGood
<1> HIDE DEF b
<1>4. h' = [body |-> b, node |-> h.node, entry |-> h.entry, top |-> h.top]
  BY <1>1, <1>2
<1>5. h'.body = b /\ h'.node = h.node /\ h'.entry = h.entry /\ h'.top = h.top
  BY <1>4
<1> QED
  BY <1>1, <1>2, <1>3, <1>4, <1>5 DEF Sound

\* One entry moves from what is to be written into the file.
LEMMA WriteStep ==
    ASSUME Written(file, todo, origin, whole), todo # <<>>
    PROVE  Written(Append(file, Head(todo)), Tail(todo), origin, whole)
<1>1. PICK version \in {1, 2} :
        /\ version = 1 => NoneDead(origin)
        /\ file \in Seq(Word) /\ todo \in Seq(Word) /\ Prefix(file \o todo, Image(origin, version))
        /\ whole => file \o todo = Image(origin, version)
  BY DEF Written
<1>2. /\ Head(todo) \in Word /\ Tail(todo) \in Seq(Word)
      /\ Append(file, Head(todo)) \in Seq(Word)
  BY <1>1
<1>3. Append(file, Head(todo)) \o Tail(todo) = file \o todo
  BY <1>1
<1> QED
  BY <1>1, <1>2, <1>3 DEF Written

LEMMA StopStep ==
    ASSUME Written(file, todo, origin, whole), NEW all \in BOOLEAN,
           all => whole /\ todo = <<>>
    PROVE  Written(file, <<>>, origin, all)
<1>1. PICK version \in {1, 2} :
        /\ version = 1 => NoneDead(origin)
        /\ file \in Seq(Word) /\ todo \in Seq(Word) /\ Prefix(file \o todo, Image(origin, version))
        /\ whole => file \o todo = Image(origin, version)
  BY DEF Written
<1> DEFINE g == Image(origin, version)
<1>3. file \o <<>> = file /\ <<>> \in Seq(Word)
  BY <1>1
<1>4. /\ file \o todo \in Seq(Word) /\ Len(file \o todo) = Len(file) + Len(todo)
      /\ Len(file) \in Nat /\ Len(todo) \in Nat /\ Block(file \o todo, 0, file)
  BY <1>1, CatBlocks
<1> HIDE DEF g
<1>5. Len(file) <= Len(g) /\ \A i \in 1 .. Len(file) : file[i] = g[i]
  <2>0. Len(file) + Len(todo) <= Len(g)
    BY <1>1, <1>4 DEF Prefix, g
  <2>1. Len(file) <= Len(g)
    BY <1>4, <2>0
  <2>2. ASSUME NEW i \in 1 .. Len(file) PROVE file[i] = g[i]
    <3>1. i \in 1 .. Len(file \o todo) /\ (file \o todo)[0 + i] = file[i] /\ 0 + i = i
      BY <1>4 DEF Block
    <3>2. (file \o todo)[i] = g[i]
      BY <1>1, <3>1 DEF Prefix, g
    <3> QED
      BY <3>1, <3>2
  <2> QED
    BY <2>1, <2>2
<1> QED
  BY <1>1, <1>3, <1>5 DEF Written, Prefix, g

LEMMA HandleStep == HandleInv /\ [Next]_vars => HandleInv'
<1> SUFFICES ASSUME HandleInv, [Next]_vars PROVE HandleInv'
  OBVIOUS
<1> DEFINE Shape == /\ pc \in {"up", "saving", "down"} /\ whole \in BOOLEAN
                    /\ status \in {"none", "added", "deleted", "saved", "loaded", "fail"}
<1>0. Sound(h) /\ Sound(origin) /\ Shape /\ FileInv
  BY DEF HandleInv
<1>1. ASSUME NEW id \in Ids, NEW v \in Vecs, NEW lv \in 0 .. MaxLevel, Add(id, v, lv)
      PROVE  HandleInv'
  <2>1. Sound(h')
    BY <1>1, AddStep
  <2>2. /\ status' \in {"added", "fail"}
        /\ UNCHANGED <<pc, file, todo, origin, whole>>
    BY <1>1 DEF Add
  <2> QED
    BY <1>0, <2>1, <2>2 DEF HandleInv, FileInv
<1>2. ASSUME NEW id \in Ids, Delete(id) PROVE HandleInv'
  <2>1. Sound(h')
    BY <1>2, DeleteStepSound
  <2>2. status' = "deleted" /\ UNCHANGED <<pc, file, todo, origin, whole>>
    BY <1>2 DEF Delete
  <2> QED
    BY <1>0, <2>1, <2>2 DEF HandleInv, FileInv
<1>3. CASE SaveOpen
  <2>1. /\ pc' = "saving" /\ file' = <<>> /\ todo' = Image(h, 2) /\ origin' = h
        /\ whole' = TRUE /\ h' = h /\ status' = status
    BY <1>3 DEF SaveOpen
  <2>2. Written(<<>>, Image(h, 2), h, TRUE)
    <3>1. 2 \in {1, 2} /\ (2 = 1 => NoneDead(h)) /\ Sound(h)
      BY <1>0
    <3>2. 2 = 2 => Written(<<>>, Image(h, 2), h, TRUE)
      BY ONLY <3>1, WholeImage
    <3> QED
      BY <3>2
  <2> QED
    BY <1>0, <2>1, <2>2 DEF HandleInv, FileInv
<1>4. CASE SaveRefused
  BY <1>0, <1>4 DEF SaveRefused, HandleInv, FileInv
<1>5. CASE SaveWrite
  <2>1. /\ pc = "saving" /\ todo # <<>> /\ file' = Append(file, Head(todo))
        /\ todo' = Tail(todo) /\ UNCHANGED <<h, pc, origin, whole, status>>
    BY <1>5 DEF SaveWrite
  <2>2. Written(file', todo', origin, whole)
    BY <1>0, <2>1, WriteStep DEF FileInv
  <2> QED
    BY <1>0, <2>1, <2>2 DEF HandleInv, FileInv
<1>6. CASE DiskFull
  <2>1. /\ pc = "saving" /\ todo # <<>> /\ todo' = <<>> /\ whole' = FALSE
        /\ UNCHANGED <<h, pc, file, origin, status>>
    BY <1>6 DEF DiskFull
  <2>2. Written(file, <<>>, origin, FALSE)
    BY <1>0, <2>1, StopStep DEF FileInv
  <2> QED
    BY <1>0, <2>1, <2>2 DEF HandleInv, FileInv
<1>7. CASE SaveClose
  <2>1. /\ pc = "saving" /\ todo = <<>> /\ pc' = "up" /\ status' = "saved"
        /\ UNCHANGED <<h, file, todo, origin, whole>>
    BY <1>7 DEF SaveClose
  <2> QED
    BY <1>0, <2>1 DEF HandleInv, FileInv
<1>8. CASE Crash
  <2>1. /\ pc' = "down" /\ h' = New /\ whole' = (whole /\ todo = <<>>) /\ todo' = <<>>
        /\ status' = "none" /\ UNCHANGED <<file, origin>>
    BY <1>8 DEF Crash
  <2>2. whole' \in BOOLEAN /\ (whole' => whole /\ todo = <<>>)
    BY <1>0, <2>1
  <2>3. CASE Written(file, todo, origin, whole)
    <3>1. Written(file, <<>>, origin, whole')
      BY <2>2, <2>3, StopStep
    <3> QED
      BY <1>0, <2>1, <2>2, <3>1, NewSound DEF HandleInv, FileInv
  <2>4. CASE file = NoFile
    BY <1>0, <2>1, <2>2, <2>4, NewSound DEF HandleInv, FileInv
  <2> QED
    BY <1>0, <2>3, <2>4 DEF FileInv
<1>9. CASE Create
  <2>1. pc = "down" /\ pc' = "up" /\ UNCHANGED <<h, file, todo, origin, whole, status>>
    BY <1>9 DEF Create
  <2> QED
    BY <1>0, <2>1 DEF HandleInv, FileInv
<1>10. CASE Load
  <2>1. pc # "saving" /\ UNCHANGED <<file, todo, origin, whole>>
    BY <1>10 DEF Load
  <2>2. CASE Loadable(file)
    <3>1. h' = Loaded(file) /\ pc' = "up" /\ status' = "loaded"
      BY <1>10, <2>2 DEF Load
    <3>2. Sound(h')
      BY <2>1, <2>2, <3>1, LoadStep
    <3> QED
      BY <1>0, <2>1, <3>1, <3>2 DEF HandleInv, FileInv
  <2>3. CASE ~ Loadable(file)
    <3>1. status' = "fail" /\ UNCHANGED <<h, pc>>
      BY <1>10, <2>3 DEF Load
    <3> QED
      BY <1>0, <2>1, <3>1 DEF HandleInv, FileInv
  <2> QED
    BY <2>2, <2>3
<1>11. CASE UNCHANGED vars
  BY <1>0, <1>11 DEF vars, HandleInv, FileInv
<1> QED
  BY <1>1, <1>2, <1>3, <1>4, <1>5, <1>6, <1>7, <1>8, <1>9, <1>10, <1>11 DEF Next

LEMMA HandleAlways == Spec => []HandleInv
BY HandleInit, HandleStep, PTL DEF Spec

\* Every handle, new, loaded, or changed since in any way, is sound: its id map
\* is exact although an id may own several tombstones, its count of live vectors
\* right, its storage written, its entry point on the top level (vecdb_load of
\* vecdb.c, vecdb_add, vecdb_delete).
THEOREM IndexAlwaysSound == Spec => []IndexSound
<1>1. HandleInv => IndexSound
  BY SoundIs DEF HandleInv, IndexSound
<1> QED
  BY <1>1, HandleAlways, PTL

\* A file that was written to the end is accepted by vecdb_load, whichever index
\* it was written from: the caps on list lengths, the range check on links and
\* the length of the tombstones refuse nothing that vecdb_save can write.
THEOREM WholeFilesLoad == Spec => []WholeFileLoads
<1>1. ASSUME HandleInv PROVE WholeFileLoads
  <2> SUFFICES ASSUME file # NoFile, pc # "saving", whole PROVE Loadable(file)
    BY DEF WholeFileLoads
  <2>1. Sound(origin) /\ todo = <<>>
    BY <1>1 DEF HandleInv, FileInv
  <2>2. PICK version \in {1, 2} : file \in Seq(Word) /\ file \o todo = Image(origin, version)
    BY <1>1 DEF HandleInv, FileInv, Written
  <2>3. file \o todo = file
    BY <2>1, <2>2
  <2>4. file = Image(origin, version)
    BY <2>2, <2>3
  <2> QED
    BY <2>1, <2>4, WholeLoads
<1> QED
  BY <1>1, HandleAlways, PTL

\* A load gives back the index the file was last opened for writing with, all of
\* it, or fails: no crash and no full disk, at whatever write, leaves a file from
\* which vecdb_load makes part of an index.
THEOREM LoadsAreSaves == Spec => LoadedIsSaved
<1>1. HandleInv /\ [Next]_vars => [Load /\ Loadable(file) => SameIndex(h', origin)]_vars
  <2> SUFFICES ASSUME HandleInv, Load, Loadable(file) PROVE SameIndex(h', origin)
    OBVIOUS
  <2>1. pc # "saving" /\ h' = Loaded(file)
    BY DEF Load
  <2> QED
    BY <2>1, LoadStep
<1> QED
  BY <1>1, HandleAlways, PTL DEF Spec, LoadedIsSaved
-----------------------------------------------------------------------------
(***************************************************************************)
(* The Python class.  The loops that fill the database keep it well        *)
(* formed, and a database is told apart by the items it stores.            *)
(***************************************************************************)
LEMMA PyParams ==
    /\ Ids \subseteq Nat /\ Threads \subseteq Int /\ Garbage \notin Slot /\ NoVec \notin Vecs
    /\ InitialCap \in Nat /\ InitialCap > 0 /\ DefaultCap \in Nat /\ DefaultCap > 0
    /\ QB \in Nat /\ QB > 0 /\ Procs \in Nat /\ Procs > 0
    /\ Metric \in [Queries -> [Vecs -> Int]] /\ MaxBatch \in Nat
BY BindingsAssumption

\* The growth loop: it keeps what is stored, and as many doublings as there are
\* new vectors are enough.
RoomOp(c, f, r) == IF f.count + c.n > f.cap THEN Grow(f) ELSE f
RoomInv(c, k, f) ==
    /\ Good(f, f.count) /\ f.cap > 0 /\ f.count = c.e.count /\ f.alive = c.e.alive
    /\ f.map = c.e.map /\ Stored(f) = Stored(c.e)
    /\ f.count + c.n <= f.cap \/ f.cap >= c.e.cap + k

Rooms == INSTANCE FoldFacts WITH Op <- RoomOp, Inv <- RoomInv

LEMMA ReserveFacts ==
    ASSUME NEW e, Good(e, e.count), e.cap > 0, NEW n \in Nat, NEW j \in Nat
    PROVE  LET f == Reserve(e, n, j) IN
           /\ Good(f, f.count) /\ f.cap > 0 /\ f.count = e.count /\ f.alive = e.alive
           /\ f.map = e.map /\ Stored(f) = Stored(e)
           /\ j >= n => f.count + n <= f.cap
<1> DEFINE c == [e |-> e, n |-> n]
           seq == [r \in 1 .. j |-> r]
           f == Reserve(e, n, j)
<1>1. c.e = e /\ c.n = n
  OBVIOUS
<1>2. DOMAIN seq = 1 .. j
  OBVIOUS
<1>3. e.count \in Nat /\ e.cap \in Nat /\ e.count <= e.cap
  BY DEF Good, IsBody
<1>4. Rooms!Fold(c, e, seq) = f
  BY DEF Reserve, RoomOp, Rooms!Fold, Rooms!FoldLeft, FoldLeft, MapThenFoldSet,
         Rooms!MapThenFoldSet, Max, Rooms!Max
<1> HIDE DEF c, seq, f
<1>5. RoomInv(c, 0, e)
  BY <1>1, <1>3 DEF RoomInv
<1>6. ASSUME NEW x, NEW k \in 0 .. j - 1, RoomInv(c, k, x)
      PROVE  RoomInv(c, k + 1, RoomOp(c, x, seq[k + 1]))
  <2>1. /\ Good(x, x.count) /\ x.cap > 0 /\ x.count = e.count /\ x.alive = e.alive
        /\ x.map = e.map /\ Stored(x) = Stored(e)
        /\ x.count + n <= x.cap \/ x.cap >= e.cap + k
    BY <1>1, <1>6 DEF RoomInv
  <2>2. x.cap \in Nat
    BY <2>1 DEF Good, IsBody
  <2>3. CASE x.count + n > x.cap
    <3>1. RoomOp(c, x, seq[k + 1]) = Grow(x)
      BY <1>1, <2>3 DEF RoomOp
    <3>2. /\ Good(Grow(x), x.count) /\ Grow(x).cap = x.cap * 2 /\ Grow(x).count = x.count
          /\ Grow(x).alive = x.alive /\ Grow(x).map = x.map /\ Stored(Grow(x)) = Stored(x)
      BY <2>1, GrowGood, GrowStored
    <3>3. x.cap * 2 >= e.cap + (k + 1) /\ x.cap * 2 > 0
      BY <1>3, <2>1, <2>2, <2>3
    <3> QED
      BY <1>1, <2>1, <3>1, <3>2, <3>3 DEF RoomInv
  <2>4. CASE ~ (x.count + n > x.cap)
    <3>1. RoomOp(c, x, seq[k + 1]) = x
      BY <1>1, <2>4 DEF RoomOp
    <3>2. x.count + n <= x.cap
      BY <1>3, <2>1, <2>2, <2>4
    <3> QED
      BY <1>1, <2>1, <3>1, <3>2 DEF RoomInv
  <2> QED
    BY <2>3, <2>4
<1>7. RoomInv(c, j, Rooms!Fold(c, e, seq))
  <2>1. \A x : \A k \in 0 .. j - 1 : RoomInv(c, k, x) => RoomInv(c, k + 1, RoomOp(c, x, seq[k + 1]))
    BY <1>6
  <2> QED
    BY <1>2, <1>5, <2>1, Rooms!FoldInv
<1>8. /\ Good(f, f.count) /\ f.cap > 0 /\ f.count = e.count /\ f.alive = e.alive
      /\ f.map = e.map /\ Stored(f) = Stored(e)
      /\ f.count + n <= f.cap \/ f.cap >= e.cap + j
  BY <1>1, <1>4, <1>7 DEF RoomInv
<1>9. f.cap \in Nat
  BY <1>8 DEF Good, IsBody
<1>10. j >= n => f.count + n <= f.cap
  BY <1>3, <1>8, <1>9
<1> QED
  BY <1>8, <1>10 DEF f

\* The loop that writes a batch behind the count.
FillOp(c, f, j) == Fill(f, c.e.count + j - 1, c.b[j].id, c.b[j].vec)
FillInv(c, k, f) ==
    /\ Good(f, c.e.count + k) /\ f.cap = c.e.cap /\ f.count = c.e.count /\ f.alive = c.e.alive
    /\ LiveSlots(f) = LiveSlots(c.e)
    /\ \A s \in 0 .. c.e.count - 1 : f.slot[s] = c.e.slot[s]
    /\ \A j \in 1 .. k : f.slot[c.e.count + j - 1]
                            = [id |-> c.b[j].id, vec |-> c.b[j].vec, dead |-> FALSE]
    /\ \A j \in k + 1 .. c.n : Absent(f, c.b[j].id)

Fills == INSTANCE FoldFacts WITH Op <- FillOp, Inv <- FillInv

LEMMA InsertFacts ==
    ASSUME NEW e, Good(e, e.count), NEW n \in Nat, NEW b \in [1 .. n -> Items],
           e.count + n <= e.cap, ~ Duplicate(e, b)
    PROVE  LET f == Insert(e, b) IN
           /\ Good(f, f.count) /\ f.cap = e.cap /\ f.count = e.count + n
           /\ f.alive = e.alive + n
           /\ Stored(f) = Stored(e) \cup {b[j] : j \in 1 .. n}
           /\ \A j \in 1 .. n : Absent(e, b[j].id)
           /\ \A j, k \in 1 .. n : b[j].id = b[k].id => j = k
<1> DEFINE c == [e |-> e, b |-> b, n |-> n]
           seq == [j \in 1 .. Len(b) |-> j]
           g == FoldLeft(LAMBDA f, j : Fill(f, e.count + j - 1, b[j].id, b[j].vec), e, seq)
<1>1. c.e = e /\ c.b = b /\ c.n = n
  OBVIOUS
<1>2. Len(b) = n /\ DOMAIN seq = 1 .. n /\ \A k \in 0 .. n - 1 : seq[k + 1] = k + 1
  OBVIOUS
<1>3. e.count \in Nat /\ e.cap \in Nat /\ e.count <= e.cap /\ e.count + n \in Nat
  BY DEF Good, IsBody
<1>4. /\ \A j \in 1 .. n : Absent(e, b[j].id)
      /\ \A j, k \in 1 .. n : b[j].id = b[k].id => j = k
  BY <1>2 DEF Duplicate
<1>5. \A j \in 1 .. n : /\ b[j].id \in Ids /\ b[j].vec \in Vecs
                        /\ b[j] = [id |-> b[j].id, vec |-> b[j].vec]
  BY DEF Items
<1>6. Fills!Fold(c, e, seq) = g
  BY DEF FillOp, Fills!Fold, Fills!FoldLeft, FoldLeft, MapThenFoldSet, Fills!MapThenFoldSet,
         Max, Fills!Max
<1>7. Insert(e, b) = Count(g, n)
  BY <1>2 DEF Insert
<1> HIDE DEF c, seq, g
<1>8. FillInv(c, 0, e)
  BY <1>1, <1>3, <1>4 DEF FillInv
<1>9. ASSUME NEW x, NEW k \in 0 .. n - 1, FillInv(c, k, x)
      PROVE  FillInv(c, k + 1, FillOp(c, x, seq[k + 1]))
  <2> DEFINE m == e.count + k
             w == b[k + 1]
             y == Fill(x, m, w.id, w.vec)
  <2>1. /\ Good(x, m) /\ x.cap = e.cap /\ x.count = e.count /\ x.alive = e.alive
        /\ LiveSlots(x) = LiveSlots(e)
        /\ \A s \in 0 .. e.count - 1 : x.slot[s] = e.slot[s]
        /\ \A j \in 1 .. k : x.slot[e.count + j - 1]
                                = [id |-> b[j].id, vec |-> b[j].vec, dead |-> FALSE]
        /\ \A j \in k + 1 .. n : Absent(x, b[j].id)
    BY <1>1, <1>9 DEF FillInv
  <2>2. /\ k \in Nat /\ k + 1 \in 1 .. n /\ k + 1 \in k + 1 .. n /\ m \in Nat /\ m < e.cap
        /\ e.count + (k + 1) - 1 = m /\ m + 1 = e.count + (k + 1)
    BY <1>3
  <2>3. FillOp(c, x, seq[k + 1]) = y
    BY <1>1, <1>2, <2>2 DEF FillOp
  <2>4. w.id \in Ids /\ w.vec \in Vecs /\ Absent(x, w.id)
    BY <1>5, <2>1, <2>2
  <2> HIDE DEF m, w, y
  <2>5. /\ Good(y, m + 1) /\ LiveSlots(y) = LiveSlots(x)
        /\ y.cap = x.cap /\ y.count = x.count /\ y.alive = x.alive
        /\ y.slot[m] = [id |-> w.id, vec |-> w.vec, dead |-> FALSE]
        /\ \A s \in 0 .. x.cap - 1 : s # m => y.slot[s] = x.slot[s]
        /\ \A i \in Ids : y.map[i] = IF i = w.id THEN m ELSE x.map[i]
    BY <2>1, <2>2, <2>4, FillGood DEF y
  <2>6. \A s \in 0 .. e.count - 1 : y.slot[s] = e.slot[s]
    <3>1. \A s \in 0 .. e.count - 1 : s \in 0 .. x.cap - 1 /\ s # m
      BY <1>3, <2>1, <2>2 DEF m
    <3> QED
      BY <2>1, <2>5, <3>1
  <2>7. ASSUME NEW j \in 1 .. k + 1
        PROVE  y.slot[e.count + j - 1] = [id |-> b[j].id, vec |-> b[j].vec, dead |-> FALSE]
    <3>1. CASE j = k + 1
      <4>1. e.count + j - 1 = m /\ b[j] = w
        BY <2>2, <3>1 DEF w
      <4> QED
        BY <2>5, <4>1
    <3>2. CASE j # k + 1
      <4>0. x.cap = e.cap /\ j \in Nat /\ j >= 1 /\ j <= k
        BY <2>1, <2>2, <3>2
      <4>1. j \in 1 .. k /\ e.count + j - 1 \in 0 .. x.cap - 1 /\ e.count + j - 1 # m
        BY <1>3, <2>2, <4>0
      <4> QED
        BY <2>1, <2>5, <4>1
    <3> QED
      BY <3>1, <3>2
  <2>8. ASSUME NEW j \in (k + 1) + 1 .. n PROVE Absent(y, b[j].id)
    <3>1. j \in 1 .. n /\ j \in k + 1 .. n /\ j # k + 1
      BY <2>2
    <3>2. b[j].id # w.id /\ b[j].id \in Ids
      BY <1>4, <1>5, <2>2, <3>1 DEF w
    <3> QED
      BY <2>1, <2>5, <3>1, <3>2 DEF Absent
  <2>9. Good(y, e.count + (k + 1))
    BY <2>2, <2>5
  <2> QED
    BY <1>1, <2>1, <2>3, <2>5, <2>6, <2>7, <2>8, <2>9 DEF FillInv
<1>10. FillInv(c, n, g)
  <2>1. \A x : \A k \in 0 .. n - 1 : FillInv(c, k, x) => FillInv(c, k + 1, FillOp(c, x, seq[k + 1]))
    BY <1>9
  <2> QED
    BY <1>2, <1>6, <1>8, <2>1, Fills!FoldInv
<1>11. /\ Good(g, e.count + n) /\ g.cap = e.cap /\ g.count = e.count /\ g.alive = e.alive
       /\ LiveSlots(g) = LiveSlots(e)
       /\ \A s \in 0 .. e.count - 1 : g.slot[s] = e.slot[s]
       /\ \A j \in 1 .. n : g.slot[e.count + j - 1]
                               = [id |-> b[j].id, vec |-> b[j].vec, dead |-> FALSE]
  BY <1>1, <1>10 DEF FillInv
<1> DEFINE new == e.count .. e.count + n - 1
           f == Count(g, n)
<1>12. /\ \A s \in new : s - e.count + 1 \in 1 .. n /\ e.count + (s - e.count + 1) - 1 = s
       /\ \A j \in 1 .. n : e.count + j - 1 \in new
  BY <1>3, SMTT(30)
<1>13. \A s \in new : IsLive(g, s)
  <2> SUFFICES ASSUME NEW s \in new PROVE IsLive(g, s)
    OBVIOUS
  <2>1. PICK j \in 1 .. n : s = e.count + j - 1
    BY <1>12
  <2>2. g.slot[s] = [id |-> b[j].id, vec |-> b[j].vec, dead |-> FALSE]
    BY <1>11, <2>1
  <2> QED
    BY <1>5, <2>2 DEF IsLive, Slot
<1>14. /\ Good(f, e.count + n) /\ f.cap = e.cap /\ f.count = e.count + n
       /\ f.alive = e.alive + n /\ f.slot = g.slot
       /\ LiveSlots(f) = LiveSlots(e) \cup new
  BY <1>11, <1>13, CountGood
<1> HIDE DEF new, f
<1>15. Stored(f) = Stored(e) \cup {b[j] : j \in 1 .. n}
  <2>1. \A s \in LiveSlots(e) : f.slot[s] = e.slot[s]
    BY <1>11, <1>14 DEF LiveSlots
  <2>2. \A j \in 1 .. n : [id |-> f.slot[e.count + j - 1].id, vec |-> f.slot[e.count + j - 1].vec] = b[j]
    <3> SUFFICES ASSUME NEW j \in 1 .. n
                 PROVE  [id |-> f.slot[e.count + j - 1].id, vec |-> f.slot[e.count + j - 1].vec] = b[j]
      OBVIOUS
    <3>1. f.slot[e.count + j - 1] = [id |-> b[j].id, vec |-> b[j].vec, dead |-> FALSE]
      BY <1>11, <1>14
    <3> QED
      BY <1>5, <3>1
  <2>3. \A s \in new : \E j \in 1 .. n : s = e.count + j - 1
    BY <1>12
  <2>4. {[id |-> f.slot[s].id, vec |-> f.slot[s].vec] : s \in new} = {b[j] : j \in 1 .. n}
    <3> DEFINE item(s) == [id |-> f.slot[s].id, vec |-> f.slot[s].vec]
    <3>1. \A j \in 1 .. n : item(e.count + j - 1) = b[j] /\ e.count + j - 1 \in new
      BY <1>12, <2>2
    <3>2. \A s \in new : \E j \in 1 .. n : item(s) = b[j]
      BY <2>3, <3>1
    <3> HIDE DEF item
    <3>3. {item(s) : s \in new} = {b[j] : j \in 1 .. n}
      BY <3>1, <3>2
    <3> QED
      BY <3>3 DEF item
  <2>5. Stored(f) = {[id |-> f.slot[s].id, vec |-> f.slot[s].vec] : s \in LiveSlots(e)}
                      \cup {[id |-> f.slot[s].id, vec |-> f.slot[s].vec] : s \in new}
    BY <1>14 DEF Stored
  <2> QED
    BY <2>1, <2>4, <2>5 DEF Stored
<1> QED
  BY <1>4, <1>7, <1>14, <1>15 DEF f

\* The loop that copies the live vectors.
CopyOp(c, f, s) == IF IsLive(c, s) THEN AddTo(f, c.slot[s].id, c.slot[s].vec) ELSE f
Ahead(e, k) == {s \in LiveSlots(e) : s < k}
CopyInv(c, k, f) ==
    /\ Good(f, f.count) /\ f.cap > 0 /\ f.alive = Cardinality(Ahead(c, k))
    /\ Stored(f) = {[id |-> c.slot[s].id, vec |-> c.slot[s].vec] : s \in Ahead(c, k)}

Copies == INSTANCE FoldFacts WITH Op <- CopyOp, Inv <- CopyInv

LEMMA CompactedFacts ==
    ASSUME NEW e, Good(e, e.count), e.cap > 0
    PROVE  LET f == Compacted(e) IN
           /\ Good(f, f.count) /\ f.cap > 0 /\ f.alive = e.alive /\ Stored(f) = Stored(e)
<1> DEFINE n == e.count
           seq == [s \in 1 .. n |-> s - 1]
           f == Compacted(e)
           base == Fresh(CompactCap(e))
<1>1. CASE e.alive = e.count
  BY <1>1 DEF Compacted
<1>2. CASE e.alive # e.count
  <2>1. /\ n \in Nat /\ e.alive \in Nat /\ e.alive = Cardinality(LiveSlots(e))
        /\ IsFiniteSet(LiveSlots(e)) /\ MapExactFor(e, n) /\ LiveSlots(e) = Mapped(e, n)
        /\ \A s \in 0 .. n - 1 : e.slot[s] \in Slot
    BY LiveFinite DEF Good, IsBody, LiveSlots, Mapped
  <2>2. CompactCap(e) \in Nat /\ CompactCap(e) > 0
    BY <2>1, PyParams DEF CompactCap
  <2>3. f = Copies!Fold(e, base, seq)
    BY <1>2 DEF Compacted, CopyOp, Copies!Fold, Copies!FoldLeft, FoldLeft, MapThenFoldSet,
                Copies!MapThenFoldSet, Max, Copies!Max
  <2>4. DOMAIN seq = 1 .. n /\ \A k \in 0 .. n - 1 : seq[k + 1] = k
    BY <2>1
  <2>5. CopyInv(e, 0, base)
    <3>1. Good(base, 0) /\ base.cap > 0 /\ base.count = 0 /\ base.alive = 0
      BY <2>2, FreshGood
    <3>2. Ahead(e, 0) = {} /\ LiveSlots(base) = {}
      BY <3>1 DEF Ahead, LiveSlots
    <3> HIDE DEF base
    <3>3. Stored(base) = {}
      BY <3>2 DEF Stored
    <3> QED
      BY <3>1, <3>2, <3>3, FS_EmptySet DEF CopyInv
  <2> HIDE DEF seq, f, base, n
  <2>6. ASSUME NEW x, NEW k \in 0 .. n - 1, CopyInv(e, k, x)
        PROVE  CopyInv(e, k + 1, CopyOp(e, x, seq[k + 1]))
    <3> DEFINE y == CopyOp(e, x, seq[k + 1])
               id == e.slot[k].id
               v == e.slot[k].vec
    <3>1. /\ Good(x, x.count) /\ x.cap > 0 /\ x.alive = Cardinality(Ahead(e, k))
          /\ Stored(x) = {[id |-> e.slot[s].id, vec |-> e.slot[s].vec] : s \in Ahead(e, k)}
      BY <2>6 DEF CopyInv
    <3>2. k \in Nat /\ e.slot[k] \in Slot /\ k \in 0 .. n - 1
      BY <2>1
    <3>3. CASE IsLive(e, k)
      <4>1. y = AddTo(x, id, v)
        BY <2>4, <3>3 DEF CopyOp
      <4>2. id \in Ids /\ v \in Vecs /\ k \in LiveSlots(e)
        BY <3>2, <3>3 DEF Slot, LiveSlots, n
      <4>3. Ahead(e, k + 1) = Ahead(e, k) \cup {k} /\ k \notin Ahead(e, k)
        BY <3>2, <4>2 DEF Ahead, LiveSlots
      <4>4. \A s \in Ahead(e, k) : e.slot[s].id # id
        BY <2>1, <4>2, <4>3 DEF MapExactFor, Ahead
      <4>5. Absent(x, id)
        <5>1. \A w \in Stored(x) : w.id # id
          BY <3>1, <4>4
        <5> HIDE DEF id
        <5> QED
          BY <3>1, <4>2, <5>1, HeldAbsent, PyParams
      <4>6. IsFiniteSet(Ahead(e, k))
        BY <2>1, FS_Subset DEF Ahead
      <4> HIDE DEF y, id, v
      <4>7. /\ Good(y, y.count) /\ y.cap >= x.cap
            /\ Stored(y) = Stored(x) \cup {[id |-> id, vec |-> v]}
            /\ y.alive = x.alive + 1
        <5>1. /\ Good(AddTo(x, id, v), AddTo(x, id, v).count) /\ AddTo(x, id, v).cap >= x.cap
          BY <3>1, <4>2, AddGood
        <5>2. /\ Stored(AddTo(x, id, v)) = Stored(x) \cup {[id |-> id, vec |-> v]}
              /\ AddTo(x, id, v).alive = x.alive + 1
          BY <3>1, <4>2, <4>5, AddStored
        <5> QED
          BY <4>1, <5>1, <5>2
      <4>8. y.cap > 0
        BY <3>1, <4>7 DEF Good, IsBody
      <4>9. Cardinality(Ahead(e, k + 1)) = Cardinality(Ahead(e, k)) + 1
        BY <4>3, <4>6, FS_AddElement
      <4>10. Stored(y) = {[id |-> e.slot[s].id, vec |-> e.slot[s].vec] : s \in Ahead(e, k + 1)}
        BY <3>1, <4>3, <4>7 DEF id, v
      <4> QED
        BY <3>1, <4>7, <4>8, <4>9, <4>10 DEF CopyInv, y
    <3>4. CASE ~ IsLive(e, k)
      <4>1. y = x
        BY <2>4, <3>4 DEF CopyOp
      <4>2. Ahead(e, k + 1) = Ahead(e, k)
        BY <3>2, <3>4 DEF Ahead, LiveSlots
      <4> HIDE DEF y
      <4> QED
        BY <3>1, <4>1, <4>2 DEF CopyInv, y
    <3> QED
      BY <3>3, <3>4
  <2>7. CopyInv(e, n, f)
    <3>1. \A x : \A k \in 0 .. n - 1 : CopyInv(e, k, x) => CopyInv(e, k + 1, CopyOp(e, x, seq[k + 1]))
      BY <2>6
    <3> QED
      BY <2>1, <2>3, <2>4, <2>5, <3>1, Copies!FoldInv
  <2>8. Ahead(e, n) = LiveSlots(e)
    BY <2>1 DEF Ahead, LiveSlots, n
  <2> QED
    BY <2>1, <2>7, <2>8 DEF CopyInv, Stored, f
<1> QED
  BY <1>1, <1>2
-----------------------------------------------------------------------------
(***************************************************************************)
(* Between two C calls the database is well formed, and a list delete has  *)
(* removed exactly the ids it has passed.                                  *)
(***************************************************************************)
JobInv == /\ busy \in BOOLEAN /\ job.next \in Nat
          /\ job = [ids |-> job.ids, next |-> job.next, before |-> job.before]
          /\ job.ids # <<>> => job.ids \in Lists
          /\ busy => job.ids # <<>> /\ job.next \in 1 .. Len(job.ids) /\ ~ plain
          /\ DeleteExact

PyInv == /\ Good(d, d.count) /\ d.cap > 0
         /\ JobInv
         /\ DefaultsDense

IdsOf(e) == {x.id : x \in Stored(e)}

LEMMA SlotIds ==
    ASSUME NEW e
    PROVE  {e.slot[s].id : s \in LiveSlots(e)} = IdsOf(e)
<1>1. \A s \in LiveSlots(e) : [id |-> e.slot[s].id, vec |-> e.slot[s].vec].id = e.slot[s].id
  OBVIOUS
<1> QED
  BY <1>1 DEF IdsOf, Stored

LEMMA LiveIdsOf == LiveIds = IdsOf(d) /\ LiveIds' = IdsOf(d')
<1>1. {d.slot[s].id : s \in LiveSlots(d)} = IdsOf(d)
  BY SlotIds
<1>2. {d'.slot[s].id : s \in LiveSlots(d')} = IdsOf(d')
  BY SlotIds
<1> QED
  BY <1>1, <1>2 DEF LiveIds

\* DeleteExact, of a delete that has come to j.
Exact(j, live, running, outcome) ==
    LET done == {j.ids[i] : i \in 1 .. j.next - 1}
    IN  /\ live = j.before \ done
        /\ Cardinality(done) = j.next - 1 /\ done \subseteq j.before
        /\ ~ running /\ outcome = "fail" => j.ids[j.next] \notin j.before \ done
        /\ ~ running /\ outcome # "fail" => j.next > Len(j.ids)

LEMMA ExactIs ==
    /\ DeleteExact <=> (job.ids # <<>> => Exact(job, LiveIds, busy, ret))
    /\ DeleteExact' <=> (job'.ids # <<>> => Exact(job', LiveIds', busy', ret'))
BY DEF DeleteExact, Exact

LEMMA AbsentIds ==
    ASSUME NEW e, Good(e, e.count), NEW id \in Ids
    PROVE  Absent(e, id) <=> id \notin IdsOf(e)
BY HeldAbsent, PyParams DEF IdsOf

LEMMA BatchFacts ==
    ASSUME NEW b \in Batches
    PROVE  /\ Len(b) \in Nat /\ Len(b) >= 1 /\ Len(b) <= MaxBatch
           /\ b \in [1 .. Len(b) -> Items] /\ Duplicate(d, b) \in BOOLEAN
<1>1. PICK n \in 1 .. MaxBatch : b \in [1 .. n -> Items]
  BY DEF Batches
<1>2. n \in Nat /\ n >= 1 /\ n <= MaxBatch
  BY PyParams
<1>3. Len(b) = n
  BY <1>1, <1>2
<1> QED
  BY <1>1, <1>2, <1>3 DEF Duplicate

LEMMA ListFacts ==
    ASSUME NEW l \in Lists
    PROVE  Len(l) \in Nat /\ Len(l) >= 1 /\ l \in [1 .. Len(l) -> Ids] /\ l # <<>>
<1>1. PICK n \in 1 .. MaxBatch : l \in [1 .. n -> Ids]
  BY DEF Lists
<1>2. n \in Nat /\ n >= 1
  BY PyParams
<1>3. Len(l) = n
  BY <1>1, <1>2
<1>4. Len(<<>>) = 0
  OBVIOUS
<1> QED
  BY <1>1, <1>2, <1>3, <1>4

\* A bulk insert stores all of the batch under new ids, or changes nothing that
\* can be seen.
LEMMA BulkFacts ==
    ASSUME PyInv, NEW b \in Batches, NEW n, BulkInsert(b, n)
    PROVE  /\ Good(d', d'.count) /\ d'.cap > 0
           /\ ~ busy /\ job' = NoJob /\ UNCHANGED busy
           /\ \/ /\ ret' = "fail" /\ UNCHANGED team
                 /\ Stored(d') = Stored(d) /\ d'.alive = d.alive
              \/ /\ ret' = "bulk"
                 /\ Stored(d') = Stored(d) \cup {b[j] : j \in 1 .. Len(b)}
                 /\ d'.alive = d.alive + Len(b) /\ d'.count = d.count + Len(b)
                 /\ \A j \in 1 .. Len(b) : Absent(d, b[j].id)
                 /\ \A j, k \in 1 .. Len(b) : b[j].id = b[k].id => j = k
<1> DEFINE m == Len(b)
           e == Reserve(d, m, m)
<1>1. m \in Nat /\ b \in [1 .. m -> Items] /\ Good(d, d.count) /\ d.cap > 0
  BY BatchFacts DEF PyInv
<1>2. /\ ~ busy /\ job' = NoJob /\ UNCHANGED busy
      /\ IF Duplicate(e, b) THEN d' = e /\ ret' = "fail" /\ UNCHANGED team
                            ELSE d' = Insert(e, b) /\ ret' = "bulk"
  BY DEF BulkInsert
<1> HIDE DEF m
<1>3. /\ Good(e, e.count) /\ e.cap > 0 /\ e.count = d.count /\ e.alive = d.alive
      /\ e.map = d.map /\ Stored(e) = Stored(d) /\ e.count + m <= e.cap
  <2>1. m >= m
    BY <1>1
  <2> QED
    BY <1>1, <2>1, ReserveFacts
<1> HIDE DEF e
<1>4. CASE Duplicate(e, b)
  BY <1>2, <1>3, <1>4
<1>5. CASE ~ Duplicate(e, b)
  <2> DEFINE f == Insert(e, b)
  <2>1. /\ Good(f, f.count) /\ f.cap = e.cap /\ f.count = e.count + m
        /\ f.alive = e.alive + m
        /\ Stored(f) = Stored(e) \cup {b[j] : j \in 1 .. m}
        /\ \A j \in 1 .. m : Absent(e, b[j].id)
        /\ \A j, k \in 1 .. m : b[j].id = b[k].id => j = k
    BY ONLY <1>1, <1>3, <1>5, InsertFacts
  <2>2. d' = f /\ ret' = "bulk"
    BY <1>2, <1>5
  <2>3. \A j \in 1 .. m : Absent(d, b[j].id)
    BY <1>3, <2>1 DEF Absent
  <2> HIDE DEF f
  <2> QED
    BY <1>2, <1>3, <2>1, <2>2, <2>3 DEF m
<1> QED
  BY <1>4, <1>5

\* After a call that is not part of a list delete.
LEMMA NoJobInv ==
    ASSUME job' = NoJob, busy' \in BOOLEAN, ~ busy'
    PROVE  JobInv'
<1>1. /\ job'.ids = <<>> /\ job'.next = 1
      /\ job' = [ids |-> job'.ids, next |-> job'.next, before |-> job'.before]
  BY DEF NoJob
<1>2. DeleteExact'
  BY <1>1, ExactIs
<1> QED
  BY <1>1, <1>2 DEF JobInv

LEMMA BulkStep ==
    ASSUME PyInv, NEW b \in Batches, NEW n, BulkInsert(b, n)
    PROVE  Good(d', d'.count) /\ d'.cap > 0 /\ JobInv'
<1>1. Good(d', d'.count) /\ d'.cap > 0 /\ ~ busy /\ job' = NoJob /\ busy' = busy
  BY BulkFacts
<1>2. busy \in BOOLEAN
  BY DEF PyInv, JobInv
<1> QED
  BY <1>1, <1>2, NoJobInv

\* The next ids after 0 .. alive - 1 are appended to them.
LEMMA AddDefaultStep ==
    ASSUME PyInv, NEW n \in 1 .. MaxBatch, NEW vs \in [1 .. n -> Vecs], AddDefault(vs)
    PROVE  PyInv'
<1> DEFINE b == Defaults(vs)
<1>1. n \in Nat /\ n >= 1 /\ Len(vs) = n /\ d.alive \in Nat
  BY PyParams DEF PyInv, Good, IsBody
<1>2. b = [j \in 1 .. n |-> [id |-> d.alive + j - 1, vec |-> vs[j]]]
  BY <1>1 DEF Defaults
<1>3. b \in Batches /\ BulkInsert(b, 1) /\ plain' = plain
  BY DEF AddDefault
<1> HIDE DEF b
<1>4. Len(b) = n /\ \A j \in 1 .. n : b[j].id = d.alive + j - 1
  BY <1>1, <1>2
<1>5. /\ Good(d', d'.count) /\ d'.cap > 0 /\ JobInv'
  BY <1>3, BulkStep
<1>6. \/ Stored(d') = Stored(d) /\ d'.alive = d.alive
      \/ /\ Stored(d') = Stored(d) \cup {b[j] : j \in 1 .. n}
         /\ d'.alive = d.alive + n
  BY <1>3, <1>4, BulkFacts
<1>7. LiveIds = IdsOf(d) /\ LiveIds' = IdsOf(d')
  BY LiveIdsOf
<1>8. ASSUME plain' PROVE LiveIds' = 0 .. d'.alive - 1
  <2>1. IdsOf(d) = 0 .. d.alive - 1
    BY <1>3, <1>7, <1>8 DEF PyInv, DefaultsDense
  <2>2. CASE Stored(d') = Stored(d) /\ d'.alive = d.alive
    BY <1>7, <2>1, <2>2 DEF IdsOf
  <2>3. CASE /\ Stored(d') = Stored(d) \cup {b[j] : j \in 1 .. n}
             /\ d'.alive = d.alive + n
    <3>1. IdsOf(d') = IdsOf(d) \cup {b[j].id : j \in 1 .. n}
      BY <2>3 DEF IdsOf
    <3>2. {b[j].id : j \in 1 .. n} = d.alive .. d.alive + n - 1
      <4>1. \A i \in d.alive .. d.alive + n - 1 :
               i - d.alive + 1 \in 1 .. n /\ d.alive + (i - d.alive + 1) - 1 = i
        BY <1>1
      <4>2. \A j \in 1 .. n : d.alive + j - 1 \in d.alive .. d.alive + n - 1
        BY <1>1
      <4> QED
        BY <1>4, <4>1, <4>2
    <3>3. (0 .. d.alive - 1) \cup (d.alive .. d.alive + n - 1) = 0 .. (d.alive + n) - 1
      BY <1>1
    <3> QED
      BY <1>7, <2>1, <2>3, <3>1, <3>2, <3>3
  <2> QED
    BY <1>6, <2>2, <2>3
<1> QED
  BY <1>5, <1>8 DEF PyInv, DefaultsDense

\* Steps after which the same items are stored.
LEMMA SameDense ==
    ASSUME DefaultsDense, plain' => plain, Stored(d') = Stored(d), d'.alive = d.alive
    PROVE  DefaultsDense'
<1>1. LiveIds = IdsOf(d) /\ LiveIds' = IdsOf(d')
  BY LiveIdsOf
<1>2. IdsOf(d') = IdsOf(d)
  BY DEF IdsOf
<1> QED
  BY <1>1, <1>2 DEF DefaultsDense

LEMMA NoMemoryStep ==
    ASSUME PyInv, NEW b \in Batches, NEW j \in 0 .. MaxBatch, BulkNoMemory(b, j)
    PROVE  PyInv' /\ Stored(d') = Stored(d) /\ d'.alive = d.alive
<1>1. /\ ~ busy /\ d' = Reserve(d, Len(b), j) /\ job' = NoJob
      /\ busy' = busy /\ plain' = plain /\ busy \in BOOLEAN
  BY DEF BulkNoMemory, PyInv, JobInv
<1>2. Len(b) \in Nat /\ j \in Nat /\ Good(d, d.count) /\ d.cap > 0
  BY BatchFacts DEF PyInv
<1>3. Good(d', d'.count) /\ d'.cap > 0 /\ d'.alive = d.alive /\ Stored(d') = Stored(d)
  BY <1>1, <1>2, ReserveFacts
<1>4. JobInv'
  BY <1>1, NoJobInv
<1> QED
  BY <1>1, <1>3, <1>4, SameDense DEF PyInv

LEMMA CompactStepPy ==
    ASSUME PyInv, Compact
    PROVE  PyInv' /\ Stored(d') = Stored(d) /\ d'.alive = d.alive
<1>1. /\ ~ busy /\ d' = Compacted(d) /\ job' = NoJob /\ busy' = busy /\ plain' = plain
      /\ busy \in BOOLEAN
  BY DEF Compact, PyInv, JobInv
<1>2. Good(d, d.count) /\ d.cap > 0
  BY DEF PyInv
<1>3. Good(d', d'.count) /\ d'.cap > 0 /\ d'.alive = d.alive /\ Stored(d') = Stored(d)
  BY <1>1, <1>2, CompactedFacts
<1>4. JobInv'
  BY <1>1, NoJobInv
<1> QED
  BY <1>1, <1>3, <1>4, SameDense DEF PyInv

LEMMA DeleteBeginStep ==
    ASSUME PyInv, NEW ids \in Lists, DeleteBegin(ids)
    PROVE  PyInv'
<1>1. /\ job' = [ids |-> ids, next |-> 1, before |-> LiveIds] /\ busy' = TRUE
      /\ plain' = FALSE /\ d' = d
  BY DEF DeleteBegin
<1>2. Len(ids) \in Nat /\ Len(ids) >= 1 /\ ids # <<>>
  BY ListFacts
<1>3. /\ job'.ids = ids /\ job'.next = 1 /\ job'.before = LiveIds
      /\ job' = [ids |-> job'.ids, next |-> job'.next, before |-> job'.before]
      /\ LiveIds' = LiveIds
  BY <1>1 DEF LiveIds
<1>4. {ids[j] : j \in 1 .. 1 - 1} = {}
  OBVIOUS
<1>5. DeleteExact'
  <2>1. Exact(job', LiveIds', TRUE, ret')
    BY <1>3, <1>4, FS_EmptySet DEF Exact
  <2> QED
    BY <1>1, <2>1, ExactIs
<1>6. JobInv'
  BY <1>1, <1>2, <1>3, <1>5 DEF JobInv
<1> QED
  BY <1>1, <1>6 DEF PyInv, DefaultsDense

\* One turn of the delete loop.
LEMMA DeleteStepPy ==
    ASSUME PyInv, DeleteStep
    PROVE  PyInv'
<1> DEFINE ids == job.ids
           k == job.next
           id == ids[k]
           Done(m) == {ids[j] : j \in 1 .. m}
<1>1. /\ Good(d, d.count) /\ d.cap > 0 /\ DeleteExact /\ busy
      /\ ids \in Lists /\ ids # <<>> /\ k \in 1 .. Len(ids) /\ ~ plain
      /\ job = [ids |-> job.ids, next |-> job.next, before |-> job.before]
  BY DEF PyInv, JobInv, DeleteStep
<1>2. Len(ids) \in Nat /\ ids \in [1 .. Len(ids) -> Ids]
  BY <1>1, ListFacts
<1>3. k \in Nat /\ k >= 1 /\ k <= Len(ids) /\ id \in Ids
  BY <1>1, <1>2
<1>4. /\ LiveIds = job.before \ Done(k - 1)
      /\ Cardinality(Done(k - 1)) = k - 1 /\ Done(k - 1) \subseteq job.before
  BY <1>1, ExactIs DEF Exact
<1>5. plain' = plain
  BY DEF DeleteStep
<1>6. LiveIds = IdsOf(d) /\ LiveIds' = IdsOf(d')
  BY LiveIdsOf
<1>7. Absent(d, id) <=> id \notin LiveIds
  <2> HIDE DEF id
  <2> QED
    BY <1>1, <1>3, <1>6, AbsentIds
<1>8. CASE Absent(d, id)
  <2>1. ret' = "fail" /\ busy' = FALSE /\ d' = d /\ job' = job
    BY <1>8 DEF DeleteStep
  <2>2. LiveIds' = LiveIds
    BY <2>1 DEF LiveIds
  <2>3. id \notin job.before \ Done(k - 1)
    BY <1>4, <1>7, <1>8
  <2>4. DeleteExact'
    <3>1. Exact(job, LiveIds', FALSE, "fail")
      BY <1>4, <2>2, <2>3 DEF Exact
    <3> QED
      BY <2>1, <3>1, ExactIs
  <2>5. JobInv'
    BY <1>1, <1>3, <2>1, <2>4 DEF JobInv
  <2> QED
    BY <1>1, <1>5, <2>1, <2>5 DEF PyInv, DefaultsDense
<1>9. CASE ~ Absent(d, id)
  <2>1. /\ d' = Bury(d, id) /\ job' = [job EXCEPT !.next = @ + 1]
        /\ busy' = (k < Len(ids)) /\ ret' = "deleted"
    BY <1>9 DEF DeleteStep
  <2>2. job' = [ids |-> ids, next |-> k + 1, before |-> job.before]
    BY <1>1, <2>1
  <2>3. /\ job'.ids = ids /\ job'.next = k + 1 /\ job'.before = job.before
        /\ job' = [ids |-> job'.ids, next |-> job'.next, before |-> job'.before]
    BY <2>2
  <2> HIDE DEF id
  <2>4. /\ Good(d', d'.count) /\ d'.cap > 0
        /\ Stored(d') = {x \in Stored(d) : x.id # id}
    BY <1>1, <1>3, <1>9, <2>1, BuryGood, BuryStored
  <2>5. LiveIds' = LiveIds \ {id}
    BY <1>6, <2>4 DEF IdsOf
  <2> HIDE DEF k, ids
  <2>6. Done(k) = Done(k - 1) \cup {id}
    <3>1. \A j \in 1 .. k : j = k \/ j \in 1 .. k - 1
      BY <1>3
    <3>2. k \in 1 .. k /\ \A j \in 1 .. k - 1 : j \in 1 .. k
      BY <1>3
    <3> QED
      BY <3>1, <3>2 DEF id
  <2>7. id \in job.before /\ id \notin Done(k - 1)
    BY <1>4, <1>7, <1>9
  <2>8. Cardinality(Done(k)) = k
    <3>1. IsFiniteSet(Done(k - 1))
      <4>1. IsFiniteSet(1 .. k - 1)
        BY <1>3, FS_Interval
      <4> DEFINE f == [j \in 1 .. k - 1 |-> ids[j]]
      <4>2. f \in Surjection(1 .. k - 1, Done(k - 1))
        BY DEF Surjection
      <4> QED
        BY <4>1, <4>2, FS_Surjection
    <3> HIDE DEF Done
    <3>2. Cardinality(Done(k - 1) \cup {id}) = Cardinality(Done(k - 1)) + 1
      BY <2>7, <3>1, FS_AddElement
    <3> QED
      BY <1>3, <1>4, <2>6, <3>2
  <2>9. (k + 1) - 1 = k
    BY <1>3
  <2>10. /\ LiveIds' = job'.before \ Done(k)
         /\ Cardinality(Done(k)) = job'.next - 1 /\ Done(k) \subseteq job'.before
    <3> HIDE DEF Done
    <3> QED
      BY <1>4, <2>3, <2>5, <2>6, <2>7, <2>8, <2>9
  <2>11. Done(k) = {job'.ids[j] : j \in 1 .. job'.next - 1}
    BY <2>3, <2>9
  <2>0. busy' <=> k < Len(ids)
    BY <2>1
  <2>12. ~ busy' => job'.next > Len(job'.ids)
    BY <1>2, <1>3, <2>0, <2>3
  <2> HIDE DEF Done
  <2>13. DeleteExact'
    <3>1. Exact(job', LiveIds', busy', ret')
      BY <2>1, <2>10, <2>11, <2>12 DEF Exact
    <3> QED
      BY <3>1, ExactIs
  <2>14. busy' => job'.next \in 1 .. Len(job'.ids)
    BY <1>2, <1>3, <2>0, <2>3
  <2>15. JobInv'
    <3>1. busy' \in BOOLEAN /\ job'.next \in Nat /\ job'.ids \in Lists /\ job'.ids # <<>>
      BY <1>1, <1>3, <2>1, <2>3 DEF ids
    <3> QED
      BY <1>1, <1>5, <2>3, <2>13, <2>14, <3>1 DEF JobInv
  <2> QED
    BY <1>1, <1>5, <2>4, <2>15 DEF PyInv, DefaultsDense
<1> QED
  BY <1>8, <1>9

LEMMA SetThreadsStep ==
    ASSUME PyInv, NEW n \in Threads, SetThreads(n)
    PROVE  PyInv' /\ d' = d
<1>1. /\ ~ busy /\ d' = d /\ job' = NoJob /\ busy' = busy /\ plain' = plain
      /\ busy \in BOOLEAN
  BY DEF SetThreads, PyInv, JobInv
<1>2. JobInv'
  BY <1>1, NoJobInv
<1>3. LiveIds' = LiveIds
  BY <1>1 DEF LiveIds
<1> QED
  BY <1>1, <1>2, <1>3 DEF PyInv, DefaultsDense

LEMMA PyInitInv == PyInit => PyInv
<1> SUFFICES ASSUME PyInit PROVE PyInv
  OBVIOUS
<1>1. d = Fresh(InitialCap) /\ job = NoJob /\ busy = FALSE
  BY DEF PyInit
<1>2. Good(d, 0) /\ d.cap = InitialCap /\ d.count = 0 /\ d.alive = 0
  BY <1>1, FreshGood, PyParams
<1>3. LiveIds = {}
  BY <1>2 DEF LiveIds, LiveSlots
<1>4. JobInv
  <2>1. job.ids = <<>> /\ job.next = 1
        /\ job = [ids |-> job.ids, next |-> job.next, before |-> job.before]
    BY <1>1 DEF NoJob
  <2>2. DeleteExact
    BY <2>1, ExactIs
  <2>3. busy \in BOOLEAN /\ ~ busy
    BY <1>1
  <2> QED
    BY <2>1, <2>2, <2>3 DEF JobInv
<1> QED
  BY <1>2, <1>3, <1>4, PyParams DEF PyInv, DefaultsDense

LEMMA PyStep == PyInv /\ [PyNext]_py => PyInv'
<1> SUFFICES ASSUME PyInv, [PyNext]_py PROVE PyInv'
  OBVIOUS
<1>1. ASSUME NEW n \in 1 .. MaxBatch, NEW vs \in [1 .. n -> Vecs], AddDefault(vs)
      PROVE  PyInv'
  BY <1>1, AddDefaultStep
<1>2. ASSUME NEW b \in Batches, NEW n \in Threads, AddBulk(b, n) PROVE PyInv'
  <2>1. plain' = FALSE /\ BulkInsert(b, IF n = 0 THEN 1 ELSE n)
    BY <1>2 DEF AddBulk
  <2>2. Good(d', d'.count) /\ d'.cap > 0 /\ JobInv'
    BY <2>1, BulkStep
  <2> QED
    BY <2>1, <2>2 DEF PyInv, DefaultsDense
<1>3. ASSUME NEW b \in Batches, NEW j \in 0 .. MaxBatch, BulkNoMemory(b, j) PROVE PyInv'
  BY <1>3, NoMemoryStep
<1>4. ASSUME NEW ids \in Lists, DeleteBegin(ids) PROVE PyInv'
  BY <1>4, DeleteBeginStep
<1>5. CASE DeleteStep
  BY <1>5, DeleteStepPy
<1>6. CASE Compact
  BY <1>6, CompactStepPy
<1>7. ASSUME NEW n \in Threads, SetThreads(n) PROVE PyInv'
  BY <1>7, SetThreadsStep
<1>8. CASE UNCHANGED py
  <2>1. UNCHANGED <<d, job, busy, plain, ret>>
    BY <1>8 DEF py
  <2> QED
    BY <2>1 DEF PyInv, JobInv, DeleteExact, DefaultsDense, LiveIds, LiveSlots, IsLive, Good,
                IsBody, MapExactFor, Mapped
<1> QED
  BY <1>1, <1>2, <1>3, <1>4, <1>5, <1>6, <1>7, <1>8 DEF PyNext

LEMMA PyAlways == PySpec => []PyInv
BY PyInitInv, PyStep, PTL DEF PySpec

\* As long as ids are left to default and nothing is deleted, the ids in use are
\* 0 .. alive - 1: compactions, duplicates and calls that ran out of memory in
\* whichever doubling do not disturb it (VecDB.add of pyvecdb.py, bulk_insert).
THEOREM DefaultsAlwaysDense == PySpec => []DefaultsDense
<1>1. PyInv => DefaultsDense
  BY DEF PyInv
<1> QED
  BY <1>1, PyAlways, PTL

\* A list delete that fails has removed the ids before the failing one and nothing
\* else, and the failing one was missing or named before (VecDB.delete of
\* pyvecdb.py), whatever the list, repetitions included.
THEOREM DeletesAreExact == PySpec => []DeleteExact
<1>1. PyInv => DeleteExact
  BY DEF PyInv, JobInv
<1> QED
  BY <1>1, PyAlways, PTL

\* The thread count of the next search is the one set_threads asked for, unless an
\* insert has stored vectors since (vecdb_set_num_threads, bulk_insert).
THEOREM ThreadsAreKept == PySpec => ThreadsKept
<1>1. PyInv /\ [PyNext]_py =>
        [team' # team => \/ \E n \in Threads : SetThreads(n)
                         \/ ret' = "bulk" /\ d'.count > d.count]_py
  <2> SUFFICES ASSUME PyInv, PyNext, team' # team, ~ \E n \in Threads : SetThreads(n)
               PROVE  ret' = "bulk" /\ d'.count > d.count
    OBVIOUS
  <2>1. d.count \in Nat
    BY DEF PyInv, Good, IsBody
  <2>2. ASSUME NEW b \in Batches, NEW n, BulkInsert(b, n)
        PROVE  ret' = "bulk" /\ d'.count > d.count
    <3>1. ret' = "bulk" /\ d'.count = d.count + Len(b)
      BY <2>2, BulkFacts
    <3>2. Len(b) \in Nat /\ Len(b) >= 1
      BY BatchFacts
    <3> QED
      BY <2>1, <3>1, <3>2
  <2>3. ASSUME NEW n \in 1 .. MaxBatch, NEW vs \in [1 .. n -> Vecs], AddDefault(vs)
        PROVE  ret' = "bulk" /\ d'.count > d.count
    BY <2>2, <2>3 DEF AddDefault
  <2>4. ASSUME NEW b \in Batches, NEW n \in Threads, AddBulk(b, n)
        PROVE  ret' = "bulk" /\ d'.count > d.count
    BY <2>2, <2>4 DEF AddBulk
  <2>5. \/ \E n \in 1 .. MaxBatch : \E vs \in [1 .. n -> Vecs] : AddDefault(vs)
        \/ \E b \in Batches, n \in Threads : AddBulk(b, n)
    BY DEF PyNext, BulkNoMemory, DeleteBegin, DeleteStep, Compact
  <2> QED
    BY <2>3, <2>4, <2>5
<1> QED
  BY <1>1, PyAlways, PTL DEF PySpec, ThreadsKept
-----------------------------------------------------------------------------
(***************************************************************************)
(* The class implements VecStore.                                          *)
(***************************************************************************)
LEMMA ContentOf ==
    ASSUME NEW e, Good(e, e.count)
    PROVE  [id \in Ids |-> IF Absent(e, id) THEN NoVec ELSE e.slot[e.map[id]].vec]
             = Held(e, NoVec)
<1> SUFFICES ASSUME NEW id \in Ids
             PROVE  (IF Absent(e, id) THEN NoVec ELSE e.slot[e.map[id]].vec) = Held(e, NoVec)[id]
  BY DEF Held
<1>1. CASE Absent(e, id)
  BY <1>1, HeldAbsent, PyParams
<1>2. CASE ~ Absent(e, id)
  <2> DEFINE s == e.map[id]
             x == [id |-> e.slot[s].id, vec |-> e.slot[s].vec]
  <2>1. s \in LiveSlots(e) /\ e.slot[s].id = id
    BY <1>2 DEF Good, MapExactFor, Absent, LiveSlots, Mapped
  <2>2. x \in Stored(e) /\ x.id = id /\ x.vec = e.slot[s].vec
    BY <2>1 DEF Stored
  <2> HIDE DEF x
  <2>3. Held(e, NoVec)[id] = e.slot[s].vec
    BY <2>2, HeldFacts
  <2> QED
    BY <1>2, <2>3
<1> QED
  BY <1>1, <1>2

LEMMA ContentIs ==
    ASSUME Good(d, d.count), Good(d', d'.count)
    PROVE  Content = Held(d, NoVec) /\ Content' = Held(d', NoVec)
<1>1. [id \in Ids |-> IF Absent(d, id) THEN NoVec ELSE d.slot[d.map[id]].vec] = Held(d, NoVec)
  BY ContentOf
<1>2. [id \in Ids |-> IF Absent(d', id) THEN NoVec ELSE d'.slot[d'.map[id]].vec]
        = Held(d', NoVec)
  BY ContentOf
<1> QED
  BY <1>1, <1>2 DEF Content

\* An insert of all of a batch.
LEMMA BulkImplements ==
    ASSUME PyInv, NEW b \in Batches, NEW n, BulkInsert(b, n)
    PROVE  Store!Next
<1> DEFINE m == Len(b)
           B == {b[j].id : j \in 1 .. m}
           f == [k \in B |-> Held(d', NoVec)[k]]
<1>1. /\ m \in Nat /\ b \in [1 .. m -> Items] /\ Good(d, d.count) /\ Good(d', d'.count)
      /\ Content = Held(d, NoVec) /\ Content' = Held(d', NoVec)
  BY BatchFacts, BulkFacts, ContentIs DEF PyInv
<1>2. CASE /\ ret' = "fail" /\ Stored(d') = Stored(d) /\ d'.alive = d.alive
  <2>1. Content' = Content
    BY <1>1, <1>2, SameHeld
  <2>2. Store!Fail
    BY <1>2, <2>1 DEF Store!Fail
  <2> QED
    BY <2>2 DEF Store!Next
<1>3. CASE /\ ret' = "bulk" /\ Stored(d') = Stored(d) \cup {b[j] : j \in 1 .. m}
           /\ d'.alive = d.alive + m
           /\ \A j \in 1 .. m : Absent(d, b[j].id)
           /\ \A j, k \in 1 .. m : b[j].id = b[k].id => j = k
  <2>1. \A j \in 1 .. m : b[j].id \in Ids /\ b[j].vec \in Vecs
    BY <1>1 DEF Items
  <2> HIDE DEF m
  <2>2. B \subseteq Ids /\ \A j \in 1 .. m : b[j].id \in B
    BY <2>1
  <2>3. \A k \in B : \E j \in 1 .. m : b[j].id = k
    OBVIOUS
  <2> HIDE DEF B
  <2>4. ASSUME NEW k \in B PROVE Held(d, NoVec)[k] = NoVec /\ Held(d', NoVec)[k] \in Vecs
    <3>1. PICK j \in 1 .. m : b[j].id = k
      BY <2>3
    <3>2. Held(d, NoVec)[k] = NoVec
      <4>1. Absent(d, b[j].id) /\ k \in Ids /\ b[j].id = k
        BY <1>3, <2>1, <3>1
      <4> QED
        BY <1>1, <4>1, HeldAbsent, PyParams
    <3>3. b[j] \in Stored(d')
      BY <1>3
    <3>4. Held(d', NoVec)[k] = b[j].vec
      BY <1>1, <3>1, <3>3, HeldFacts
    <3> QED
      BY <2>1, <3>2, <3>4
  <2>5. ASSUME NEW k \in Ids, k \notin B PROVE Held(d', NoVec)[k] = Held(d, NoVec)[k]
    <3>1. \A x \in Stored(d') : x.id = k => x \in Stored(d)
      BY <1>3, <2>2, <2>5
    <3>2. Stored(d) \subseteq Stored(d')
      BY <1>3
    <3>3. CASE \E x \in Stored(d) : x.id = k
      BY <1>1, <3>2, <3>3, HeldFacts
    <3>4. CASE \A x \in Stored(d) : x.id # k
      BY <1>1, <3>1, <3>4, HeldFacts
    <3> QED
      BY <3>3, <3>4
  <2>6. Cardinality(B) = m
    <3> DEFINE g == [j \in 1 .. m |-> b[j].id]
    <3>1. g \in Bijection(1 .. m, B)
      BY <1>3, <2>2, <2>3 DEF Bijection, Injection, Surjection, IsInjective
    <3>2. ExistsBijection(1 .. m, B)
      BY <3>1 DEF ExistsBijection
    <3> QED
      BY <1>1, <3>2, FS_CountingElements
  <2>7. B \in SUBSET (Ids \ Store!Present)
    BY <1>1, <2>2, <2>4 DEF Store!Present
  <2>8. f \in [B -> Vecs]
    BY <2>4
  <2>9. Content' = [k \in Ids |-> IF k \in B THEN f[k] ELSE Content[k]]
    <3>1. Held(d', NoVec) = [k \in Ids |-> Held(d', NoVec)[k]]
      BY DEF Held
    <3> QED
      BY <1>1, <2>5, <3>1
  <2> HIDE DEF f
  <2>10. Store!Cardinality(B) = m
    BY <2>6 DEF Store!Cardinality, Cardinality
  <2>11. Store!AddBulk
    BY <1>3, <2>7, <2>8, <2>9, <2>10 DEF Store!AddBulk
  <2> QED
    BY <2>11 DEF Store!Next
<1> QED
  BY <1>2, <1>3, BulkFacts

\* One turn of the delete loop is one call of vecdb_delete.
LEMMA DeleteStepImplements ==
    ASSUME PyInv, DeleteStep
    PROVE  Store!Next
<1> DEFINE id == job.ids[job.next]
<1>1. /\ Good(d, d.count) /\ busy /\ job.ids \in Lists /\ job.next \in 1 .. Len(job.ids)
  BY DEF PyInv, JobInv, DeleteStep
<1>2. id \in Ids
  BY <1>1, ListFacts
<1>3. CASE Absent(d, id)
  <2>1. ret' = "fail" /\ d' = d
    BY <1>3 DEF DeleteStep
  <2>2. Content' = Content
    BY <2>1 DEF Content
  <2>3. Store!Fail
    BY <2>1, <2>2 DEF Store!Fail
  <2> QED
    BY <2>3 DEF Store!Next
<1>4. CASE ~ Absent(d, id)
  <2>1. ret' = "deleted" /\ d' = Bury(d, id)
    BY <1>4 DEF DeleteStep
  <2> HIDE DEF id
  <2>2. /\ Good(d', d'.count) /\ d'.alive = d.alive - 1
        /\ Stored(d') = {e \in Stored(d) : e.id # id}
    BY <1>1, <1>2, <1>4, <2>1, BuryGood, BuryStored
  <2>3. Content = Held(d, NoVec) /\ Content' = Held(d', NoVec)
    BY <1>1, <2>2, ContentIs
  <2>4. ASSUME NEW k \in Ids
        PROVE  Held(d', NoVec)[k] = IF k = id THEN NoVec ELSE Held(d, NoVec)[k]
    <3>1. CASE k = id
      BY <2>2, <3>1, HeldFacts
    <3>2. CASE k # id /\ \E w \in Stored(d) : w.id = k
      BY <1>1, <2>2, <3>2, HeldFacts
    <3>3. CASE k # id /\ \A w \in Stored(d) : w.id # k
      BY <1>1, <2>2, <3>3, HeldFacts
    <3> QED
      BY <3>1, <3>2, <3>3
  <2>5. Content' = [Content EXCEPT ![id] = NoVec]
    <3>1. /\ Held(d', NoVec) = [k \in Ids |-> Held(d', NoVec)[k]]
          /\ Held(d, NoVec) = [k \in Ids |-> Held(d, NoVec)[k]]
      BY DEF Held
    <3> QED
      BY <2>3, <2>4, <3>1
  <2>6. id \in Store!Present
    BY <1>1, <1>2, <1>4, <2>3, HeldAbsent, PyParams DEF Store!Present
  <2>7. Store!Delete
    BY <2>1, <2>2, <2>5, <2>6 DEF Store!Delete
  <2> QED
    BY <2>7 DEF Store!Next
<1> QED
  BY <1>3, <1>4

LEMMA PyImplements ==
    ASSUME PyInv, [PyNext]_py
    PROVE  [Store!Next]_(Store!vars)
<1>0. Good(d, d.count)
  BY DEF PyInv
<1>1. ASSUME d' = d, ret' = ret PROVE [Store!Next]_(Store!vars)
  BY <1>1 DEF Store!vars, Content
<1>2. ASSUME NEW n \in 1 .. MaxBatch, NEW vs \in [1 .. n -> Vecs], AddDefault(vs)
      PROVE  Store!Next
  BY <1>2, BulkImplements DEF AddDefault
<1>3. ASSUME NEW b \in Batches, NEW n \in Threads, AddBulk(b, n) PROVE Store!Next
  BY <1>3, BulkImplements DEF AddBulk
<1>4. ASSUME PyInv', Stored(d') = Stored(d), d'.alive = d.alive, ret' \in {"fail", "compacted"}
      PROVE  Store!Next
  <2>1. Good(d', d'.count)
    BY <1>4 DEF PyInv
  <2>2. Content' = Content
    BY <1>0, <1>4, <2>1, ContentIs, SameHeld
  <2>3. Store!Fail \/ Store!Compact
    BY <1>4, <2>2 DEF Store!Fail, Store!Compact
  <2> QED
    BY <2>3 DEF Store!Next
<1>5. ASSUME NEW b \in Batches, NEW j \in 0 .. MaxBatch, BulkNoMemory(b, j) PROVE Store!Next
  <2>1. PyInv' /\ Stored(d') = Stored(d) /\ d'.alive = d.alive
    BY <1>5, NoMemoryStep
  <2>2. ret' = "fail"
    BY <1>5 DEF BulkNoMemory
  <2> QED
    BY <1>4, <2>1, <2>2
<1>6. ASSUME NEW ids \in Lists, DeleteBegin(ids) PROVE [Store!Next]_(Store!vars)
  BY <1>1, <1>6 DEF DeleteBegin
<1>7. CASE DeleteStep
  BY <1>7, DeleteStepImplements
<1>8. CASE Compact
  <2>1. PyInv' /\ Stored(d') = Stored(d) /\ d'.alive = d.alive
    BY <1>8, CompactStepPy
  <2>2. ret' = "compacted"
    BY <1>8 DEF Compact
  <2> QED
    BY <1>4, <2>1, <2>2
<1>9. ASSUME NEW n \in Threads, SetThreads(n) PROVE [Store!Next]_(Store!vars)
  BY <1>1, <1>9 DEF SetThreads
<1>10. CASE UNCHANGED py
  BY <1>1, <1>10 DEF py
<1> QED
  BY <1>2, <1>3, <1>5, <1>6, <1>7, <1>8, <1>9, <1>10 DEF PyNext

\* What Python code sees is the abstract store: an add takes effect as a whole or
\* not at all, a list delete is a series of single deletes, and compactions and
\* growth are invisible.
THEOREM PyImplementsStore == PySpec => StoreSpec
<1>1. PyInit => Store!Init
  <2> SUFFICES ASSUME PyInit PROVE Store!Init
    OBVIOUS
  <2>1. d = Fresh(InitialCap) /\ ret = "none"
    BY DEF PyInit
  <2>2. d.alive = 0 /\ \A id \in Ids : Absent(d, id)
    BY <2>1, FreshGood, PyParams
  <2> QED
    BY <2>1, <2>2 DEF Store!Init, Content
<1>2. PyInv /\ [PyNext]_py => [Store!Next]_(Store!vars)
  BY PyImplements
<1> QED
  BY <1>1, <1>2, PyAlways, PTL DEF PySpec, StoreSpec, Store!Spec

-----------------------------------------------------------------------------
(***************************************************************************)
(* Batch searches.  The rows of the results array do not overlap, and the  *)
(* two loops of flat_batch_impl, over the blocks and over the queries of a *)
(* block, fill them in order.                                              *)
(***************************************************************************)
\* The blocks cover all queries, and none of them begins behind the last.
LEMMA BlocksCover ==
    ASSUME NEW n \in Nat, NEW w \in Nat, w > 0
    PROVE  LET nb == (n + w - 1) \div w IN
           /\ nb \in Nat /\ nb * w >= n
           /\ \A b \in 0 .. nb - 1 : b * w \in Nat /\ b * w < n /\ (b + 1) * w = b * w + w
<1> DEFINE nb == (n + w - 1) \div w
<1>1. nb \in Nat /\ nb * w <= n + w - 1 /\ n + w - 1 < nb * w + w
  OBVIOUS
<1> HIDE DEF nb
<1>2. ASSUME NEW b \in 0 .. nb - 1 PROVE b * w \in Nat /\ b * w < n /\ (b + 1) * w = b * w + w
  <2>1. b * w + w <= nb * w /\ b * w \in Nat
    BY <1>1, Rises
  <2>2. nb * w \in Nat
    BY <1>1
  <2> QED
    BY <1>1, <2>1, <2>2
<1>3. nb * w \in Nat
  BY <1>1
<1> QED
  BY <1>1, <1>2, <1>3 DEF nb

\* The last block may be shorter.
LEMMA BlockEnd ==
    ASSUME NEW n \in Nat, NEW w \in Nat, NEW q0 \in Nat, q0 < n
    PROVE  LET qb == IF n - q0 < w THEN n - q0 ELSE w IN
           /\ qb \in Nat /\ q0 + qb <= n
           /\ q0 + qb = IF q0 + w < n THEN q0 + w ELSE n
OBVIOUS

\* Row i of the results is what the scan for query i returns, padded.
RowDone(e, qs, k, mask, out, i) ==
    LET hits == FlatScan(e, qs[i + 1], k, mask)
    IN  \A j \in 0 .. k - 1 :
           out[i * k + j] = IF j < Len(hits) THEN e.slot[hits[j + 1].node].id ELSE NoId

RowsDone(e, qs, k, mask, out, lim) ==
    /\ DOMAIN out = 0 .. Len(qs) * k - 1
    /\ \A i \in 0 .. lim - 1 : RowDone(e, qs, k, mask, out, i)

LEMMA PutRowFacts ==
    ASSUME NEW e, NEW qs, Len(qs) \in Nat, NEW k \in Nat, NEW mask, NEW out,
           NEW i \in 0 .. Len(qs) - 1, RowsDone(e, qs, k, mask, out, i)
    PROVE  RowsDone(e, qs, k, mask, PutRow(e, qs, k, mask, out, i), i + 1)
<1> DEFINE hits(a) == FlatScan(e, qs[a + 1], k, mask)
           new == PutRow(e, qs, k, mask, out, i)
           Cell(a, j) == IF j < Len(hits(a)) THEN e.slot[hits(a)[j + 1].node].id ELSE NoId
<1>1. new = [c \in DOMAIN out |->
               IF c - i * k \notin 0 .. k - 1 THEN out[c] ELSE Cell(i, c - i * k)]
  BY DEF PutRow, RowAt
<1>2. DOMAIN out = 0 .. Len(qs) * k - 1
  BY DEF RowsDone
<1>3. \A a \in 0 .. i - 1 : \A j \in 0 .. k - 1 : out[a * k + j] = Cell(a, j)
  BY DEF RowsDone, RowDone
<1> HIDE DEF hits, new
<1>4. ASSUME NEW a \in 0 .. i, NEW j \in 0 .. k - 1
      PROVE  new[a * k + j] = Cell(a, j)
  <2>0. a \in 0 .. Len(qs) - 1
    OBVIOUS
  <2>1. a * k + j \in DOMAIN out /\ (a * k + j) - a * k = j
    BY <1>2, <2>0, RowInside
  <2> HIDE DEF Cell
  <2>2. CASE a = i
    BY <1>1, <2>1, <2>2
  <2>3. CASE a # i
    <3>1. (a * k + j) - i * k \notin 0 .. k - 1 /\ a \in 0 .. i - 1
      BY <2>3, RowsApart
    <3> QED
      BY <1>1, <1>3, <2>1, <3>1
  <2> QED
    BY <2>2, <2>3
<1>5. DOMAIN new = 0 .. Len(qs) * k - 1
  BY <1>1, <1>2
<1>6. ASSUME NEW a \in 0 .. (i + 1) - 1 PROVE RowDone(e, qs, k, mask, new, a)
  <2>1. a \in 0 .. i
    OBVIOUS
  <2> QED
    BY <1>4, <2>1 DEF RowDone, hits
<1> QED
  BY <1>5, <1>6 DEF RowsDone, new

\* The queries of one block.
RowOp(c, out, j) == PutRow(c.e, c.qs, c.k, c.mask, out, c.q0 + j)
RowInv(c, t, out) == RowsDone(c.e, c.qs, c.k, c.mask, out, c.q0 + t)

RowLoop == INSTANCE FoldFacts WITH Op <- RowOp, Inv <- RowInv

LEMMA ScanBlockFacts ==
    ASSUME NEW e, NEW qs, Len(qs) \in Nat, NEW k \in Nat, NEW mask, NEW out,
           NEW b \in Nat, b * QB \in Nat, b * QB < Len(qs), QB \in Nat,
           RowsDone(e, qs, k, mask, out, b * QB)
    PROVE  RowsDone(e, qs, k, mask, ScanBlock(e, qs, k, mask, out, b),
                    IF b * QB + QB < Len(qs) THEN b * QB + QB ELSE Len(qs))
<1> DEFINE q0 == b * QB
           qb == IF Len(qs) - q0 < QB THEN Len(qs) - q0 ELSE QB
           c == [e |-> e, qs |-> qs, k |-> k, mask |-> mask, q0 |-> q0]
           seq == [j \in 1 .. qb |-> j - 1]
<1>1. c.e = e /\ c.qs = qs /\ c.k = k /\ c.mask = mask /\ c.q0 = q0
  OBVIOUS
<1>2. /\ q0 \in Nat /\ qb \in Nat /\ q0 + qb <= Len(qs)
      /\ q0 + qb = IF b * QB + QB < Len(qs) THEN b * QB + QB ELSE Len(qs)
  <2>1. q0 = b * QB /\ q0 \in Nat /\ q0 < Len(qs)
    OBVIOUS
  <2> HIDE DEF q0
  <2>2. /\ qb \in Nat /\ q0 + qb <= Len(qs)
        /\ q0 + qb = IF q0 + QB < Len(qs) THEN q0 + QB ELSE Len(qs)
    BY <2>1, BlockEnd
  <2> QED
    BY <2>1, <2>2
<1>3. ScanBlock(e, qs, k, mask, out, b) = RowLoop!Fold(c, out, seq)
  BY <1>1 DEF ScanBlock, RowOp, RowLoop!Fold, RowLoop!FoldLeft, FoldLeft, MapThenFoldSet,
         RowLoop!MapThenFoldSet, Max, RowLoop!Max
<1>4. DOMAIN seq = 1 .. qb /\ \A t \in 0 .. qb - 1 : seq[t + 1] = t
  BY <1>2
<1>5. RowsDone(e, qs, k, mask, out, q0)
  OBVIOUS
<1> HIDE DEF q0, qb, c, seq
<1>6. RowInv(c, 0, out)
  BY <1>1, <1>2, <1>5 DEF RowInv
<1>7. ASSUME NEW o, NEW t \in 0 .. qb - 1, RowInv(c, t, o)
      PROVE  RowInv(c, t + 1, RowOp(c, o, seq[t + 1]))
  <2>1. RowsDone(e, qs, k, mask, o, q0 + t)
    BY <1>1, <1>7 DEF RowInv
  <2>2. q0 + t \in 0 .. Len(qs) - 1 /\ (q0 + t) + 1 = q0 + (t + 1)
    BY <1>2
  <2>3. RowsDone(e, qs, k, mask, PutRow(e, qs, k, mask, o, q0 + t), (q0 + t) + 1)
    BY <2>1, <2>2, PutRowFacts
  <2> QED
    BY <1>1, <1>4, <2>2, <2>3 DEF RowInv, RowOp
<1>8. RowInv(c, qb, RowLoop!Fold(c, out, seq))
  <2> HIDE DEF RowInv
  <2> QED
    BY <1>2, <1>4, <1>6, <1>7, RowLoop!FoldInv
<1> QED
  BY <1>1, <1>2, <1>3, <1>8 DEF RowInv

\* The blocks of one call.
BlockOp(c, out, b) == ScanBlock(c.e, c.qs, c.k, c.mask, out, b)
BlockInv(c, b, out) ==
    RowsDone(c.e, c.qs, c.k, c.mask, out, IF b * QB < Len(c.qs) THEN b * QB ELSE Len(c.qs))

BlockLoop == INSTANCE FoldFacts WITH Op <- BlockOp, Inv <- BlockInv

\* flat_batch_impl fills every row.
LEMMA FlatBatchFacts ==
    ASSUME NEW e, e.alive \in Nat, e.alive > 0, NEW qs, Len(qs) \in Nat, NEW k \in Nat, NEW mask,
           QB \in Nat, QB > 0
    PROVE  LET got == FlatBatch(e, qs, k, mask) IN
           /\ RowsDone(e, qs, k, mask, got.out, Len(qs))
           /\ got.n = IF k > e.alive THEN e.alive ELSE k
<1> DEFINE got == FlatBatch(e, qs, k, mask)
           blank == [i \in 0 .. Len(qs) * k - 1 |-> 0]
           nb == (Len(qs) + QB - 1) \div QB
           seq == [b \in 1 .. nb |-> b - 1]
           c == [e |-> e, qs |-> qs, k |-> k, mask |-> mask]
           n == Len(qs)
<1>1. c.e = e /\ c.qs = qs /\ c.k = k /\ c.mask = mask
  OBVIOUS
<1>2. got.out = BlockLoop!Fold(c, blank, seq)
  BY <1>1 DEF FlatBatch, BlockOp, BlockLoop!Fold, BlockLoop!FoldLeft, FoldLeft, MapThenFoldSet,
         BlockLoop!MapThenFoldSet, Max, BlockLoop!Max
<1>3. got.n = IF k > e.alive THEN e.alive ELSE k
  BY DEF FlatBatch
<1>4. /\ nb \in Nat /\ nb * QB >= n /\ nb * QB \in Nat
      /\ \A b \in 0 .. nb - 1 : b * QB \in Nat /\ b * QB < n /\ (b + 1) * QB = b * QB + QB
  <2>1. /\ nb \in Nat /\ nb * QB >= n
        /\ \A b \in 0 .. nb - 1 : b * QB \in Nat /\ b * QB < n /\ (b + 1) * QB = b * QB + QB
    BY BlocksCover
  <2> HIDE DEF nb
  <2> QED
    BY <2>1
<1>5. DOMAIN blank = 0 .. n * k - 1
  OBVIOUS
<1> HIDE DEF nb
<1>6. DOMAIN seq = 1 .. nb /\ \A b \in 0 .. nb - 1 : seq[b + 1] = b
  BY <1>4
<1>7. n \in Nat /\ n = Len(qs)
  OBVIOUS
<1> HIDE DEF got, blank, seq, c, n
<1>8. BlockInv(c, 0, blank)
  <2>1. (IF 0 * QB < n THEN 0 * QB ELSE n) = 0
    BY <1>7
  <2>2. RowsDone(e, qs, k, mask, blank, 0)
    BY <1>5, <1>7 DEF RowsDone
  <2> QED
    BY <1>1, <1>7, <2>1, <2>2 DEF BlockInv
<1>9. ASSUME NEW o, NEW b \in 0 .. nb - 1, BlockInv(c, b, o)
      PROVE  BlockInv(c, b + 1, BlockOp(c, o, seq[b + 1]))
  <2>1. b \in Nat /\ b * QB \in Nat /\ b * QB < Len(qs) /\ (b + 1) * QB = b * QB + QB
    BY <1>4, <1>7
  <2>2. RowsDone(e, qs, k, mask, o, b * QB)
    BY <1>1, <1>9, <2>1 DEF BlockInv
  <2>3. RowsDone(e, qs, k, mask, ScanBlock(e, qs, k, mask, o, b),
                 IF b * QB + QB < Len(qs) THEN b * QB + QB ELSE Len(qs))
    BY <2>1, <2>2, ScanBlockFacts
  <2>4. BlockOp(c, o, seq[b + 1]) = ScanBlock(e, qs, k, mask, o, b)
    BY <1>1, <1>6 DEF BlockOp
  <2> QED
    BY <1>1, <2>1, <2>3, <2>4 DEF BlockInv
<1>10. BlockInv(c, nb, BlockLoop!Fold(c, blank, seq))
  <2> HIDE DEF BlockInv
  <2> QED
    BY <1>4, <1>6, <1>8, <1>9, BlockLoop!FoldInv
<1>11. (IF nb * QB < n THEN nb * QB ELSE n) = n
  BY <1>4, <1>7
<1>12. RowsDone(e, qs, k, mask, got.out, n)
  BY <1>1, <1>2, <1>7, <1>10, <1>11 DEF BlockInv
<1> QED
  BY <1>3, <1>7, <1>12 DEF got

\* Row i of an exact search of a well-formed database: its first columns are the
\* ids of the nearest vectors of query i that the mask stands for, the rest is
\* padding.
LEMMA RowContents ==
    ASSUME NEW e, Good(e, e.count), NEW qs \in Seq(Queries), NEW k \in Nat, k >= 1,
           NEW S \in SUBSET Ids, NEW mode \in {"allow", "deny"}, NEW i \in 1 .. Len(qs)
    PROVE  LET row  == SearchRows(e, qs, k, MakeMask(e, S, mode))[i]
               hits == FlatScan(e, qs[i], k, MakeMask(e, S, mode))
           IN  /\ IsTopK(e, qs[i], k, Wanted(e, S, mode), hits)
               /\ Len(hits) \in 0 .. k
               /\ \A j \in 1 .. k :
                     row[j] = IF j <= Len(hits) THEN e.slot[hits[j].node].id ELSE NoId
<1> DEFINE mask == MakeMask(e, S, mode)
           W == Wanted(e, S, mode)
           q == qs[i]
           hits == FlatScan(e, q, k, mask)
           got == FlatBatch(e, qs, k, mask)
           kk == IF k > e.alive THEN e.alive ELSE k
           row == SearchRows(e, qs, k, mask)[i]
<1>1. q \in Queries /\ Len(qs) \in Nat /\ QB \in Nat /\ QB > 0 /\ i - 1 \in 0 .. Len(qs) - 1
  BY BindingsAssumption
<1>2. /\ e.alive \in Nat /\ e.alive = Cardinality(LiveSlots(e)) /\ IsFiniteSet(LiveSlots(e))
  BY LiveFinite DEF Good, IsBody
<1>3. W \subseteq LiveSlots(e) /\ Cardinality(W) \in Nat /\ Cardinality(W) <= e.alive
  <2>1. W \subseteq LiveSlots(e)
    BY DEF Wanted
  <2> QED
    BY <1>2, <2>1, FS_Subset, FS_CardinalityType
<1>4. IsTopK(e, q, k, W, hits)
  <2>1. \A s \in LiveSlots(e) : mask[s] <=> s \in W
    BY MaskWanted
  <2>2. Weighs(q)
    BY <1>1, BindingsAssumption DEF Weighs
  <2> HIDE DEF mask, W, q
  <2> QED
    BY <1>3, <2>1, <2>2, ScanFacts
<1> HIDE DEF mask, W, hits, got
<1>5. Len(hits) = (IF Cardinality(W) < k THEN Cardinality(W) ELSE k)
  BY <1>4 DEF IsTopK
<1>6. Len(hits) \in 0 .. k /\ Len(hits) <= kk /\ kk \in 0 .. k
  BY <1>2, <1>3, <1>5
<1>7. row = [j \in 1 .. k |-> IF j <= got.n THEN got.out[(i - 1) * k + j - 1] ELSE NoId]
  BY DEF SearchRows, got
<1> HIDE DEF row
<1>8. ASSUME NEW j \in 1 .. k
      PROVE  row[j] = IF j <= Len(hits) THEN e.slot[hits[j].node].id ELSE NoId
  <2>1. CASE e.alive = 0
    <3>1. got.n = 0 /\ Len(hits) = 0
      BY <1>6, <2>1 DEF got, FlatBatch
    <3> QED
      BY <1>7, <3>1
  <2>2. CASE e.alive # 0
    <3>1. RowsDone(e, qs, k, mask, got.out, Len(qs)) /\ got.n = kk
      <4>1. e.alive > 0
        BY <1>2, <2>2
      <4> QED
        BY <1>1, <1>2, <4>1, FlatBatchFacts DEF got
    <3>2. RowDone(e, qs, k, mask, got.out, i - 1)
      BY <1>1, <3>1 DEF RowsDone
    <3>3. (i - 1) + 1 = i /\ (j - 1) + 1 = j /\ j - 1 \in 0 .. k - 1
          /\ (i - 1) * k + j - 1 = (i - 1) * k + (j - 1)
      <4>1. i \in Int /\ (i - 1) * k \in Int
        OBVIOUS
      <4> QED
        BY <4>1
    <3>4. \A t \in 0 .. k - 1 : got.out[(i - 1) * k + t]
             = IF t < Len(hits) THEN e.slot[hits[t + 1].node].id ELSE NoId
      BY <3>2, <3>3 DEF RowDone, hits
    <3>5. got.out[(i - 1) * k + j - 1]
             = IF j - 1 < Len(hits) THEN e.slot[hits[j].node].id ELSE NoId
      BY <3>3, <3>4
    <3> QED
      BY <1>6, <1>7, <3>1, <3>5
  <2> QED
    BY <2>1, <2>2
<1> QED
  BY <1>4, <1>6, <1>8 DEF row, hits, mask, W

\* IsTopK looks at the nodes and the distances of the hits only.
LEMMA SameTopK ==
    ASSUME NEW e, NEW q, NEW k, NEW W, NEW h1, Len(h1) \in Nat, IsTopK(e, q, k, W, h1),
           NEW h2, Len(h2) = Len(h1),
           \A j \in 1 .. Len(h1) : h2[j].node = h1[j].node /\ h2[j].dist = h1[j].dist
    PROVE  IsTopK(e, q, k, W, h2)
<1> DEFINE n == Len(h1)
           In1 == {h1[j].node : j \in 1 .. n}
           In2 == {h2[j].node : j \in 1 .. n}
           dist(s) == Metric[q][e.slot[s].vec]
<1>1. /\ n = IF Cardinality(W) < k THEN Cardinality(W) ELSE k
      /\ In1 \subseteq W /\ Cardinality(In1) = n
      /\ \A j \in 1 .. n : h1[j].dist = dist(h1[j].node)
      /\ \A j \in 2 .. n : h1[j - 1].dist <= h1[j].dist
      /\ \A s \in W \ In1, r \in In1 : dist(s) >= dist(r)
  BY DEF IsTopK
<1>2. In1 = In2
  OBVIOUS
<1>3. /\ \A j \in 1 .. n : h2[j].dist = dist(h2[j].node)
      /\ \A j \in 2 .. n : h2[j - 1].dist <= h2[j].dist
  <2>1. \A j \in 2 .. n : j \in 1 .. n /\ j - 1 \in 1 .. n
    OBVIOUS
  <2> QED
    BY <1>1, <2>1
<1>4. /\ In2 \subseteq W /\ Cardinality(In2) = n
      /\ \A s \in W \ In2, r \in In2 : dist(s) >= dist(r)
  BY <1>1, <1>2
<1>5. Len(h2) = n
  OBVIOUS
<1> HIDE DEF n
<1> QED
  BY <1>1, <1>3, <1>4, <1>5 DEF IsTopK

\* RowsExact, of row i.
RowExact(e, qs, k, S, mode, i) ==
    LET row  == SearchRows(e, qs, k, MakeMask(e, S, mode))[i]
        n    == Cardinality({j \in 1 .. k : row[j] # NoId})
        hits == [j \in 1 .. n |->
                   [node |-> e.map[row[j]],
                    dist |-> Metric[qs[i]][e.slot[e.map[row[j]]].vec]]]
    IN  /\ \A j \in 1 .. k : row[j] = NoId <=> j > n
        /\ IsTopK(e, qs[i], k, Wanted(e, S, mode), hits)

LEMMA BatchExact ==
    ASSUME NEW e, Good(e, e.count), NEW qs \in Seq(Queries), NEW k \in Nat, k >= 1,
           NEW S \in SUBSET Ids, NEW mode \in {"allow", "deny"}, NEW i \in 1 .. Len(qs)
    PROVE  RowExact(e, qs, k, S, mode, i)
<1> DEFINE mask == MakeMask(e, S, mode)
           W == Wanted(e, S, mode)
           q == qs[i]
           row == SearchRows(e, qs, k, mask)[i]
           found == FlatScan(e, q, k, mask)
           m == Len(found)
           n == Cardinality({j \in 1 .. k : row[j] # NoId})
           hits == [j \in 1 .. n |->
                      [node |-> e.map[row[j]], dist |-> Metric[q][e.slot[e.map[row[j]]].vec]]]
<1>1. /\ IsTopK(e, q, k, W, found) /\ m \in 0 .. k
      /\ \A j \in 1 .. k : row[j] = IF j <= m THEN e.slot[found[j].node].id ELSE NoId
  BY RowContents
<1> HIDE DEF mask, W, q, row, found, m
<1>2. ASSUME NEW j \in 1 .. m
      PROVE  LET s == found[j].node IN
             /\ e.slot[s].id \in Nat /\ e.map[e.slot[s].id] = s
             /\ found[j].dist = Metric[q][e.slot[s].vec]
  <2> DEFINE s == found[j].node
  <2>1. s \in W /\ found[j].dist = Metric[q][e.slot[s].vec]
    BY <1>1 DEF IsTopK, m
  <2> HIDE DEF s
  <2>2. s \in Mapped(e, e.count) /\ e.slot[s].id \in Ids
    BY <2>1 DEF W, Wanted, LiveSlots, Mapped, IsLive, Slot
  <2>3. e.map[e.slot[s].id] = s
    BY <2>2 DEF Good, MapExactFor
  <2>4. e.slot[s].id \in Nat
    BY <2>2, BindingsAssumption
  <2> QED
    BY <2>1, <2>3, <2>4 DEF s
<1>3. \A j \in 1 .. k : row[j] # NoId <=> j <= m
  <2> SUFFICES ASSUME NEW j \in 1 .. k PROVE row[j] # NoId <=> j <= m
    OBVIOUS
  <2>1. CASE j <= m
    <3>1. j \in 1 .. m
      BY <1>1, <2>1
    <3>2. row[j] \in Nat
      BY <1>1, <1>2, <2>1, <3>1
    <3> QED
      BY <2>1, <3>2 DEF NoId
  <2>2. CASE ~ (j <= m)
    BY <1>1, <2>2
  <2> QED
    BY <2>1, <2>2
<1>4. n = m
  <2>1. {j \in 1 .. k : row[j] # NoId} = 1 .. m
    BY <1>1, <1>3
  <2>2. Cardinality(1 .. m) = m
    BY <1>1, FS_Interval
  <2> QED
    BY <2>1, <2>2
<1> HIDE DEF n
<1>5. Len(hits) = m
  BY <1>1, <1>4
<1>6. \A j \in 1 .. m : hits[j].node = found[j].node /\ hits[j].dist = found[j].dist
  <2> SUFFICES ASSUME NEW j \in 1 .. m
               PROVE  hits[j].node = found[j].node /\ hits[j].dist = found[j].dist
    BY Zenon
  <2>0. j \in 1 .. k /\ j <= m
    BY <1>1
  <2>1. row[j] = e.slot[found[j].node].id
    BY <1>1, <2>0
  <2>2. e.map[row[j]] = found[j].node /\ found[j].dist = Metric[q][e.slot[found[j].node].vec]
    BY <1>2, <2>1
  <2>3. hits[j] = [node |-> e.map[row[j]], dist |-> Metric[q][e.slot[e.map[row[j]]].vec]]
    BY <1>4
  <2> HIDE DEF hits
  <2> QED
    BY <2>2, <2>3, SMTT(30)
<1> HIDE DEF hits
<1>7. IsTopK(e, q, k, W, hits)
  BY <1>1, <1>5, <1>6, SameTopK DEF m
<1>8. \A j \in 1 .. k : row[j] = NoId <=> j > n
  BY <1>1, <1>3, <1>4
<1> QED
  BY <1>7, <1>8, Zenon DEF RowExact, hits, n, row, mask, W, q

\* Whatever block of a batch a query falls in, its row holds the nearest of the
\* vectors that the id lists let through, then padding.
THEOREM RowsAlwaysExact == PySpec => []RowsExact
<1>1. PyInv => RowsExact
  <2> SUFFICES ASSUME PyInv PROVE RowsExact
    OBVIOUS
  <2>1. ASSUME NEW q \in Queries, NEW r \in Queries \ {q}, NEW k \in 1 .. 3,
               NEW S \in Filters, NEW mode \in {"allow", "deny"}, NEW i \in 1 .. 3
        PROVE  RowExact(d, <<q, r, q>>, k, S, mode, i)
    <3>1. Good(d, d.count) /\ S \in SUBSET Ids /\ k \in Nat /\ k >= 1
      BY BindingsAssumption DEF PyInv
    <3> DEFINE qs == <<q, r, q>>
    <3>2. qs \in Seq(Queries) /\ i \in 1 .. Len(qs)
      OBVIOUS
    <3> HIDE DEF qs
    <3>3. RowExact(d, qs, k, S, mode, i)
      BY <3>1, <3>2, BatchExact
    <3> QED
      BY <3>3 DEF qs
  <2> QED
    BY ONLY <2>1, Zenon DEF RowsExact, RowExact
<1> QED
  BY <1>1, PyAlways, PTL
=============================================================================
