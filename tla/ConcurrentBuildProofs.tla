----------------------- MODULE ConcurrentBuildProofs -----------------------
(***************************************************************************)
(* Theorems about the parallel graph construction, for any number of       *)
(* threads, any batch, chunk size, M, ef_construction and levels.          *)
(*                                                                         *)
(* The parts of the inductive invariant are predicates of the values of    *)
(* the variables: c is call, h the graph, P the published nodes, ck and gk *)
(* the owners of the locks, nx the loop index, lc the locals of all        *)
(* threads and r those of one.                                             *)
(***************************************************************************)
EXTENDS ConcurrentBuild, HnswOpsProofs

Old(c) == ToSet(c.pre)
New(c) == ToSet(c.batch)

Greedy2 == {"greedy", "gscan"}
Linking == {"link", "linkend", "back", "backend"}
OnLayer == {"beam", "scan"} \cup Linking
Working == Greedy2 \cup OnLayer \cup {"publish"}    \* between claim and Publish
Raising == {"top", "entry", "untop"}

Locals == [pc : Pcs, chunk : Seq(Nat), v : Points \cup {NoNode},
           ep : Points \cup {NoNode}, max : Int, l : Int, snap : Seq(Points),
           moved : BOOLEAN,
           beam : [cand : SUBSET Points, res : SUBSET Points, vis : SUBSET Points],
           sel : Seq(Points), j : Nat]

-----------------------------------------------------------------------------
ShapeOK(c, h, P, ck, gk, nx, lc) ==
    /\ c \in Calls
    /\ IsGraph(h) /\ Nodes(h) = Old(c) \cup New(c) /\ h.lvl \in [Nodes(h) -> 0 .. MaxLevel]
    /\ Old(c) \subseteq P /\ P \subseteq Nodes(h)
    /\ ck \in [Nodes(h) -> Threads \cup {NoThread}] /\ gk \in Threads \cup {NoThread}
    /\ nx \in 1 .. Len(c.batch) + Chunk
    /\ lc \in [Threads -> Locals]

\* Whatever a thread stands on or links to is published.
StandsOn(r) == r.beam.cand \cup r.beam.res \cup ToSet(r.sel) \cup ({r.ep} \ {NoNode})

\* One thread: where it is, and which levels of its node are wired.
ThreadOK(c, h, P, r) ==
    /\ StandsOn(r) \subseteq P /\ ToSet(r.snap) \subseteq Nodes(h)
    /\ r.pc \in Working =>
          /\ r.v \in Nodes(h) \ P /\ r.ep \in P
          /\ r.max \in Nat /\ r.max <= h.top /\ \A u \in Old(c) : h.lvl[u] <= r.max
    /\ r.pc \in Greedy2 => r.l \in h.lvl[r.v] + 1 .. r.max /\ r.ep \in OnLev(h, r.l)
    /\ r.pc \in {"gscan", "scan"} =>
          ToSet(r.snap) \subseteq OnLev(h, r.l) /\ Len(r.snap) <= LinkCap(r.l)
    /\ r.pc \in OnLayer =>
          /\ r.l \in 0 .. h.lvl[r.v] /\ r.l <= r.max
          /\ r.beam.cand \cup r.beam.res \subseteq OnLev(h, r.l) /\ r.beam.res # {}
    /\ r.pc \in Linking =>
          /\ r.sel \in Seq(r.beam.res) /\ IsInjective(r.sel) /\ r.sel # <<>>
          /\ r.j \in 1 .. Len(r.sel) + 1
    /\ r.pc \in {"linkend", "backend"} => r.j <= Len(r.sel)
    /\ r.pc = "publish" => r.l = -1
    /\ r.pc \in OnLayer \cup {"publish"} =>
          \A m \in 0 .. h.lvl[r.v] : r.l < m /\ m <= r.max => Links(h, r.v, m) # <<>>
    /\ r.pc \in {"linkend", "back", "backend"} \/ (r.pc = "link" /\ r.j > 1) =>
          Links(h, r.v, r.l) # <<>>
    /\ r.pc \in Raising => r.v \in P

\* The batch is split: a node not published yet is either not claimed or on the
\* hands of exactly one thread.
Todo(c, r) == {c.batch[i] : i \in ToSet(r.chunk)}
Mine(c, r) == Todo(c, r) \cup (IF r.pc \in Working THEN {r.v} ELSE {})

SplitOK(c, P, nx, lc) ==
    /\ \A t \in Threads :
          /\ lc[t].chunk \in Seq(1 .. Len(c.batch)) /\ IsInjective(lc[t].chunk)
          /\ \A i \in ToSet(lc[t].chunk) : i < nx
          /\ Mine(c, lc[t]) \cap P = {}
          /\ lc[t].pc \in Working => lc[t].v \in New(c) \ Todo(c, lc[t])
    /\ \A t, u \in Threads : t # u => Mine(c, lc[t]) \cap Mine(c, lc[u]) = {}
    /\ \A i \in 1 .. Len(c.batch) :
          IF i >= nx THEN c.batch[i] \notin P /\ \A t \in Threads : c.batch[i] \notin Mine(c, lc[t])
          ELSE c.batch[i] \in P \/ \E t \in Threads : c.batch[i] \in Mine(c, lc[t])

\* A lock is held exactly inside the critical section that took it.
Holds(r, a) == (r.pc = "linkend" /\ a = r.v) \/ (r.pc = "backend" /\ a = r.sel[r.j])
LocksOK(h, ck, gk, lc) ==
    /\ \A t \in Threads, a \in Nodes(h) : ck[a] = t <=> Holds(lc[t], a)
    /\ \A t \in Threads : gk = t <=> lc[t].pc \in {"entry", "untop"}

EntryOK(c, h, P, gk, lc) ==
    /\ h.entry \in P /\ h.top \in 0 .. MaxLevel
    /\ \A u \in Old(c) : h.lvl[u] <= h.top
    /\ gk = NoThread => h.lvl[h.entry] = h.top
    /\ \A t \in Threads : /\ lc[t].pc = "entry" => h.top = h.lvl[lc[t].v]
                          /\ lc[t].pc = "untop" => h.lvl[h.entry] = h.top
    /\ \A u \in P : h.lvl[u] > h.top => \E t \in Threads : lc[t].pc = "top" /\ lc[t].v = u

\* Only the list a lock is held for may be one over its cap.
Extra(ck, lc, a, l) == IF ck[a] # NoThread /\ lc[ck[a]].l = l THEN 1 ELSE 0
ListsOK(h, ck, lc) ==
    \A a \in Nodes(h) : \A l \in 0 .. h.lvl[a] :
       LET L == Links(h, a, l)
       IN  /\ Len(L) <= LinkCap(l) + Extra(ck, lc, a, l)
           /\ IsInjective(L) /\ a \notin ToSet(L) /\ ToSet(L) \subseteq OnLev(h, l)

KeptOK(c, h, P) ==
    \A v \in P \cap New(c) : \A l \in 0 .. h.lvl[v] :
       (\E u \in Old(c) : h.lvl[u] >= l) => Links(h, v, l) # <<>>

\* The bottom layer of a small graph: every link has its link back or a thread
\* about to make it, unpublished nodes link to published ones only, and the
\* published ones hang together.
Pending(r, u, w) == /\ r.l = 0 /\ r.v = u
                    /\ \/ r.pc \in {"link", "linkend"} /\ w \in ToSet(r.sel)
                       \/ \E i \in 1 .. Len(r.sel) :
                             w = r.sel[i] /\ ((r.pc = "back" /\ i >= r.j) \/ (r.pc = "backend" /\ i > r.j))
Linked(h, r) ==
    r.l = 0 =>
       /\ r.pc \in {"back", "backend"} => ToSet(r.sel) \subseteq Beside(h, r.v)
       /\ r.pc \in {"link", "linkend"} => \A i \in 1 .. Len(r.sel) :
             i < r.j \/ (i = r.j /\ r.pc = "linkend") => r.sel[i] \in Beside(h, r.v)

BottomOK(h, P, lc) ==
    Small(h) =>
       /\ \A u, w \in Nodes(h) : w \in Beside(h, u) =>
             u \in Beside(h, w) \/ \E t \in Threads : Pending(lc[t], u, w)
       /\ \A t \in Threads : Linked(h, lc[t])
       /\ \A u \in Nodes(h) \ P : Beside(h, u) \subseteq P
       /\ \A V \in SUBSET P : V # {} /\ (\A u \in V : Beside(h, u) \cap P \subseteq V) => V = P

Good(c, h, P, ck, gk, nx, lc) ==
    /\ ShapeOK(c, h, P, ck, gk, nx, lc)
    /\ \A t \in Threads : ThreadOK(c, h, P, lc[t])
    /\ SplitOK(c, P, nx, lc)
    /\ LocksOK(h, ck, gk, lc)
    /\ EntryOK(c, h, P, gk, lc)
    /\ ListsOK(h, ck, lc)
    /\ KeptOK(c, h, P)
    /\ BottomOK(h, P, lc)

Inv == Good(call, g, pub, clk, glk, next, loc)

-----------------------------------------------------------------------------
(***************************************************************************)
(* The initial states.                                                     *)
(***************************************************************************)
LEMMA CallFacts ==
    ASSUME NEW c \in Calls
    PROVE  /\ c.pre \in Seq(Points) /\ c.batch \in Seq(Points)
           /\ IsInjective(c.pre) /\ IsInjective(c.batch)
           /\ Old(c) \cap New(c) = {} /\ Old(c) # {}
           /\ Old(c) \subseteq Points /\ New(c) \subseteq Points
           /\ Len(c.pre) \in Nat /\ Len(c.pre) > 0 /\ Len(c.batch) \in Nat
           /\ DOMAIN c.pre = 1 .. Len(c.pre) /\ DOMAIN c.batch = 1 .. Len(c.batch)
<1> DEFINE a == c.pre
           b == c.batch
<1>1. a \in Seq(Points) /\ b \in Seq(Points) /\ IsInjective(a \o b) /\ Len(a) > 0
  BY ConcurrentAssumption
<1> HIDE DEF a, b
<1>2. /\ Len(a) \in Nat /\ Len(b) \in Nat
      /\ DOMAIN a = 1 .. Len(a) /\ DOMAIN b = 1 .. Len(b)
      /\ DOMAIN (a \o b) = 1 .. Len(a) + Len(b)
      /\ \A i \in 1 .. Len(a) : i \in 1 .. Len(a) + Len(b) /\ (a \o b)[i] = a[i]
      /\ \A i \in 1 .. Len(b) : /\ Len(a) + i \in 1 .. Len(a) + Len(b)
                                /\ (a \o b)[Len(a) + i] = b[i]
  BY <1>1
<1>3. \A i, j \in 1 .. Len(a) + Len(b) : (a \o b)[i] = (a \o b)[j] => i = j
  BY <1>1, <1>2 DEF IsInjective
<1>4. IsInjective(a)
  BY <1>2, <1>3 DEF IsInjective
<1>5. IsInjective(b)
  <2>1. \A i, j \in 1 .. Len(b) : Len(a) + i = Len(a) + j => i = j
    BY <1>2
  <2> QED
    BY <1>2, <1>3, <2>1 DEF IsInjective
<1>6. ToSet(a) \cap ToSet(b) = {}
  <2>1. \A i \in 1 .. Len(a), j \in 1 .. Len(b) : i # Len(a) + j
    BY <1>2
  <2>2. \A i \in 1 .. Len(a), j \in 1 .. Len(b) : a[i] # b[j]
    BY <1>2, <1>3, <2>1
  <2> QED
    BY <1>2, <2>2 DEF ToSet
<1>7. ToSet(a) # {} /\ ToSet(a) \subseteq Points /\ ToSet(b) \subseteq Points
  <2>1. a[1] \in ToSet(a)
    BY <1>1, <1>2 DEF ToSet
  <2> QED
    BY <1>1, <1>2, <2>1 DEF ToSet
<1> QED
  BY <1>1, <1>2, <1>4, <1>5, <1>6, <1>7 DEF a, b, Old, New

\* The serial adds before the batch.
PreOp(x, a, v) == AddNode(a, v, x.lv[v])
PreInv(x, k, a) == /\ Built(a) /\ Nodes(a) = {x.call.pre[j] : j \in 1 .. k}
                   /\ \A u \in Nodes(a) : a.lvl[u] = x.lv[u]

Adds == INSTANCE FoldFacts WITH Op <- PreOp, Inv <- PreInv

LEMMA PreGraphFacts ==
    ASSUME NEW c \in Calls, NEW lv \in [Old(c) \cup New(c) -> 0 .. MaxLevel]
    PROVE  LET a == PreGraph(c, lv) IN
           Whole(a) /\ Nodes(a) = Old(c) /\ \A u \in Old(c) : a.lvl[u] = lv[u]
<1> DEFINE x == [call |-> c, lv |-> lv]
           n == Len(c.pre)
           a == PreGraph(c, lv)
<1>1. a = Adds!Fold(x, EmptyGraph, c.pre)
  BY DEF PreGraph, PreOp, Adds!Fold, Adds!FoldLeft, FoldLeft, MapThenFoldSet,
         Adds!MapThenFoldSet, Max, Adds!Max
<1>2. x.call = c /\ x.lv = lv
  OBVIOUS
<1>3. /\ n \in Nat /\ n > 0 /\ DOMAIN c.pre = 1 .. n /\ Old(c) \subseteq Points
      /\ \A i, j \in 1 .. n : c.pre[i] = c.pre[j] => i = j
      /\ \A i \in 1 .. n : c.pre[i] \in Old(c)
      /\ Old(c) = {c.pre[j] : j \in 1 .. n}
  BY CallFacts DEF IsInjective, Old, ToSet
<1> HIDE DEF x, n, a
<1>4. PreInv(x, 0, EmptyGraph)
  BY EmptyBuilt DEF PreInv
<1>5. ASSUME NEW s, NEW k \in 0 .. n - 1, PreInv(x, k, s)
      PROVE  PreInv(x, k + 1, PreOp(x, s, c.pre[k + 1]))
  <2> DEFINE v == c.pre[k + 1]
             h == AddNode(s, v, lv[v])
  <2>1. /\ Built(s) /\ Nodes(s) = {c.pre[j] : j \in 1 .. k}
        /\ \A u \in Nodes(s) : s.lvl[u] = lv[u]
    BY <1>2, <1>5 DEF PreInv
  <2>2. /\ k + 1 \in 1 .. n /\ v \in Old(c) /\ v \in Points /\ lv[v] \in Nat
        /\ \A j \in 1 .. k : j \in 1 .. n /\ j # k + 1
    BY <1>3
  <2>3. v \notin Nodes(s)
    BY <1>3, <2>1, <2>2
  <2> HIDE DEF v
  <2>4. /\ Whole(h) /\ Nodes(h) = Nodes(s) \cup {v}
        /\ h.lvl[v] = lv[v] /\ \A u \in Nodes(s) : h.lvl[u] = s.lvl[u]
    BY <2>1, <2>2, <2>3, AddNodeFacts
  <2> HIDE DEF h
  <2>5. Nodes(h) = {c.pre[j] : j \in 1 .. k + 1}
    <3>1. \A j : j \in 1 .. k + 1 <=> j \in 1 .. k \/ j = k + 1
      OBVIOUS
    <3> QED
      BY <2>1, <2>4, <3>1 DEF v
  <2>6. Built(h)
    BY <2>4 DEF Built
  <2>7. \A u \in Nodes(h) : h.lvl[u] = lv[u]
    BY <2>1, <2>4
  <2> QED
    BY <1>2, <2>5, <2>6, <2>7 DEF PreInv, PreOp, h, v
<1>6. PreInv(x, n, a)
  BY <1>1, <1>3, <1>4, <1>5, Adds!FoldInv
<1>7. Built(a) /\ Nodes(a) = Old(c) /\ \A u \in Nodes(a) : a.lvl[u] = lv[u]
  BY <1>2, <1>3, <1>6 DEF PreInv
<1>8. Nodes(a) # {}
  BY <1>7, CallFacts
<1> QED
  BY <1>7, <1>8 DEF Built, a

\* Phase 1a: the batch is stored.
BatchOp(x, a, v) == StoreNode(a, v, x.lv[v])
BatchInv(x, k, a) ==
    /\ Sound(a) /\ Nodes(a) = Nodes(x.base) \cup {x.call.batch[j] : j \in 1 .. k}
    /\ a.entry = x.base.entry /\ a.top = x.base.top
    /\ \A u \in Nodes(a) : a.lvl[u] = x.lv[u]
    /\ \A u \in Nodes(x.base) : Beside(a, u) = Beside(x.base, u)
    /\ \A u \in Nodes(a) \ Nodes(x.base) : Beside(a, u) = {}

Stores == INSTANCE FoldFacts WITH Op <- BatchOp, Inv <- BatchInv

LEMMA StoredFacts ==
    ASSUME NEW c \in Calls, NEW lv \in [Old(c) \cup New(c) -> 0 .. MaxLevel]
    PROVE  LET a == PreGraph(c, lv)
               s == Stored(c, lv)
           IN  /\ Sound(s) /\ Nodes(s) = Old(c) \cup New(c)
               /\ s.entry = a.entry /\ s.top = a.top
               /\ \A u \in Nodes(s) : s.lvl[u] = lv[u]
               /\ \A u \in Old(c) : Beside(s, u) = Beside(a, u)
               /\ \A u \in Nodes(s) \ Old(c) : Beside(s, u) = {}
<1> DEFINE a == PreGraph(c, lv)
           s == Stored(c, lv)
           x == [call |-> c, lv |-> lv, base |-> a]
           n == Len(c.batch)
<1>1. s = Stores!Fold(x, a, c.batch)
  BY DEF Stored, BatchOp, Stores!Fold, Stores!FoldLeft, FoldLeft, MapThenFoldSet,
         Stores!MapThenFoldSet, Max, Stores!Max
<1>2. x.call = c /\ x.lv = lv /\ x.base = a
  OBVIOUS
<1>3. /\ n \in Nat /\ DOMAIN c.batch = 1 .. n /\ New(c) \subseteq Points
      /\ \A i, j \in 1 .. n : c.batch[i] = c.batch[j] => i = j
      /\ \A i \in 1 .. n : c.batch[i] \in New(c)
      /\ New(c) = {c.batch[j] : j \in 1 .. n} /\ Old(c) \cap New(c) = {}
  BY CallFacts DEF IsInjective, New, ToSet
<1>4. Sound(a) /\ Nodes(a) = Old(c) /\ \A u \in Old(c) : a.lvl[u] = lv[u]
  BY PreGraphFacts DEF Whole
<1> HIDE DEF x, n, a, s
<1>5. BatchInv(x, 0, a)
  BY <1>2, <1>4 DEF BatchInv
<1>6. ASSUME NEW r, NEW k \in 0 .. n - 1, BatchInv(x, k, r)
      PROVE  BatchInv(x, k + 1, BatchOp(x, r, c.batch[k + 1]))
  <2> DEFINE v == c.batch[k + 1]
             h == StoreNode(r, v, lv[v])
  <2>1. /\ Sound(r) /\ Nodes(r) = Old(c) \cup {c.batch[j] : j \in 1 .. k}
        /\ r.entry = a.entry /\ r.top = a.top
        /\ \A u \in Nodes(r) : r.lvl[u] = lv[u]
        /\ \A u \in Old(c) : Beside(r, u) = Beside(a, u)
        /\ \A u \in Nodes(r) \ Old(c) : Beside(r, u) = {}
    BY <1>2, <1>4, <1>6 DEF BatchInv
  <2>2. /\ k + 1 \in 1 .. n /\ v \in New(c) /\ v \in Points /\ lv[v] \in Nat
        /\ \A j \in 1 .. k : j \in 1 .. n /\ j # k + 1
    BY <1>3
  <2>3. v \notin Nodes(r)
    BY <1>3, <2>1, <2>2
  <2> HIDE DEF v
  <2>4. /\ Sound(h) /\ Nodes(h) = Nodes(r) \cup {v} /\ h.entry = r.entry /\ h.top = r.top
        /\ h.lvl[v] = lv[v] /\ \A u \in Nodes(r) : h.lvl[u] = r.lvl[u]
        /\ \A l \in 0 .. lv[v] : Links(h, v, l) = <<>>
        /\ \A u \in Nodes(r) : \A l : Links(h, u, l) = Links(r, u, l)
    BY <2>1, <2>2, <2>3, StoreNodeFacts
  <2> HIDE DEF h
  <2>5. Nodes(h) = Old(c) \cup {c.batch[j] : j \in 1 .. k + 1}
    <3>1. \A j : j \in 1 .. k + 1 <=> j \in 1 .. k \/ j = k + 1
      OBVIOUS
    <3> QED
      BY <2>1, <2>4, <3>1 DEF v
  <2>6. \A u \in Nodes(h) : h.lvl[u] = lv[u]
    BY <2>1, <2>4
  <2>7. \A u \in Nodes(r) : Beside(h, u) = Beside(r, u)
    BY <2>4 DEF Beside
  <2>8. Beside(h, v) = {}
    <3>1. 0 \in 0 .. lv[v]
      BY <2>2
    <3> QED
      BY <2>4, <3>1 DEF Beside, ToSet
  <2>9. \A u \in Old(c) : u \in Nodes(r)
    BY <2>1
  <2> QED
    BY <1>2, <1>4, <2>1, <2>3, <2>4, <2>5, <2>6, <2>7, <2>8, <2>9
       DEF BatchInv, BatchOp, h, v
<1>7. BatchInv(x, n, s)
  BY <1>1, <1>3, <1>5, <1>6, Stores!FoldInv
<1> QED
  BY <1>2, <1>3, <1>4, <1>7 DEF BatchInv, a, s

LEMMA InvInit ==
    ASSUME Init
    PROVE  Inv
<1>1. PICK lv \in [Old(call) \cup New(call) -> 0 .. MaxLevel] : g = Stored(call, lv)
  <2>1. ToSet(call.pre \o call.batch) = Old(call) \cup New(call)
    <3>1. call \in Calls
      BY DEF Init
    <3> DEFINE a == call.pre
               b == call.batch
    <3>2. /\ a \in Seq(Points) /\ b \in Seq(Points) /\ Len(a) \in Nat /\ Len(b) \in Nat
          /\ DOMAIN a = 1 .. Len(a) /\ DOMAIN b = 1 .. Len(b)
      BY <3>1, CallFacts
    <3> HIDE DEF a, b
    <3>3. /\ DOMAIN (a \o b) = 1 .. Len(a) + Len(b)
          /\ \A i \in 1 .. Len(a) : i \in 1 .. Len(a) + Len(b) /\ (a \o b)[i] = a[i]
          /\ \A i \in 1 .. Len(b) : /\ Len(a) + i \in 1 .. Len(a) + Len(b)
                                    /\ (a \o b)[Len(a) + i] = b[i]
      BY <3>2
    <3>4. \A i \in 1 .. Len(a) + Len(b) : i \in 1 .. Len(a) \/ \E j \in 1 .. Len(b) : i = Len(a) + j
      <4>1. ASSUME NEW i \in 1 .. Len(a) + Len(b), i \notin 1 .. Len(a)
            PROVE  i - Len(a) \in 1 .. Len(b) /\ i = Len(a) + (i - Len(a))
        BY <3>2, <4>1
      <4> QED
        BY <4>1
    <3> DEFINE ab == a \o b
    <3> HIDE DEF ab
    <3>5. ToSet(ab) = ToSet(a) \cup ToSet(b)
      <4>1. /\ DOMAIN ab = 1 .. Len(a) + Len(b)
            /\ \A i \in 1 .. Len(a) : i \in 1 .. Len(a) + Len(b) /\ ab[i] = a[i]
            /\ \A i \in 1 .. Len(b) : /\ Len(a) + i \in 1 .. Len(a) + Len(b)
                                      /\ ab[Len(a) + i] = b[i]
        BY <3>3 DEF ab
      <4>2. ASSUME NEW i \in 1 .. Len(a) + Len(b) PROVE ab[i] \in ToSet(a) \cup ToSet(b)
        <5>1. CASE i \in 1 .. Len(a)
          BY <3>2, <4>1, <5>1 DEF ToSet
        <5>2. CASE i \notin 1 .. Len(a)
          <6>1. PICK j \in 1 .. Len(b) : i = Len(a) + j
            BY <3>4, <5>2
          <6>2. ab[i] = b[j]
            BY <4>1, <6>1
          <6> QED
            BY <3>2, <6>2 DEF ToSet
        <5> QED
          BY <5>1, <5>2
      <4>3. ToSet(a) \subseteq ToSet(ab) /\ ToSet(b) \subseteq ToSet(ab)
        BY <3>2, <4>1 DEF ToSet
      <4>4. ToSet(ab) = {ab[i] : i \in 1 .. Len(a) + Len(b)}
        BY <4>1 DEF ToSet
      <4> QED
        BY <4>2, <4>3, <4>4
    <3> QED
      BY <3>5 DEF a, b, ab, Old, New
  <2> QED
    BY <2>1 DEF Init
<1> DEFINE c == call
           a == PreGraph(c, lv)
           h == Stored(c, lv)
<1>2. /\ c \in Calls /\ g = h /\ pub = Old(c) /\ clk = [v \in Nodes(h) |-> NoThread]
      /\ glk = NoThread /\ next = 1 /\ loc = [t \in Threads |-> Rest]
  BY <1>1 DEF Init, Old
<1>3. /\ Sound(h) /\ Nodes(h) = Old(c) \cup New(c) /\ h.entry = a.entry /\ h.top = a.top
      /\ \A u \in Nodes(h) : h.lvl[u] = lv[u]
      /\ \A u \in Old(c) : Beside(h, u) = Beside(a, u)
      /\ \A u \in Nodes(h) \ Old(c) : Beside(h, u) = {}
  BY <1>2, StoredFacts
<1>4. Whole(a) /\ Nodes(a) = Old(c) /\ \A u \in Old(c) : a.lvl[u] = lv[u]
  BY <1>2, PreGraphFacts
<1>5. /\ Old(c) \cap New(c) = {} /\ Old(c) # {} /\ Len(c.batch) \in Nat
      /\ c.batch \in Seq(Points) /\ DOMAIN c.batch = 1 .. Len(c.batch)
      /\ IsInjective(c.batch)
  BY <1>2, CallFacts
<1> HIDE DEF c, a, h
<1>6. IsGraph(h) /\ OnLevel(h) /\ WithinCap(h)
  BY <1>3 DEF Sound
<1>7. Nodes(h) \subseteq Points /\ IsFiniteSet(Nodes(h)) /\ h.lvl \in [Nodes(h) -> 0 .. MaxLevel]
  <2>1. Nodes(h) \subseteq Points /\ h.lvl \in [Nodes(h) -> Nat]
    BY <1>6 DEF IsGraph
  <2>2. IsFiniteSet(Nodes(h))
    BY <2>1, PointsFinite
  <2>3. \A u \in Nodes(h) : lv[u] \in 0 .. MaxLevel
    BY <1>2, <1>3 DEF c
  <2>4. \A u \in Nodes(h) : h.lvl[u] \in 0 .. MaxLevel
    BY <1>3, <2>3
  <2>5. h.lvl \in [Nodes(h) -> 0 .. MaxLevel]
    BY <2>1, <2>4
  <2> QED
    BY <2>1, <2>2, <2>5
<1>8. NoThread \notin Threads /\ Chunk \in Nat \ {0}
  BY ConcurrentAssumption
<1>9. /\ Rest.pc = "claim" /\ Rest.chunk = <<>> /\ Rest.ep = NoNode /\ Rest.v = NoNode
      /\ Rest.sel = <<>> /\ Rest.snap = <<>> /\ Rest.l = -1 /\ Rest \in Locals
      /\ Rest.beam.cand = {} /\ Rest.beam.res = {}
  BY DEF Rest, NoBeam, Locals, Pcs
<1>10. \A t \in Threads : loc[t] = Rest
  BY <1>2
<1>11. ShapeOK(c, h, Old(c), clk, glk, next, loc)
  <2>1. clk \in [Nodes(h) -> Threads \cup {NoThread}] /\ loc \in [Threads -> Locals]
    BY <1>2, <1>9
  <2>2. next \in 1 .. Len(c.batch) + Chunk
    BY <1>2, <1>5, <1>8
  <2> QED
    BY <1>2, <1>3, <1>6, <1>7, <2>1, <2>2 DEF ShapeOK
<1>12. ASSUME NEW t \in Threads PROVE ThreadOK(c, h, Old(c), loc[t])
  <2>1. ToSet(Rest.sel) = {} /\ ToSet(Rest.snap) = {}
    BY <1>9 DEF ToSet
  <2>2. Rest.pc \notin Working \cup Greedy2 \cup OnLayer \cup Raising /\ Rest.pc # "gscan" /\ Rest.pc # "scan"
        /\ Rest.pc \notin {"linkend", "back", "backend", "link", "publish"} \cup Linking
    BY <1>9 DEF Working, Greedy2, OnLayer, Linking, Raising
  <2>3. StandsOn(Rest) = {}
    BY <1>9, <2>1 DEF StandsOn
  <2> QED
    BY <1>10, <2>1, <2>2, <2>3 DEF ThreadOK
<1>13. SplitOK(c, Old(c), next, loc)
  <2>1. \A t \in Threads : loc[t].chunk = <<>> /\ loc[t].pc \notin Working
    BY <1>9, <1>10 DEF Working, Greedy2, OnLayer, Linking
  <2>2. \A t \in Threads : Mine(c, loc[t]) = {}
    BY <2>1 DEF Mine, Todo, ToSet
  <2>3. \A i \in 1 .. Len(c.batch) : i >= next /\ c.batch[i] \notin Old(c)
    BY <1>2, <1>5 DEF New, ToSet
  <2>4. \A t \in Threads : /\ loc[t].chunk \in Seq(1 .. Len(c.batch)) /\ IsInjective(loc[t].chunk)
                            /\ ToSet(loc[t].chunk) = {}
    <3>1. <<>> \in Seq(1 .. Len(c.batch)) /\ IsInjective(<<>>) /\ ToSet(<<>>) = {}
      BY DEF IsInjective, ToSet
    <3> QED
      BY <2>1, <3>1
  <2> QED
    BY <2>1, <2>2, <2>3, <2>4 DEF SplitOK
<1>14. LocksOK(h, clk, glk, loc)
  BY <1>2, <1>8, <1>9, <1>10 DEF LocksOK, Holds
<1>15. EntryOK(c, h, Old(c), glk, loc)
  <2>1. a.entry \in Old(c) /\ a.lvl[a.entry] = a.top /\ \A u \in Old(c) : a.lvl[u] <= a.top
    BY <1>4, <1>5 DEF Whole, EntryOnTopOf
  <2>2. h.entry \in Old(c) /\ h.lvl[h.entry] = h.top /\ \A u \in Old(c) : h.lvl[u] <= h.top
    BY <1>3, <1>4, <2>1
  <2>3. h.top \in 0 .. MaxLevel
    BY <1>3, <1>7, <2>2
  <2>4. \A u \in Old(c) : ~ (h.lvl[u] > h.top)
    BY <1>3, <1>7, <2>2, <2>3
  <2> QED
    BY <1>9, <1>10, <2>2, <2>3, <2>4 DEF EntryOK
<1>16. ListsOK(h, clk, loc)
  <2>1. \A u \in Nodes(h) : \A m \in 0 .. h.lvl[u] : GoodList(h, u, m, Links(h, u, m))
    BY <1>6, SoundLists
  <2>2. \A u \in Nodes(h) : \A m : Extra(clk, loc, u, m) = 0
    BY <1>2 DEF Extra
  <2>3. \A m \in Nat : LinkCap(m) \in Nat
    BY HnswOpsAssumption DEF LinkCap, M0
  <2>4. \A u \in Nodes(h) : h.lvl[u] \in Nat
    BY <1>6 DEF IsGraph
  <2>5. ASSUME NEW u \in Nodes(h), NEW m \in 0 .. h.lvl[u]
        PROVE  /\ Len(Links(h, u, m)) <= LinkCap(m) + Extra(clk, loc, u, m)
               /\ IsInjective(Links(h, u, m)) /\ u \notin ToSet(Links(h, u, m))
               /\ ToSet(Links(h, u, m)) \subseteq OnLev(h, m)
    <3>1. m \in Nat
      BY <2>4
    <3> QED
      BY <2>1, <2>2, <2>3, <3>1 DEF GoodList
  <2> QED
    BY <2>5 DEF ListsOK
<1>17. KeptOK(c, h, Old(c))
  BY <1>5 DEF KeptOK
<1>18. BottomOK(h, Old(c), loc)
  <2>1. SUFFICES ASSUME Small(h)
                 PROVE  /\ \A u, w \in Nodes(h) : w \in Beside(h, u) => u \in Beside(h, w)
                        /\ \A t \in Threads : Linked(h, loc[t])
                        /\ \A u \in Nodes(h) \ Old(c) : Beside(h, u) \subseteq Old(c)
                        /\ \A V \in SUBSET Old(c) :
                              V # {} /\ (\A u \in V : Beside(h, u) \cap Old(c) \subseteq V) => V = Old(c)
    BY DEF BottomOK
  <2>2. Small(a)
    <3>1. Old(c) \subseteq Nodes(h) /\ Cardinality(Nodes(h)) <= M0 + 1
      BY <1>3, <2>1 DEF Small
    <3>2. Cardinality(Old(c)) <= Cardinality(Nodes(h))
      BY <1>7, <3>1, FS_Subset
    <3>3. Cardinality(Old(c)) \in Nat /\ Cardinality(Nodes(h)) \in Nat /\ M0 \in Nat
      BY <1>7, <3>1, PointsFinite, HnswOpsAssumption DEF M0
    <3> QED
      BY <1>4, <3>1, <3>2, <3>3 DEF Small
  <2>3. Symmetric(a) /\ Joined(a, Old(c))
    BY <1>4, <2>2 DEF Whole
  <2>4. \A u \in Old(c) : Beside(h, u) = Beside(a, u) /\ Beside(a, u) \subseteq Old(c)
    <3>1. IsGraph(a)
      BY <1>4 DEF Whole, Sound
    <3> QED
      BY <1>3, <1>4, <3>1, BesideFacts
  <2>5. \A t \in Threads : Linked(h, loc[t])
    BY <1>9, <1>10 DEF Linked
  <2>6. \A u \in Nodes(h) \ Old(c) : Beside(h, u) = {}
    BY <1>3
  <2>7. \A u, w \in Nodes(h) : w \in Beside(h, u) => u \in Beside(h, w)
    BY <1>4, <2>3, <2>4, <2>6 DEF Symmetric
  <2>8. \A V \in SUBSET Old(c) :
           V # {} /\ (\A u \in V : Beside(h, u) \cap Old(c) \subseteq V) => V = Old(c)
    BY <2>3, <2>4 DEF Joined
  <2> QED
    BY <2>5, <2>6, <2>7, <2>8
<1> QED
  BY <1>2, <1>11, <1>12, <1>13, <1>14, <1>15, <1>16, <1>17, <1>18 DEF Inv, Good, c

-----------------------------------------------------------------------------
(***************************************************************************)
(* What a step of one thread leaves as it was.                             *)
(***************************************************************************)
\* One list is written.
PutList(h, u, l, list) == [h EXCEPT !.link[u][l + 1] = list]

LEMMA PutListFacts ==
    ASSUME NEW h, IsGraph(h), NEW u \in Nodes(h), NEW l \in 0 .. h.lvl[u],
           NEW list \in Seq(Nodes(h))
    PROVE  LET k == PutList(h, u, l, list) IN
           /\ IsGraph(k) /\ SameButLink(k, h)
           /\ \A x \in Nodes(h) : \A m \in 0 .. h.lvl[x] :
                 Links(k, x, m) = IF x = u /\ m = l THEN list ELSE Links(h, x, m)
<1> DEFINE k == PutList(h, u, l, list)
           Lists == Seq(Nodes(h))
<1>1. /\ h = [lvl |-> h.lvl, link |-> h.link, entry |-> h.entry, top |-> h.top]
      /\ Nodes(h) \subseteq Points /\ h.lvl \in [Nodes(h) -> Nat] /\ DOMAIN h.link = Nodes(h)
      /\ \A v \in Nodes(h) : h.link[v] \in [1 .. h.lvl[v] + 1 -> Lists]
  BY DEF IsGraph
<1>2. list \in Lists
  OBVIOUS
<1> HIDE DEF Lists
<1>3. /\ k.lvl = h.lvl /\ k.entry = h.entry /\ k.top = h.top
      /\ k.link = [h.link EXCEPT ![u][l + 1] = list]
      /\ k = [lvl |-> k.lvl, link |-> k.link, entry |-> k.entry, top |-> k.top]
  <2> DEFINE z == [h.link EXCEPT ![u][l + 1] = list]
  <2>1. k = [h EXCEPT !.link = z]
    BY DEF PutList
  <2> HIDE DEF z, k
  <2>2. k = [lvl |-> h.lvl, link |-> z, entry |-> h.entry, top |-> h.top]
    BY <1>1, <2>1
  <2> QED
    BY <2>2 DEF z
<1> HIDE DEF k
<1>4. h.lvl[u] \in Nat /\ l + 1 \in 1 .. h.lvl[u] + 1
  BY <1>1
<1>5. DOMAIN k.link = Nodes(h) /\ Nodes(k) = Nodes(h)
  BY <1>1, <1>3 DEF Nodes
<1>6. \A x \in Nodes(h) : k.link[x] = IF x = u THEN [h.link[u] EXCEPT ![l + 1] = list] ELSE h.link[x]
  BY <1>1, <1>3
<1>7. [h.link[u] EXCEPT ![l + 1] = list] \in [1 .. h.lvl[u] + 1 -> Lists]
  BY <1>1, <1>2, <1>4
<1>8. \A x \in Nodes(h) : k.link[x] \in [1 .. h.lvl[x] + 1 -> Lists]
  BY <1>1, <1>6, <1>7
<1>9. IsGraph(k)
  BY <1>1, <1>3, <1>5, <1>8 DEF IsGraph, Lists
<1>10. ASSUME NEW x \in Nodes(h), NEW m \in 0 .. h.lvl[x]
       PROVE  Links(k, x, m) = IF x = u /\ m = l THEN list ELSE Links(h, x, m)
  <2>1. h.lvl[x] \in Nat /\ m + 1 \in 1 .. h.lvl[x] + 1 /\ (m + 1 = l + 1 <=> m = l)
    BY <1>1
  <2>2. DOMAIN h.link[u] = 1 .. h.lvl[u] + 1
    BY <1>1
  <2> QED
    BY <1>4, <1>6, <2>1, <2>2 DEF Links
<1> QED
  BY <1>3, <1>5, <1>9, <1>10 DEF SameButLink, k

\* A thread does not lose its place when others wire, publish or raise the top.
StillLinked(k, h) == \A u \in Nodes(h) : \A m \in 0 .. h.lvl[u] :
                        Links(h, u, m) # <<>> => Links(k, u, m) # <<>>

LEMMA ThreadKept ==
    ASSUME NEW c, NEW h, NEW P, NEW r, ThreadOK(c, h, P, r), P \subseteq Nodes(h),
           h.lvl \in [Nodes(h) -> Nat],
           NEW k, Nodes(k) = Nodes(h), k.lvl = h.lvl, h.top \in Int, k.top \in Int,
           h.top <= k.top, StillLinked(k, h),
           NEW Q, P \subseteq Q, r.pc \in Working => r.v \notin Q
    PROVE  ThreadOK(c, k, Q, r)
<1>1. \A l : OnLev(k, l) = OnLev(h, l)
  BY DEF OnLev
<1>2. StandsOn(r) \subseteq Q /\ ToSet(r.snap) \subseteq Nodes(k)
  BY DEF ThreadOK
<1>3. r.pc \in Working =>
          /\ r.v \in Nodes(k) \ Q /\ r.ep \in Q
          /\ r.max \in Nat /\ r.max <= k.top /\ \A u \in Old(c) : k.lvl[u] <= r.max
  BY DEF ThreadOK
<1>4. r.pc \in OnLayer \cup {"publish"} => r.pc \in Working
  BY DEF Working
<1>5. r.pc \in OnLayer \cup {"publish"} =>
          \A m \in 0 .. k.lvl[r.v] : r.l < m /\ m <= r.max => Links(k, r.v, m) # <<>>
  BY <1>3, <1>4 DEF ThreadOK, StillLinked
<1>6. r.pc \in {"linkend", "back", "backend"} \/ (r.pc = "link" /\ r.j > 1) =>
          Links(k, r.v, r.l) # <<>>
  <2>1. SUFFICES ASSUME r.pc \in {"linkend", "back", "backend"} \/ (r.pc = "link" /\ r.j > 1)
                 PROVE  Links(k, r.v, r.l) # <<>>
    OBVIOUS
  <2>2. r.pc \in OnLayer
    BY <2>1 DEF OnLayer, Linking
  <2>3. r.v \in Nodes(h) /\ r.l \in 0 .. h.lvl[r.v] /\ Links(h, r.v, r.l) # <<>>
    BY <1>3, <1>4, <2>1, <2>2 DEF ThreadOK
  <2> QED
    BY <2>3 DEF StillLinked
<1> QED
  BY <1>1, <1>2, <1>3, <1>5, <1>6 DEF ThreadOK

\* A thread that keeps its unpublished nodes leaves the batch split as it is.
LEMMA SplitKept ==
    ASSUME NEW c, NEW P, NEW nx, NEW lc, SplitOK(c, P, nx, lc), NEW t \in Threads,
           lc \in [Threads -> Locals], NEW r, Mine(c, r) = Mine(c, lc[t]),
           r.chunk \in Seq(1 .. Len(c.batch)), IsInjective(r.chunk),
           ToSet(r.chunk) \subseteq ToSet(lc[t].chunk),
           r.pc \in Working => r.v \in New(c) \ Todo(c, r)
    PROVE  SplitOK(c, P, nx, [lc EXCEPT ![t] = r])
<1> DEFINE lc2 == [lc EXCEPT ![t] = r]
<1>1. \A u \in Threads : lc2[u] = IF u = t THEN r ELSE lc[u]
  OBVIOUS
<1> HIDE DEF lc2
<1>2. \A u \in Threads : Mine(c, lc2[u]) = Mine(c, lc[u])
  BY <1>1
<1>3. \A u \in Threads :
          /\ lc2[u].chunk \in Seq(1 .. Len(c.batch)) /\ IsInjective(lc2[u].chunk)
          /\ \A i \in ToSet(lc2[u].chunk) : i < nx
          /\ lc2[u].pc \in Working => lc2[u].v \in New(c) \ Todo(c, lc2[u])
  <2> SUFFICES ASSUME NEW u \in Threads
               PROVE /\ lc2[u].chunk \in Seq(1 .. Len(c.batch)) /\ IsInjective(lc2[u].chunk)
                     /\ \A i \in ToSet(lc2[u].chunk) : i < nx
                     /\ lc2[u].pc \in Working => lc2[u].v \in New(c) \ Todo(c, lc2[u])
    OBVIOUS
  <2>1. CASE u = t
    <3>1. \A i \in ToSet(lc[t].chunk) : i < nx
      BY DEF SplitOK
    <3> QED
      BY <1>1, <2>1, <3>1
  <2>2. CASE u # t
    BY <1>1, <2>2 DEF SplitOK
  <2> QED
    BY <2>1, <2>2
<1>4. \A u \in Threads : Mine(c, lc2[u]) \cap P = {}
  BY <1>2 DEF SplitOK
<1>5. \A u, w \in Threads : u # w => Mine(c, lc2[u]) \cap Mine(c, lc2[w]) = {}
  BY <1>2 DEF SplitOK
<1>6. \A i \in 1 .. Len(c.batch) :
          IF i >= nx THEN c.batch[i] \notin P /\ \A u \in Threads : c.batch[i] \notin Mine(c, lc2[u])
          ELSE c.batch[i] \in P \/ \E u \in Threads : c.batch[i] \in Mine(c, lc2[u])
  BY <1>2 DEF SplitOK
<1> QED
  BY <1>3, <1>4, <1>5, <1>6 DEF SplitOK, lc2

\* A step that only moves a thread that holds no lock, and is not about to raise
\* the entry point, preserves the invariant if the thread is fine afterwards.
LEMMA LocalStep ==
    ASSUME NEW c, NEW h, NEW P, NEW ck, NEW gk, NEW nx, NEW lc,
           Good(c, h, P, ck, gk, nx, lc), NEW t \in Threads,
           NEW r \in Locals, ThreadOK(c, h, P, r),
           NEW ny \in 1 .. Len(c.batch) + Chunk, SplitOK(c, P, ny, [lc EXCEPT ![t] = r]),
           {lc[t].pc, r.pc} \cap ({"linkend", "backend"} \cup Raising) = {},
           Small(h) => Linked(h, r), \A u, w : Pending(lc[t], u, w) => Pending(r, u, w)
    PROVE  Good(c, h, P, ck, gk, ny, [lc EXCEPT ![t] = r])
<1> DEFINE lc2 == [lc EXCEPT ![t] = r]
<1>1. /\ ShapeOK(c, h, P, ck, gk, nx, lc) /\ \A u \in Threads : ThreadOK(c, h, P, lc[u])
      /\ SplitOK(c, P, nx, lc) /\ LocksOK(h, ck, gk, lc) /\ EntryOK(c, h, P, gk, lc)
      /\ ListsOK(h, ck, lc) /\ KeptOK(c, h, P) /\ BottomOK(h, P, lc)
  BY DEF Good
<1>2. lc \in [Threads -> Locals] /\ ck \in [Nodes(h) -> Threads \cup {NoThread}]
  BY <1>1 DEF ShapeOK
<1>3. \A u \in Threads : lc2[u] = IF u = t THEN r ELSE lc[u]
  BY <1>2
<1>4. SplitOK(c, P, ny, lc2)
  OBVIOUS
<1>5. lc2 \in [Threads -> Locals]
  BY <1>2
<1> HIDE DEF lc2
<1>6. /\ \A a : ~ Holds(lc[t], a) /\ ~ Holds(r, a)
      /\ lc[t].pc \notin {"top", "entry", "untop"} /\ r.pc \notin {"top", "entry", "untop"}
  BY DEF Holds, Raising
<1>7. LocksOK(h, ck, gk, lc2)
  <2>1. \A u \in Threads, a \in Nodes(h) : Holds(lc2[u], a) <=> Holds(lc[u], a)
    BY <1>3, <1>6
  <2>2. \A u \in Threads : lc2[u].pc \in {"entry", "untop"} <=> lc[u].pc \in {"entry", "untop"}
    BY <1>3, <1>6
  <2> QED
    BY <1>1, <2>1, <2>2 DEF LocksOK
<1>8. EntryOK(c, h, P, gk, lc2)
  <2>1. \A u \in Threads : /\ lc2[u].pc = "entry" => h.top = h.lvl[lc2[u].v]
                           /\ lc2[u].pc = "untop" => h.lvl[h.entry] = h.top
    BY <1>1, <1>3, <1>6 DEF EntryOK
  <2>2. ASSUME NEW w \in P, h.lvl[w] > h.top
        PROVE  \E u \in Threads : lc2[u].pc = "top" /\ lc2[u].v = w
    <3>1. PICK u \in Threads : lc[u].pc = "top" /\ lc[u].v = w
      BY <1>1, <2>2 DEF EntryOK
    <3>2. u # t
      BY <1>6, <3>1
    <3> QED
      BY <1>3, <3>1, <3>2
  <2> QED
    BY <1>1, <2>1, <2>2 DEF EntryOK
<1>9. ListsOK(h, ck, lc2)
  <2>1. \A a \in Nodes(h) : ck[a] # NoThread => ck[a] \in Threads /\ ck[a] # t
    BY <1>1, <1>2, <1>6 DEF LocksOK
  <2>2. \A a \in Nodes(h) : \A l : Extra(ck, lc2, a, l) = Extra(ck, lc, a, l)
    BY <1>3, <2>1 DEF Extra
  <2> QED
    BY <1>1, <2>2 DEF ListsOK
<1>10. BottomOK(h, P, lc2)
  <2>1. SUFFICES ASSUME Small(h)
                 PROVE  /\ \A u, w \in Nodes(h) : w \in Beside(h, u) =>
                              u \in Beside(h, w) \/ \E s \in Threads : Pending(lc2[s], u, w)
                        /\ \A s \in Threads : Linked(h, lc2[s])
    BY <1>1 DEF BottomOK
  <2>2. \A s \in Threads : \A u, w : Pending(lc[s], u, w) => Pending(lc2[s], u, w)
    BY <1>3
  <2> QED
    BY <1>1, <1>3, <2>1, <2>2 DEF BottomOK
<1>11. \A u \in Threads : ThreadOK(c, h, P, lc2[u])
  BY <1>1, <1>3
<1>12. ShapeOK(c, h, P, ck, gk, ny, lc2)
  BY <1>1, <1>5 DEF ShapeOK
<1> QED
  BY <1>1, <1>4, <1>7, <1>8, <1>9, <1>10, <1>11, <1>12 DEF Good, lc2

\* The same for a step within cwire, before the node is published.
LEMMA WorkStep ==
    ASSUME NEW c, NEW h, NEW P, NEW ck, NEW gk, NEW nx, NEW lc,
           Good(c, h, P, ck, gk, nx, lc), NEW t \in Threads,
           NEW r \in Locals, ThreadOK(c, h, P, r),
           r.chunk = lc[t].chunk, r.v = lc[t].v,
           {lc[t].pc, r.pc} \subseteq Working \ {"linkend", "backend"},
           Small(h) => Linked(h, r), \A u, w : Pending(lc[t], u, w) => Pending(r, u, w)
    PROVE  Good(c, h, P, ck, gk, nx, [lc EXCEPT ![t] = r])
<1>1. SplitOK(c, P, nx, lc)
  BY DEF Good
<1>2. /\ lc[t].chunk \in Seq(1 .. Len(c.batch)) /\ IsInjective(lc[t].chunk)
      /\ lc[t].pc \in Working => lc[t].v \in New(c) \ Todo(c, lc[t])
  BY <1>1 DEF SplitOK
<1>3. Todo(c, r) = Todo(c, lc[t]) /\ Mine(c, r) = Mine(c, lc[t])
  BY DEF Todo, Mine
<1>4. {lc[t].pc, r.pc} \cap ({"linkend", "backend"} \cup Raising) = {}
  BY DEF Working, OnLayer, Greedy2, Linking, Raising
<1>5. r.pc \in Working => r.v \in New(c) \ Todo(c, r)
  BY <1>2, <1>3
<1>6. lc \in [Threads -> Locals] /\ nx \in 1 .. Len(c.batch) + Chunk
  BY DEF Good, ShapeOK
<1>7. SplitOK(c, P, nx, [lc EXCEPT ![t] = r])
  BY <1>1, <1>2, <1>3, <1>5, <1>6, SplitKept
<1> QED
  BY <1>4, <1>6, <1>7, LocalStep

-----------------------------------------------------------------------------
(***************************************************************************)
(* The steps, one lemma each.                                              *)
(***************************************************************************)
LEMMA WorkFacts ==
    ASSUME Inv, NEW t \in Threads, loc[t].pc \in Working
    PROVE  /\ Good(call, g, pub, clk, glk, next, loc)
           /\ loc \in [Threads -> Locals] /\ loc[t] \in Locals /\ ThreadOK(call, g, pub, loc[t])
           /\ IsGraph(g) /\ pub \subseteq Nodes(g) /\ Nodes(g) \subseteq Points
           /\ g.lvl \in [Nodes(g) -> 0 .. MaxLevel] /\ MaxLevel \in Nat
           /\ loc[t].v \in Nodes(g) \ pub /\ loc[t].ep \in pub
           /\ loc[t].v # NoNode /\ loc[t].ep # NoNode
           /\ loc[t].max \in Nat /\ loc[t].l \in Int /\ g.lvl[loc[t].v] \in Nat
           /\ StandsOn(loc[t]) \subseteq pub /\ ToSet(loc[t].snap) \subseteq Nodes(g)
<1> DEFINE r == loc[t]
<1>1. /\ ShapeOK(call, g, pub, clk, glk, next, loc) /\ ThreadOK(call, g, pub, r)
      /\ Good(call, g, pub, clk, glk, next, loc)
  BY DEF Inv, Good
<1>2. loc \in [Threads -> Locals] /\ r \in Locals /\ IsGraph(g) /\ pub \subseteq Nodes(g)
  BY <1>1 DEF ShapeOK
<1>3. /\ Nodes(g) \subseteq Points /\ g.lvl \in [Nodes(g) -> 0 .. MaxLevel] /\ MaxLevel \in Nat
      /\ g.lvl \in [Nodes(g) -> Nat]
  BY <1>1, <1>2, ConcurrentAssumption DEF ShapeOK, IsGraph
<1> HIDE DEF r
<1>4. r.l \in Int
  BY <1>2 DEF Locals
<1>5. /\ r.v \in Nodes(g) \ pub /\ r.ep \in pub /\ r.max \in Nat
      /\ StandsOn(r) \subseteq pub /\ ToSet(r.snap) \subseteq Nodes(g)
  BY <1>1 DEF ThreadOK, r
<1>6. NoNode \notin Points
  BY HnswOpsAssumption
<1> QED
  BY <1>1, <1>2, <1>3, <1>4, <1>5, <1>6 DEF r

LEMMA SnapFacts ==
    ASSUME Inv, NEW l \in Nat, NEW u \in OnLev(g, l), Unlocked(u)
    PROVE  LET s == Snapshot(u, l) IN
           /\ s \in Seq(Points) /\ ToSet(s) \subseteq OnLev(g, l) /\ Len(s) <= LinkCap(l)
           /\ M0 <= CSnap => s = Links(g, u, l)
<1> DEFINE L == Links(g, u, l)
           n == IF Len(L) > CSnap THEN CSnap ELSE Len(L)
           s == Snapshot(u, l)
<1>1. IsGraph(g) /\ ListsOK(g, clk, loc) /\ Nodes(g) \subseteq Points /\ CSnap \in Nat
  BY ConcurrentAssumption DEF Inv, Good, ShapeOK, IsGraph
<1>2. u \in Nodes(g) /\ g.lvl[u] \in Nat /\ l \in 0 .. g.lvl[u] /\ clk[u] = NoThread
  BY <1>1 DEF OnLev, IsGraph, Unlocked
<1>3. L \in Seq(Nodes(g)) /\ Len(L) \in Nat
  BY <1>1, <1>2, LinksType
<1>4. Extra(clk, loc, u, l) = 0
  BY <1>2 DEF Extra
<1>5. LinkCap(l) \in Nat /\ LinkCap(l) <= M0
  BY HnswOpsAssumption DEF LinkCap, M0
<1>6. Len(L) <= LinkCap(l) /\ ToSet(L) \subseteq OnLev(g, l)
  BY <1>1, <1>2, <1>4, <1>5 DEF ListsOK
<1>7. s = SubSeq(L, 1, n)
  <2>1. ~ (l > g.lvl[u])
    BY <1>2
  <2> QED
    BY <2>1 DEF Snapshot
<1> HIDE DEF L, s
<1>8. n \in Nat /\ n <= Len(L) /\ (M0 <= CSnap => n = Len(L))
  <2>1. M0 \in Nat
    BY HnswOpsAssumption DEF M0
  <2> QED
    BY <1>1, <1>3, <1>5, <1>6, <2>1
<1> HIDE DEF n
<1>9. /\ s \in Seq(Nodes(g)) /\ Len(s) = n /\ \A i \in 1 .. n : i \in 1 .. Len(L) /\ s[i] = L[i]
      /\ DOMAIN s = 1 .. n /\ DOMAIN L = 1 .. Len(L)
  BY <1>3, <1>7, <1>8
<1>10. ToSet(s) \subseteq OnLev(g, l)
  BY <1>6, <1>9 DEF ToSet
<1>11. s \in Seq(Points)
  BY <1>1, <1>9
<1>12. n = Len(L) => s = L
  BY <1>3, <1>9
<1>13. Len(s) <= LinkCap(l)
  <2> DEFINE cap == LinkCap(l)
  <2>1. cap \in Nat /\ Len(L) <= cap
    BY <1>5, <1>6
  <2> HIDE DEF cap
  <2>2. n <= cap
    BY <1>3, <1>8, <2>1
  <2> QED
    BY <1>9, <2>2 DEF cap
<1> QED
  BY <1>8, <1>10, <1>11, <1>12, <1>13 DEF L, s

LEMMA GreedySnapInv ==
    ASSUME Inv, NEW t \in Threads, GreedySnap(t), UNCHANGED call
    PROVE  Inv'
<1> DEFINE r == loc[t]
           r2 == [r EXCEPT !.pc = "gscan", !.moved = FALSE, !.snap = Snapshot(r.ep, r.l)]
<1>1. /\ r.pc = "greedy" /\ Unlocked(r.ep) /\ loc' = [loc EXCEPT ![t] = r2]
      /\ UNCHANGED <<call, g, pub, clk, glk, next>>
  BY DEF GreedySnap, At, Become
<1>2. r.pc \in Working
  BY <1>1 DEF Working, Greedy2
<1>3. /\ Good(call, g, pub, clk, glk, next, loc) /\ r \in Locals /\ ThreadOK(call, g, pub, r)
      /\ r.max \in Nat /\ g.lvl[r.v] \in Nat /\ r.v \in Nodes(g)
  BY <1>2, WorkFacts
<1>4. r.l \in g.lvl[r.v] + 1 .. r.max /\ r.ep \in OnLev(g, r.l) /\ r.l \in Nat
  BY <1>1, <1>3 DEF ThreadOK, Greedy2
<1> HIDE DEF r
<1> DEFINE s == Snapshot(r.ep, r.l)
<1>5. s \in Seq(Points) /\ ToSet(s) \subseteq OnLev(g, r.l) /\ Len(s) <= LinkCap(r.l)
  BY <1>1, <1>4, SnapFacts
<1> HIDE DEF s
<1>6. r2 \in Locals
  BY <1>3, <1>5 DEF Locals, Pcs, s
<1>7. /\ r2.pc = "gscan" /\ r2.snap = s /\ r2.chunk = r.chunk /\ r2.v = r.v /\ r2.ep = r.ep
      /\ r2.max = r.max /\ r2.l = r.l /\ r2.beam = r.beam /\ r2.sel = r.sel /\ r2.j = r.j
  BY <1>3 DEF Locals, s
<1> HIDE DEF r2
<1>8. ThreadOK(call, g, pub, r2)
  BY <1>1, <1>2, <1>3, <1>4, <1>5, <1>7
     DEF ThreadOK, StandsOn, OnLev, Greedy2, OnLayer, Linking, Working, Raising
<1>9. Linked(g, r2) /\ \A u, w : ~ Pending(r, u, w)
  BY <1>1, <1>7 DEF Linked, Pending
<1>10. {r.pc, r2.pc} \subseteq Working \ {"linkend", "backend"}
  BY <1>1, <1>7 DEF Working, Greedy2
<1>11. Good(call, g, pub, clk, glk, next, loc')
  BY <1>1, <1>3, <1>6, <1>7, <1>8, <1>9, <1>10, WorkStep DEF r
<1> QED
  BY <1>1, <1>11 DEF Inv

LEMMA HeadTail ==
    ASSUME NEW S, NEW s \in Seq(S), s # <<>>
    PROVE  /\ Head(s) \in ToSet(s) /\ Head(s) \in S /\ Head(s) = s[1]
           /\ Tail(s) \in Seq(S) /\ ToSet(Tail(s)) \subseteq ToSet(s)
           /\ Len(Tail(s)) = Len(s) - 1 /\ Len(s) \in Nat
           /\ IsInjective(s) => IsInjective(Tail(s)) /\ Head(s) \notin ToSet(Tail(s))
           /\ ToSet(s) = {Head(s)} \cup ToSet(Tail(s))
<1> DEFINE w == Tail(s)
           n == Len(s)
<1>1. n \in Nat /\ n >= 1 /\ DOMAIN s = 1 .. n /\ Head(s) = s[1] /\ s[1] \in S
  OBVIOUS
<1>2. /\ w \in Seq(S) /\ Len(w) = n - 1 /\ DOMAIN w = 1 .. n - 1
      /\ \A i \in 1 .. n - 1 : i + 1 \in 1 .. n /\ w[i] = s[i + 1]
  BY <1>1
<1> HIDE DEF w, n
<1>3. ToSet(w) \subseteq ToSet(s) /\ s[1] \in ToSet(s)
  BY <1>1, <1>2 DEF ToSet
<1>4. ASSUME IsInjective(s) PROVE IsInjective(w) /\ s[1] \notin ToSet(w)
  <2>1. \A i, k \in 1 .. n : s[i] = s[k] => i = k
    BY <1>1, <1>4 DEF IsInjective
  <2>2. \A i, k \in 1 .. n - 1 : i + 1 = k + 1 => i = k
    OBVIOUS
  <2>3. \A i \in 1 .. n - 1 : w[i] # s[1]
    <3>1. \A i \in 1 .. n - 1 : i + 1 # 1
      OBVIOUS
    <3> QED
      BY <1>1, <1>2, <2>1, <3>1
  <2> QED
    BY <1>2, <2>1, <2>2, <2>3 DEF IsInjective, ToSet
<1>5. ToSet(s) \subseteq {s[1]} \cup ToSet(w)
  <2>1. ASSUME NEW i \in 1 .. n, i # 1
        PROVE  i - 1 \in 1 .. n - 1 /\ w[i - 1] = s[i]
    BY <1>1, <1>2, <2>1
  <2>2. \A i \in 1 .. n : s[i] \in {s[1]} \cup ToSet(w)
    BY <1>1, <1>2, <2>1 DEF ToSet
  <2> QED
    BY <1>1, <2>2 DEF ToSet
<1> QED
  BY <1>1, <1>2, <1>3, <1>4, <1>5 DEF w, n

LEMMA MeetPublishedFacts ==
    ASSUME NEW q \in Points, NEW b, NEW x \in Points,
           b \in [cand : SUBSET Points, res : SUBSET Points, vis : SUBSET Points],
           b.res # {}
    PROVE  LET m == MeetPublished(q, b, x) IN
           /\ m \in [cand : SUBSET Points, res : SUBSET Points, vis : SUBSET Points]
           /\ m.cand \subseteq b.cand \cup ({x} \cap pub)
           /\ m.res \subseteq b.res \cup ({x} \cap pub) /\ m.res # {}
<1> DEFINE tr == Trim(q, b.res \cup {x}, EfC)
           m == MeetPublished(q, b, x)
<1>1. /\ b = [cand |-> b.cand, res |-> b.res, vis |-> b.vis]
      /\ b.cand \subseteq Points /\ b.res \subseteq Points /\ b.vis \subseteq Points
  OBVIOUS
<1>2. tr \subseteq b.res \cup {x} /\ tr # {}
  <2>1. b.res \cup {x} \subseteq Points /\ EfC \in Nat /\ EfC >= 1
    BY <1>1, HnswOpsAssumption
  <2> DEFINE S == b.res \cup {x}
  <2> HIDE DEF S
  <2>2. /\ Trim(q, S, EfC) \subseteq S
        /\ Cardinality(S) >= EfC => Cardinality(Trim(q, S, EfC)) >= EfC
        /\ Cardinality(Trim(q, S, EfC)) < EfC => Trim(q, S, EfC) = S
    <3>1. S \subseteq Points
      BY <2>1 DEF S
    <3> QED
      BY <2>1, <3>1, TrimFacts
  <2>3. Trim(q, S, EfC) # {}
    <3>1. SUFFICES ASSUME Trim(q, S, EfC) = {} PROVE FALSE
      OBVIOUS
    <3>2. Cardinality({}) = 0
      BY FS_EmptySet
    <3>3. Trim(q, S, EfC) = S
      BY <2>1, <2>2, <3>1, <3>2
    <3> QED
      BY <3>1, <3>3 DEF S
  <2> QED
    BY <2>2, <2>3 DEF S
<1> HIDE DEF tr
<1>3. CASE x \in pub /\ x \notin b.vis /\ Room(q, b, EfC, x)
  <2>1. m = [cand |-> b.cand \cup {x}, res |-> tr, vis |-> b.vis \cup {x}]
    BY <1>3 DEF MeetPublished, Meet, tr
  <2> HIDE DEF m
  <2> QED
    BY <1>1, <1>2, <1>3, <2>1 DEF m
<1>4. CASE ~ (x \in pub /\ x \notin b.vis /\ Room(q, b, EfC, x))
  <2>1. m = b \/ m = [b EXCEPT !.vis = @ \cup {x}]
    BY <1>4 DEF MeetPublished, Meet
  <2>2. [b EXCEPT !.vis = @ \cup {x}] = [cand |-> b.cand, res |-> b.res, vis |-> b.vis \cup {x}]
    BY <1>1
  <2> HIDE DEF m
  <2> QED
    BY <1>1, <2>1, <2>2 DEF m
<1> QED
  BY <1>3, <1>4

LEMMA GreedyScanInv ==
    ASSUME Inv, NEW t \in Threads, GreedyScan(t), UNCHANGED call
    PROVE  Inv'
<1> DEFINE r == loc[t]
           u == Head(r.snap)
           e == IF Nearer(t, u) THEN u ELSE r.ep
           mv == r.moved \/ Nearer(t, u)
           r2 == [r EXCEPT !.snap = Tail(r.snap), !.ep = e, !.moved = mv]
<1>1. /\ r.pc = "gscan" /\ r.snap # <<>> /\ loc' = [loc EXCEPT ![t] = r2]
      /\ UNCHANGED <<call, g, pub, clk, glk, next>>
  BY DEF GreedyScan, At, Become
<1>2. r.pc \in Working
  BY <1>1 DEF Working, Greedy2
<1>3. /\ Good(call, g, pub, clk, glk, next, loc) /\ r \in Locals /\ ThreadOK(call, g, pub, r)
      /\ pub \subseteq Nodes(g) /\ Nodes(g) \subseteq Points /\ NoNode \notin Points
      /\ ToSet(r.snap) \subseteq Nodes(g)
  BY <1>2, WorkFacts, HnswOpsAssumption
<1>4. Nearer(t, u) => u \in pub
  BY DEF Nearer
<1> HIDE DEF r
<1>5. /\ r.snap \in Seq(Points) /\ r.moved \in BOOLEAN
      /\ ToSet(r.snap) \subseteq OnLev(g, r.l) /\ Len(r.snap) <= LinkCap(r.l)
      /\ r.l \in g.lvl[r.v] + 1 .. r.max /\ r.ep \in OnLev(g, r.l) /\ r.ep \in pub
  BY <1>1, <1>2, <1>3 DEF ThreadOK, Locals, Greedy2
<1> DEFINE s == Tail(r.snap)
<1>6. /\ s \in Seq(Points) /\ u \in ToSet(r.snap) /\ ToSet(s) \subseteq ToSet(r.snap)
      /\ Len(s) = Len(r.snap) - 1 /\ Len(r.snap) \in Nat
  BY <1>1, <1>5, HeadTail
<1> HIDE DEF u
<1>7. e \in pub /\ e \in OnLev(g, r.l) /\ e \in Points /\ mv \in BOOLEAN
  <2>1. e \in pub /\ e \in OnLev(g, r.l)
    BY <1>4, <1>5, <1>6
  <2> QED
    BY <1>3, <2>1
<1>8. Len(s) <= LinkCap(r.l)
  <2>1. LinkCap(r.l) \in Nat
    BY HnswOpsAssumption DEF LinkCap, M0
  <2> DEFINE cap == LinkCap(r.l)
             n == Len(r.snap)
  <2>2. cap \in Nat /\ n \in Nat /\ n <= cap /\ Len(s) = n - 1
    BY <1>5, <1>6, <2>1
  <2> HIDE DEF cap, n, s
  <2> QED
    BY <2>2 DEF cap
<1> HIDE DEF s, e, mv
<1>9. r2 \in Locals
  BY <1>3, <1>6, <1>7 DEF Locals, s
<1>10. /\ r2.pc = "gscan" /\ r2.snap = s /\ r2.chunk = r.chunk /\ r2.v = r.v /\ r2.ep = e
       /\ r2.max = r.max /\ r2.l = r.l /\ r2.beam = r.beam /\ r2.sel = r.sel /\ r2.j = r.j
  BY <1>1, <1>3 DEF Locals, s
<1> HIDE DEF r2
<1>11. StandsOn(r2) \subseteq pub
  BY <1>3, <1>7, <1>10 DEF ThreadOK, StandsOn
<1>12. ThreadOK(call, g, pub, r2)
  BY <1>1, <1>2, <1>3, <1>5, <1>6, <1>7, <1>8, <1>10, <1>11
     DEF ThreadOK, Greedy2, OnLayer, Linking, Working, Raising
<1>13. Linked(g, r2) /\ \A x, w : ~ Pending(r, x, w)
  BY <1>1, <1>10 DEF Linked, Pending
<1>14. {r.pc, r2.pc} \subseteq Working \ {"linkend", "backend"}
  BY <1>1, <1>10 DEF Working, Greedy2
<1>15. Good(call, g, pub, clk, glk, next, loc')
  BY <1>1, <1>3, <1>9, <1>10, <1>12, <1>13, <1>14, WorkStep DEF r
<1> QED
  BY <1>1, <1>15 DEF Inv

\* The beam a layer is entered with.
LEMMA NewBeamFacts ==
    ASSUME NEW e \in Points
    PROVE  /\ NewBeam(e) \in [cand : SUBSET Points, res : SUBSET Points, vis : SUBSET Points]
           /\ NewBeam(e).cand = {e} /\ NewBeam(e).res = {e}
BY DEF NewBeam

LEMMA GreedyNextInv ==
    ASSUME Inv, NEW t \in Threads, GreedyNext(t), UNCHANGED call
    PROVE  Inv'
<1> DEFINE r == loc[t]
           start == StartLevel(t)
           r2 == IF r.moved THEN [r EXCEPT !.pc = "greedy"]
                 ELSE IF r.l - 1 > g.lvl[r.v] THEN [r EXCEPT !.pc = "greedy", !.l = r.l - 1]
                 ELSE [r EXCEPT !.pc = "beam", !.l = start, !.moved = FALSE, !.beam = NewBeam(r.ep)]
<1>1. /\ r.pc = "gscan" /\ r.snap = <<>> /\ loc' = [loc EXCEPT ![t] = r2]
      /\ UNCHANGED <<call, g, pub, clk, glk, next>>
  BY DEF GreedyNext, At, Become, Level
<1>2. r.pc \in Working
  BY <1>1 DEF Working, Greedy2
<1>3. /\ Good(call, g, pub, clk, glk, next, loc) /\ r \in Locals /\ ThreadOK(call, g, pub, r)
      /\ pub \subseteq Nodes(g) /\ Nodes(g) \subseteq Points
      /\ g.lvl[r.v] \in Nat /\ r.max \in Nat /\ g.lvl \in [Nodes(g) -> 0 .. MaxLevel]
      /\ \A x \in Nodes(g) : g.lvl[x] \in Nat
  <2>1. MaxLevel \in Nat
    BY ConcurrentAssumption
  <2> QED
    BY <1>2, <2>1, WorkFacts
<1>4. start = IF g.lvl[r.v] < r.max THEN g.lvl[r.v] ELSE r.max
  BY DEF StartLevel, Level
<1> HIDE DEF r, start
<1>5. /\ r.l \in g.lvl[r.v] + 1 .. r.max /\ r.ep \in OnLev(g, r.l) /\ r.ep \in pub
      /\ r.ep \in Points
  BY <1>1, <1>2, <1>3 DEF ThreadOK, Greedy2
<1>6. /\ r.l \in Nat /\ start = g.lvl[r.v] /\ start \in Nat /\ start < r.l /\ start <= r.max
      /\ \A m \in Nat : m <= r.l => r.ep \in OnLev(g, m)
  <2>1. r.l \in Nat /\ start = g.lvl[r.v] /\ start \in Nat /\ start < r.l /\ start <= r.max
    BY <1>3, <1>4, <1>5
  <2> QED
    BY <1>3, <1>5, <2>1 DEF OnLev
<1>7. /\ NewBeam(r.ep) \in [cand : SUBSET Points, res : SUBSET Points, vis : SUBSET Points]
      /\ NewBeam(r.ep).cand = {r.ep} /\ NewBeam(r.ep).res = {r.ep}
  BY <1>5, NewBeamFacts
<1> DEFINE b == NewBeam(r.ep)
           Beams == [cand : SUBSET Points, res : SUBSET Points, vis : SUBSET Points]
<1> HIDE DEF b
<1>8. CASE r.moved \/ r.l - 1 > g.lvl[r.v]
  <2> DEFINE l2 == IF r.moved THEN r.l ELSE r.l - 1
  <2>1. r2 = [r EXCEPT !.pc = "greedy", !.l = l2]
    <3>1. r = [r EXCEPT !.l = r.l]
      BY <1>3 DEF Locals
    <3> QED
      BY <1>3, <1>8, <3>1 DEF Locals
  <2>2. l2 \in g.lvl[r.v] + 1 .. r.max /\ l2 \in Nat /\ l2 <= r.l
    BY <1>3, <1>5, <1>6, <1>8
  <2> HIDE DEF l2, r2
  <2>3. r2 \in Locals
    <3>1. r \in Locals /\ l2 \in Int
      BY <1>3, <2>2
    <3> QED
      BY <2>1, <3>1 DEF Locals, Pcs
  <2>4. /\ r2.pc = "greedy" /\ r2.snap = r.snap /\ r2.chunk = r.chunk /\ r2.v = r.v /\ r2.ep = r.ep
        /\ r2.max = r.max /\ r2.l = l2 /\ r2.beam = r.beam /\ r2.sel = r.sel /\ r2.j = r.j
    BY <1>3, <2>1 DEF Locals
  <2>5. r.ep \in OnLev(g, l2)
    BY <1>6, <2>2
  <2>6. StandsOn(r2) \subseteq pub
    BY <1>3, <2>4 DEF ThreadOK, StandsOn
  <2>7. ThreadOK(call, g, pub, r2)
    BY <1>1, <1>2, <1>3, <2>2, <2>4, <2>5, <2>6
       DEF ThreadOK, Greedy2, OnLayer, Linking, Working, Raising
  <2>8. Linked(g, r2) /\ \A x, w : ~ Pending(r, x, w)
    BY <1>1, <2>4 DEF Linked, Pending
  <2>9. {r.pc, r2.pc} \subseteq Working \ {"linkend", "backend"}
    BY <1>1, <2>4 DEF Working, Greedy2
  <2>10. Good(call, g, pub, clk, glk, next, loc')
    BY <1>1, <1>3, <2>3, <2>4, <2>7, <2>8, <2>9, WorkStep DEF r
  <2> QED
    BY <1>1, <2>10 DEF Inv
<1>9. CASE ~ (r.moved \/ r.l - 1 > g.lvl[r.v])
  <2>1. r2 = [r EXCEPT !.pc = "beam", !.l = start, !.moved = FALSE, !.beam = b]
    BY <1>9 DEF b
  <2> HIDE DEF r2
  <2>2. r2 \in Locals
    <3>1. r \in Locals /\ start \in Int /\ b \in Beams
      BY <1>3, <1>6, <1>7 DEF b
    <3> QED
      BY <2>1, <3>1 DEF Locals, Pcs
  <2>3. /\ r2.pc = "beam" /\ r2.snap = r.snap /\ r2.chunk = r.chunk /\ r2.v = r.v /\ r2.ep = r.ep
        /\ r2.max = r.max /\ r2.l = start /\ r2.beam = b /\ r2.sel = r.sel /\ r2.j = r.j
    BY <1>3, <2>1 DEF Locals
  <2>4. r.ep \in OnLev(g, start) /\ b.cand = {r.ep} /\ b.res = {r.ep}
    BY <1>6, <1>7 DEF b
  <2>5. StandsOn(r2) \subseteq pub
    BY <1>3, <1>5, <2>3, <2>4 DEF ThreadOK, StandsOn
  <2>6. ~ \E m \in 0 .. g.lvl[r.v] : start < m
    BY <1>3, <1>6
  <2>7. ThreadOK(call, g, pub, r2)
    BY <1>1, <1>2, <1>3, <1>5, <1>6, <2>3, <2>4, <2>5, <2>6
       DEF ThreadOK, Greedy2, OnLayer, Linking, Working, Raising
  <2>8. Linked(g, r2) /\ \A x, w : ~ Pending(r, x, w)
    BY <1>1, <2>3 DEF Linked, Pending
  <2>9. {r.pc, r2.pc} \subseteq Working \ {"linkend", "backend"}
    BY <1>1, <2>3 DEF Working, Greedy2, OnLayer
  <2>10. Good(call, g, pub, clk, glk, next, loc')
    BY <1>1, <1>3, <2>2, <2>3, <2>7, <2>8, <2>9, WorkStep DEF r
  <2> QED
    BY <1>1, <2>10 DEF Inv
<1> QED
  BY <1>8, <1>9

LEMMA LayerFacts ==
    ASSUME Inv, NEW t \in Threads, loc[t].pc \in OnLayer
    PROVE  LET r == loc[t] IN
           /\ r.pc \in Working
           /\ Good(call, g, pub, clk, glk, next, loc) /\ r \in Locals /\ ThreadOK(call, g, pub, r)
           /\ pub \subseteq Nodes(g) /\ Nodes(g) \subseteq Points /\ IsGraph(g)
           /\ r.v \in Nodes(g) \ pub /\ r.ep \in pub
           /\ r.beam \in [cand : SUBSET Points, res : SUBSET Points, vis : SUBSET Points]
           /\ r.beam.cand \cup r.beam.res \subseteq OnLev(g, r.l) \cap pub /\ r.beam.res # {}
           /\ r.beam.cand \subseteq Points /\ r.beam.res \subseteq Points
           /\ g.lvl[r.v] \in Nat /\ r.l \in Nat /\ r.l \in 0 .. g.lvl[r.v] /\ r.l <= r.max
           /\ r.max \in Nat /\ \A u \in Nodes(g) : g.lvl[u] \in Nat
           /\ \A m \in 0 .. g.lvl[r.v] : r.l < m /\ m <= r.max => Links(g, r.v, m) # <<>>
<1> DEFINE r == loc[t]
<1>1. r.pc \in Working
  BY DEF Working
<1>2. /\ Good(call, g, pub, clk, glk, next, loc) /\ r \in Locals /\ ThreadOK(call, g, pub, r)
      /\ pub \subseteq Nodes(g) /\ Nodes(g) \subseteq Points /\ IsGraph(g)
      /\ r.v \in Nodes(g) \ pub /\ r.ep \in pub /\ g.lvl[r.v] \in Nat /\ r.max \in Nat
  BY <1>1, WorkFacts
<1>3. \A u \in Nodes(g) : g.lvl[u] \in Nat
  BY <1>2 DEF IsGraph
<1>4. r.pc \in OnLayer
  OBVIOUS
<1> HIDE DEF r
<1>5. r.beam \in [cand : SUBSET Points, res : SUBSET Points, vis : SUBSET Points]
  BY <1>2 DEF Locals
<1>6. /\ r.beam.cand \cup r.beam.res \subseteq OnLev(g, r.l) /\ r.beam.res # {}
      /\ r.beam.cand \cup r.beam.res \subseteq pub
      /\ r.l \in 0 .. g.lvl[r.v] /\ r.l <= r.max
      /\ \A m \in 0 .. g.lvl[r.v] : r.l < m /\ m <= r.max => Links(g, r.v, m) # <<>>
  BY <1>2, <1>4 DEF ThreadOK, StandsOn
<1>7. r.l \in Nat
  BY <1>2, <1>6
<1>8. r.beam.cand \subseteq Points /\ r.beam.res \subseteq Points
  BY <1>5
<1> QED
  BY <1>1, <1>2, <1>3, <1>5, <1>6, <1>7, <1>8 DEF r

LEMMA BeamSnapInv ==
    ASSUME Inv, NEW t \in Threads, BeamSnap(t), UNCHANGED call
    PROVE  Inv'
<1> DEFINE r == loc[t]
           u == Nearest(r.v, r.beam.cand)
           s == Snapshot(u, r.l)
           r2 == [r EXCEPT !.pc = "scan", !.snap = s, !.beam.cand = @ \ {u}]
<1>1. /\ r.pc = "beam" /\ ~ BeamDone(r.v, r.beam, EfC) /\ Unlocked(u)
      /\ loc' = [loc EXCEPT ![t] = r2] /\ UNCHANGED <<call, g, pub, clk, glk, next>>
  BY DEF BeamSnap, At, Become, Searched
<1>2. r.pc \in OnLayer
  BY <1>1 DEF OnLayer
<1>3. /\ Good(call, g, pub, clk, glk, next, loc) /\ r \in Locals /\ ThreadOK(call, g, pub, r)
      /\ pub \subseteq Nodes(g) /\ Nodes(g) \subseteq Points /\ r.pc \in Working
      /\ r.v \in Points /\ r.l \in Nat
      /\ r.beam \in [cand : SUBSET Points, res : SUBSET Points, vis : SUBSET Points]
      /\ r.beam.cand \cup r.beam.res \subseteq OnLev(g, r.l) \cap pub
      /\ r.beam.cand \subseteq Points
  BY <1>2, LayerFacts
<1> HIDE DEF r
<1>4. u \in r.beam.cand
  <2>1. r.beam.cand # {}
    BY <1>1 DEF BeamDone
  <2> QED
    BY <1>3, <2>1, NearestIn
<1>5. u \in OnLev(g, r.l)
  BY <1>3, <1>4
<1> HIDE DEF u
<1>6. s \in Seq(Points) /\ ToSet(s) \subseteq OnLev(g, r.l) /\ Len(s) <= LinkCap(r.l)
  BY <1>1, <1>3, <1>5, SnapFacts
<1> HIDE DEF s
<1> DEFINE b == [cand |-> r.beam.cand \ {u}, res |-> r.beam.res, vis |-> r.beam.vis]
           Beams == [cand : SUBSET Points, res : SUBSET Points, vis : SUBSET Points]
<1>7. [r.beam EXCEPT !.cand = @ \ {u}] = b /\ b \in Beams
  BY <1>3
<1>8. b.cand \cup b.res \subseteq r.beam.cand \cup r.beam.res /\ b.res = r.beam.res
  OBVIOUS
<1> HIDE DEF b
<1>9. r2 = [r EXCEPT !.pc = "scan", !.snap = s, !.beam = b]
  <2>1. r2 = [r EXCEPT !.pc = "scan", !.snap = s, !.beam = [r.beam EXCEPT !.cand = @ \ {u}]]
    BY <1>3 DEF Locals
  <2> QED
    BY <1>7, <2>1
<1> HIDE DEF r2
<1>10. r2 \in Locals
  BY <1>3, <1>6, <1>7, <1>9 DEF Locals, Pcs
<1>11. /\ r2.pc = "scan" /\ r2.snap = s /\ r2.chunk = r.chunk /\ r2.v = r.v /\ r2.ep = r.ep
       /\ r2.max = r.max /\ r2.l = r.l /\ r2.beam = b /\ r2.sel = r.sel /\ r2.j = r.j
  BY <1>3, <1>9 DEF Locals
<1>12. StandsOn(r2) \subseteq pub /\ ToSet(s) \subseteq Nodes(g)
  BY <1>3, <1>6, <1>8, <1>11 DEF ThreadOK, StandsOn, OnLev
<1>13. ThreadOK(call, g, pub, r2)
  BY <1>1, <1>2, <1>3, <1>6, <1>8, <1>11, <1>12
     DEF ThreadOK, Greedy2, OnLayer, Linking, Working, Raising
<1>14. Linked(g, r2) /\ \A x, w : ~ Pending(r, x, w)
  BY <1>1, <1>11 DEF Linked, Pending
<1>15. {r.pc, r2.pc} \subseteq Working \ {"linkend", "backend"}
  BY <1>1, <1>11 DEF Working, OnLayer
<1>16. Good(call, g, pub, clk, glk, next, loc')
  BY <1>1, <1>3, <1>10, <1>11, <1>13, <1>14, <1>15, WorkStep DEF r
<1> QED
  BY <1>1, <1>16 DEF Inv

LEMMA BeamScanInv ==
    ASSUME Inv, NEW t \in Threads, BeamScan(t), UNCHANGED call
    PROVE  Inv'
<1> DEFINE r == loc[t]
           x == Head(r.snap)
           s == Tail(r.snap)
           b == MeetPublished(r.v, r.beam, x)
           r2 == [r EXCEPT !.snap = s, !.beam = b]
           Beams == [cand : SUBSET Points, res : SUBSET Points, vis : SUBSET Points]
<1>1. /\ r.pc = "scan" /\ r.snap # <<>>
      /\ loc' = [loc EXCEPT ![t] = r2] /\ UNCHANGED <<call, g, pub, clk, glk, next>>
  BY DEF BeamScan, At, Become
<1>2. r.pc \in OnLayer
  BY <1>1 DEF OnLayer
<1>3. /\ Good(call, g, pub, clk, glk, next, loc) /\ r \in Locals /\ ThreadOK(call, g, pub, r)
      /\ pub \subseteq Nodes(g) /\ Nodes(g) \subseteq Points /\ r.pc \in Working
      /\ r.v \in Points /\ r.l \in Nat /\ r.beam \in Beams /\ r.beam.res # {}
      /\ r.beam.cand \cup r.beam.res \subseteq OnLev(g, r.l) \cap pub
  BY <1>2, LayerFacts
<1> HIDE DEF r
<1>4. /\ r.snap \in Seq(Points)
      /\ ToSet(r.snap) \subseteq OnLev(g, r.l) /\ Len(r.snap) <= LinkCap(r.l)
  BY <1>1, <1>3 DEF ThreadOK, Locals
<1>5. /\ s \in Seq(Points) /\ x \in ToSet(r.snap) /\ x \in Points /\ ToSet(s) \subseteq ToSet(r.snap)
      /\ Len(s) = Len(r.snap) - 1 /\ Len(r.snap) \in Nat
  BY <1>1, <1>4, HeadTail
<1> HIDE DEF x, s
<1>6. /\ b \in Beams /\ b.cand \subseteq r.beam.cand \cup ({x} \cap pub)
      /\ b.res \subseteq r.beam.res \cup ({x} \cap pub) /\ b.res # {}
  BY <1>3, <1>5, MeetPublishedFacts
<1> HIDE DEF b
<1>7. b.cand \cup b.res \subseteq OnLev(g, r.l) \cap pub
  BY <1>3, <1>4, <1>5, <1>6
<1>8. Len(s) <= LinkCap(r.l)
  <2> DEFINE cap == LinkCap(r.l)
             n == Len(r.snap)
  <2>1. cap \in Nat
    BY HnswOpsAssumption DEF LinkCap, M0
  <2>2. n \in Nat /\ n <= cap /\ Len(s) = n - 1
    BY <1>4, <1>5
  <2> HIDE DEF cap, n
  <2> QED
    BY <2>1, <2>2 DEF cap
<1>9. r2 \in Locals
  <2>1. r \in Locals /\ s \in Seq(Points) /\ b \in Beams
    BY <1>3, <1>5, <1>6
  <2> QED
    BY <2>1 DEF Locals
<1>10. /\ r2.pc = "scan" /\ r2.snap = s /\ r2.chunk = r.chunk /\ r2.v = r.v /\ r2.ep = r.ep
       /\ r2.max = r.max /\ r2.l = r.l /\ r2.beam = b /\ r2.sel = r.sel /\ r2.j = r.j
  BY <1>1, <1>3 DEF Locals
<1> HIDE DEF r2
<1>11. StandsOn(r2) \subseteq pub /\ ToSet(s) \subseteq Nodes(g)
  BY <1>3, <1>4, <1>5, <1>7, <1>10 DEF ThreadOK, StandsOn, OnLev
<1>12. ThreadOK(call, g, pub, r2)
  BY <1>1, <1>2, <1>3, <1>4, <1>5, <1>6, <1>7, <1>8, <1>10, <1>11
     DEF ThreadOK, Greedy2, OnLayer, Linking, Working, Raising
<1>13. Linked(g, r2) /\ \A y, w : ~ Pending(r, y, w)
  BY <1>1, <1>10 DEF Linked, Pending
<1>14. {r.pc, r2.pc} \subseteq Working \ {"linkend", "backend"}
  BY <1>1, <1>10 DEF Working, OnLayer
<1>15. Good(call, g, pub, clk, glk, next, loc')
  BY <1>1, <1>3, <1>9, <1>10, <1>12, <1>13, <1>14, WorkStep DEF r
<1> QED
  BY <1>1, <1>15 DEF Inv

LEMMA BeamNextInv ==
    ASSUME Inv, NEW t \in Threads, BeamNext(t), UNCHANGED call
    PROVE  Inv'
<1> DEFINE r == loc[t]
           r2 == [r EXCEPT !.pc = "beam"]
<1>1. /\ r.pc = "scan" /\ loc' = [loc EXCEPT ![t] = r2]
      /\ UNCHANGED <<call, g, pub, clk, glk, next>>
  BY DEF BeamNext, At, Become
<1>2. r.pc \in OnLayer
  BY <1>1 DEF OnLayer
<1>3. /\ Good(call, g, pub, clk, glk, next, loc) /\ r \in Locals /\ ThreadOK(call, g, pub, r)
      /\ r.pc \in Working
  BY <1>2, LayerFacts
<1> HIDE DEF r
<1>4. r2 \in Locals
  BY <1>3 DEF Locals, Pcs
<1>5. /\ r2.pc = "beam" /\ r2.snap = r.snap /\ r2.chunk = r.chunk /\ r2.v = r.v /\ r2.ep = r.ep
      /\ r2.max = r.max /\ r2.l = r.l /\ r2.beam = r.beam /\ r2.sel = r.sel /\ r2.j = r.j
  BY <1>3 DEF Locals
<1> HIDE DEF r2
<1>6. ThreadOK(call, g, pub, r2)
  BY <1>1, <1>2, <1>3, <1>5
     DEF ThreadOK, StandsOn, Greedy2, OnLayer, Linking, Working, Raising
<1>7. Linked(g, r2) /\ \A y, w : ~ Pending(r, y, w)
  BY <1>1, <1>5 DEF Linked, Pending
<1>8. {r.pc, r2.pc} \subseteq Working \ {"linkend", "backend"}
  BY <1>1, <1>5 DEF Working, OnLayer
<1>9. Good(call, g, pub, clk, glk, next, loc')
  BY <1>1, <1>3, <1>4, <1>5, <1>6, <1>7, <1>8, WorkStep DEF r
<1> QED
  BY <1>1, <1>9 DEF Inv

LEMMA BeamEndInv ==
    ASSUME Inv, NEW t \in Threads, BeamEnd(t), UNCHANGED call
    PROVE  Inv'
<1> DEFINE r == loc[t]
           s == SelectNeighbors(r.v, r.beam.res, M)
           r2 == [r EXCEPT !.pc = "link", !.j = 1, !.sel = s]
<1>1. /\ r.pc = "beam" /\ loc' = [loc EXCEPT ![t] = r2]
      /\ UNCHANGED <<call, g, pub, clk, glk, next>>
  BY DEF BeamEnd, At, Become
<1>2. r.pc \in OnLayer
  BY <1>1 DEF OnLayer
<1>3. /\ Good(call, g, pub, clk, glk, next, loc) /\ r \in Locals /\ ThreadOK(call, g, pub, r)
      /\ pub \subseteq Nodes(g) /\ Nodes(g) \subseteq Points /\ r.pc \in Working
      /\ r.v \in Points /\ r.beam.res # {} /\ r.beam.res \subseteq Points
      /\ r.beam.cand \cup r.beam.res \subseteq OnLev(g, r.l) \cap pub
  BY <1>2, LayerFacts
<1> HIDE DEF r
<1>4. M \in Nat /\ M >= 2
  BY HnswOpsAssumption
<1>5. /\ s \in Seq(r.beam.res) /\ IsInjective(s) /\ ToSet(s) \subseteq r.beam.res
      /\ Len(s) = IF M < Cardinality(r.beam.res) THEN M ELSE Cardinality(r.beam.res)
  BY <1>3, <1>4, SelectFacts
<1> HIDE DEF s
<1>6. s # <<>> /\ Len(s) \in Nat /\ Len(s) >= 1 /\ s \in Seq(Points)
  <2>1. IsFiniteSet(r.beam.res) /\ Cardinality(r.beam.res) \in Nat
    BY <1>3, PointsFinite
  <2>2. Cardinality(r.beam.res) # 0
    BY <1>3, <2>1, FS_EmptySet
  <2>3. Len(s) \in Nat /\ Len(s) >= 1
    BY <1>4, <1>5, <2>1, <2>2
  <2>4. s \in Seq(Points)
    BY <1>3, <1>5
  <2> QED
    BY <2>3, <2>4
<1>7. r2 \in Locals
  BY <1>3, <1>6 DEF Locals, Pcs
<1>8. /\ r2.pc = "link" /\ r2.snap = r.snap /\ r2.chunk = r.chunk /\ r2.v = r.v /\ r2.ep = r.ep
      /\ r2.max = r.max /\ r2.l = r.l /\ r2.beam = r.beam /\ r2.sel = s /\ r2.j = 1
  BY <1>3 DEF Locals
<1> HIDE DEF r2
<1>9. StandsOn(r2) \subseteq pub
  BY <1>3, <1>5, <1>8 DEF ThreadOK, StandsOn
<1>10. 1 \in 1 .. Len(s) + 1 /\ ~ (1 > 1)
  BY <1>6
<1>11. ThreadOK(call, g, pub, r2)
  BY <1>1, <1>2, <1>3, <1>5, <1>6, <1>8, <1>9, <1>10
     DEF ThreadOK, Greedy2, OnLayer, Linking, Working, Raising
<1>12. Linked(g, r2) /\ \A y, w : ~ Pending(r, y, w)
  BY <1>1, <1>8 DEF Linked, Pending
<1>13. {r.pc, r2.pc} \subseteq Working \ {"linkend", "backend"}
  BY <1>1, <1>8 DEF Working, OnLayer, Linking
<1>14. Good(call, g, pub, clk, glk, next, loc')
  BY <1>1, <1>3, <1>7, <1>8, <1>11, <1>12, <1>13, WorkStep DEF r
<1> QED
  BY <1>1, <1>14 DEF Inv

LEMMA LinkNextInv ==
    ASSUME Inv, NEW t \in Threads, LinkNext(t), UNCHANGED call
    PROVE  Inv'
<1> DEFINE r == loc[t]
           r2 == [r EXCEPT !.pc = "back", !.j = 1]
           n == Len(r.sel)
<1>1. /\ r.pc = "link" /\ ~ (r.j <= n) /\ loc' = [loc EXCEPT ![t] = r2]
      /\ UNCHANGED <<call, g, pub, clk, glk, next>>
  BY DEF LinkNext, At, Become, MoreToLink
<1>2. r.pc \in OnLayer
  BY <1>1 DEF OnLayer, Linking
<1>3. /\ Good(call, g, pub, clk, glk, next, loc) /\ r \in Locals /\ ThreadOK(call, g, pub, r)
      /\ r.pc \in Working
  BY <1>2, LayerFacts
<1>4. IsGraph(g) /\ (Small(g) => Linked(g, r))
  BY <1>3 DEF Good, ShapeOK, BottomOK
<1> HIDE DEF r
<1>5. /\ r.sel \in Seq(r.beam.res) /\ IsInjective(r.sel) /\ r.sel # <<>> /\ r.j \in 1 .. n + 1
  BY <1>1, <1>3 DEF ThreadOK, Linking
<1>6. n \in Nat /\ n >= 1 /\ r.j = n + 1 /\ r.j > 1 /\ DOMAIN r.sel = 1 .. n
  BY <1>1, <1>5
<1>7. r2 \in Locals
  BY <1>3 DEF Locals, Pcs
<1>8. /\ r2.pc = "back" /\ r2.snap = r.snap /\ r2.chunk = r.chunk /\ r2.v = r.v /\ r2.ep = r.ep
      /\ r2.max = r.max /\ r2.l = r.l /\ r2.beam = r.beam /\ r2.sel = r.sel /\ r2.j = 1
  BY <1>3 DEF Locals
<1> HIDE DEF r2
<1>9. 1 \in 1 .. Len(r.sel) + 1
  BY <1>6
<1> HIDE DEF n
<1>10. Links(g, r.v, r.l) # <<>>
  BY <1>1, <1>3, <1>6 DEF ThreadOK
<1>11. ThreadOK(call, g, pub, r2)
  BY <1>1, <1>2, <1>3, <1>5, <1>8, <1>9, <1>10
     DEF ThreadOK, StandsOn, Greedy2, OnLayer, Linking, Working, Raising
<1>12. Small(g) => Linked(g, r2)
  <2>1. SUFFICES ASSUME Small(g), r.l = 0 PROVE ToSet(r.sel) \subseteq Beside(g, r.v)
    BY <1>8 DEF Linked
  <2>2. \A i \in 1 .. Len(r.sel) : i < r.j => r.sel[i] \in Beside(g, r.v)
    BY <1>1, <1>4, <2>1 DEF Linked
  <2>3. \A i \in 1 .. n : i < r.j
    BY <1>6
  <2> QED
    BY <1>6, <2>2, <2>3 DEF ToSet, n
<1>13. \A y, w : Pending(r, y, w) => Pending(r2, y, w)
  <2>1. SUFFICES ASSUME NEW y, NEW w, Pending(r, y, w) PROVE Pending(r2, y, w)
    OBVIOUS
  <2>2. r.l = 0 /\ r.v = y /\ w \in ToSet(r.sel)
    BY <1>1, <2>1 DEF Pending
  <2>3. PICK i \in 1 .. n : w = r.sel[i]
    BY <1>6, <2>2 DEF ToSet
  <2> QED
    BY <1>6, <1>8, <2>2, <2>3 DEF Pending, n
<1>14. {r.pc, r2.pc} \subseteq Working \ {"linkend", "backend"}
  BY <1>1, <1>8 DEF Working, OnLayer, Linking
<1>15. Good(call, g, pub, clk, glk, next, loc')
  BY <1>1, <1>3, <1>7, <1>8, <1>11, <1>12, <1>13, <1>14, WorkStep DEF r
<1> QED
  BY <1>1, <1>15 DEF Inv

LEMMA BackNextInv ==
    ASSUME Inv, NEW t \in Threads, BackNext(t), UNCHANGED call
    PROVE  Inv'
<1> DEFINE r == loc[t]
           e == Nearest(r.v, r.beam.res)
           r2 == IF r.l > 0
                 THEN [r EXCEPT !.pc = "beam", !.l = r.l - 1, !.ep = e, !.beam = NewBeam(e),
                                !.sel = <<>>, !.j = 0]
                 ELSE [r EXCEPT !.pc = "publish", !.l = -1, !.ep = e, !.beam = NoBeam,
                                !.sel = <<>>, !.j = 0]
           n == Len(r.sel)
           Beams == [cand : SUBSET Points, res : SUBSET Points, vis : SUBSET Points]
<1>1. /\ r.pc = "back" /\ ~ (r.j <= n) /\ loc' = [loc EXCEPT ![t] = r2]
      /\ UNCHANGED <<call, g, pub, clk, glk, next>>
  BY DEF BackNext, At, Become, MoreToLink
<1>2. r.pc \in OnLayer
  BY <1>1 DEF OnLayer, Linking
<1>3. /\ Good(call, g, pub, clk, glk, next, loc) /\ r \in Locals /\ ThreadOK(call, g, pub, r)
      /\ pub \subseteq Nodes(g) /\ Nodes(g) \subseteq Points /\ r.pc \in Working
      /\ r.v \in Points /\ r.beam.res # {} /\ r.beam.res \subseteq Points
      /\ r.beam.cand \cup r.beam.res \subseteq OnLev(g, r.l) \cap pub
      /\ g.lvl[r.v] \in Nat /\ r.l \in Nat /\ r.l \in 0 .. g.lvl[r.v] /\ r.l <= r.max
      /\ r.max \in Nat /\ \A u \in Nodes(g) : g.lvl[u] \in Nat
      /\ \A m \in 0 .. g.lvl[r.v] : r.l < m /\ m <= r.max => Links(g, r.v, m) # <<>>
  BY <1>2, LayerFacts
<1> HIDE DEF r
<1>4. r.sel \in Seq(r.beam.res) /\ r.j \in 1 .. n + 1 /\ Links(g, r.v, r.l) # <<>>
  BY <1>1, <1>3 DEF ThreadOK, Linking
<1>5. n \in Nat /\ r.j = n + 1 /\ DOMAIN r.sel = 1 .. n
  BY <1>1, <1>4
<1>6. e \in r.beam.res
  BY <1>3, NearestIn
<1> HIDE DEF e
<1>7. e \in OnLev(g, r.l) /\ e \in pub /\ e \in Points
  BY <1>3, <1>6
<1>8. NewBeam(e) \in Beams /\ NewBeam(e).cand = {e} /\ NewBeam(e).res = {e}
  BY <1>7, NewBeamFacts
<1>9. NoBeam \in Beams /\ NoBeam.cand = {} /\ NoBeam.res = {}
  BY DEF NoBeam
<1>10. ToSet(<<>>) = {} /\ <<>> \in Seq(Points)
  BY DEF ToSet
<1>11. \A y, w : ~ Pending(r, y, w)
  <2>1. \A i \in 1 .. n : ~ (i >= r.j)
    BY <1>5
  <2> QED
    BY <1>1, <2>1 DEF Pending
<1>12. \A m \in 0 .. g.lvl[r.v] : r.l - 1 < m /\ m <= r.max => Links(g, r.v, m) # <<>>
  <2>1. ASSUME NEW m \in 0 .. g.lvl[r.v], r.l - 1 < m, m <= r.max
        PROVE  Links(g, r.v, m) # <<>>
    <3>1. m = r.l \/ r.l < m
      BY <1>3, <2>1
    <3> QED
      BY <1>3, <1>4, <2>1, <3>1
  <2> QED
    BY <2>1
<1> DEFINE b == IF r.l > 0 THEN NewBeam(e) ELSE NoBeam
           l2 == r.l - 1
<1>13. /\ b \in Beams /\ b.cand \cup b.res \subseteq {e} /\ (r.l > 0 => b.cand = {e} /\ b.res = {e})
       /\ l2 \in Int /\ (~ (r.l > 0) => l2 = -1)
  BY <1>3, <1>8, <1>9
<1>14. r2 = [r EXCEPT !.pc = IF r.l > 0 THEN "beam" ELSE "publish", !.l = l2, !.ep = e,
                      !.beam = b, !.sel = <<>>, !.j = 0]
  BY <1>13
<1> HIDE DEF b, l2, r2
<1>15. r2 \in Locals
  <2>1. r \in Locals /\ b \in Beams /\ l2 \in Int /\ e \in Points
    BY <1>3, <1>7, <1>13
  <2> QED
    BY <1>10, <1>14, <2>1 DEF Locals, Pcs
<1>16. /\ r2.pc = (IF r.l > 0 THEN "beam" ELSE "publish")
       /\ r2.snap = r.snap /\ r2.chunk = r.chunk /\ r2.v = r.v /\ r2.ep = e
       /\ r2.max = r.max /\ r2.l = l2 /\ r2.beam = b /\ r2.sel = <<>> /\ r2.j = 0
  BY <1>3, <1>14 DEF Locals
<1>17. StandsOn(r2) \subseteq pub /\ ToSet(r2.snap) \subseteq Nodes(g)
  BY <1>3, <1>7, <1>10, <1>13, <1>16 DEF ThreadOK, StandsOn
<1>18. r2.pc \in {"beam", "publish"} /\ {r.pc, r2.pc} \subseteq Working \ {"linkend", "backend"}
  BY <1>1, <1>16 DEF Working, OnLayer, Linking
<1>19. r2.pc = "beam" => /\ l2 \in 0 .. g.lvl[r.v] /\ l2 <= r.max /\ e \in OnLev(g, l2)
                         /\ b.cand = {e} /\ b.res = {e}
  <2>1. SUFFICES ASSUME r2.pc = "beam"
                 PROVE  /\ l2 \in 0 .. g.lvl[r.v] /\ l2 <= r.max /\ e \in OnLev(g, l2)
                        /\ b.cand = {e} /\ b.res = {e}
    OBVIOUS
  <2>2. r.l > 0
    BY <1>16, <2>1
  <2>3. l2 \in 0 .. g.lvl[r.v] /\ l2 <= r.max /\ l2 <= r.l /\ l2 \in Nat
    BY <1>3, <2>2 DEF l2
  <2>4. e \in Nodes(g) /\ g.lvl[e] >= r.l /\ g.lvl[e] \in Nat
    BY <1>3, <1>7 DEF OnLev
  <2>5. e \in OnLev(g, l2)
    BY <1>3, <2>3, <2>4 DEF OnLev
  <2> QED
    BY <1>13, <2>2, <2>3, <2>5
<1>20. r2.pc = "publish" => l2 = -1
  BY <1>13, <1>16
<1>21. \A m \in 0 .. g.lvl[r2.v] : r2.l < m /\ m <= r2.max => Links(g, r2.v, m) # <<>>
  BY <1>12, <1>16 DEF l2
<1>22. ThreadOK(call, g, pub, r2)
  BY <1>1, <1>3, <1>7, <1>16, <1>17, <1>18, <1>19, <1>20, <1>21
     DEF ThreadOK, Greedy2, OnLayer, Linking, Raising
<1>23. Linked(g, r2)
  BY <1>18 DEF Linked
<1>24. Good(call, g, pub, clk, glk, next, loc')
  BY <1>1, <1>3, <1>11, <1>15, <1>16, <1>18, <1>22, <1>23, WorkStep DEF r
<1> QED
  BY <1>1, <1>24 DEF Inv

LEMMA ReadEntryInv ==
    ASSUME Inv, NEW t \in Threads, ReadEntry(t), UNCHANGED call
    PROVE  Inv'
<1> DEFINE r == loc[t]
           i == Head(r.chunk)
           ch == Tail(r.chunk)
           v == Batch[i]
           up == g.top > g.lvl[v]
           low == IF g.lvl[v] < g.top THEN g.lvl[v] ELSE g.top
           l2 == IF up THEN g.top ELSE low
           b == IF up THEN NoBeam ELSE NewBeam(g.entry)
           p == IF up THEN "greedy" ELSE "beam"
           e == g.entry
           top == g.top
           r2 == [r EXCEPT !.pc = p, !.chunk = ch, !.v = v, !.ep = e, !.max = top,
                           !.l = l2, !.moved = FALSE, !.beam = b]
           Beams == [cand : SUBSET Points, res : SUBSET Points, vis : SUBSET Points]
<1>1. /\ r.pc = "claim" /\ r.chunk # <<>> /\ glk = NoThread /\ loc' = [loc EXCEPT ![t] = r2]
      /\ UNCHANGED <<call, g, pub, clk, glk, next>>
  BY DEF ReadEntry, At, Become
<1>2. /\ Good(call, g, pub, clk, glk, next, loc) /\ r \in Locals /\ ThreadOK(call, g, pub, r)
      /\ ShapeOK(call, g, pub, clk, glk, next, loc) /\ SplitOK(call, pub, next, loc)
      /\ EntryOK(call, g, pub, glk, loc)
  BY DEF Inv, Good, ShapeOK
<1>3. /\ call \in Calls /\ IsGraph(g) /\ Nodes(g) = Old(call) \cup New(call) /\ pub \subseteq Nodes(g)
      /\ Nodes(g) \subseteq Points /\ \A u \in Nodes(g) : g.lvl[u] \in Nat
      /\ NoNode \notin Points
  BY <1>2, HnswOpsAssumption DEF ShapeOK, IsGraph
<1>4. /\ r.chunk \in Seq(1 .. Len(call.batch)) /\ IsInjective(r.chunk)
      /\ Mine(call, r) \cap pub = {}
  BY <1>2 DEF SplitOK
<1>5. /\ Len(call.batch) \in Nat /\ DOMAIN call.batch = 1 .. Len(call.batch)
      /\ \A x, y \in 1 .. Len(call.batch) : call.batch[x] = call.batch[y] => x = y
      /\ \A x \in 1 .. Len(call.batch) : call.batch[x] \in New(call)
  BY <1>3, CallFacts DEF IsInjective, New, ToSet
<1>6. /\ e \in pub /\ top \in 0 .. MaxLevel /\ g.lvl[e] = top
      /\ \A u \in Old(call) : g.lvl[u] <= top
  BY <1>1, <1>2 DEF EntryOK
<1> HIDE DEF r
<1>7. /\ i \in ToSet(r.chunk) /\ i \in 1 .. Len(call.batch) /\ ch \in Seq(1 .. Len(call.batch))
      /\ ToSet(ch) \subseteq ToSet(r.chunk) /\ IsInjective(ch) /\ i \notin ToSet(ch)
      /\ ToSet(r.chunk) = {i} \cup ToSet(ch)
  <2> DEFINE s == r.chunk
  <2>1. s \in Seq(1 .. Len(call.batch)) /\ s # <<>> /\ IsInjective(s)
    BY <1>1, <1>4
  <2> HIDE DEF s
  <2>2. /\ Head(s) \in ToSet(s) /\ Head(s) \in 1 .. Len(call.batch)
        /\ Tail(s) \in Seq(1 .. Len(call.batch)) /\ ToSet(Tail(s)) \subseteq ToSet(s)
        /\ IsInjective(Tail(s)) /\ Head(s) \notin ToSet(Tail(s))
        /\ ToSet(s) = {Head(s)} \cup ToSet(Tail(s))
    BY <2>1, HeadTail
  <2> QED
    BY <2>2 DEF s
<1>8. v = call.batch[i]
  BY DEF Batch
<1> HIDE DEF i, ch, v
<1>9. v \in New(call) /\ Todo(call, r) = Todo(call, [chunk |-> ch]) \cup {v}
  BY <1>5, <1>7, <1>8 DEF Todo
<1>10. v \notin Todo(call, [chunk |-> ch])
  <2>1. \A x \in ToSet(ch) : x \in 1 .. Len(call.batch) /\ x # i
    <3>1. \A x \in ToSet(ch) : x \in 1 .. Len(call.batch)
      BY <1>7 DEF ToSet
    <3> QED
      BY <1>7, <3>1
  <2> QED
    BY <1>5, <1>7, <1>8, <2>1 DEF Todo
<1>11. v \in Nodes(g) \ pub /\ v \in Points /\ g.lvl[v] \in Nat
  <2>1. v \in Mine(call, r)
    BY <1>9 DEF Mine
  <2> QED
    BY <1>3, <1>4, <1>9, <2>1
<1>12. top \in Nat /\ MaxLevel \in Nat
  BY <1>6, ConcurrentAssumption
<1>13. e \in Points /\ e \in Nodes(g)
  BY <1>3, <1>6
<1> HIDE DEF e, top
<1>14. NewBeam(e) \in Beams /\ NewBeam(e).cand = {e} /\ NewBeam(e).res = {e}
  BY <1>13, NewBeamFacts
<1>15. NoBeam \in Beams /\ NoBeam.cand = {} /\ NoBeam.res = {}
  BY DEF NoBeam
<1>16. /\ b \in Beams /\ b.cand \cup b.res \subseteq {e} /\ (~ up => b.cand = {e} /\ b.res = {e})
  BY <1>14, <1>15 DEF e
<1>17. /\ l2 \in Nat /\ l2 <= top
       /\ up => l2 \in g.lvl[v] + 1 .. top
       /\ ~ up => l2 \in 0 .. g.lvl[v] /\ \A m \in 0 .. g.lvl[v] : ~ (l2 < m /\ m <= top)
  BY <1>11, <1>12 DEF top
<1>18. e \in OnLev(g, l2)
  BY <1>3, <1>6, <1>12, <1>13, <1>17 DEF OnLev
<1>19. /\ p \in {"greedy", "beam"} /\ (p = "greedy" <=> up)
  OBVIOUS
<1> HIDE DEF b, l2, up, p
<1>20. r2 \in Locals
  <2>1. r \in Locals /\ b \in Beams /\ l2 \in Int /\ e \in Points /\ v \in Points /\ top \in Int
        /\ p \in Pcs
    BY <1>2, <1>11, <1>12, <1>13, <1>16, <1>17, <1>19 DEF Pcs
  <2>2. ch \in Seq(Nat)
    BY <1>5, <1>7
  <2> QED
    BY <2>1, <2>2 DEF Locals
<1>21. /\ r2.pc = p /\ r2.snap = r.snap /\ r2.chunk = ch /\ r2.v = v /\ r2.ep = e
       /\ r2.max = top /\ r2.l = l2 /\ r2.beam = b /\ r2.sel = r.sel /\ r2.j = r.j
  BY <1>2 DEF Locals
<1> HIDE DEF r2
<1>22. StandsOn(r2) \subseteq pub /\ ToSet(r2.snap) \subseteq Nodes(g)
  BY <1>2, <1>6, <1>16, <1>21 DEF ThreadOK, StandsOn
<1>23. ThreadOK(call, g, pub, r2)
  <2>1. /\ r2.v \in Nodes(g) \ pub /\ r2.ep \in pub /\ r2.ep \in OnLev(g, r2.l)
        /\ r2.max \in Nat /\ r2.max <= g.top /\ \A u \in Old(call) : g.lvl[u] <= r2.max
    BY <1>6, <1>11, <1>12, <1>18, <1>21 DEF top
  <2>2. CASE up
    <3>1. r2.pc = "greedy" /\ r2.l \in g.lvl[r2.v] + 1 .. r2.max
      BY <1>17, <1>19, <1>21, <2>2
    <3> QED
      BY <1>22, <2>1, <3>1 DEF ThreadOK, Greedy2, OnLayer, Linking, Raising
  <2>3. CASE ~ up
    <3>1. /\ r2.pc = "beam" /\ r2.l \in 0 .. g.lvl[r2.v] /\ r2.l <= r2.max
          /\ \A m \in 0 .. g.lvl[r2.v] : ~ (r2.l < m /\ m <= r2.max)
      BY <1>17, <1>19, <1>21, <2>3
    <3>2. r2.beam.cand = {r2.ep} /\ r2.beam.res = {r2.ep}
      BY <1>16, <1>21, <2>3
    <3> QED
      BY <1>22, <2>1, <3>1, <3>2 DEF ThreadOK, Greedy2, OnLayer, Linking, Raising
  <2> QED
    BY <2>2, <2>3
<1>24. Todo(call, r2) = Todo(call, [chunk |-> ch])
  BY <1>21 DEF Todo
<1>25. r2.pc \in Working /\ r.pc \notin Working /\ {r.pc, r2.pc} \cap ({"linkend", "backend"} \cup Raising) = {}
  BY <1>1, <1>19, <1>21 DEF Working, Greedy2, OnLayer, Linking, Raising
<1>26. Mine(call, r2) = Mine(call, r) /\ r2.v \in New(call) \ Todo(call, r2)
  BY <1>9, <1>10, <1>21, <1>24, <1>25 DEF Mine
<1>27. Linked(g, r2) /\ \A y, w : ~ Pending(r, y, w)
  BY <1>1, <1>19, <1>21 DEF Linked, Pending
<1>28. loc \in [Threads -> Locals] /\ next \in 1 .. Len(call.batch) + Chunk
  BY <1>2 DEF ShapeOK
<1>29. SplitOK(call, pub, next, [loc EXCEPT ![t] = r2])
  BY <1>2, <1>7, <1>21, <1>26, <1>28, SplitKept DEF r
<1>30. Good(call, g, pub, clk, glk, next, [loc EXCEPT ![t] = r2])
  BY <1>2, <1>20, <1>23, <1>25, <1>27, <1>28, <1>29, LocalStep DEF r
<1> QED
  BY <1>1, <1>30 DEF Inv

LEMMA ClaimInv ==
    ASSUME Inv, NEW t \in Threads, Claim(t), UNCHANGED call
    PROVE  Inv'
<1> DEFINE r == loc[t]
           N == Len(call.batch)
           last == LastOfChunk
           ch == Claimed
           r2 == [r EXCEPT !.chunk = ch]
           lc2 == [loc EXCEPT ![t] = r2]
           ny == next + Chunk
<1>1. /\ r.pc = "claim" /\ r.chunk = <<>> /\ next <= N /\ loc' = lc2 /\ next' = ny
      /\ UNCHANGED <<call, g, pub, clk, glk>>
  BY DEF Claim, At, Become, Batch
<1>2. /\ Good(call, g, pub, clk, glk, next, loc) /\ r \in Locals /\ ThreadOK(call, g, pub, r)
      /\ ShapeOK(call, g, pub, clk, glk, next, loc) /\ SplitOK(call, pub, next, loc)
      /\ loc \in [Threads -> Locals]
  BY DEF Inv, Good, ShapeOK
<1>3. /\ call \in Calls /\ next \in 1 .. N + Chunk /\ Chunk \in Nat /\ Chunk >= 1
  BY <1>2, ConcurrentAssumption DEF ShapeOK
<1>4. /\ N \in Nat /\ DOMAIN call.batch = 1 .. N
      /\ \A x, y \in 1 .. N : call.batch[x] = call.batch[y] => x = y
  BY <1>3, CallFacts DEF IsInjective
<1>5. last = IF next + Chunk - 1 < N THEN next + Chunk - 1 ELSE N
  BY DEF LastOfChunk, Batch
<1>6. ch = [j \in 1 .. last - next + 1 |-> next + j - 1]
  BY DEF Claimed
<1> HIDE DEF r, N, last, ch, lc2
<1>7. /\ next \in Nat /\ next >= 1 /\ last \in Nat /\ next <= last /\ last <= N
      /\ ny \in 1 .. N + Chunk /\ next < ny /\ last < ny
      /\ \A i \in 1 .. N : i < ny => i <= last
  BY <1>1, <1>3, <1>4, <1>5
<1> HIDE DEF ny
<1>8. /\ ch \in Seq(1 .. N) /\ IsInjective(ch) /\ ToSet(ch) = next .. last
  <2> DEFINE n == last - next + 1
  <2>1. n \in Nat /\ \A j \in 1 .. n : next + j - 1 \in 1 .. N /\ next + j - 1 \in next .. last
    BY <1>4, <1>7
  <2>2. DOMAIN ch = 1 .. n /\ \A j \in 1 .. n : ch[j] = next + j - 1
    BY <1>6
  <2>3. ch \in Seq(1 .. N)
    <3> DEFINE S == 1 .. N
    <3>1. n \in Nat /\ \A j \in 1 .. n : next + j - 1 \in S
      BY <2>1
    <3> HIDE DEF S, n
    <3>2. ch \in [1 .. n -> S]
      BY <1>6, <3>1 DEF n
    <3>3. ch \in Seq(S)
      BY <3>1, <3>2
    <3> QED
      BY <3>3 DEF S
  <2>4. \A i, j \in 1 .. n : next + i - 1 = next + j - 1 => i = j
    BY <1>7
  <2>5. IsInjective(ch)
    BY <2>2, <2>4 DEF IsInjective
  <2>6. ASSUME NEW x \in next .. last PROVE x - next + 1 \in 1 .. n /\ x = next + (x - next + 1) - 1
    BY <1>7
  <2>7. ToSet(ch) \subseteq next .. last
    BY <2>1, <2>2 DEF ToSet
  <2>8. \A x \in next .. last : ch[x - next + 1] = x /\ x - next + 1 \in DOMAIN ch
    BY <2>2, <2>6
  <2>9. next .. last \subseteq ToSet(ch)
    BY <2>8 DEF ToSet
  <2> QED
    BY <2>3, <2>5, <2>7, <2>9
<1>9. r2 \in Locals
  <2>1. ch \in Seq(Nat)
    BY <1>4, <1>8
  <2> QED
    BY <1>2, <2>1 DEF Locals
<1>10. /\ r2.pc = "claim" /\ r2.snap = r.snap /\ r2.chunk = ch /\ r2.v = r.v /\ r2.ep = r.ep
       /\ r2.max = r.max /\ r2.l = r.l /\ r2.beam = r.beam /\ r2.sel = r.sel /\ r2.j = r.j
  BY <1>1, <1>2 DEF Locals
<1> HIDE DEF r2
<1>11. r2.pc \notin Working /\ r.pc \notin Working
  BY <1>1, <1>10 DEF Working, Greedy2, OnLayer, Linking
<1>12. ThreadOK(call, g, pub, r2)
  BY <1>1, <1>2, <1>10 DEF ThreadOK, StandsOn, Greedy2, OnLayer, Linking, Working, Raising
<1>13. Mine(call, r2) = {call.batch[i] : i \in next .. last} /\ Mine(call, r) = {}
  <2>1. ToSet(r2.chunk) = next .. last /\ ToSet(r.chunk) = {}
    <3>1. ToSet(<<>>) = {}
      BY DEF ToSet
    <3> QED
      BY <1>1, <1>8, <1>10, <3>1
  <2>2. Todo(call, r2) = {call.batch[i] : i \in next .. last} /\ Todo(call, r) = {}
    BY <2>1 DEF Todo
  <2> QED
    BY <1>11, <2>2 DEF Mine
<1>14. \A u \in Threads : lc2[u] = IF u = t THEN r2 ELSE loc[u]
  BY <1>2 DEF lc2
<1>15. /\ \A i \in next .. last : i \in 1 .. N /\ i >= next
       /\ \A i \in 1 .. N : i >= next => /\ call.batch[i] \notin pub
                                         /\ \A u \in Threads : call.batch[i] \notin Mine(call, loc[u])
       /\ \A i \in 1 .. N : i < next => \/ call.batch[i] \in pub
                                        \/ \E u \in Threads : call.batch[i] \in Mine(call, loc[u])
  <2>1. \A i \in 1 .. N : i < next => ~ (i >= next)
    BY <1>7
  <2>2. \A i \in next .. last : i \in 1 .. N /\ i >= next
    BY <1>4, <1>7
  <2> QED
    BY <1>2, <2>1, <2>2 DEF SplitOK, N
<1>16. SplitOK(call, pub, ny, lc2)
  <2>1. ASSUME NEW u \in Threads
        PROVE  /\ lc2[u].chunk \in Seq(1 .. Len(call.batch)) /\ IsInjective(lc2[u].chunk)
               /\ \A i \in ToSet(lc2[u].chunk) : i < ny
               /\ Mine(call, lc2[u]) \cap pub = {}
               /\ lc2[u].pc \in Working => lc2[u].v \in New(call) \ Todo(call, lc2[u])
    <3>1. CASE u = t
      <4>1. \A i \in next .. last : i < ny
        BY <1>7
      <4>2. lc2[u] = r2
        BY <1>14, <3>1
      <4>3. ToSet(r2.chunk) = next .. last /\ r2.chunk = ch /\ r2.pc \notin Working
        BY <1>8, <1>10, <1>11
      <4>4. Mine(call, r2) \cap pub = {}
        BY <1>13, <1>15
      <4>5. ch \in Seq(1 .. Len(call.batch)) /\ IsInjective(ch)
        BY <1>8 DEF N
      <4> QED
        BY <4>1, <4>2, <4>3, <4>4, <4>5
    <3>2. CASE u # t
      <4>1. /\ loc[u].chunk \in Seq(1 .. Len(call.batch)) /\ IsInjective(loc[u].chunk)
            /\ \A i \in ToSet(loc[u].chunk) : i < next
            /\ Mine(call, loc[u]) \cap pub = {}
            /\ loc[u].pc \in Working => loc[u].v \in New(call) \ Todo(call, loc[u])
        BY <1>2 DEF SplitOK
      <4>2. \A i \in ToSet(loc[u].chunk) : i \in Int
        BY <4>1 DEF ToSet
      <4>3. \A i \in ToSet(loc[u].chunk) : i < ny
        BY <1>7, <4>1, <4>2
      <4> QED
        BY <1>14, <3>2, <4>1, <4>3
    <3> QED
      BY <3>1, <3>2
  <2>2. \A u \in Threads : u # t => Mine(call, r2) \cap Mine(call, loc[u]) = {}
    BY <1>13, <1>15
  <2>3. \A u, w \in Threads : u # w => Mine(call, loc[u]) \cap Mine(call, loc[w]) = {}
    BY <1>2 DEF SplitOK
  <2>4. \A u, w \in Threads : u # w => Mine(call, lc2[u]) \cap Mine(call, lc2[w]) = {}
    BY <1>14, <2>2, <2>3
  <2>5. ASSUME NEW i \in 1 .. N
        PROVE  IF i >= ny
               THEN call.batch[i] \notin pub /\ \A u \in Threads : call.batch[i] \notin Mine(call, lc2[u])
               ELSE call.batch[i] \in pub \/ \E u \in Threads : call.batch[i] \in Mine(call, lc2[u])
    <3>1. CASE i >= ny
      <4>1. i >= next /\ i \notin next .. last
        BY <1>7, <3>1
      <4>2. call.batch[i] \notin Mine(call, r2)
        BY <1>4, <1>13, <1>15, <4>1
      <4> QED
        BY <1>14, <1>15, <3>1, <4>1, <4>2
    <3>2. CASE ~ (i >= ny) /\ i >= next
      <4>1. i \in next .. last
        BY <1>7, <3>2
      <4>2. call.batch[i] \in Mine(call, lc2[t])
        BY <1>13, <1>14, <4>1
      <4> QED
        BY <3>2, <4>2
    <3>3. CASE i < next
      <4>1. ~ (i >= ny)
        BY <1>7, <3>3
      <4>2. ASSUME NEW u \in Threads, call.batch[i] \in Mine(call, loc[u])
            PROVE  call.batch[i] \in Mine(call, lc2[u])
        BY <1>13, <1>14, <4>2 DEF r
      <4> QED
        BY <1>15, <3>3, <4>1, <4>2
    <3> QED
      BY <1>7, <3>1, <3>2, <3>3
  <2> QED
    BY <2>1, <2>4, <2>5 DEF SplitOK, N
<1>17. Linked(g, r2) /\ \A y, w : ~ Pending(r, y, w)
  BY <1>1, <1>10 DEF Linked, Pending
<1>18. {r.pc, r2.pc} \cap ({"linkend", "backend"} \cup Raising) = {}
  BY <1>1, <1>10 DEF Raising
<1>19. Good(call, g, pub, clk, glk, ny, lc2)
  BY <1>2, <1>7, <1>9, <1>12, <1>16, <1>17, <1>18, LocalStep DEF r, lc2, N
<1> QED
  BY <1>1, <1>19 DEF Inv

-----------------------------------------------------------------------------
(***************************************************************************)
(* clink: a thread that takes the lock of a and lengthens its list, or     *)
(* prunes it and lets the lock go.                                         *)
(***************************************************************************)
\* The step of a thread with the locals q that become r: a's list of level l becomes
\* list, which makes the graph k, and x is the owner of a's lock afterwards.
Relisted(c, h, P, ck, t, q, r, a, l, list, k, x) ==
    /\ a \in Nodes(h) /\ l \in 0 .. h.lvl[a] /\ list \in Seq(Nodes(h))
    /\ k = PutList(h, a, l, list)
    /\ r \in Locals /\ ThreadOK(c, k, P, r)
    /\ r.chunk = q.chunk /\ r.v = q.v /\ r.l = l /\ q.l = l
    /\ q.pc \in Linking /\ r.pc \in Linking
    /\ x \in {t, NoThread} /\ (x = t => ck[a] = NoThread)
    /\ \A b : Holds(r, b) <=> b = a /\ x = t
    /\ \A b : Holds(q, b) <=> b = a /\ x = NoThread
    /\ Links(h, a, l) # <<>> => list # <<>>
    /\ IsInjective(list) /\ a \notin ToSet(list) /\ ToSet(list) \subseteq OnLev(h, l)
    /\ Len(list) <= LinkCap(l) + (IF x = t THEN 1 ELSE 0)
    /\ Small(h) =>
          /\ Linked(k, r)
          /\ \A u, w : Pending(q, u, w) => Pending(r, u, w) \/ u \in Beside(k, w)
          /\ \A u \in Nodes(h) :
                /\ Beside(h, u) \subseteq Beside(k, u)
                /\ \A w \in Beside(k, u) \ Beside(h, u) :
                      /\ u \in Beside(k, w) \/ Pending(r, u, w)
                      /\ IF u \in P THEN w \notin P ELSE w \in P

LEMMA ListStep ==
    ASSUME NEW c, NEW h, NEW P, NEW ck, NEW gk, NEW nx, NEW lc,
           Good(c, h, P, ck, gk, nx, lc), NEW t \in Threads,
           NEW r, NEW a, NEW l, NEW list, NEW k, NEW x,
           Relisted(c, h, P, ck, t, lc[t], r, a, l, list, k, x)
    PROVE  Good(c, k, P, [ck EXCEPT ![a] = x], gk, nx, [lc EXCEPT ![t] = r])
<1> DEFINE lc2 == [lc EXCEPT ![t] = r]
           ck2 == [ck EXCEPT ![a] = x]
<1>0. /\ a \in Nodes(h) /\ l \in 0 .. h.lvl[a] /\ list \in Seq(Nodes(h))
      /\ k = PutList(h, a, l, list)
      /\ r \in Locals /\ ThreadOK(c, k, P, r)
      /\ r.chunk = lc[t].chunk /\ r.v = lc[t].v /\ r.l = l /\ lc[t].l = l
      /\ {lc[t].pc, r.pc} \subseteq Linking
      /\ x \in {t, NoThread} /\ (x = t => ck[a] = NoThread)
      /\ \A b : Holds(r, b) <=> b = a /\ x = t
      /\ \A b : Holds(lc[t], b) <=> b = a /\ x = NoThread
      /\ Links(h, a, l) # <<>> => list # <<>>
      /\ IsInjective(list) /\ a \notin ToSet(list) /\ ToSet(list) \subseteq OnLev(h, l)
      /\ Len(list) <= LinkCap(l) + (IF x = t THEN 1 ELSE 0)
      /\ Small(h) =>
            /\ Linked(k, r)
            /\ \A u, w : Pending(lc[t], u, w) => Pending(r, u, w) \/ u \in Beside(k, w)
            /\ \A u \in Nodes(h) :
                  /\ Beside(h, u) \subseteq Beside(k, u)
                  /\ \A w \in Beside(k, u) \ Beside(h, u) :
                        /\ u \in Beside(k, w) \/ Pending(r, u, w)
                        /\ IF u \in P THEN w \notin P ELSE w \in P
  BY DEF Relisted
<1> USE <1>0
<1>1. /\ ShapeOK(c, h, P, ck, gk, nx, lc) /\ \A u \in Threads : ThreadOK(c, h, P, lc[u])
      /\ SplitOK(c, P, nx, lc) /\ LocksOK(h, ck, gk, lc) /\ EntryOK(c, h, P, gk, lc)
      /\ ListsOK(h, ck, lc) /\ KeptOK(c, h, P) /\ BottomOK(h, P, lc)
  BY DEF Good
<1>2. /\ lc \in [Threads -> Locals] /\ ck \in [Nodes(h) -> Threads \cup {NoThread}]
      /\ IsGraph(h) /\ P \subseteq Nodes(h) /\ h.lvl \in [Nodes(h) -> 0 .. MaxLevel]
  BY <1>1 DEF ShapeOK
<1>3. /\ \A u \in Threads : lc2[u] = IF u = t THEN r ELSE lc[u]
      /\ \A b \in Nodes(h) : ck2[b] = IF b = a THEN x ELSE ck[b]
  BY <1>2
<1>4. lc2 \in [Threads -> Locals] /\ ck2 \in [Nodes(h) -> Threads \cup {NoThread}]
  BY <1>2
<1>5. /\ IsGraph(k) /\ Nodes(k) = Nodes(h) /\ k.lvl = h.lvl /\ k.entry = h.entry /\ k.top = h.top
      /\ \A u \in Nodes(h) : \A m \in 0 .. h.lvl[u] :
            Links(k, u, m) = IF u = a /\ m = l THEN list ELSE Links(h, u, m)
  BY <1>2, PutListFacts DEF SameButLink
<1>6. /\ r.pc \notin {"top", "entry", "untop"} /\ lc[t].pc \notin {"top", "entry", "untop"}
      /\ r.pc \in Working /\ lc[t].pc \in Working
      /\ NoThread \notin Threads
  BY ConcurrentAssumption DEF Linking, Working, OnLayer
<1>7. SplitOK(c, P, nx, lc2)
  <2>1. /\ lc[t].chunk \in Seq(1 .. Len(c.batch)) /\ IsInjective(lc[t].chunk)
        /\ lc[t].v \in New(c) \ Todo(c, lc[t])
    BY <1>1, <1>6 DEF SplitOK
  <2>2. Todo(c, r) = Todo(c, lc[t]) /\ Mine(c, r) = Mine(c, lc[t])
    BY <1>6 DEF Todo, Mine
  <2> QED
    BY <1>1, <1>2, <2>1, <2>2, SplitKept
<1> HIDE DEF lc2, ck2
<1>8. \A m : OnLev(k, m) = OnLev(h, m)
  BY <1>5 DEF OnLev
<1>9. StillLinked(k, h)
  BY <1>5 DEF StillLinked
<1>10. /\ h.top \in Int /\ k.top \in Int /\ h.top <= k.top /\ h.lvl \in [Nodes(h) -> Nat]
  BY <1>1, <1>2, <1>5 DEF EntryOK, IsGraph
<1>11. ASSUME NEW u \in Threads PROVE ThreadOK(c, k, P, lc2[u])
  <2>1. CASE u = t
    BY <1>3, <2>1
  <2>2. CASE u # t
    <3>1. ThreadOK(c, h, P, lc[u])
      BY <1>1
    <3>2. lc[u].pc \in Working => lc[u].v \notin P
      BY <3>1 DEF ThreadOK
    <3>3. ThreadOK(c, k, P, lc[u])
      BY <1>2, <1>5, <1>9, <1>10, <3>1, <3>2, ThreadKept
    <3> QED
      BY <1>3, <2>2, <3>3
  <2> QED
    BY <2>1, <2>2
<1>12. ShapeOK(c, k, P, ck2, gk, nx, lc2)
  BY <1>1, <1>4, <1>5 DEF ShapeOK
<1>13. LocksOK(k, ck2, gk, lc2)
  <2>1. ASSUME NEW u \in Threads, NEW b \in Nodes(h)
        PROVE  ck2[b] = u <=> Holds(lc2[u], b)
    <3>1. ck[b] = u <=> Holds(lc[u], b)
      BY <1>1 DEF LocksOK
    <3>2. ck[b] = t <=> Holds(lc[t], b)
      BY <1>1 DEF LocksOK
    <3>3. CASE u = t
      BY <1>3, <1>6, <3>2, <3>3
    <3>4. CASE u # t /\ b = a
      <4>1. ~ Holds(lc[u], b)
        BY <1>6, <3>1, <3>2, <3>4
      <4> QED
        BY <1>3, <1>6, <3>4, <4>1
    <3>5. CASE u # t /\ b # a
      BY <1>3, <3>1, <3>5
    <3> QED
      BY <3>3, <3>4, <3>5
  <2>2. \A u \in Threads : lc2[u].pc \in {"entry", "untop"} <=> lc[u].pc \in {"entry", "untop"}
    BY <1>3, <1>6
  <2> QED
    BY <1>1, <1>5, <2>1, <2>2 DEF LocksOK
<1>14. EntryOK(c, k, P, gk, lc2)
  <2>1. \A u \in Threads : /\ lc2[u].pc = "entry" => h.top = h.lvl[lc2[u].v]
                           /\ lc2[u].pc = "untop" => h.lvl[h.entry] = h.top
    BY <1>1, <1>3, <1>6 DEF EntryOK
  <2>2. ASSUME NEW w \in P, h.lvl[w] > h.top
        PROVE  \E u \in Threads : lc2[u].pc = "top" /\ lc2[u].v = w
    <3>1. PICK u \in Threads : lc[u].pc = "top" /\ lc[u].v = w
      BY <1>1, <2>2 DEF EntryOK
    <3>2. u # t
      BY <1>6, <3>1
    <3> QED
      BY <1>3, <3>1, <3>2
  <2> QED
    BY <1>1, <1>5, <2>1, <2>2 DEF EntryOK
<1>15. ListsOK(k, ck2, lc2)
  <2>1. SUFFICES ASSUME NEW b \in Nodes(h), NEW m \in 0 .. h.lvl[b]
                 PROVE  /\ Len(Links(k, b, m)) <= LinkCap(m) + Extra(ck2, lc2, b, m)
                        /\ IsInjective(Links(k, b, m)) /\ b \notin ToSet(Links(k, b, m))
                        /\ ToSet(Links(k, b, m)) \subseteq OnLev(h, m)
    BY <1>5, <1>8 DEF ListsOK
  <2>2. /\ Len(Links(h, b, m)) <= LinkCap(m) + Extra(ck, lc, b, m)
        /\ IsInjective(Links(h, b, m)) /\ b \notin ToSet(Links(h, b, m))
        /\ ToSet(Links(h, b, m)) \subseteq OnLev(h, m)
    BY <1>1, <2>1 DEF ListsOK
  <2>3. CASE b = a /\ m = l
    <3>1. Extra(ck2, lc2, b, m) = IF x = t THEN 1 ELSE 0
      BY <1>3, <1>6, <2>3 DEF Extra
    <3> QED
      BY <1>5, <2>3, <3>1
  <2>4. CASE ~ (b = a /\ m = l)
    <3>1. Links(k, b, m) = Links(h, b, m)
      BY <1>5, <2>4
    <3>2. b # a => Extra(ck2, lc2, b, m) = Extra(ck, lc, b, m)
      <4>1. SUFFICES ASSUME b # a PROVE Extra(ck2, lc2, b, m) = Extra(ck, lc, b, m)
        OBVIOUS
      <4>2. ck2[b] = ck[b]
        BY <1>3, <4>1
      <4>3. ck[b] # t
        BY <1>1, <4>1 DEF LocksOK
      <4>4. ck[b] # NoThread => ck[b] \in Threads
        BY <1>2
      <4> QED
        BY <1>3, <4>2, <4>3, <4>4 DEF Extra
    <3>3. b = a => Extra(ck, lc, b, m) = 0 /\ Extra(ck2, lc2, b, m) = 0
      <4>1. SUFFICES ASSUME b = a
                     PROVE  Extra(ck, lc, b, m) = 0 /\ Extra(ck2, lc2, b, m) = 0
        OBVIOUS
      <4>2. m # l /\ ck[a] \in {t, NoThread}
        <5>1. ck[a] = t <=> Holds(lc[t], a)
          BY <1>1 DEF LocksOK
        <5> QED
          BY <2>4, <4>1, <5>1
      <4> QED
        BY <1>3, <4>1, <4>2 DEF Extra
    <3> QED
      BY <2>2, <3>1, <3>2, <3>3
  <2> QED
    BY <2>3, <2>4
<1>16. KeptOK(c, k, P)
  <2>1. ASSUME NEW v \in P \cap New(c), NEW m \in 0 .. h.lvl[v], Links(h, v, m) # <<>>
        PROVE  Links(k, v, m) # <<>>
    BY <1>2, <1>9, <2>1 DEF StillLinked
  <2> QED
    BY <1>1, <1>5, <2>1 DEF KeptOK
<1>17. BottomOK(k, P, lc2)
  <2>1. SUFFICES ASSUME Small(h)
                 PROVE  /\ \A u, w \in Nodes(h) : w \in Beside(k, u) =>
                              u \in Beside(k, w) \/ \E s \in Threads : Pending(lc2[s], u, w)
                        /\ \A s \in Threads : Linked(k, lc2[s])
                        /\ \A u \in Nodes(h) \ P : Beside(k, u) \subseteq P
                        /\ \A V \in SUBSET P :
                              V # {} /\ (\A u \in V : Beside(k, u) \cap P \subseteq V) => V = P
    BY <1>5 DEF BottomOK, Small
  <2>2. /\ Linked(k, r)
        /\ \A u, w : Pending(lc[t], u, w) => Pending(r, u, w) \/ u \in Beside(k, w)
        /\ \A u \in Nodes(h) : Beside(h, u) \subseteq Beside(k, u)
        /\ \A u \in Nodes(h) : \A w \in Beside(k, u) \ Beside(h, u) :
              /\ u \in Beside(k, w) \/ Pending(r, u, w)
              /\ IF u \in P THEN w \notin P ELSE w \in P
    BY <2>1
  <2>3. /\ \A u, w \in Nodes(h) : w \in Beside(h, u) =>
              u \in Beside(h, w) \/ \E s \in Threads : Pending(lc[s], u, w)
        /\ \A s \in Threads : Linked(h, lc[s])
        /\ \A u \in Nodes(h) \ P : Beside(h, u) \subseteq P
        /\ \A V \in SUBSET P :
              V # {} /\ (\A u \in V : Beside(h, u) \cap P \subseteq V) => V = P
    BY <1>1, <2>1 DEF BottomOK
  <2>4. ASSUME NEW u \in Nodes(h), NEW w \in Nodes(h), w \in Beside(k, u)
        PROVE  u \in Beside(k, w) \/ \E s \in Threads : Pending(lc2[s], u, w)
    <3>1. CASE w \notin Beside(h, u)
      <4>1. u \in Beside(k, w) \/ Pending(r, u, w)
        BY <2>2, <2>4, <3>1
      <4> QED
        BY <1>3, <4>1
    <3>2. CASE w \in Beside(h, u)
      <4>1. CASE u \in Beside(h, w)
        BY <2>2, <4>1
      <4>2. CASE \E s \in Threads : Pending(lc[s], u, w)
        <5>1. PICK s \in Threads : Pending(lc[s], u, w)
          BY <4>2
        <5> QED
          BY <1>3, <2>2, <5>1
      <4> QED
        BY <2>3, <3>2, <4>1, <4>2
    <3> QED
      BY <3>1, <3>2
  <2>5. ASSUME NEW s \in Threads PROVE Linked(k, lc2[s])
    <3>1. CASE s = t
      BY <1>3, <2>2, <3>1
    <3>2. CASE s # t
      <4>1. lc[s].pc \in Linking => lc[s].v \in Nodes(h)
        <5>1. ThreadOK(c, h, P, lc[s])
          BY <1>1
        <5> QED
          BY <5>1 DEF ThreadOK, Working, OnLayer
      <4>2. Linked(h, lc[s]) /\ lc2[s] = lc[s]
        BY <1>3, <2>3, <3>2
      <4>3. lc[s].pc \in Linking => Beside(h, lc[s].v) \subseteq Beside(k, lc[s].v)
        BY <2>2, <4>1
      <4> QED
        BY <4>2, <4>3 DEF Linked, Linking
    <3> QED
      BY <3>1, <3>2
  <2>6. \A u \in Nodes(h) \ P : Beside(k, u) \subseteq P
    BY <2>2, <2>3
  <2>7. ASSUME NEW V \in SUBSET P, V # {}, \A u \in V : Beside(k, u) \cap P \subseteq V
        PROVE  V = P
    <3>1. \A u \in V : Beside(h, u) \cap P \subseteq V
      BY <1>2, <2>2, <2>7
    <3> QED
      BY <2>3, <2>7, <3>1
  <2> QED
    BY <2>4, <2>5, <2>6, <2>7
<1> QED
  BY <1>7, <1>11, <1>12, <1>13, <1>14, <1>15, <1>16, <1>17 DEF Good, lc2, ck2


LEMMA LinkingFacts ==
    ASSUME Inv, NEW t \in Threads, loc[t].pc \in Linking
    PROVE  LET r == loc[t]
               n == Len(r.sel)
           IN  /\ r.pc \in Working
               /\ Good(call, g, pub, clk, glk, next, loc) /\ r \in Locals /\ ThreadOK(call, g, pub, r)
               /\ pub \subseteq Nodes(g) /\ Nodes(g) \subseteq Points /\ IsGraph(g)
               /\ g.lvl \in [Nodes(g) -> Nat] /\ g.top \in Int
               /\ r.v \in Nodes(g) \ pub /\ r.l \in Nat /\ r.l \in 0 .. g.lvl[r.v]
               /\ r.v \in OnLev(g, r.l)
               /\ n \in Nat /\ DOMAIN r.sel = 1 .. n /\ r.j \in 1 .. n + 1 /\ IsInjective(r.sel)
               /\ \A i \in 1 .. n : r.sel[i] \in pub /\ r.sel[i] \in OnLev(g, r.l)
               /\ Small(g) => Linked(g, r)
<1> DEFINE r == loc[t]
           n == Len(r.sel)
<1>1. r.pc \in OnLayer
  BY DEF OnLayer
<1>2. /\ r.pc \in Working
      /\ Good(call, g, pub, clk, glk, next, loc) /\ r \in Locals /\ ThreadOK(call, g, pub, r)
      /\ pub \subseteq Nodes(g) /\ Nodes(g) \subseteq Points /\ IsGraph(g)
      /\ r.v \in Nodes(g) \ pub /\ r.l \in Nat /\ r.l \in 0 .. g.lvl[r.v]
      /\ r.beam.cand \cup r.beam.res \subseteq OnLev(g, r.l) \cap pub
  BY <1>1, LayerFacts
<1>3. g.lvl \in [Nodes(g) -> Nat] /\ g.top \in Int /\ (Small(g) => Linked(g, r))
  BY <1>2 DEF Good, IsGraph, EntryOK, BottomOK
<1>4. r.pc \in Linking
  OBVIOUS
<1> HIDE DEF r
<1>5. /\ r.sel \in Seq(r.beam.res) /\ IsInjective(r.sel) /\ r.j \in 1 .. n + 1
  BY <1>2, <1>4 DEF ThreadOK
<1>6. n \in Nat /\ DOMAIN r.sel = 1 .. n /\ \A i \in 1 .. n : r.sel[i] \in r.beam.res
  BY <1>5
<1>7. r.v \in OnLev(g, r.l)
  BY <1>2, <1>3 DEF OnLev
<1> QED
  BY <1>2, <1>3, <1>5, <1>6, <1>7 DEF r

LEMMA AppendedFacts ==
    ASSUME NEW S, NEW L \in Seq(S), NEW b \in S, IsInjective(L)
    PROVE  LET s == Appended(L, b) IN
           /\ s \in Seq(S) /\ IsInjective(s) /\ ToSet(s) = ToSet(L) \cup {b} /\ s # <<>>
           /\ Len(s) <= Len(L) + 1 /\ Len(s) \in Nat
<1> DEFINE s == Appended(L, b)
           n == Len(L)
<1>1. n \in Nat /\ DOMAIN L = 1 .. n
  OBVIOUS
<1>2. CASE b \in ToSet(L)
  <2>1. s = L
    BY <1>2 DEF Appended
  <2>2. L # <<>>
    BY <1>1, <1>2 DEF ToSet
  <2> QED
    BY <1>1, <1>2, <2>1, <2>2
<1>3. CASE b \notin ToSet(L)
  <2>1. s = Append(L, b)
    BY <1>3 DEF Appended
  <2>2. /\ s \in Seq(S) /\ Len(s) = n + 1 /\ s[n + 1] = b /\ \A i \in 1 .. n : s[i] = L[i]
        /\ DOMAIN s = 1 .. n + 1
    BY <1>1, <2>1
  <2>3. \A i : i \in 1 .. n + 1 <=> i \in 1 .. n \/ i = n + 1
    BY <1>1
  <2>4. \A i \in 1 .. n : L[i] # b
    BY <1>1, <1>3 DEF ToSet
  <2> HIDE DEF s, n
  <2>5. IsInjective(s)
    BY <1>1, <2>2, <2>3, <2>4 DEF IsInjective
  <2>6. ToSet(s) \subseteq ToSet(L) \cup {b}
    BY <1>1, <2>2, <2>3 DEF ToSet
  <2>7. ToSet(L) \cup {b} \subseteq ToSet(s)
    <3>1. \A i \in 1 .. n : L[i] \in ToSet(s)
      BY <2>2, <2>3 DEF ToSet
    <3>2. b \in ToSet(s)
      BY <2>2, <2>3 DEF ToSet
    <3> QED
      BY <1>1, <3>1, <3>2 DEF ToSet
  <2>8. s # <<>> /\ Len(s) <= n + 1 /\ Len(s) \in Nat
    BY <1>1, <2>2
  <2> QED
    BY <2>2, <2>5, <2>6, <2>7, <2>8 DEF s, n
<1> QED
  BY <1>2, <1>3

\* A graph too small to overflow a level-0 list.
LEMMA SmallLists ==
    ASSUME NEW h, IsGraph(h), Small(h), NEW a \in Nodes(h), NEW L \in Seq(Nodes(h)),
           IsInjective(L), a \notin ToSet(L)
    PROVE  Len(L) <= M0
<1>1. IsFiniteSet(Nodes(h)) /\ Cardinality(Nodes(h)) \in Nat /\ Cardinality(Nodes(h)) <= M0 + 1
  BY PointsFinite DEF IsGraph, Small
<1>2. /\ Cardinality(ToSet(L)) = Len(L) /\ ToSet(L) \subseteq Nodes(h) \ {a}
  BY InjectiveLen
<1>3. /\ IsFiniteSet(Nodes(h) \ {a})
      /\ Cardinality(Nodes(h) \ {a}) = Cardinality(Nodes(h)) - 1
  BY <1>1, FS_RemoveElement
<1>4. Cardinality(ToSet(L)) <= Cardinality(Nodes(h) \ {a})
  BY <1>2, <1>3, FS_Subset
<1>5. M0 \in Nat /\ Len(L) \in Nat
  BY HnswOpsAssumption DEF M0
<1> QED
  BY <1>1, <1>2, <1>3, <1>4, <1>5

\* One end of an append: thread t at node b, in the list of a.
LEMMA AppendFacts ==
    ASSUME Inv, NEW l \in Nat, NEW a \in OnLev(g, l), NEW b \in OnLev(g, l), a # b, Unlocked(a)
    PROVE  LET list == Appended(Links(g, a, l), b)
               k == PutList(g, a, l, list)
           IN  /\ l \in 0 .. g.lvl[a] /\ list \in Seq(Nodes(g)) /\ IsInjective(list)
               /\ a \notin ToSet(list) /\ ToSet(list) \subseteq OnLev(g, l) /\ list # <<>>
               /\ Len(list) <= LinkCap(l) + 1
               /\ IsGraph(k) /\ SameButLink(k, g) /\ StillLinked(k, g)
               /\ Links(k, a, l) = list
               /\ \A u \in Nodes(g) : \A m \in 0 .. g.lvl[u] :
                     u # a => Links(k, u, m) = Links(g, u, m)
               /\ \A u \in Nodes(g) : Beside(k, u) = IF l = 0 /\ u = a THEN Beside(g, u) \cup {b}
                                                                       ELSE Beside(g, u)
<1> DEFINE L == Links(g, a, l)
           list == Appended(L, b)
           k == PutList(g, a, l, list)
<1>1. IsGraph(g) /\ ListsOK(g, clk, loc)
  BY DEF Inv, Good, ShapeOK
<1>2. /\ a \in Nodes(g) /\ b \in Nodes(g) /\ g.lvl[a] \in Nat /\ l \in 0 .. g.lvl[a]
      /\ \A u \in Nodes(g) : g.lvl[u] \in Nat /\ 0 \in 0 .. g.lvl[u]
  BY <1>1 DEF OnLev, IsGraph
<1>3. L \in Seq(Nodes(g)) /\ Len(L) \in Nat
  BY <1>1, <1>2, LinksType
<1>4. Extra(clk, loc, a, l) = 0
  BY DEF Extra, Unlocked
<1>5. /\ Len(L) <= LinkCap(l) + Extra(clk, loc, a, l) /\ IsInjective(L) /\ a \notin ToSet(L)
      /\ ToSet(L) \subseteq OnLev(g, l)
  BY <1>1, <1>2 DEF ListsOK
<1> HIDE DEF L
<1>6. /\ list \in Seq(Nodes(g)) /\ IsInjective(list) /\ ToSet(list) = ToSet(L) \cup {b}
      /\ list # <<>> /\ Len(list) <= Len(L) + 1 /\ Len(list) \in Nat
  BY <1>2, <1>3, <1>5, AppendedFacts
<1> HIDE DEF list
<1>7. Len(list) <= LinkCap(l) + 1
  <2> DEFINE cap == LinkCap(l)
  <2>1. cap \in Nat
    BY HnswOpsAssumption DEF LinkCap, M0
  <2>2. Len(L) <= cap + 0
    BY <1>4, <1>5
  <2> HIDE DEF cap
  <2>3. Len(list) <= cap + 1
    BY <1>3, <1>6, <2>1, <2>2
  <2> QED
    BY <2>3 DEF cap
<1>8. /\ IsGraph(k) /\ SameButLink(k, g)
      /\ \A u \in Nodes(g) : \A m \in 0 .. g.lvl[u] :
            Links(k, u, m) = IF u = a /\ m = l THEN list ELSE Links(g, u, m)
  BY <1>1, <1>2, <1>6, PutListFacts
<1> HIDE DEF k
<1>9. StillLinked(k, g)
  BY <1>6, <1>8 DEF StillLinked
<1>10. \A u \in Nodes(g) : Beside(k, u) = IF l = 0 /\ u = a THEN Beside(g, u) \cup {b}
                                                            ELSE Beside(g, u)
  BY <1>2, <1>6, <1>8 DEF Beside, L
<1>11. a \notin ToSet(list) /\ ToSet(list) \subseteq OnLev(g, l)
  BY <1>5, <1>6
<1>12. /\ Links(k, a, l) = list
       /\ \A u \in Nodes(g) : \A m \in 0 .. g.lvl[u] : u # a => Links(k, u, m) = Links(g, u, m)
  BY <1>2, <1>8
<1> QED
  BY <1>2, <1>6, <1>7, <1>8, <1>9, <1>10, <1>11, <1>12 DEF L, list, k

LEMMA LinkAppendInv ==
    ASSUME Inv, NEW t \in Threads, LinkAppend(t), UNCHANGED call
    PROVE  Inv'
<1> DEFINE r == loc[t]
           n == Len(r.sel)
           a == r.v
           b == r.sel[r.j]
           l == r.l
           list == Appended(Links(g, a, l), b)
           k == PutList(g, a, l, list)
           r2 == [r EXCEPT !.pc = "linkend"]
<1>1. /\ r.pc = "link" /\ r.j <= n /\ Unlocked(a) /\ clk' = [clk EXCEPT ![a] = t]
      /\ g' = k /\ loc' = [loc EXCEPT ![t] = r2]
      /\ UNCHANGED <<call, pub, glk, next>>
  BY DEF LinkAppend, LockAppend, At, Become, MoreToLink, Partner, WithList, PutList
<1>2. r.pc \in Linking
  BY <1>1 DEF Linking
<1>3. /\ Good(call, g, pub, clk, glk, next, loc) /\ r \in Locals /\ ThreadOK(call, g, pub, r)
      /\ pub \subseteq Nodes(g) /\ IsGraph(g) /\ g.lvl \in [Nodes(g) -> Nat] /\ g.top \in Int
      /\ r.pc \in Working /\ a \in Nodes(g) \ pub /\ l \in Nat /\ a \in OnLev(g, l)
      /\ n \in Nat /\ DOMAIN r.sel = 1 .. n /\ r.j \in 1 .. n + 1
      /\ \A i \in 1 .. n : r.sel[i] \in pub /\ r.sel[i] \in OnLev(g, l)
      /\ Small(g) => Linked(g, r)
  BY <1>2, LinkingFacts
<1>4. r.j \in 1 .. n /\ b \in pub /\ b \in OnLev(g, l) /\ a # b /\ b \in ToSet(r.sel)
  BY <1>1, <1>3 DEF ToSet
<1> HIDE DEF b
<1>5. /\ l \in 0 .. g.lvl[a] /\ list \in Seq(Nodes(g)) /\ IsInjective(list)
      /\ a \notin ToSet(list) /\ ToSet(list) \subseteq OnLev(g, l) /\ list # <<>>
      /\ Len(list) <= LinkCap(l) + 1
      /\ IsGraph(k) /\ SameButLink(k, g) /\ StillLinked(k, g) /\ Links(k, a, l) = list
      /\ \A u \in Nodes(g) : Beside(k, u) = IF l = 0 /\ u = a THEN Beside(g, u) \cup {b}
                                                              ELSE Beside(g, u)
  <2> HIDE DEF r, a, l
  <2>1. l \in Nat /\ a \in OnLev(g, l) /\ b \in OnLev(g, l) /\ a # b /\ Unlocked(a)
    BY <1>1, <1>3, <1>4
  <2> QED
    BY <2>1, AppendFacts
<1> HIDE DEF r, list
<1>6. r2 \in Locals
  BY <1>3 DEF Locals, Pcs
<1>7. /\ r2.pc = "linkend" /\ r2.snap = r.snap /\ r2.chunk = r.chunk /\ r2.v = r.v /\ r2.ep = r.ep
      /\ r2.max = r.max /\ r2.l = r.l /\ r2.beam = r.beam /\ r2.sel = r.sel /\ r2.j = r.j
  BY <1>3 DEF Locals
<1> HIDE DEF r2, k
<1>8. g.top = k.top /\ Nodes(k) = Nodes(g) /\ k.lvl = g.lvl
  BY <1>5 DEF SameButLink
<1>9. ThreadOK(call, k, pub, r)
  <2>1. /\ ThreadOK(call, g, pub, r) /\ pub \subseteq Nodes(g) /\ g.lvl \in [Nodes(g) -> Nat]
        /\ Nodes(k) = Nodes(g) /\ k.lvl = g.lvl /\ g.top \in Int /\ k.top \in Int
        /\ g.top <= k.top /\ StillLinked(k, g) /\ r.v \notin pub
    BY <1>3, <1>5, <1>8
  <2> QED
    BY <2>1, ThreadKept
<1>10. ThreadOK(call, k, pub, r2)
  BY <1>1, <1>2, <1>4, <1>5, <1>7, <1>9
     DEF ThreadOK, StandsOn, Greedy2, OnLayer, Linking, Working, Raising
<1>11. \A x : (Holds(r2, x) <=> x = a) /\ ~ Holds(r, x)
  BY <1>1, <1>7 DEF Holds
<1>12. Small(g) => Linked(k, r2)
  <2>1. SUFFICES ASSUME Small(g), l = 0, NEW i \in 1 .. n, i < r.j \/ i = r.j
                 PROVE  r.sel[i] \in Beside(k, a)
    BY <1>7 DEF Linked
  <2>2. i < r.j => r.sel[i] \in Beside(g, a)
    BY <1>1, <1>3, <2>1 DEF Linked
  <2> QED
    BY <1>3, <1>5, <2>1, <2>2 DEF b
<1>13. \A u, w : Pending(r, u, w) => Pending(r2, u, w)
  BY <1>1, <1>7 DEF Pending
<1>14. \A u \in Nodes(g) :
          /\ Beside(g, u) \subseteq Beside(k, u)
          /\ \A w \in Beside(k, u) \ Beside(g, u) :
                Pending(r2, u, w) /\ IF u \in pub THEN w \notin pub ELSE w \in pub
  BY <1>3, <1>4, <1>5, <1>7 DEF Pending
<1>15. clk[a] = NoThread /\ {r.pc, r2.pc} \subseteq Linking
  BY <1>1, <1>7 DEF Unlocked, Linking
<1>16. t # NoThread
  BY ConcurrentAssumption
<1>17. Good(call, k, pub, [clk EXCEPT ![a] = t], glk, next, [loc EXCEPT ![t] = r2])
  <2> DEFINE x == t
  <2>1. /\ x \in {t, NoThread} /\ (x = t => clk[a] = NoThread)
        /\ \A y : Holds(r2, y) <=> y = a /\ x = t
        /\ \A y : Holds(r, y) <=> y = a /\ x = NoThread
        /\ Len(list) <= LinkCap(l) + (IF x = t THEN 1 ELSE 0)
    BY <1>5, <1>11, <1>15, <1>16
  <2> HIDE DEF x
  <2>2. Small(g) =>
           /\ Linked(k, r2)
           /\ \A u, w : Pending(r, u, w) => Pending(r2, u, w) \/ u \in Beside(k, w)
           /\ \A u \in Nodes(g) :
                 /\ Beside(g, u) \subseteq Beside(k, u)
                 /\ \A w \in Beside(k, u) \ Beside(g, u) :
                       /\ u \in Beside(k, w) \/ Pending(r2, u, w)
                       /\ IF u \in pub THEN w \notin pub ELSE w \in pub
    BY <1>12, <1>13, <1>14
  <2>3. k = PutList(g, a, l, list)
    BY DEF k
  <2>4. Relisted(call, g, pub, clk, t, r, r2, a, l, list, k, x)
    <3>1. /\ a \in Nodes(g) /\ r2.chunk = r.chunk /\ r2.v = r.v /\ r2.l = l /\ r.l = l
          /\ r.pc \in Linking /\ r2.pc \in Linking
      BY <1>3, <1>5, <1>6, <1>7, <1>10, <1>15
    <3> HIDE DEF a, l
    <3>2. /\ l \in 0 .. g.lvl[a] /\ list \in Seq(Nodes(g))
          /\ r2 \in Locals /\ ThreadOK(call, k, pub, r2)
          /\ Links(g, a, l) # <<>> => list # <<>>
          /\ IsInjective(list) /\ a \notin ToSet(list) /\ ToSet(list) \subseteq OnLev(g, l)
      BY <1>3, <1>5, <1>6, <1>7, <1>10, <1>15
    <3> QED
      BY <2>1, <2>2, <2>3, <3>1, <3>2 DEF Relisted
  <2>5. Relisted(call, g, pub, clk, t, loc[t], r2, a, l, list, k, x)
    BY <2>4 DEF r
  <2>6. Good(call, k, pub, [clk EXCEPT ![a] = x], glk, next, [loc EXCEPT ![t] = r2])
    <3> HIDE DEF a, l
    <3> QED
      BY <1>3, <2>5, ListStep
  <2> QED
    BY <2>6 DEF x
<1> QED
  BY <1>1, <1>17 DEF Inv

LEMMA BackAppendInv ==
    ASSUME Inv, NEW t \in Threads, BackAppend(t), UNCHANGED call
    PROVE  Inv'
<1> DEFINE r == loc[t]
           n == Len(r.sel)
           a == r.sel[r.j]
           b == r.v
           l == r.l
           list == Appended(Links(g, a, l), b)
           k == PutList(g, a, l, list)
           r2 == [r EXCEPT !.pc = "backend"]
<1>1. /\ r.pc = "back" /\ r.j <= n /\ Unlocked(a) /\ clk' = [clk EXCEPT ![a] = t]
      /\ g' = k /\ loc' = [loc EXCEPT ![t] = r2]
      /\ UNCHANGED <<call, pub, glk, next>>
  BY DEF BackAppend, LockAppend, At, Become, MoreToLink, Partner, WithList, PutList
<1>2. r.pc \in Linking
  BY <1>1 DEF Linking
<1>3. /\ Good(call, g, pub, clk, glk, next, loc) /\ r \in Locals /\ ThreadOK(call, g, pub, r)
      /\ pub \subseteq Nodes(g) /\ IsGraph(g) /\ g.lvl \in [Nodes(g) -> Nat] /\ g.top \in Int
      /\ r.pc \in Working /\ b \in Nodes(g) \ pub /\ l \in Nat /\ b \in OnLev(g, l)
      /\ l \in 0 .. g.lvl[b]
      /\ n \in Nat /\ DOMAIN r.sel = 1 .. n /\ r.j \in 1 .. n + 1
      /\ \A i \in 1 .. n : r.sel[i] \in pub /\ r.sel[i] \in OnLev(g, l)
      /\ Small(g) => Linked(g, r)
  BY <1>2, LinkingFacts
<1>4. r.j \in 1 .. n /\ a \in pub /\ a \in OnLev(g, l) /\ a # b /\ a \in ToSet(r.sel) /\ a \in Nodes(g)
  BY <1>1, <1>3 DEF ToSet
<1> HIDE DEF a
<1>5. /\ l \in 0 .. g.lvl[a] /\ list \in Seq(Nodes(g)) /\ IsInjective(list)
      /\ a \notin ToSet(list) /\ ToSet(list) \subseteq OnLev(g, l) /\ list # <<>>
      /\ Len(list) <= LinkCap(l) + 1
      /\ IsGraph(k) /\ SameButLink(k, g) /\ StillLinked(k, g) /\ Links(k, a, l) = list
      /\ \A u \in Nodes(g) : \A m \in 0 .. g.lvl[u] :
            u # a => Links(k, u, m) = Links(g, u, m)
      /\ \A u \in Nodes(g) : Beside(k, u) = IF l = 0 /\ u = a THEN Beside(g, u) \cup {b}
                                                              ELSE Beside(g, u)
  <2> HIDE DEF r, b, l
  <2>1. l \in Nat /\ a \in OnLev(g, l) /\ b \in OnLev(g, l) /\ a # b /\ Unlocked(a)
    BY <1>1, <1>3, <1>4
  <2> QED
    BY <2>1, AppendFacts
<1> HIDE DEF r, list
<1>6. r2 \in Locals
  BY <1>3 DEF Locals, Pcs
<1>7. /\ r2.pc = "backend" /\ r2.snap = r.snap /\ r2.chunk = r.chunk /\ r2.v = r.v /\ r2.ep = r.ep
      /\ r2.max = r.max /\ r2.l = r.l /\ r2.beam = r.beam /\ r2.sel = r.sel /\ r2.j = r.j
  BY <1>3 DEF Locals
<1> HIDE DEF r2, k
<1>8. g.top = k.top /\ Nodes(k) = Nodes(g) /\ k.lvl = g.lvl
  BY <1>5 DEF SameButLink
<1>9. ThreadOK(call, k, pub, r)
  <2>1. /\ ThreadOK(call, g, pub, r) /\ pub \subseteq Nodes(g) /\ g.lvl \in [Nodes(g) -> Nat]
        /\ Nodes(k) = Nodes(g) /\ k.lvl = g.lvl /\ g.top \in Int /\ k.top \in Int
        /\ g.top <= k.top /\ StillLinked(k, g) /\ r.v \notin pub
    BY <1>3, <1>5, <1>8
  <2> QED
    BY <2>1, ThreadKept
<1>10. ThreadOK(call, k, pub, r2)
  BY <1>1, <1>2, <1>4, <1>7, <1>9
     DEF ThreadOK, StandsOn, Greedy2, OnLayer, Linking, Working, Raising
<1>11. \A x : (Holds(r2, x) <=> x = a) /\ ~ Holds(r, x)
  BY <1>1, <1>7 DEF Holds, a
<1>12. Small(g) => Linked(k, r2) /\ (l = 0 => a \in Beside(k, b))
  <2>1. SUFFICES ASSUME Small(g), l = 0
                 PROVE  ToSet(r.sel) \subseteq Beside(k, b)
    BY <1>4, <1>7 DEF Linked
  <2>2. ToSet(r.sel) \subseteq Beside(g, b)
    BY <1>1, <1>3, <2>1 DEF Linked
  <2> QED
    BY <1>3, <1>4, <1>5, <2>2
<1>13. \A u, w : Pending(r, u, w) => Pending(r2, u, w) \/ u \in Beside(k, w)
  <2>1. SUFFICES ASSUME NEW u, NEW w, Pending(r, u, w) PROVE Pending(r2, u, w) \/ u \in Beside(k, w)
    OBVIOUS
  <2>2. PICK i \in 1 .. n : r.l = 0 /\ r.v = u /\ w = r.sel[i] /\ i >= r.j
    BY <1>1, <2>1 DEF Pending
  <2>3. CASE i = r.j
    BY <1>4, <1>5, <2>2, <2>3 DEF a
  <2>4. CASE i # r.j
    <3>1. i > r.j
      BY <1>4, <2>2, <2>4
    <3> QED
      BY <1>7, <2>2, <3>1 DEF Pending
  <2> QED
    BY <2>3, <2>4
<1>14. Small(g) =>
          \A u \in Nodes(g) :
             /\ Beside(g, u) \subseteq Beside(k, u)
             /\ \A w \in Beside(k, u) \ Beside(g, u) :
                   u \in Beside(k, w) /\ IF u \in pub THEN w \notin pub ELSE w \in pub
  BY <1>3, <1>4, <1>5, <1>12
<1>15. clk[a] = NoThread /\ {r.pc, r2.pc} \subseteq Linking
  BY <1>1, <1>7 DEF Unlocked, Linking
<1>16. t # NoThread
  BY ConcurrentAssumption
<1>17. Good(call, k, pub, [clk EXCEPT ![a] = t], glk, next, [loc EXCEPT ![t] = r2])
  <2> DEFINE x == t
  <2>1. /\ x \in {t, NoThread} /\ (x = t => clk[a] = NoThread)
        /\ \A y : Holds(r2, y) <=> y = a /\ x = t
        /\ \A y : Holds(r, y) <=> y = a /\ x = NoThread
        /\ Len(list) <= LinkCap(l) + (IF x = t THEN 1 ELSE 0)
    BY <1>5, <1>11, <1>15, <1>16
  <2> HIDE DEF x
  <2>2. Small(g) =>
           /\ Linked(k, r2)
           /\ \A u, w : Pending(r, u, w) => Pending(r2, u, w) \/ u \in Beside(k, w)
           /\ \A u \in Nodes(g) :
                 /\ Beside(g, u) \subseteq Beside(k, u)
                 /\ \A w \in Beside(k, u) \ Beside(g, u) :
                       /\ u \in Beside(k, w) \/ Pending(r2, u, w)
                       /\ IF u \in pub THEN w \notin pub ELSE w \in pub
    BY <1>12, <1>13, <1>14
  <2>3. k = PutList(g, a, l, list)
    BY DEF k
  <2>4. Relisted(call, g, pub, clk, t, r, r2, a, l, list, k, x)
    <3>1. /\ a \in Nodes(g) /\ r2.chunk = r.chunk /\ r2.v = r.v /\ r2.l = l /\ r.l = l
          /\ r.pc \in Linking /\ r2.pc \in Linking
      BY <1>3, <1>4, <1>5, <1>6, <1>7, <1>10, <1>15
    <3> HIDE DEF a, l
    <3>2. /\ l \in 0 .. g.lvl[a] /\ list \in Seq(Nodes(g))
          /\ r2 \in Locals /\ ThreadOK(call, k, pub, r2)
          /\ Links(g, a, l) # <<>> => list # <<>>
          /\ IsInjective(list) /\ a \notin ToSet(list) /\ ToSet(list) \subseteq OnLev(g, l)
      BY <1>3, <1>4, <1>5, <1>6, <1>7, <1>10, <1>15
    <3> QED
      BY <2>1, <2>2, <2>3, <3>1, <3>2 DEF Relisted
  <2>5. Relisted(call, g, pub, clk, t, loc[t], r2, a, l, list, k, x)
    BY <2>4 DEF r
  <2>6. Good(call, k, pub, [clk EXCEPT ![a] = x], glk, next, [loc EXCEPT ![t] = r2])
    <3> HIDE DEF a, l
    <3> QED
      BY <1>3, <2>5, ListStep
  <2> QED
    BY <2>6 DEF x
<1> QED
  BY <1>1, <1>17 DEF Inv

\* The pruning before a lock is let go: no list is emptied, and in a graph too
\* small to overflow a level-0 list none of those changes.
LEMMA PruneFacts ==
    ASSUME Inv, NEW l \in Nat, NEW a \in OnLev(g, l)
    PROVE  LET list == Shrunk(a, l)
               k == PutList(g, a, l, list)
           IN  /\ l \in 0 .. g.lvl[a] /\ list \in Seq(Nodes(g)) /\ IsInjective(list)
               /\ a \notin ToSet(list) /\ ToSet(list) \subseteq OnLev(g, l)
               /\ Links(g, a, l) # <<>> => list # <<>>
               /\ Len(list) <= LinkCap(l)
               /\ IsGraph(k) /\ SameButLink(k, g) /\ StillLinked(k, g)
               /\ Small(g) => \A u \in Nodes(g) : Beside(k, u) = Beside(g, u)
<1> DEFINE L == Links(g, a, l)
           list == Shrunk(a, l)
           k == PutList(g, a, l, list)
           cap == LinkCap(l)
<1>1. IsGraph(g) /\ ListsOK(g, clk, loc)
  BY DEF Inv, Good, ShapeOK
<1>2. /\ a \in Nodes(g) /\ g.lvl[a] \in Nat /\ l \in 0 .. g.lvl[a] /\ Nodes(g) \subseteq Points
      /\ \A u \in Nodes(g) : g.lvl[u] \in Nat /\ 0 \in 0 .. g.lvl[u]
  BY <1>1 DEF OnLev, IsGraph
<1>3. L \in Seq(Nodes(g)) /\ Len(L) \in Nat /\ L \in Seq(Points) /\ a \in Points
  BY <1>1, <1>2, LinksType
<1>4. IsInjective(L) /\ a \notin ToSet(L) /\ ToSet(L) \subseteq OnLev(g, l)
  BY <1>1, <1>2 DEF ListsOK
<1>5. cap \in Nat /\ cap >= 1 /\ (l = 0 => cap = M0)
  BY HnswOpsAssumption DEF LinkCap, M0
<1>6. list = ShrinkLinks(a, L, l)
  BY DEF Shrunk
<1> HIDE DEF L, list, cap
<1>7. /\ list \in Seq(ToSet(L)) /\ IsInjective(list) /\ ToSet(list) \subseteq ToSet(L)
      /\ Len(list) = IF Len(L) <= cap THEN Len(L) ELSE cap
      /\ Len(L) <= cap => list = L
  BY <1>3, <1>4, <1>6, ShrinkFacts DEF cap
<1>8. list \in Seq(Nodes(g))
  <2>1. ToSet(L) \subseteq Nodes(g)
    BY <1>4 DEF OnLev
  <2> QED
    BY <1>7, <2>1
<1>9. Len(list) <= cap /\ (L # <<>> => list # <<>>)
  BY <1>3, <1>5, <1>7
<1>10. /\ IsGraph(k) /\ SameButLink(k, g)
       /\ \A u \in Nodes(g) : \A m \in 0 .. g.lvl[u] :
             Links(k, u, m) = IF u = a /\ m = l THEN list ELSE Links(g, u, m)
  BY <1>1, <1>2, <1>8, PutListFacts
<1> HIDE DEF k
<1>11. StillLinked(k, g)
  BY <1>9, <1>10 DEF StillLinked, L
<1>12. ASSUME Small(g), NEW u \in Nodes(g) PROVE Beside(k, u) = Beside(g, u)
  <2>1. CASE u = a /\ l = 0
    <3>1. Len(L) <= M0
      BY <1>1, <1>2, <1>3, <1>4, <1>12, SmallLists
    <3>2. list = L
      BY <1>5, <1>7, <2>1, <3>1
    <3> QED
      BY <1>2, <1>10, <2>1, <3>2 DEF Beside, L
  <2>2. CASE ~ (u = a /\ l = 0)
    BY <1>2, <1>10, <2>2 DEF Beside
  <2> QED
    BY <2>1, <2>2
<1> QED
  BY <1>2, <1>4, <1>7, <1>8, <1>9, <1>10, <1>11, <1>12 DEF L, list, k, cap

LEMMA LinkReleaseInv ==
    ASSUME Inv, NEW t \in Threads, LinkRelease(t), UNCHANGED call
    PROVE  Inv'
<1> DEFINE r == loc[t]
           n == Len(r.sel)
           a == r.v
           l == r.l
           list == Shrunk(a, l)
           k == PutList(g, a, l, list)
           j2 == r.j + 1
           r2 == [r EXCEPT !.pc = "link", !.j = j2]
<1>1. /\ r.pc = "linkend" /\ clk' = [clk EXCEPT ![a] = NoThread]
      /\ g' = k /\ loc' = [loc EXCEPT ![t] = r2]
      /\ UNCHANGED <<call, pub, glk, next>>
  BY DEF LinkRelease, ShrinkUnlock, At, Become, WithList, PutList
<1>2. r.pc \in Linking
  BY <1>1 DEF Linking
<1>3. /\ Good(call, g, pub, clk, glk, next, loc) /\ r \in Locals /\ ThreadOK(call, g, pub, r)
      /\ pub \subseteq Nodes(g) /\ IsGraph(g) /\ g.lvl \in [Nodes(g) -> Nat] /\ g.top \in Int
      /\ r.pc \in Working /\ a \in Nodes(g) \ pub /\ l \in Nat /\ a \in OnLev(g, l)
      /\ l \in 0 .. g.lvl[a]
      /\ n \in Nat /\ DOMAIN r.sel = 1 .. n /\ r.j \in 1 .. n + 1
      /\ Small(g) => Linked(g, r)
  BY <1>2, LinkingFacts
<1>4. r.j <= n /\ Links(g, a, l) # <<>>
  BY <1>1, <1>3 DEF ThreadOK
<1>5. /\ list \in Seq(Nodes(g)) /\ IsInjective(list)
      /\ a \notin ToSet(list) /\ ToSet(list) \subseteq OnLev(g, l) /\ list # <<>>
      /\ Len(list) <= LinkCap(l)
      /\ IsGraph(k) /\ SameButLink(k, g) /\ StillLinked(k, g)
      /\ Small(g) => \A u \in Nodes(g) : Beside(k, u) = Beside(g, u)
  <2> HIDE DEF r, a, l
  <2>1. l \in Nat /\ a \in OnLev(g, l) /\ Links(g, a, l) # <<>>
    BY <1>3, <1>4
  <2> QED
    BY <2>1, PruneFacts
<1> HIDE DEF r, list
<1>6. /\ r.j \in 1 .. n /\ j2 \in 1 .. n + 1 /\ j2 > 1 /\ j2 \in Nat
      /\ \A i \in 1 .. n : i < j2 => i < r.j \/ i = r.j
  BY <1>3, <1>4
<1> HIDE DEF j2
<1>7. r2 \in Locals
  BY <1>3, <1>6 DEF Locals, Pcs
<1>8. /\ r2.pc = "link" /\ r2.snap = r.snap /\ r2.chunk = r.chunk /\ r2.v = r.v /\ r2.ep = r.ep
      /\ r2.max = r.max /\ r2.l = r.l /\ r2.beam = r.beam /\ r2.sel = r.sel /\ r2.j = j2
  BY <1>3 DEF Locals
<1> HIDE DEF r2, k
<1>9. g.top = k.top /\ Nodes(k) = Nodes(g) /\ k.lvl = g.lvl
  BY <1>5 DEF SameButLink
<1>10. ThreadOK(call, k, pub, r)
  <2>1. /\ ThreadOK(call, g, pub, r) /\ pub \subseteq Nodes(g) /\ g.lvl \in [Nodes(g) -> Nat]
        /\ Nodes(k) = Nodes(g) /\ k.lvl = g.lvl /\ g.top \in Int /\ k.top \in Int
        /\ g.top <= k.top /\ StillLinked(k, g) /\ r.v \notin pub
    BY <1>3, <1>5, <1>9
  <2> QED
    BY <2>1, ThreadKept
<1>11. ThreadOK(call, k, pub, r2)
  BY <1>1, <1>2, <1>6, <1>8, <1>10
     DEF ThreadOK, StandsOn, Greedy2, OnLayer, Linking, Working, Raising
<1>12. \A x : (Holds(r, x) <=> x = a) /\ ~ Holds(r2, x)
  BY <1>1, <1>8 DEF Holds
<1>13. Small(g) => Linked(k, r2)
  <2>1. SUFFICES ASSUME Small(g), l = 0, NEW i \in 1 .. n, i < j2
                 PROVE  r.sel[i] \in Beside(k, a)
    BY <1>8 DEF Linked
  <2>2. r.sel[i] \in Beside(g, a)
    BY <1>1, <1>3, <1>6, <2>1 DEF Linked
  <2> QED
    BY <1>3, <1>5, <2>1, <2>2
<1>14. \A u, w : Pending(r, u, w) => Pending(r2, u, w)
  BY <1>1, <1>8 DEF Pending
<1>15. {r.pc, r2.pc} \subseteq Linking /\ t # NoThread
  BY <1>1, <1>8, ConcurrentAssumption DEF Linking
<1>16. Good(call, k, pub, [clk EXCEPT ![a] = NoThread], glk, next, [loc EXCEPT ![t] = r2])
  <2> DEFINE x == NoThread
  <2>1. /\ x \in {t, NoThread} /\ (x = t => clk[a] = NoThread)
        /\ \A y : Holds(r2, y) <=> y = a /\ x = t
        /\ \A y : Holds(r, y) <=> y = a /\ x = NoThread
        /\ Len(list) <= LinkCap(l) + (IF x = t THEN 1 ELSE 0)
    <3>1. Len(list) <= LinkCap(l) + 0
      <4> DEFINE cap == LinkCap(l)
      <4>1. cap \in Nat /\ Len(list) <= cap
        BY <1>5, HnswOpsAssumption DEF LinkCap, M0
      <4> HIDE DEF cap
      <4> QED
        BY <4>1 DEF cap
    <3> QED
      BY <1>12, <1>15, <3>1
  <2> HIDE DEF x
  <2>2. Small(g) =>
           /\ Linked(k, r2)
           /\ \A u, w : Pending(r, u, w) => Pending(r2, u, w) \/ u \in Beside(k, w)
           /\ \A u \in Nodes(g) :
                 /\ Beside(g, u) \subseteq Beside(k, u)
                 /\ \A w \in Beside(k, u) \ Beside(g, u) :
                       /\ u \in Beside(k, w) \/ Pending(r2, u, w)
                       /\ IF u \in pub THEN w \notin pub ELSE w \in pub
    BY <1>5, <1>13, <1>14
  <2>3. k = PutList(g, a, l, list)
    BY DEF k
  <2>4. Relisted(call, g, pub, clk, t, r, r2, a, l, list, k, x)
    <3>1. /\ a \in Nodes(g) /\ r2.chunk = r.chunk /\ r2.v = r.v /\ r2.l = l /\ r.l = l
          /\ r.pc \in Linking /\ r2.pc \in Linking
      BY <1>3, <1>5, <1>7, <1>8, <1>11, <1>15
    <3> HIDE DEF a, l
    <3>2. /\ l \in 0 .. g.lvl[a] /\ list \in Seq(Nodes(g))
          /\ r2 \in Locals /\ ThreadOK(call, k, pub, r2)
          /\ Links(g, a, l) # <<>> => list # <<>>
          /\ IsInjective(list) /\ a \notin ToSet(list) /\ ToSet(list) \subseteq OnLev(g, l)
      BY <1>3, <1>5, <1>7, <1>8, <1>11, <1>15
    <3> QED
      BY <2>1, <2>2, <2>3, <3>1, <3>2 DEF Relisted
  <2>5. Relisted(call, g, pub, clk, t, loc[t], r2, a, l, list, k, x)
    BY <2>4 DEF r
  <2>6. Good(call, k, pub, [clk EXCEPT ![a] = x], glk, next, [loc EXCEPT ![t] = r2])
    <3> HIDE DEF a, l
    <3> QED
      BY <1>3, <2>5, ListStep
  <2> QED
    BY <2>6 DEF x
<1> QED
  BY <1>1, <1>16 DEF Inv

LEMMA BackReleaseInv ==
    ASSUME Inv, NEW t \in Threads, BackRelease(t), UNCHANGED call
    PROVE  Inv'
<1> DEFINE r == loc[t]
           n == Len(r.sel)
           a == r.sel[r.j]
           l == r.l
           list == Shrunk(a, l)
           k == PutList(g, a, l, list)
           j2 == r.j + 1
           r2 == [r EXCEPT !.pc = "back", !.j = j2]
<1>1. /\ r.pc = "backend" /\ clk' = [clk EXCEPT ![a] = NoThread]
      /\ g' = k /\ loc' = [loc EXCEPT ![t] = r2]
      /\ UNCHANGED <<call, pub, glk, next>>
  BY DEF BackRelease, ShrinkUnlock, At, Become, WithList, PutList, Partner
<1>2. r.pc \in Linking
  BY <1>1 DEF Linking
<1>3. /\ Good(call, g, pub, clk, glk, next, loc) /\ r \in Locals /\ ThreadOK(call, g, pub, r)
      /\ pub \subseteq Nodes(g) /\ IsGraph(g) /\ g.lvl \in [Nodes(g) -> Nat] /\ g.top \in Int
      /\ r.pc \in Working /\ r.v \in Nodes(g) \ pub /\ l \in Nat
      /\ n \in Nat /\ DOMAIN r.sel = 1 .. n /\ r.j \in 1 .. n + 1
      /\ \A i \in 1 .. n : r.sel[i] \in pub /\ r.sel[i] \in OnLev(g, l)
      /\ Small(g) => Linked(g, r)
  BY <1>2, LinkingFacts
<1>4. r.j <= n
  BY <1>1, <1>3 DEF ThreadOK
<1>5. r.j \in 1 .. n /\ a \in pub /\ a \in OnLev(g, l) /\ a \in Nodes(g)
  BY <1>3, <1>4
<1> HIDE DEF a
<1>6. /\ l \in 0 .. g.lvl[a] /\ list \in Seq(Nodes(g)) /\ IsInjective(list)
      /\ a \notin ToSet(list) /\ ToSet(list) \subseteq OnLev(g, l)
      /\ Links(g, a, l) # <<>> => list # <<>>
      /\ Len(list) <= LinkCap(l)
      /\ IsGraph(k) /\ SameButLink(k, g) /\ StillLinked(k, g)
      /\ Small(g) => \A u \in Nodes(g) : Beside(k, u) = Beside(g, u)
  <2> HIDE DEF r, l
  <2>1. l \in Nat /\ a \in OnLev(g, l)
    BY <1>3, <1>5
  <2> QED
    BY <2>1, PruneFacts
<1> HIDE DEF r, list
<1>7. /\ j2 \in 1 .. n + 1 /\ j2 \in Nat /\ \A i \in 1 .. n : i > r.j => i >= j2
  BY <1>3, <1>5
<1> HIDE DEF j2
<1>8. r2 \in Locals
  BY <1>3, <1>7 DEF Locals, Pcs
<1>9. /\ r2.pc = "back" /\ r2.snap = r.snap /\ r2.chunk = r.chunk /\ r2.v = r.v /\ r2.ep = r.ep
      /\ r2.max = r.max /\ r2.l = r.l /\ r2.beam = r.beam /\ r2.sel = r.sel /\ r2.j = j2
  BY <1>3 DEF Locals
<1> HIDE DEF r2, k
<1>10. g.top = k.top /\ Nodes(k) = Nodes(g) /\ k.lvl = g.lvl
  BY <1>6 DEF SameButLink
<1>11. ThreadOK(call, k, pub, r)
  <2>1. /\ ThreadOK(call, g, pub, r) /\ pub \subseteq Nodes(g) /\ g.lvl \in [Nodes(g) -> Nat]
        /\ Nodes(k) = Nodes(g) /\ k.lvl = g.lvl /\ g.top \in Int /\ k.top \in Int
        /\ g.top <= k.top /\ StillLinked(k, g) /\ r.v \notin pub
    BY <1>3, <1>6, <1>10
  <2> QED
    BY <2>1, ThreadKept
<1>12. ThreadOK(call, k, pub, r2)
  BY <1>1, <1>2, <1>7, <1>9, <1>11
     DEF ThreadOK, StandsOn, Greedy2, OnLayer, Linking, Working, Raising
<1>13. \A x : (Holds(r, x) <=> x = a) /\ ~ Holds(r2, x)
  BY <1>1, <1>9 DEF Holds, a
<1>14. Small(g) => Linked(k, r2)
  BY <1>1, <1>3, <1>6, <1>9 DEF Linked
<1>15. \A u, w : Pending(r, u, w) => Pending(r2, u, w)
  BY <1>1, <1>7, <1>9 DEF Pending
<1>16. {r.pc, r2.pc} \subseteq Linking /\ t # NoThread
  BY <1>1, <1>9, ConcurrentAssumption DEF Linking
<1>17. Good(call, k, pub, [clk EXCEPT ![a] = NoThread], glk, next, [loc EXCEPT ![t] = r2])
  <2> DEFINE x == NoThread
  <2>1. /\ x \in {t, NoThread} /\ (x = t => clk[a] = NoThread)
        /\ \A y : Holds(r2, y) <=> y = a /\ x = t
        /\ \A y : Holds(r, y) <=> y = a /\ x = NoThread
        /\ Len(list) <= LinkCap(l) + (IF x = t THEN 1 ELSE 0)
    <3>1. Len(list) <= LinkCap(l) + 0
      <4> DEFINE cap == LinkCap(l)
      <4>1. cap \in Nat /\ Len(list) <= cap
        BY <1>6, HnswOpsAssumption DEF LinkCap, M0
      <4> HIDE DEF cap
      <4> QED
        BY <4>1 DEF cap
    <3> QED
      BY <1>13, <1>16, <3>1
  <2> HIDE DEF x
  <2>2. Small(g) =>
           /\ Linked(k, r2)
           /\ \A u, w : Pending(r, u, w) => Pending(r2, u, w) \/ u \in Beside(k, w)
           /\ \A u \in Nodes(g) :
                 /\ Beside(g, u) \subseteq Beside(k, u)
                 /\ \A w \in Beside(k, u) \ Beside(g, u) :
                       /\ u \in Beside(k, w) \/ Pending(r2, u, w)
                       /\ IF u \in pub THEN w \notin pub ELSE w \in pub
    BY <1>6, <1>14, <1>15
  <2>3. k = PutList(g, a, l, list)
    BY DEF k
  <2>4. Relisted(call, g, pub, clk, t, r, r2, a, l, list, k, x)
    <3>1. /\ a \in Nodes(g) /\ r2.chunk = r.chunk /\ r2.v = r.v /\ r2.l = l /\ r.l = l
          /\ r.pc \in Linking /\ r2.pc \in Linking
      BY <1>3, <1>5, <1>6, <1>8, <1>9, <1>12, <1>16
    <3> HIDE DEF a, l
    <3>2. /\ l \in 0 .. g.lvl[a] /\ list \in Seq(Nodes(g))
          /\ r2 \in Locals /\ ThreadOK(call, k, pub, r2)
          /\ Links(g, a, l) # <<>> => list # <<>>
          /\ IsInjective(list) /\ a \notin ToSet(list) /\ ToSet(list) \subseteq OnLev(g, l)
      BY <1>3, <1>5, <1>6, <1>8, <1>9, <1>12, <1>16
    <3> QED
      BY <2>1, <2>2, <2>3, <3>1, <3>2 DEF Relisted
  <2>5. Relisted(call, g, pub, clk, t, loc[t], r2, a, l, list, k, x)
    BY <2>4 DEF r
  <2>6. Good(call, k, pub, [clk EXCEPT ![a] = x], glk, next, [loc EXCEPT ![t] = r2])
    <3> HIDE DEF a, l
    <3> QED
      BY <1>3, <2>5, ListStep
  <2> QED
    BY <2>6 DEF x
<1> QED
  BY <1>1, <1>17 DEF Inv

-----------------------------------------------------------------------------
(***************************************************************************)
(* Publishing, and the entry point.                                        *)
(***************************************************************************)
\* A thread outside clink, and a graph whose lists do not change.
LEMMA OutsideLink ==
    ASSUME NEW c, NEW h, NEW P, NEW ck, NEW gk, NEW nx, NEW lc,
           Good(c, h, P, ck, gk, nx, lc), NEW t \in Threads, NEW r,
           lc[t].pc \notin Linking, r.pc \notin Linking,
           NEW k, Nodes(k) = Nodes(h), k.lvl = h.lvl, k.link = h.link
    PROVE  LET lc2 == [lc EXCEPT ![t] = r] IN
           /\ \A u, l : Links(k, u, l) = Links(h, u, l)
           /\ \A u : Beside(k, u) = Beside(h, u)
           /\ Small(k) <=> Small(h)
           /\ \A l : OnLev(k, l) = OnLev(h, l)
           /\ StillLinked(k, h)
           /\ ListsOK(k, ck, lc2) /\ KeptOK(c, k, P) /\ BottomOK(k, P, lc2)
           /\ \A u \in Threads, a \in Nodes(k) : ck[a] = u <=> Holds(lc2[u], a)
<1> DEFINE lc2 == [lc EXCEPT ![t] = r]
<1>1. /\ ShapeOK(c, h, P, ck, gk, nx, lc) /\ LocksOK(h, ck, gk, lc)
      /\ ListsOK(h, ck, lc) /\ KeptOK(c, h, P) /\ BottomOK(h, P, lc)
  BY DEF Good
<1>2. lc \in [Threads -> Locals] /\ ck \in [Nodes(h) -> Threads \cup {NoThread}]
  BY <1>1 DEF ShapeOK
<1>3. \A u \in Threads : lc2[u] = IF u = t THEN r ELSE lc[u]
  BY <1>2
<1> HIDE DEF lc2
<1>4. /\ \A u, l : Links(k, u, l) = Links(h, u, l)
      /\ \A l : OnLev(k, l) = OnLev(h, l)
      /\ Small(k) <=> Small(h)
  BY DEF Links, OnLev, Small
<1>5. (\A u : Beside(k, u) = Beside(h, u)) /\ StillLinked(k, h)
  BY <1>4 DEF Beside, StillLinked
<1>6. /\ \A a : ~ Holds(lc[t], a) /\ ~ Holds(r, a)
      /\ \A u, w : ~ Pending(lc[t], u, w) /\ ~ Pending(r, u, w)
      /\ Linked(k, r)
  BY DEF Holds, Pending, Linked, Linking
<1>7. \A u \in Threads, a \in Nodes(k) : ck[a] = u <=> Holds(lc2[u], a)
  BY <1>1, <1>3, <1>6 DEF LocksOK
<1>8. ListsOK(k, ck, lc2)
  <2>1. \A a \in Nodes(h) : ck[a] # NoThread => ck[a] \in Threads /\ ck[a] # t
    BY <1>1, <1>2, <1>6 DEF LocksOK
  <2>2. \A a \in Nodes(h) : \A l : Extra(ck, lc2, a, l) = Extra(ck, lc, a, l)
    BY <1>3, <2>1 DEF Extra
  <2> QED
    BY <1>1, <1>4, <2>2 DEF ListsOK
<1>9. KeptOK(c, k, P)
  BY <1>1, <1>4 DEF KeptOK
<1>10. BottomOK(k, P, lc2)
  <2>1. SUFFICES ASSUME Small(h)
                 PROVE  /\ \A u, w \in Nodes(h) : w \in Beside(h, u) =>
                              u \in Beside(h, w) \/ \E s \in Threads : Pending(lc2[s], u, w)
                        /\ \A s \in Threads : Linked(k, lc2[s])
    BY <1>1, <1>4, <1>5 DEF BottomOK
  <2>2. \A s \in Threads : \A u, w : Pending(lc[s], u, w) => Pending(lc2[s], u, w)
    BY <1>3, <1>6
  <2>3. \A s \in Threads : Linked(h, lc[s])
    BY <1>1, <2>1 DEF BottomOK
  <2>4. \A s \in Threads : Linked(k, lc[s])
    BY <1>5, <2>3 DEF Linked
  <2> QED
    BY <1>1, <1>3, <1>6, <2>1, <2>2, <2>4 DEF BottomOK
<1> QED
  BY <1>4, <1>5, <1>7, <1>8, <1>9, <1>10 DEF lc2

\* A step of the thread that raises the entry point.
LEMMA RaiseStep ==
    ASSUME NEW c, NEW h, NEW P, NEW ck, NEW gk, NEW nx, NEW lc,
           Good(c, h, P, ck, gk, nx, lc), NEW t \in Threads,
           NEW r \in Locals, lc[t].pc \in Raising, r.pc \in Raising \cup {"claim"},
           r.chunk = lc[t].chunk, r.pc \in Raising => r.v \in P,
           StandsOn(r) \subseteq P, ToSet(r.snap) \subseteq Nodes(h),
           NEW k, IsGraph(k), k.lvl = h.lvl, k.link = h.link, k.top \in Int, h.top <= k.top,
           NEW gl \in Threads \cup {NoThread},
           EntryOK(c, k, P, gl, [lc EXCEPT ![t] = r]),
           \A u \in Threads : gl = u <=> [lc EXCEPT ![t] = r][u].pc \in {"entry", "untop"}
    PROVE  Good(c, k, P, ck, gl, nx, [lc EXCEPT ![t] = r])
<1> DEFINE lc2 == [lc EXCEPT ![t] = r]
<1>1. /\ ShapeOK(c, h, P, ck, gk, nx, lc) /\ \A u \in Threads : ThreadOK(c, h, P, lc[u])
      /\ SplitOK(c, P, nx, lc) /\ EntryOK(c, h, P, gk, lc)
  BY DEF Good
<1>2. /\ lc \in [Threads -> Locals] /\ P \subseteq Nodes(h) /\ IsGraph(h)
  BY <1>1 DEF ShapeOK
<1>3. \A u \in Threads : lc2[u] = IF u = t THEN r ELSE lc[u]
  BY <1>2
<1>4. lc2 \in [Threads -> Locals]
  BY <1>2
<1>5. Nodes(k) = Nodes(h)
  BY DEF Nodes
<1>6. /\ lc[t].pc \notin Linking /\ r.pc \notin Linking
      /\ lc[t].pc \notin Working /\ r.pc \notin Working
      /\ r.pc \notin Greedy2 /\ r.pc \notin OnLayer \cup {"publish"}
  BY DEF Linking, Raising, Working, Greedy2, OnLayer
<1>7. SplitOK(c, P, nx, lc2)
  <2>1. /\ lc[t].chunk \in Seq(1 .. Len(c.batch)) /\ IsInjective(lc[t].chunk)
    BY <1>1 DEF SplitOK
  <2>2. Mine(c, r) = Mine(c, lc[t])
    BY <1>6 DEF Todo, Mine
  <2> QED
    BY <1>1, <1>2, <1>6, <2>1, <2>2, SplitKept
<1>8. EntryOK(c, k, P, gl, lc2) /\ \A u \in Threads : gl = u <=> lc2[u].pc \in {"entry", "untop"}
  OBVIOUS
<1>9. /\ StillLinked(k, h)
      /\ ListsOK(k, ck, lc2) /\ KeptOK(c, k, P) /\ BottomOK(k, P, lc2)
      /\ \A u \in Threads, a \in Nodes(k) : ck[a] = u <=> Holds(lc2[u], a)
  BY <1>5, <1>6, OutsideLink
<1> HIDE DEF lc2
<1>10. h.top \in Int /\ h.lvl \in [Nodes(h) -> Nat]
  BY <1>1, <1>2 DEF EntryOK, IsGraph
<1>11. ThreadOK(c, k, P, r)
  BY <1>5, <1>6 DEF ThreadOK, Greedy2, OnLayer, Linking
<1>12. ASSUME NEW u \in Threads PROVE ThreadOK(c, k, P, lc2[u])
  <2>1. ThreadOK(c, h, P, lc[u])
    BY <1>1
  <2>2. lc[u].pc \in Working => lc[u].v \notin P
    BY <2>1 DEF ThreadOK
  <2>3. ThreadOK(c, k, P, lc[u])
    BY <1>2, <1>5, <1>9, <1>10, <2>1, <2>2, ThreadKept
  <2> QED
    BY <1>3, <1>11, <2>3
<1>13. ShapeOK(c, k, P, ck, gl, nx, lc2)
  BY <1>1, <1>4, <1>5 DEF ShapeOK
<1>14. LocksOK(k, ck, gl, lc2)
  BY <1>8, <1>9 DEF LocksOK
<1> QED
  BY <1>7, <1>8, <1>9, <1>12, <1>13, <1>14 DEF Good, lc2

LEMMA RaisingFacts ==
    ASSUME Inv, NEW t \in Threads, loc[t].pc \in Raising
    PROVE  LET r == loc[t]
               q == [Rest EXCEPT !.chunk = r.chunk]
           IN  /\ Good(call, g, pub, clk, glk, next, loc) /\ r \in Locals
               /\ r.v \in pub /\ r.v \in Nodes(g) /\ StandsOn(r) \subseteq pub
               /\ ToSet(r.snap) \subseteq Nodes(g)
               /\ loc \in [Threads -> Locals] /\ IsGraph(g) /\ pub \subseteq Nodes(g)
               /\ g.lvl \in [Nodes(g) -> 0 .. MaxLevel] /\ g.top \in 0 .. MaxLevel
               /\ MaxLevel \in Nat /\ NoThread \notin Threads
               /\ EntryOK(call, g, pub, glk, loc) /\ LocksOK(g, clk, glk, loc)
               /\ glk \in Threads \cup {NoThread} /\ Old(call) \subseteq pub
               /\ q \in Locals /\ q.pc = "claim" /\ q.chunk = r.chunk /\ StandsOn(q) = {}
               /\ ToSet(q.snap) = {}
<1> DEFINE r == loc[t]
           q == [Rest EXCEPT !.chunk = r.chunk]
<1>1. /\ Good(call, g, pub, clk, glk, next, loc) /\ ShapeOK(call, g, pub, clk, glk, next, loc)
      /\ ThreadOK(call, g, pub, r) /\ EntryOK(call, g, pub, glk, loc) /\ LocksOK(g, clk, glk, loc)
  BY DEF Inv, Good
<1>2. r \in Locals /\ loc \in [Threads -> Locals]
  BY <1>1 DEF ShapeOK
<1>3. r.pc \in Raising
  OBVIOUS
<1> HIDE DEF r
<1>4. /\ Rest \in Locals /\ Rest.pc = "claim" /\ Rest.ep = NoNode /\ Rest.beam = NoBeam
      /\ Rest.sel = <<>> /\ Rest.snap = <<>>
  BY DEF Rest, NoBeam, Locals, Pcs
<1>5. NoBeam.cand = {} /\ NoBeam.res = {}
  BY DEF NoBeam
<1>6. ToSet(<<>>) = {}
  BY DEF ToSet
<1>7. q \in Locals
  BY <1>2, <1>4 DEF Locals
<1>8. /\ q.pc = "claim" /\ q.chunk = r.chunk /\ q.ep = NoNode /\ q.beam = NoBeam /\ q.sel = <<>>
      /\ q.snap = <<>>
  BY <1>4 DEF Locals
<1> HIDE DEF q
<1>9. StandsOn(q) = {} /\ ToSet(q.snap) = {}
  BY <1>5, <1>6, <1>8 DEF StandsOn
<1>10. r.v \in pub /\ StandsOn(r) \subseteq pub /\ ToSet(r.snap) \subseteq Nodes(g)
  BY <1>1, <1>3 DEF ThreadOK
<1>11. /\ IsGraph(g) /\ pub \subseteq Nodes(g) /\ g.lvl \in [Nodes(g) -> 0 .. MaxLevel]
       /\ g.top \in 0 .. MaxLevel /\ glk \in Threads \cup {NoThread} /\ Old(call) \subseteq pub
  BY <1>1 DEF ShapeOK, EntryOK
<1>12. MaxLevel \in Nat /\ NoThread \notin Threads
  BY ConcurrentAssumption
<1> QED
  BY <1>1, <1>2, <1>7, <1>8, <1>9, <1>10, <1>11, <1>12 DEF r, q

\* A graph with another entry point or top.
WithEntry(h, e) == [h EXCEPT !.entry = e]
WithTop(h, n) == [h EXCEPT !.top = n]

LEMMA RaisedGraph ==
    ASSUME NEW h, IsGraph(h), NEW e, NEW n
    PROVE  /\ IsGraph(WithEntry(h, e)) /\ WithEntry(h, e).lvl = h.lvl
           /\ WithEntry(h, e).link = h.link /\ WithEntry(h, e).entry = e
           /\ WithEntry(h, e).top = h.top
           /\ IsGraph(WithTop(h, n)) /\ WithTop(h, n).lvl = h.lvl
           /\ WithTop(h, n).link = h.link /\ WithTop(h, n).entry = h.entry
           /\ WithTop(h, n).top = n
<1> DEFINE a == WithEntry(h, e)
           b == WithTop(h, n)
<1>1. h = [lvl |-> h.lvl, link |-> h.link, entry |-> h.entry, top |-> h.top]
  BY DEF IsGraph
<1>2. a = [lvl |-> h.lvl, link |-> h.link, entry |-> e, top |-> h.top]
  BY <1>1 DEF WithEntry
<1>3. b = [lvl |-> h.lvl, link |-> h.link, entry |-> h.entry, top |-> n]
  BY <1>1 DEF WithTop
<1> HIDE DEF a, b
<1>4. /\ a.lvl = h.lvl /\ a.link = h.link /\ a.entry = e /\ a.top = h.top
      /\ b.lvl = h.lvl /\ b.link = h.link /\ b.entry = h.entry /\ b.top = n
  BY <1>2, <1>3
<1>5. Nodes(a) = Nodes(h) /\ Nodes(b) = Nodes(h)
  BY <1>4 DEF Nodes
<1>6. IsGraph(a) /\ IsGraph(b)
  BY <1>2, <1>3, <1>4, <1>5 DEF IsGraph
<1> QED
  BY <1>4, <1>6 DEF a, b

LEMMA TopUnlockInv ==
    ASSUME Inv, NEW t \in Threads, TopUnlock(t), UNCHANGED call
    PROVE  Inv'
<1> DEFINE r == loc[t]
           q == [Rest EXCEPT !.chunk = r.chunk]
           lc2 == [loc EXCEPT ![t] = q]
<1>1. /\ r.pc = "untop" /\ glk' = NoThread /\ loc' = lc2
      /\ UNCHANGED <<call, g, pub, clk, next>>
  BY DEF TopUnlock, At, Become
<1>2. r.pc \in Raising
  BY <1>1 DEF Raising
<1>3. /\ Good(call, g, pub, clk, glk, next, loc) /\ loc \in [Threads -> Locals]
      /\ IsGraph(g) /\ g.top \in 0 .. MaxLevel /\ MaxLevel \in Nat /\ NoThread \notin Threads
      /\ EntryOK(call, g, pub, glk, loc) /\ LocksOK(g, clk, glk, loc)
      /\ q \in Locals /\ q.pc = "claim" /\ q.chunk = r.chunk /\ StandsOn(q) = {}
      /\ ToSet(q.snap) = {}
  BY <1>2, RaisingFacts
<1> HIDE DEF q
<1>4. \A u \in Threads : lc2[u] = IF u = t THEN q ELSE loc[u]
  BY <1>3
<1> HIDE DEF lc2
<1>5. glk = t /\ \A u \in Threads : u # t => loc[u].pc \notin {"entry", "untop"}
  BY <1>1, <1>3 DEF LocksOK
<1>6. g.lvl[g.entry] = g.top
  BY <1>1, <1>3 DEF EntryOK
<1>7. EntryOK(call, g, pub, NoThread, lc2)
  <2>1. ASSUME NEW w \in pub, g.lvl[w] > g.top
        PROVE  \E u \in Threads : lc2[u].pc = "top" /\ lc2[u].v = w
    <3>1. PICK u \in Threads : loc[u].pc = "top" /\ loc[u].v = w
      BY <1>3, <2>1 DEF EntryOK
    <3> QED
      BY <1>1, <1>4, <3>1
  <2>2. \A u \in Threads : lc2[u].pc \notin {"entry", "untop"}
    BY <1>3, <1>4, <1>5
  <2> QED
    BY <1>3, <1>6, <2>1, <2>2 DEF EntryOK
<1>8. \A u \in Threads : NoThread = u <=> lc2[u].pc \in {"entry", "untop"}
  BY <1>3, <1>4, <1>5
<1>9. Good(call, g, pub, clk, NoThread, next, [loc EXCEPT ![t] = q])
  <2>1. /\ q.pc \in Raising \cup {"claim"} /\ (q.pc \in Raising => q.v \in pub)
        /\ StandsOn(q) \subseteq pub /\ ToSet(q.snap) \subseteq Nodes(g)
        /\ g.top \in Int /\ g.top <= g.top
    BY <1>3 DEF Raising
  <2> QED
    BY <1>2, <1>3, <1>7, <1>8, <2>1, RaiseStep DEF lc2
<1> QED
  BY <1>1, <1>9 DEF Inv, lc2

LEMMA SetEntryInv ==
    ASSUME Inv, NEW t \in Threads, SetEntry(t), UNCHANGED call
    PROVE  Inv'
<1> DEFINE r == loc[t]
           q == [r EXCEPT !.pc = "untop"]
           lc2 == [loc EXCEPT ![t] = q]
           k == WithEntry(g, r.v)
<1>1. /\ r.pc = "entry" /\ g' = k /\ loc' = lc2
      /\ UNCHANGED <<call, pub, clk, glk, next>>
  BY DEF SetEntry, At, Become, WithEntry
<1>2. r.pc \in Raising
  BY <1>1 DEF Raising
<1>3. /\ Good(call, g, pub, clk, glk, next, loc) /\ loc \in [Threads -> Locals] /\ r \in Locals
      /\ IsGraph(g) /\ g.top \in 0 .. MaxLevel /\ MaxLevel \in Nat /\ NoThread \notin Threads
      /\ EntryOK(call, g, pub, glk, loc) /\ LocksOK(g, clk, glk, loc)
      /\ r.v \in pub /\ StandsOn(r) \subseteq pub /\ ToSet(r.snap) \subseteq Nodes(g)
      /\ glk \in Threads \cup {NoThread}
  BY <1>2, RaisingFacts
<1>4. /\ IsGraph(k) /\ k.lvl = g.lvl /\ k.link = g.link /\ k.entry = r.v /\ k.top = g.top
  BY <1>3, RaisedGraph
<1> HIDE DEF r, k
<1>5. q \in Locals
  BY <1>3 DEF Locals, Pcs
<1>6. /\ q.pc = "untop" /\ q.chunk = r.chunk /\ q.v = r.v /\ q.snap = r.snap /\ q.beam = r.beam
      /\ q.sel = r.sel /\ q.ep = r.ep
  BY <1>3 DEF Locals
<1> HIDE DEF q
<1>7. \A u \in Threads : lc2[u] = IF u = t THEN q ELSE loc[u]
  BY <1>3
<1> HIDE DEF lc2
<1>8. glk = t /\ \A u \in Threads : u # t => loc[u].pc \notin {"entry", "untop"}
  BY <1>1, <1>3 DEF LocksOK, r
<1>9. g.top = g.lvl[r.v]
  BY <1>1, <1>3 DEF EntryOK, r
<1>10. EntryOK(call, k, pub, glk, lc2)
  <2>1. ASSUME NEW w \in pub, g.lvl[w] > g.top
        PROVE  \E u \in Threads : lc2[u].pc = "top" /\ lc2[u].v = w
    <3>1. PICK u \in Threads : loc[u].pc = "top" /\ loc[u].v = w
      BY <1>3, <2>1 DEF EntryOK
    <3> QED
      BY <1>1, <1>7, <3>1 DEF r
  <2>2. \A u \in Threads : lc2[u].pc # "entry"
    BY <1>6, <1>7, <1>8
  <2> QED
    BY <1>3, <1>4, <1>8, <1>9, <2>1, <2>2 DEF EntryOK
<1>11. \A u \in Threads : glk = u <=> lc2[u].pc \in {"entry", "untop"}
  BY <1>6, <1>7, <1>8
<1>12. Good(call, k, pub, clk, glk, next, [loc EXCEPT ![t] = q])
  <2>1. /\ q.pc \in Raising \cup {"claim"} /\ (q.pc \in Raising => q.v \in pub)
        /\ StandsOn(q) \subseteq pub /\ ToSet(q.snap) \subseteq Nodes(g)
        /\ k.top \in Int /\ g.top <= k.top
    BY <1>3, <1>4, <1>6 DEF Raising, StandsOn
  <2> QED
    BY <1>2, <1>3, <1>4, <1>5, <1>6, <1>10, <1>11, <2>1, RaiseStep DEF lc2, r
<1> QED
  BY <1>1, <1>12 DEF Inv, lc2

LEMMA TopLockInv ==
    ASSUME Inv, NEW t \in Threads, TopLock(t), UNCHANGED call
    PROVE  Inv'
<1> DEFINE r == loc[t]
           tall == g.lvl[r.v] > g.top
           n == IF tall THEN g.lvl[r.v] ELSE g.top
           p == IF tall THEN "entry" ELSE "untop"
           q == [r EXCEPT !.pc = p]
           lc2 == [loc EXCEPT ![t] = q]
           k == WithTop(g, n)
<1>1. r.pc = "top" /\ glk = NoThread /\ glk' = t /\ UNCHANGED <<call, pub, clk, next>>
  BY DEF TopLock, At
<1>2. r.pc \in Raising
  BY <1>1 DEF Raising
<1>3. /\ Good(call, g, pub, clk, glk, next, loc) /\ loc \in [Threads -> Locals] /\ r \in Locals
      /\ IsGraph(g) /\ g.top \in 0 .. MaxLevel /\ MaxLevel \in Nat /\ NoThread \notin Threads
      /\ EntryOK(call, g, pub, glk, loc) /\ LocksOK(g, clk, glk, loc)
      /\ r.v \in pub /\ StandsOn(r) \subseteq pub /\ ToSet(r.snap) \subseteq Nodes(g)
      /\ glk \in Threads \cup {NoThread} /\ g.lvl \in [Nodes(g) -> 0 .. MaxLevel]
      /\ r.v \in Nodes(g) /\ Old(call) \subseteq pub /\ pub \subseteq Nodes(g)
  BY <1>2, RaisingFacts
<1>4. /\ IsGraph(k) /\ k.lvl = g.lvl /\ k.link = g.link /\ k.entry = g.entry /\ k.top = n
  BY <1>3, RaisedGraph
<1>5. g' = k /\ loc' = lc2
  <2>1. CASE tall
    BY <2>1 DEF TopLock, Taller, Level, Become, WithTop
  <2>2. CASE ~ tall
    <3>1. g = [lvl |-> g.lvl, link |-> g.link, entry |-> g.entry, top |-> g.top]
      BY <1>3 DEF IsGraph
    <3>2. [g EXCEPT !.top = g.top] = g
      BY <3>1
    <3> QED
      BY <2>2, <3>2 DEF TopLock, Taller, Level, Become, WithTop
  <2> QED
    BY <2>1, <2>2
<1>6. /\ g.lvl[r.v] \in 0 .. MaxLevel /\ n \in 0 .. MaxLevel /\ g.top <= n /\ g.lvl[r.v] <= n
      /\ p = "entry" => n = g.lvl[r.v]
      /\ p = "untop" => n = g.top
      /\ p \in {"entry", "untop"}
  BY <1>3
<1> HIDE DEF r, k, n, p
<1>7. q \in Locals
  BY <1>3, <1>6 DEF Locals, Pcs
<1>8. /\ q.pc = p /\ q.chunk = r.chunk /\ q.v = r.v /\ q.snap = r.snap /\ q.beam = r.beam
      /\ q.sel = r.sel /\ q.ep = r.ep
  BY <1>3 DEF Locals
<1> HIDE DEF q
<1>9. \A u \in Threads : lc2[u] = IF u = t THEN q ELSE loc[u]
  BY <1>3
<1> HIDE DEF lc2
<1>10. \A u \in Threads : loc[u].pc \notin {"entry", "untop"}
  BY <1>1, <1>3 DEF LocksOK
<1>11. g.lvl[g.entry] = g.top
  BY <1>1, <1>3 DEF EntryOK
<1>12. EntryOK(call, k, pub, t, lc2)
  <2>1. ASSUME NEW w \in pub, g.lvl[w] > n
        PROVE  \E u \in Threads : lc2[u].pc = "top" /\ lc2[u].v = w
    <3>1. g.lvl[w] \in 0 .. MaxLevel
      BY <1>3
    <3>2. g.lvl[w] > g.top /\ w # r.v
      BY <1>3, <1>6, <2>1, <3>1
    <3>3. PICK u \in Threads : loc[u].pc = "top" /\ loc[u].v = w
      BY <1>3, <3>2 DEF EntryOK
    <3>4. u # t
      BY <3>2, <3>3 DEF r
    <3> QED
      BY <1>9, <3>3, <3>4
  <2>2. \A u \in Threads : /\ lc2[u].pc = "entry" => n = g.lvl[lc2[u].v]
                           /\ lc2[u].pc = "untop" => g.lvl[g.entry] = n
    BY <1>6, <1>8, <1>9, <1>10, <1>11
  <2>3. \A u \in Old(call) : g.lvl[u] <= n
    <3>1. \A u \in Old(call) : g.lvl[u] <= g.top /\ g.lvl[u] \in 0 .. MaxLevel
      BY <1>3 DEF EntryOK
    <3> QED
      BY <1>3, <1>6, <3>1
  <2>4. g.entry \in pub /\ t # NoThread
    BY <1>3 DEF EntryOK
  <2> QED
    BY <1>4, <1>6, <2>1, <2>2, <2>3, <2>4 DEF EntryOK
<1>13. \A u \in Threads : t = u <=> lc2[u].pc \in {"entry", "untop"}
  BY <1>6, <1>8, <1>9, <1>10
<1>14. Good(call, k, pub, clk, t, next, [loc EXCEPT ![t] = q])
  <2>1. /\ q.pc \in Raising \cup {"claim"} /\ (q.pc \in Raising => q.v \in pub)
        /\ StandsOn(q) \subseteq pub /\ ToSet(q.snap) \subseteq Nodes(g)
        /\ k.top \in Int /\ g.top <= k.top
    BY <1>3, <1>4, <1>6, <1>8 DEF Raising, StandsOn
  <2> QED
    BY <1>2, <1>3, <1>4, <1>7, <1>8, <1>12, <1>13, <2>1, RaiseStep DEF lc2, r
<1> QED
  BY <1>1, <1>5, <1>14 DEF Inv, lc2

\* Publishing: the wired lists make the node one of the published ones, and the
\* bottom layer of a small graph hangs together with it.
\* ... and the graph itself unchanged.
LEMMA OutsideLinkKept ==
    ASSUME NEW c, NEW h, NEW P, NEW ck, NEW gk, NEW nx, NEW lc,
           Good(c, h, P, ck, gk, nx, lc), NEW t \in Threads, NEW r,
           lc[t].pc \notin Linking, r.pc \notin Linking
    PROVE  LET lc2 == [lc EXCEPT ![t] = r] IN
           /\ StillLinked(h, h) /\ ListsOK(h, ck, lc2) /\ BottomOK(h, P, lc2)
           /\ \A u \in Threads, a \in Nodes(h) : ck[a] = u <=> Holds(lc2[u], a)
<1> DEFINE k == h
<1>1. Nodes(k) = Nodes(h) /\ k.lvl = h.lvl /\ k.link = h.link
  OBVIOUS
<1>2. /\ StillLinked(k, h)
      /\ ListsOK(k, ck, [lc EXCEPT ![t] = r]) /\ BottomOK(k, P, [lc EXCEPT ![t] = r])
      /\ \A u \in Threads, a \in Nodes(k) : ck[a] = u <=> Holds([lc EXCEPT ![t] = r][u], a)
  <2> HIDE DEF k
  <2> QED
    BY <1>1, OutsideLink
<1> QED
  BY <1>2

LEMMA PublishInv ==
    ASSUME Inv, NEW t \in Threads, Publish(t), UNCHANGED call
    PROVE  Inv'
<1> DEFINE r == loc[t]
           v == r.v
           Q == pub \cup {v}
           q == IF g.lvl[v] > r.max THEN [r EXCEPT !.pc = "top"]
                                    ELSE [Rest EXCEPT !.chunk = r.chunk]
           lc2 == [loc EXCEPT ![t] = q]
           c == call
<1>1. /\ r.pc = "publish" /\ pub' = Q /\ loc' = lc2 /\ UNCHANGED <<call, g, clk, glk, next>>
  BY DEF Publish, At, Become, Level
<1>2. r.pc \in Working /\ r.pc \notin Linking /\ r.pc \in OnLayer \cup {"publish"}
  BY <1>1 DEF Working, Linking
<1>3. /\ Good(c, g, pub, clk, glk, next, loc) /\ r \in Locals /\ loc \in [Threads -> Locals]
      /\ ThreadOK(c, g, pub, r)
      /\ IsGraph(g) /\ pub \subseteq Nodes(g) /\ Nodes(g) \subseteq Points
      /\ v \in Nodes(g) \ pub /\ r.max \in Nat /\ g.lvl[v] \in Nat
      /\ StandsOn(r) \subseteq pub /\ ToSet(r.snap) \subseteq Nodes(g)
  BY <1>2, WorkFacts
<1>4. /\ ShapeOK(c, g, pub, clk, glk, next, loc) /\ \A u \in Threads : ThreadOK(c, g, pub, loc[u])
      /\ SplitOK(c, pub, next, loc) /\ LocksOK(g, clk, glk, loc) /\ EntryOK(c, g, pub, glk, loc)
      /\ KeptOK(c, g, pub) /\ BottomOK(g, pub, loc)
  BY <1>3 DEF Good
<1>5. /\ r.max <= g.top /\ \A u \in Old(c) : g.lvl[u] <= r.max
      /\ r.l = -1
      /\ \A m \in 0 .. g.lvl[v] : r.l < m /\ m <= r.max => Links(g, v, m) # <<>>
  BY <1>1, <1>2, <1>3 DEF ThreadOK
<1>6. \A m \in 0 .. g.lvl[v] : m <= r.max => Links(g, v, m) # <<>>
  BY <1>5
<1> HIDE DEF r
<1>7. /\ Rest \in Locals /\ Rest.pc = "claim" /\ Rest.ep = NoNode /\ Rest.beam = NoBeam
      /\ Rest.sel = <<>> /\ Rest.snap = <<>> /\ NoBeam.cand = {} /\ NoBeam.res = {}
      /\ ToSet(<<>>) = {}
  BY DEF Rest, NoBeam, Locals, Pcs, ToSet
<1>8. /\ q \in Locals /\ q.chunk = r.chunk /\ q.pc \in {"top", "claim"}
      /\ StandsOn(q) \subseteq pub /\ ToSet(q.snap) \subseteq Nodes(g)
      /\ q.pc = "top" => q.v = v
      /\ g.lvl[v] > r.max => q.pc = "top"
  <2>1. CASE g.lvl[v] > r.max
    <3>1. q = [r EXCEPT !.pc = "top"]
      BY <2>1
    <3> HIDE DEF q
    <3>2. q \in Locals
      BY <1>3, <3>1 DEF Locals, Pcs
    <3>3. /\ q.pc = "top" /\ q.chunk = r.chunk /\ q.v = r.v /\ q.ep = r.ep /\ q.beam = r.beam
          /\ q.sel = r.sel /\ q.snap = r.snap
      BY <1>3, <3>1 DEF Locals
    <3> QED
      BY <1>3, <3>2, <3>3 DEF StandsOn
  <2>2. CASE ~ (g.lvl[v] > r.max)
    <3>1. q = [Rest EXCEPT !.chunk = r.chunk]
      BY <2>2
    <3> HIDE DEF q
    <3>2. q \in Locals
      BY <1>3, <1>7, <3>1 DEF Locals
    <3>3. /\ q.pc = "claim" /\ q.chunk = r.chunk /\ q.ep = NoNode /\ q.beam = NoBeam
          /\ q.sel = <<>> /\ q.snap = <<>>
      BY <1>3, <1>7, <3>1 DEF Locals
    <3>4. StandsOn(q) = {} /\ ToSet(q.snap) = {}
      BY <1>7, <3>3 DEF StandsOn
    <3> QED
      BY <2>2, <3>2, <3>3, <3>4
  <2> QED
    BY <2>1, <2>2
<1> HIDE DEF q
<1>9. \A u \in Threads : lc2[u] = IF u = t THEN q ELSE loc[u]
  BY <1>3
<1>10. lc2 \in [Threads -> Locals]
  BY <1>3, <1>8
<1>11. q.pc \notin Working /\ q.pc \notin Linking /\ q.pc \notin Greedy2 /\ q.pc \notin OnLayer \cup {"publish"}
  BY <1>8 DEF Working, Linking, Greedy2, OnLayer
<1>12. /\ StillLinked(g, g) /\ ListsOK(g, clk, lc2) /\ BottomOK(g, pub, lc2)
       /\ \A u \in Threads, a \in Nodes(g) : clk[a] = u <=> Holds(lc2[u], a)
  <2>1. /\ Good(call, g, pub, clk, glk, next, loc)
        /\ loc[t].pc \notin Linking /\ q.pc \notin Linking
    BY <1>2, <1>3, <1>11 DEF r
  <2> QED
    BY <2>1, OutsideLinkKept
<1> HIDE DEF lc2
<1>13. \A u \in Threads : u # t => Mine(c, loc[u]) \cap Mine(c, r) = {}
  BY <1>4 DEF SplitOK, r
<1>14. v \in Mine(c, r) /\ Mine(c, r) = Todo(c, r) \cup {v} /\ Mine(c, q) = Todo(c, r)
  BY <1>2, <1>8, <1>11 DEF Mine, Todo
<1>15. v \in New(c) /\ v \notin Todo(c, r)
  BY <1>2, <1>4 DEF SplitOK, r
<1>16. ASSUME NEW u \in Threads, u # t PROVE v \notin Mine(c, loc[u])
  BY <1>13, <1>14, <1>16
<1>17. Q \subseteq Nodes(g) /\ pub \subseteq Q /\ Old(c) \subseteq Q
  BY <1>3, <1>4 DEF ShapeOK
<1>18. ShapeOK(c, g, Q, clk, glk, next, lc2)
  BY <1>4, <1>10, <1>17 DEF ShapeOK
<1>19. ASSUME NEW u \in Threads PROVE ThreadOK(c, g, Q, lc2[u])
  <2>1. CASE u = t
    <3>1. q.pc \in Raising => q.v \in Q
      BY <1>8 DEF Raising
    <3>2. q.pc \notin {"gscan", "scan"} /\ q.pc \notin {"linkend", "backend"} /\ q.pc # "publish"
          /\ q.pc \notin {"linkend", "back", "backend"} /\ q.pc # "link"
      BY <1>8
    <3>3. ThreadOK(c, g, Q, q)
      BY <1>8, <1>11, <3>1, <3>2 DEF ThreadOK
    <3> QED
      BY <1>9, <2>1, <3>3
  <2>2. CASE u # t
    <3>1. ThreadOK(c, g, pub, loc[u])
      BY <1>4
    <3>2. loc[u].pc \in Working => loc[u].v \notin Q
      <4>1. loc[u].pc \in Working => loc[u].v \notin pub /\ loc[u].v \in Mine(c, loc[u])
        BY <3>1 DEF ThreadOK, Mine
      <4> QED
        BY <1>16, <2>2, <4>1
    <3>3. g.top \in Int /\ g.top <= g.top /\ g.lvl \in [Nodes(g) -> Nat]
      BY <1>3, <1>4 DEF EntryOK, IsGraph
    <3>4. ThreadOK(c, g, Q, loc[u])
      BY <1>3, <1>12, <1>17, <3>1, <3>2, <3>3, ThreadKept
    <3> QED
      BY <1>9, <2>2, <3>4
  <2> QED
    BY <2>1, <2>2
<1>20. SplitOK(c, Q, next, lc2)
  <2>1. ASSUME NEW u \in Threads
        PROVE  /\ lc2[u].chunk \in Seq(1 .. Len(c.batch)) /\ IsInjective(lc2[u].chunk)
               /\ \A i \in ToSet(lc2[u].chunk) : i < next
               /\ Mine(c, lc2[u]) \cap Q = {}
               /\ lc2[u].pc \in Working => lc2[u].v \in New(c) \ Todo(c, lc2[u])
    <3>1. /\ loc[u].chunk \in Seq(1 .. Len(c.batch)) /\ IsInjective(loc[u].chunk)
          /\ \A i \in ToSet(loc[u].chunk) : i < next
          /\ Mine(c, loc[u]) \cap pub = {}
          /\ loc[u].pc \in Working => loc[u].v \in New(c) \ Todo(c, loc[u])
      BY <1>4 DEF SplitOK
    <3>2. CASE u = t
      <4>1. loc[u] = r /\ lc2[u] = q
        BY <1>9, <3>2 DEF r
      <4>2. Mine(c, q) \cap Q = {}
        BY <1>14, <1>15, <3>1, <4>1
      <4> QED
        BY <1>8, <1>11, <3>1, <4>1, <4>2
    <3>3. CASE u # t
      <4>1. lc2[u] = loc[u] /\ v \notin Mine(c, loc[u])
        BY <1>9, <1>16, <3>3
      <4> QED
        BY <3>1, <4>1
    <3> QED
      BY <3>2, <3>3
  <2>2. \A u \in Threads : Mine(c, lc2[u]) \subseteq Mine(c, loc[u])
    BY <1>9, <1>14 DEF r
  <2>3. \A u, w \in Threads : u # w => Mine(c, lc2[u]) \cap Mine(c, lc2[w]) = {}
    <3>1. \A u, w \in Threads : u # w => Mine(c, loc[u]) \cap Mine(c, loc[w]) = {}
      BY <1>4 DEF SplitOK
    <3> QED
      BY <2>2, <3>1
  <2>4. ASSUME NEW i \in 1 .. Len(c.batch)
        PROVE  IF i >= next
               THEN c.batch[i] \notin Q /\ \A u \in Threads : c.batch[i] \notin Mine(c, lc2[u])
               ELSE c.batch[i] \in Q \/ \E u \in Threads : c.batch[i] \in Mine(c, lc2[u])
    <3>1. IF i >= next
          THEN c.batch[i] \notin pub /\ \A u \in Threads : c.batch[i] \notin Mine(c, loc[u])
          ELSE c.batch[i] \in pub \/ \E u \in Threads : c.batch[i] \in Mine(c, loc[u])
      BY <1>4 DEF SplitOK
    <3>2. CASE i >= next
      <4>1. c.batch[i] # v
        BY <1>14, <3>1, <3>2 DEF r
      <4> QED
        BY <2>2, <3>1, <3>2, <4>1
    <3>3. CASE ~ (i >= next) /\ c.batch[i] \in pub
      BY <3>3
    <3>4. CASE ~ (i >= next) /\ c.batch[i] \notin pub
      <4>1. PICK u \in Threads : c.batch[i] \in Mine(c, loc[u])
        BY <3>1, <3>4
      <4>2. CASE u = t
        <5>1. c.batch[i] = v \/ c.batch[i] \in Mine(c, lc2[t])
          BY <1>9, <1>14, <4>1, <4>2 DEF r
        <5> QED
          BY <3>4, <5>1
      <4>3. CASE u # t
        BY <1>9, <3>4, <4>1, <4>3
      <4> QED
        BY <4>2, <4>3
    <3> QED
      BY <3>2, <3>3, <3>4
  <2> QED
    BY <2>1, <2>3, <2>4 DEF SplitOK
<1>21. LocksOK(g, clk, glk, lc2)
  <2>1. \A u \in Threads : lc2[u].pc \in {"entry", "untop"} <=> loc[u].pc \in {"entry", "untop"}
    BY <1>1, <1>8, <1>9 DEF r
  <2> QED
    BY <1>4, <1>12, <2>1 DEF LocksOK
<1>22. EntryOK(c, g, Q, glk, lc2)
  <2>1. \A u \in Threads : /\ lc2[u].pc = "entry" => g.top = g.lvl[lc2[u].v]
                           /\ lc2[u].pc = "untop" => g.lvl[g.entry] = g.top
    BY <1>4, <1>8, <1>9 DEF EntryOK
  <2>2. ASSUME NEW w \in Q, g.lvl[w] > g.top
        PROVE  \E u \in Threads : lc2[u].pc = "top" /\ lc2[u].v = w
    <3>1. CASE w = v
      <4>1. g.top \in Int
        BY <1>4 DEF EntryOK
      <4>2. g.lvl[v] > r.max
        BY <1>3, <1>5, <2>2, <3>1, <4>1
      <4> QED
        BY <1>8, <1>9, <3>1, <4>2
    <3>2. CASE w # v
      <4>1. PICK u \in Threads : loc[u].pc = "top" /\ loc[u].v = w
        BY <1>4, <2>2, <3>2 DEF EntryOK
      <4>2. u # t
        BY <1>1, <4>1 DEF r
      <4> QED
        BY <1>9, <4>1, <4>2
    <3> QED
      BY <3>1, <3>2
  <2> QED
    BY <1>4, <1>17, <2>1, <2>2 DEF EntryOK
<1>23. KeptOK(c, g, Q)
  <2>1. ASSUME NEW m \in 0 .. g.lvl[v], NEW u \in Old(c), g.lvl[u] >= m
        PROVE  Links(g, v, m) # <<>>
    <3>1. g.lvl[u] <= r.max /\ g.lvl[u] \in Nat
      BY <1>3, <1>5, <1>17 DEF IsGraph
    <3>2. m <= r.max
      BY <1>3, <2>1, <3>1
    <3> QED
      BY <1>6, <3>2
  <2> QED
    BY <1>4, <2>1 DEF KeptOK
<1>24. BottomOK(g, Q, lc2)
  <2>1. SUFFICES ASSUME Small(g), NEW V \in SUBSET Q, V # {},
                        \A u \in V : Beside(g, u) \cap Q \subseteq V
                 PROVE  V = Q
    <3>1. Small(g) => \A u \in Nodes(g) \ Q : Beside(g, u) \subseteq Q
      BY <1>12 DEF BottomOK
    <3> QED
      BY <1>12, <3>1 DEF BottomOK
  <2>2. /\ \A u, w \in Nodes(g) : w \in Beside(g, u) =>
              u \in Beside(g, w) \/ \E s \in Threads : Pending(loc[s], u, w)
        /\ Beside(g, v) \subseteq pub
        /\ \A W \in SUBSET pub :
              W # {} /\ (\A u \in W : Beside(g, u) \cap pub \subseteq W) => W = pub
    BY <1>3, <1>4, <2>1 DEF BottomOK
  <2>3. PICK w : w \in Beside(g, v)
    <3>1. 0 \in 0 .. g.lvl[v] /\ 0 <= r.max
      BY <1>3
    <3>2. Links(g, v, 0) # <<>> /\ Links(g, v, 0) \in Seq(Nodes(g))
      BY <1>3, <1>6, <3>1, LinksType
    <3>3. 1 \in DOMAIN Links(g, v, 0)
      BY <3>2
    <3> QED
      BY <3>3 DEF Beside, ToSet
  <2>4. w \in pub /\ w \in Nodes(g)
    BY <1>3, <2>2, <2>3
  <2>5. v \in Beside(g, w)
    <3>1. \A s \in Threads : ~ Pending(loc[s], v, w)
      <4>1. ASSUME NEW s \in Threads, Pending(loc[s], v, w) PROVE FALSE
        <5>1. loc[s].v = v /\ loc[s].pc \in Linking
          BY <4>1 DEF Pending, Linking
        <5>2. s # t
          BY <1>2, <5>1 DEF r
        <5>3. v \in Mine(c, loc[s])
          BY <5>1 DEF Mine, Working, OnLayer
        <5> QED
          BY <1>16, <5>2, <5>3
      <4> QED
        BY <4>1
    <3> QED
      BY <1>3, <2>2, <2>3, <2>4, <3>1
  <2>6. V \cap pub # {}
    <3>1. CASE v \in V
      <4>1. w \in V
        BY <2>1, <2>3, <2>4, <3>1
      <4> QED
        BY <2>4, <4>1
    <3>2. CASE v \notin V
      BY <2>1, <3>2
    <3> QED
      BY <3>1, <3>2
  <2>7. V \cap pub = pub
    <3>1. \A u \in V \cap pub : Beside(g, u) \cap pub \subseteq V \cap pub
      BY <2>1
    <3> QED
      BY <2>2, <2>6, <3>1
  <2>8. v \in V
    BY <2>1, <2>4, <2>5, <2>7
  <2> QED
    BY <2>1, <2>7, <2>8
<1> QED
  BY <1>1, <1>12, <1>18, <1>19, <1>20, <1>21, <1>22, <1>23, <1>24 DEF Inv, Good

-----------------------------------------------------------------------------
(***************************************************************************)
(* Every step keeps the invariant.                                         *)
(***************************************************************************)
LEMMA StutterInv == Inv /\ UNCHANGED vars => Inv'
  BY DEF Inv, vars

LEMMA StepInv ==
    ASSUME Inv, NEW t \in Threads, Step(t)
    PROVE  Inv'
<1>1. UNCHANGED call
  BY DEF Step
<1>2. CASE Claim(t) \/ ReadEntry(t)
  BY <1>1, <1>2, ClaimInv, ReadEntryInv
<1>3. CASE GreedySnap(t) \/ GreedyScan(t) \/ GreedyNext(t)
  BY <1>1, <1>3, GreedySnapInv, GreedyScanInv, GreedyNextInv
<1>4. CASE BeamSnap(t) \/ BeamScan(t) \/ BeamNext(t) \/ BeamEnd(t)
  BY <1>1, <1>4, BeamSnapInv, BeamScanInv, BeamNextInv, BeamEndInv
<1>5. CASE LinkAppend(t) \/ LinkRelease(t) \/ LinkNext(t)
  BY <1>1, <1>5, LinkAppendInv, LinkReleaseInv, LinkNextInv
<1>6. CASE BackAppend(t) \/ BackRelease(t) \/ BackNext(t)
  BY <1>1, <1>6, BackAppendInv, BackReleaseInv, BackNextInv
<1>7. CASE Publish(t) \/ TopLock(t) \/ SetEntry(t) \/ TopUnlock(t)
  BY <1>1, <1>7, PublishInv, TopLockInv, SetEntryInv, TopUnlockInv
<1> QED
  BY <1>2, <1>3, <1>4, <1>5, <1>6, <1>7 DEF Step

LEMMA InvNext == Inv /\ [Next]_vars => Inv'
<1> SUFFICES ASSUME Inv, [Next]_vars PROVE Inv'
  OBVIOUS
<1>1. CASE \E t \in Threads : Step(t)
  BY <1>1, StepInv
<1>2. CASE Join
  BY <1>2, StutterInv DEF Join
<1>3. CASE UNCHANGED vars
  BY <1>3, StutterInv
<1> QED
  BY <1>1, <1>2, <1>3 DEF Next

\* The inductive invariant of the parallel construction, at every interleaving.
THEOREM Invariance == Spec => []Inv
<1> QED
  BY InvInit, InvNext, PTL DEF Spec

-----------------------------------------------------------------------------
(***************************************************************************)
(* What the invariant says of the code.                                    *)
(***************************************************************************)
LEMMA InvType == Inv => TypeOK
<1> SUFFICES ASSUME Inv PROVE TypeOK
  OBVIOUS
<1>1. /\ ShapeOK(call, g, pub, clk, glk, next, loc) /\ LocksOK(g, clk, glk, loc)
      /\ \A t \in Threads : ThreadOK(call, g, pub, loc[t])
      /\ EntryOK(call, g, pub, glk, loc)
  BY DEF Inv, Good
<1>2. /\ g.lvl \in [Nodes(g) -> 0 .. MaxLevel] /\ pub \subseteq Nodes(g)
      /\ clk \in [Nodes(g) -> Threads \cup {NoThread}] /\ glk \in Threads \cup {NoThread}
      /\ next \in 1 .. Len(Batch) + Chunk /\ loc \in [Threads -> Locals]
  BY <1>1 DEF ShapeOK, Batch
<1>3. \A v \in Nodes(g) : g.link[v] \in [1 .. g.lvl[v] + 1 -> Seq(Nodes(g))]
  BY <1>1 DEF ShapeOK, IsGraph
<1>4. g.entry \in Nodes(g) /\ g.top \in 0 .. MaxLevel
  BY <1>1, <1>2 DEF EntryOK
<1>5. ASSUME NEW t \in Threads
      PROVE  loc[t].pc \in Pcs /\ ToSet(loc[t].snap) \cup ToSet(loc[t].sel) \subseteq Nodes(g)
  <2>1. loc[t] \in Locals
    BY <1>2
  <2> QED
    BY <1>1, <1>2, <2>1 DEF Locals, ThreadOK, StandsOn
<1>6. \A v \in Nodes(g) : clk[v] # NoThread => loc[clk[v]].pc \in {"linkend", "backend"}
  <2> SUFFICES ASSUME NEW v \in Nodes(g), clk[v] # NoThread
               PROVE  loc[clk[v]].pc \in {"linkend", "backend"}
    OBVIOUS
  <2>1. clk[v] \in Threads
    BY <1>2
  <2>2. Holds(loc[clk[v]], v)
    BY <1>1, <2>1 DEF LocksOK
  <2> QED
    BY <2>2 DEF Holds
<1>7. glk # NoThread => loc[glk].pc \in {"entry", "untop"}
  BY <1>1, <1>2 DEF LocksOK
<1> QED
  BY <1>2, <1>3, <1>4, <1>5, <1>6, <1>7 DEF TypeOK

\* The types, and every lock held is held by a thread inside clink or inside the
\* critical section of the entry point.
THEOREM TypeAlways == Spec => []TypeOK
<1> QED
  BY Invariance, InvType, PTL

LEMMA InvOnlyPublished == Inv => OnlyPublished
<1> SUFFICES ASSUME Inv, NEW t \in Threads PROVE Traversed(t) \subseteq pub
  BY DEF OnlyPublished
<1>1. StandsOn(loc[t]) \subseteq pub
  BY DEF Inv, Good, ThreadOK
<1> QED
  BY <1>1 DEF StandsOn, Traversed

\* No thread stands on, searches from, or links to a node that another thread is
\* still wiring.
THEOREM OnlyPublishedAlways == Spec => []OnlyPublished
<1> QED
  BY Invariance, InvOnlyPublished, PTL

LEMMA InvWired == Inv => PublishedIsWired
<1> SUFFICES ASSUME Inv PROVE PublishedIsWired
  OBVIOUS
<1>1. /\ ShapeOK(call, g, pub, clk, glk, next, loc) /\ KeptOK(call, g, pub)
      /\ \A t \in Threads : ThreadOK(call, g, pub, loc[t])
  BY DEF Inv, Good
<1>2. IsGraph(g) /\ pub \subseteq Nodes(g)
  BY <1>1 DEF ShapeOK
<1>3. ASSUME NEW v \in Nodes(g), NEW l \in 0 .. g.lvl[v], Links(g, v, l) # <<>>
      PROVE  Len(Links(g, v, l)) > 0
  <2>1. Links(g, v, l) \in Seq(Nodes(g))
    BY <1>2, LinksType
  <2> QED
    BY <1>3, <2>1
<1>4. ASSUME NEW t \in Threads, At(t, "publish"), NEW l \in 0 .. StartLevel(t)
      PROVE  Len(Links(g, loc[t].v, l)) > 0
  <2>1. loc[t].pc = "publish" /\ loc[t].pc \in Working /\ loc[t].pc \in OnLayer \cup {"publish"}
    BY <1>4 DEF At, Working
  <2>2. /\ loc[t].v \in Nodes(g) /\ loc[t].max \in Nat /\ loc[t].l = -1
        /\ \A m \in 0 .. g.lvl[loc[t].v] :
              loc[t].l < m /\ m <= loc[t].max => Links(g, loc[t].v, m) # <<>>
    BY <1>1, <2>1 DEF ThreadOK
  <2>3. g.lvl[loc[t].v] \in Nat
    BY <1>2, <2>2 DEF IsGraph
  <2>4. l \in 0 .. g.lvl[loc[t].v] /\ l <= loc[t].max /\ loc[t].l < l
    BY <2>2, <2>3 DEF StartLevel, Level
  <2> QED
    BY <1>3, <2>2, <2>4
<1>5. ASSUME NEW v \in pub \cap ToSet(Batch), NEW l \in 0 .. g.lvl[v],
             \E u \in ToSet(call.pre) : g.lvl[u] >= l
      PROVE  Len(Links(g, v, l)) > 0
  <2>1. v \in pub \cap New(call) /\ \E u \in Old(call) : g.lvl[u] >= l
    BY <1>5 DEF New, Old, Batch
  <2>2. Links(g, v, l) # <<>>
    BY <1>1, <2>1 DEF KeptOK
  <2> QED
    BY <1>2, <1>3, <2>2
<1> QED
  BY <1>4, <1>5 DEF PublishedIsWired

\* A node is published with neighbours on every level from the top its thread read
\* down, and keeps neighbours on the levels that were there before the batch.
THEOREM WiredAlways == Spec => []PublishedIsWired
<1> QED
  BY Invariance, InvWired, PTL

LEMMA InvLists == Inv => ListsSound
<1> SUFFICES ASSUME Inv PROVE ListsSound
  OBVIOUS
<1>1. /\ IsGraph(g) /\ ListsOK(g, clk, loc) /\ \A t \in Threads : ThreadOK(call, g, pub, loc[t])
  BY DEF Inv, Good, ShapeOK
<1>2. ASSUME NEW v \in Nodes(g), NEW l \in 0 .. g.lvl[v]
      PROVE  LET L == Links(g, v, l)
             IN  /\ Len(L) <= LinkCap(l) + (IF clk[v] = NoThread THEN 0 ELSE 1)
                 /\ IsInjective(L)
                 /\ v \notin ToSet(L)
                 /\ \A u \in ToSet(L) : g.lvl[u] >= l
  <2> DEFINE L == Links(g, v, l)
             e == Extra(clk, loc, v, l)
  <2>1. /\ Len(L) <= LinkCap(l) + e /\ IsInjective(L)
        /\ v \notin ToSet(L) /\ ToSet(L) \subseteq OnLev(g, l)
    BY <1>1 DEF ListsOK
  <2>2. e \in {0, 1} /\ (clk[v] = NoThread => e = 0)
    BY DEF Extra
  <2>3. Len(L) \in Nat
    BY <1>1, LinksType
  <2>4. LinkCap(l) \in Nat
    BY HnswOpsAssumption DEF LinkCap, M0
  <2> HIDE DEF L, e
  <2>5. Len(L) <= LinkCap(l) + (IF clk[v] = NoThread THEN 0 ELSE 1)
    <3> DEFINE cap == LinkCap(l)
    <3>1. cap \in Nat /\ Len(L) <= cap + e
      BY <2>1, <2>4
    <3> HIDE DEF cap
    <3>2. Len(L) <= cap + (IF clk[v] = NoThread THEN 0 ELSE 1)
      BY <2>2, <2>3, <3>1
    <3> QED
      BY <3>2 DEF cap
  <2>6. \A u \in ToSet(L) : g.lvl[u] >= l
    BY <2>1 DEF OnLev
  <2> QED
    BY <2>1, <2>5, <2>6 DEF L
<1>3. \A t \in Threads : loc[t].pc \in {"gscan", "scan"} => Len(loc[t].snap) <= LinkCap(loc[t].l)
  BY <1>1 DEF ThreadOK
<1>4. ASSUME M0 <= CSnap, NEW v \in Nodes(g), NEW l \in 0 .. g.lvl[v], Unlocked(v)
      PROVE  Snapshot(v, l) = Links(g, v, l)
  <2>1. l \in Nat /\ g.lvl[v] \in Nat
    BY <1>1 DEF IsGraph
  <2>2. v \in OnLev(g, l)
    BY <2>1 DEF OnLev
  <2> QED
    BY <1>4, <2>1, <2>2, SnapFacts
<1> QED
  BY <1>2, <1>3, <1>4 DEF ListsSound

\* Every list names only nodes of its level, none twice and never its owner, is
\* within its cap while unlocked and within one more while locked; every copy a
\* thread scans is within the cap, and complete as long as M0 <= CSNAP.
THEOREM ListsAlways == Spec => []ListsSound
<1> QED
  BY Invariance, InvLists, PTL

LEMMA InvEntry == Inv => EntryOnTop
<1> SUFFICES ASSUME Inv PROVE EntryOnTop
  OBVIOUS
<1>1. EntryOK(call, g, pub, glk, loc)
  BY DEF Inv, Good
<1> QED
  BY <1>1 DEF EntryOK, EntryOnTop

\* Whoever finds the lock on the entry point free reads a published node of the
\* top level, and that level with it.
THEOREM EntryAlways == Spec => []EntryOnTop
<1> QED
  BY Invariance, InvEntry, PTL

LEMMA InvComplete == Inv => Complete
<1> SUFFICES ASSUME Inv, AllDone
             PROVE  /\ pub = Nodes(g)
                    /\ \A v \in Nodes(g) : g.lvl[v] <= g.top
                    /\ glk = NoThread /\ \A v \in Nodes(g) : clk[v] = NoThread
                    /\ BottomWhole(g)
  BY DEF Complete
<1>1. /\ ShapeOK(call, g, pub, clk, glk, next, loc) /\ SplitOK(call, pub, next, loc)
      /\ LocksOK(g, clk, glk, loc) /\ EntryOK(call, g, pub, glk, loc)
      /\ ListsOK(g, clk, loc) /\ BottomOK(g, pub, loc)
  BY DEF Inv, Good
<1>2. /\ call \in Calls /\ IsGraph(g) /\ Nodes(g) = Old(call) \cup New(call)
      /\ Old(call) \subseteq pub /\ pub \subseteq Nodes(g)
      /\ g.lvl \in [Nodes(g) -> 0 .. MaxLevel] /\ MaxLevel \in Nat
      /\ clk \in [Nodes(g) -> Threads \cup {NoThread}] /\ glk \in Threads \cup {NoThread}
      /\ next \in Int /\ next > Len(call.batch)
  BY <1>1, CallFacts, ConcurrentAssumption DEF ShapeOK, AllDone, Batch
<1>3. ASSUME NEW t \in Threads
      PROVE  loc[t].pc = "claim" /\ loc[t].chunk = <<>> /\ loc[t].sel = <<>>
  BY DEF AllDone, Finished, Rest
<1>4. \A t \in Threads : Mine(call, loc[t]) = {}
  BY <1>3 DEF Mine, Todo, ToSet, Working, Greedy2, OnLayer, Linking
<1>5. pub = Nodes(g)
  <2>1. ASSUME NEW i \in 1 .. Len(call.batch) PROVE call.batch[i] \in pub
    <3>1. Len(call.batch) \in Nat
      BY <1>2, CallFacts
    <3>2. ~ (i >= next)
      BY <1>2, <3>1
    <3> QED
      BY <1>1, <1>4, <3>2 DEF SplitOK
  <2>2. New(call) \subseteq pub
    BY <1>2, <2>1, CallFacts DEF New, ToSet
  <2> QED
    BY <1>2, <2>2
<1>6. \A v \in Nodes(g) : g.lvl[v] <= g.top
  <2>1. g.top \in Int /\ \A v \in Nodes(g) : g.lvl[v] \in Int
    BY <1>1, <1>2 DEF EntryOK
  <2>2. \A v \in Nodes(g) : ~ (g.lvl[v] > g.top)
    BY <1>1, <1>3, <1>5 DEF EntryOK
  <2> QED
    BY <2>1, <2>2
<1>7. glk = NoThread /\ \A v \in Nodes(g) : clk[v] = NoThread
  BY <1>1, <1>2, <1>3 DEF LocksOK, Holds
<1>8. BottomWhole(g)
  <2> SUFFICES ASSUME Small(g)
               PROVE  /\ \A v, u \in Nodes(g) : u \in Beside(g, v) => v \in Beside(g, u)
                      /\ \A v \in Nodes(g) : Reach(g, {v}, 0) = Nodes(g)
    BY DEF BottomWhole, Small, Beside
  <2>1. /\ \A u, w \in Nodes(g) : w \in Beside(g, u) =>
              u \in Beside(g, w) \/ \E t \in Threads : Pending(loc[t], u, w)
        /\ \A V \in SUBSET pub :
              V # {} /\ (\A u \in V : Beside(g, u) \cap pub \subseteq V) => V = pub
    BY <1>1 DEF BottomOK
  <2>2. \A t \in Threads : \A u, w : ~ Pending(loc[t], u, w)
    BY <1>3 DEF Pending
  <2>3. Joined(g, Nodes(g))
    BY <1>5, <2>1 DEF Joined
  <2>4. OnLevel(g)
    BY <1>1 DEF OnLevel, ListsOK, OnLev
  <2>5. ASSUME NEW v \in Nodes(g) PROVE Reach(g, {v}, 0) = Nodes(g)
    BY <1>2, <2>3, <2>4, AllReached
  <2>6. \A v, u \in Nodes(g) : u \in Beside(g, v) => v \in Beside(g, u)
    BY <2>1, <2>2
  <2> QED
    BY <2>5, <2>6
<1> QED
  BY <1>5, <1>6, <1>7, <1>8

\* When the parallel region ends every node is published, every lock is free and the
\* graph's top is the tallest level, whatever max_level each thread had read; and in a
\* graph no bottom list of which can overflow every node reaches every other.
THEOREM CompleteAlways == Spec => []Complete
<1> QED
  BY Invariance, InvComplete, PTL
=============================================================================
