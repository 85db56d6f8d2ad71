-------------------------- MODULE ConcurrentBuild --------------------------
(***************************************************************************)
(* The parallel graph construction of vecdb_add_bulk_mt (cwire, cgreedy,   *)
(* csearch, csnap, clink and concurrent_wire of vecdb.c): every vector of  *)
(* the batch is stored already; threads take nodes off the batch and wire  *)
(* them into the graph at the same time.                                   *)
(*                                                                         *)
(* Each access to shared memory is a step of its own: reading the entry    *)
(* point under glk, copying a neighbour list under the node's lock,        *)
(* loading one published flag, appending to a list, pruning it, raising    *)
(* the published flag, and the two writes of the entry point.              *)
(***************************************************************************)
EXTENDS HnswOps

CONSTANTS
    Threads,   \* OpenMP threads
    NoThread,  \* a lock is free
    Calls,     \* the calls considered: pre, the sequence of nodes wired before
               \* (or the seed), and batch, the sequence of nodes to wire
    Chunk,     \* schedule(dynamic, 32)
    MaxLevel,  \* bound on the levels drawn
    CSnap      \* CSNAP: the longest list a thread can copy

ASSUME ConcurrentAssumption ==
    /\ NoThread \notin Threads
    /\ \A c \in Calls : /\ c.pre \in Seq(Points) /\ c.batch \in Seq(Points)
                        /\ IsInjective(c.pre \o c.batch) /\ Len(c.pre) > 0
    /\ Chunk \in Nat \ {0} /\ MaxLevel \in Nat /\ CSnap \in Nat

VARIABLES
    call,      \* the call under way
    g,         \* the shared graph
    pub,       \* published nodes
    clk,       \* owner of every node's lock
    glk,       \* owner of the lock on entry and top
    next,      \* loop index of the parallel for
    loc        \* the locals of every thread

vars == <<call, g, pub, clk, glk, next, loc>>

NoBeam == [cand |-> {}, res |-> {}, vis |-> {}]

\* chunk: batch indices claimed; v: the node being wired; ep: entry or nearest
\* node so far; max: max_level as read; l: level; snap: rest of a copied list;
\* moved: greedy flag; sel: neighbours to link; j: position in sel.
Rest == [pc |-> "claim", chunk |-> <<>>, v |-> NoNode, ep |-> NoNode,
         max |-> -1, l |-> -1, snap |-> <<>>, moved |-> FALSE,
         beam |-> NoBeam, sel |-> <<>>, j |-> 0]

\* Phase 1a has drawn the levels and stored the batch; pre was wired by
\* earlier serial adds.
PreGraph(c, lv) == FoldLeft(LAMBDA a, v : AddNode(a, v, lv[v]), EmptyGraph, c.pre)
Stored(c, lv) ==
    FoldLeft(LAMBDA a, v : StoreNode(a, v, lv[v]), PreGraph(c, lv), c.batch)

Init == /\ call \in Calls
        /\ \E lv \in [ToSet(call.pre \o call.batch) -> 0 .. MaxLevel] :
              g = Stored(call, lv)
        /\ pub = ToSet(call.pre)
        /\ clk = [v \in Nodes(g) |-> NoThread]
        /\ glk = NoThread
        /\ next = 1
        /\ loc = [t \in Threads |-> Rest]
-----------------------------------------------------------------------------
Batch == call.batch
Level(t) == g.lvl[loc[t].v]
StartLevel(t) == IF Level(t) < loc[t].max THEN Level(t) ELSE loc[t].max

\* csnap: the list of u at level l, cut at CSnap; empty above u's own level.
Snapshot(u, l) == IF l > g.lvl[u] THEN <<>>
                  ELSE LET L == Links(g, u, l)
                       IN  SubSeq(L, 1, IF Len(L) > CSnap THEN CSnap ELSE Len(L))

UnlockedAlways(u) == TRUE   \* mutant: lists are used without their lock

Unlocked(u) == clk[u] = NoThread

NewBeam(ep) == [cand |-> {ep}, res |-> {ep}, vis |-> {ep}]

At(t, p) == loc[t].pc = p
Become(t, r) == loc' = [loc EXCEPT ![t] = r]

\* The iterations dynamic scheduling hands out next.
LastOfChunk == IF next + Chunk - 1 < Len(Batch) THEN next + Chunk - 1 ELSE Len(Batch)
Claimed == [j \in 1 .. LastOfChunk - next + 1 |-> next + j - 1]
Claim(t) == /\ At(t, "claim") /\ loc[t].chunk = <<>> /\ next <= Len(Batch)
            /\ next' = next + Chunk
            /\ Become(t, [loc[t] EXCEPT !.chunk = Claimed])
            /\ UNCHANGED <<g, pub, clk, glk>>

\* cwire starts: entry and max_level are read together, under glk.
ReadEntry(t) == /\ At(t, "claim") /\ loc[t].chunk # <<>>
                /\ glk = NoThread
                /\ LET v == Batch[Head(loc[t].chunk)]
                       up == g.top > g.lvl[v]
                       low == IF g.lvl[v] < g.top THEN g.lvl[v] ELSE g.top
                   IN  Become(t, [loc[t] EXCEPT
                         !.pc = IF up THEN "greedy" ELSE "beam",
                         !.chunk = Tail(@), !.v = v, !.ep = g.entry, !.max = g.top,
                         !.l = IF up THEN g.top ELSE low, !.moved = FALSE,
                         !.beam = IF up THEN NoBeam ELSE NewBeam(g.entry)])
                /\ UNCHANGED <<g, pub, clk, glk, next>>

\* cgreedy copies the list of the current node ...
GreedySnap(t) == /\ At(t, "greedy")
                 /\ Unlocked(loc[t].ep)
                 /\ Become(t, [loc[t] EXCEPT !.pc = "gscan", !.moved = FALSE,
                                 !.snap = Snapshot(loc[t].ep, loc[t].l)])
                 /\ UNCHANGED <<g, pub, clk, glk, next>>

\* ... and looks at its published members one by one.
Nearer(t, u) == u \in pub /\ D[loc[t].v][u] < D[loc[t].v][loc[t].ep]
GreedyScan(t) == /\ At(t, "gscan") /\ loc[t].snap # <<>>
                 /\ LET u == Head(loc[t].snap)
                    IN  Become(t, [loc[t] EXCEPT !.snap = Tail(@),
                          !.ep = IF Nearer(t, u) THEN u ELSE @,
                          !.moved = @ \/ Nearer(t, u)])
                 /\ UNCHANGED <<g, pub, clk, glk, next>>

\* Another round if the node moved, else down a level, else the beam search.
GreedyNext(t) == /\ At(t, "gscan") /\ loc[t].snap = <<>>
                 /\ Become(t,
                      IF loc[t].moved THEN [loc[t] EXCEPT !.pc = "greedy"]
                      ELSE IF loc[t].l - 1 > Level(t)
                      THEN [loc[t] EXCEPT !.pc = "greedy", !.l = @ - 1]
                      ELSE [loc[t] EXCEPT !.pc = "beam", !.l = StartLevel(t),
                                          !.moved = FALSE,
                                          !.beam = NewBeam(loc[t].ep)])
                 /\ UNCHANGED <<g, pub, clk, glk, next>>

\* csearch takes its nearest candidate and copies that node's list.
Searched(t) == BeamDone(loc[t].v, loc[t].beam, EfC)
BeamSnap(t) ==
    /\ At(t, "beam") /\ ~ Searched(t)
    /\ LET c == Nearest(loc[t].v, loc[t].beam.cand)
       IN  /\ Unlocked(c)
           /\ Become(t, [loc[t] EXCEPT !.pc = "scan", !.snap = Snapshot(c, loc[t].l),
                                       !.beam.cand = @ \ {c}])
    /\ UNCHANGED <<g, pub, clk, glk, next>>

MeetAny(q, b, x) == Meet(q, b, EfC, Points, x)   \* mutant: no flag is read

\* A neighbour is marked visited before its published flag is looked at: one
\* published a moment later stays invisible to this search.
MeetPublished(q, b, x) == IF x \in pub THEN Meet(q, b, EfC, Points, x)
                          ELSE [b EXCEPT !.vis = @ \cup {x}]
BeamScan(t) == /\ At(t, "scan") /\ loc[t].snap # <<>>
               /\ Become(t, [loc[t] EXCEPT !.snap = Tail(@),
                    !.beam = MeetPublished(loc[t].v, @, Head(loc[t].snap))])
               /\ UNCHANGED <<g, pub, clk, glk, next>>

BeamNext(t) == /\ At(t, "scan") /\ loc[t].snap = <<>>
               /\ Become(t, [loc[t] EXCEPT !.pc = "beam"])
               /\ UNCHANGED <<g, pub, clk, glk, next>>

\* The layer is searched: neighbours are selected and linking starts.
BeamEnd(t) == /\ At(t, "beam") /\ Searched(t)
              /\ Become(t, [loc[t] EXCEPT !.pc = "link", !.j = 1,
                   !.sel = SelectNeighbors(loc[t].v, loc[t].beam.res, M)])
              /\ UNCHANGED <<g, pub, clk, glk, next>>
-----------------------------------------------------------------------------
\* clink(a, b): under a's lock, append b to a's list unless it is there ...
Appended(list, u) == IF u \in ToSet(list) THEN list ELSE Append(list, u)
WithList(u, l, list) == [g EXCEPT !.link[u][l + 1] = list]

LockAppend(t, a, b, then) ==
    /\ Unlocked(a)
    /\ clk' = [clk EXCEPT ![a] = t]
    /\ g' = WithList(a, loc[t].l, Appended(Links(g, a, loc[t].l), b))
    /\ Become(t, [loc[t] EXCEPT !.pc = then])
    /\ UNCHANGED <<pub, glk, next>>

\* ... prune it if it is too long, and unlock.
Shrunk(a, l) == ShrinkLinks(a, Links(g, a, l), l)
ShrinkKeepLock(t, a, then) ==   \* mutant: an early return without unlocking
    /\ g' = WithList(a, loc[t].l, Shrunk(a, loc[t].l))
    /\ Become(t, [loc[t] EXCEPT !.pc = then, !.j = @ + 1])
    /\ UNCHANGED <<pub, clk, glk, next>>

ShrinkUnlock(t, a, then) ==
    /\ clk' = [clk EXCEPT ![a] = NoThread]
    /\ g' = WithList(a, loc[t].l, Shrunk(a, loc[t].l))
    /\ Become(t, [loc[t] EXCEPT !.pc = then, !.j = @ + 1])
    /\ UNCHANGED <<pub, glk, next>>

MoreThanOne(t) == loc[t].j < Len(loc[t].sel)   \* mutant: the last is missed

MoreToLink(t) == loc[t].j <= Len(loc[t].sel)
Partner(t) == loc[t].sel[loc[t].j]

\* The new node's own list first ...
LinkAppend(t) == At(t, "link") /\ MoreToLink(t)
                 /\ LockAppend(t, loc[t].v, Partner(t), "linkend")
LinkRelease(t) == At(t, "linkend") /\ ShrinkUnlock(t, loc[t].v, "link")

LinkNext(t) == /\ At(t, "link") /\ ~ MoreToLink(t)
               /\ Become(t, [loc[t] EXCEPT !.pc = "back", !.j = 1])
               /\ UNCHANGED <<g, pub, clk, glk, next>>

\* ... then the links back.
BackAppend(t) == At(t, "back") /\ MoreToLink(t)
                 /\ LockAppend(t, Partner(t), loc[t].v, "backend")
BackRelease(t) == At(t, "backend") /\ ShrinkUnlock(t, Partner(t), "back")

\* Down one level from the nearest node found, or publish.
BackNext(t) == /\ At(t, "back") /\ ~ MoreToLink(t)
               /\ LET ep == Nearest(loc[t].v, loc[t].beam.res)
                  IN  Become(t, IF loc[t].l > 0
                        THEN [loc[t] EXCEPT !.pc = "beam", !.l = @ - 1, !.ep = ep,
                                !.beam = NewBeam(ep), !.sel = <<>>, !.j = 0]
                        ELSE [loc[t] EXCEPT !.pc = "publish", !.l = -1, !.ep = ep,
                                !.beam = NoBeam, !.sel = <<>>, !.j = 0])
               /\ UNCHANGED <<g, pub, clk, glk, next>>

PublishSilent(t) ==   \* mutant: the flag is not set
    /\ At(t, "publish")
    /\ Become(t, IF Level(t) > loc[t].max THEN [loc[t] EXCEPT !.pc = "top"]
                                          ELSE [Rest EXCEPT !.chunk = loc[t].chunk])
    /\ UNCHANGED <<g, pub, clk, glk, next>>

\* After publishing, a node above the max_level read goes for the entry point.
Publish(t) == /\ At(t, "publish")
              /\ pub' = pub \cup {loc[t].v}
              /\ Become(t, IF Level(t) > loc[t].max
                           THEN [loc[t] EXCEPT !.pc = "top"]
                           ELSE [Rest EXCEPT !.chunk = loc[t].chunk])
              /\ UNCHANGED <<g, clk, glk, next>>

\* Under glk: max_level is compared again, and written before the entry.
Taller(t) == Level(t) > g.top
TopUnguarded(t) ==   \* mutant: the pair is written without glk
    /\ At(t, "top") /\ Taller(t)
    /\ g' = [g EXCEPT !.top = Level(t)]
    /\ Become(t, [loc[t] EXCEPT !.pc = "entry"])
    /\ UNCHANGED <<pub, clk, glk, next>>

TopLock(t) == /\ At(t, "top") /\ glk = NoThread
              /\ glk' = t
              /\ IF Taller(t)
                 THEN /\ g' = [g EXCEPT !.top = Level(t)]
                      /\ Become(t, [loc[t] EXCEPT !.pc = "entry"])
                 ELSE /\ g' = g
                      /\ Become(t, [loc[t] EXCEPT !.pc = "untop"])
              /\ UNCHANGED <<pub, clk, next>>

SetEntry(t) == /\ At(t, "entry")
               /\ g' = [g EXCEPT !.entry = loc[t].v]
               /\ Become(t, [loc[t] EXCEPT !.pc = "untop"])
               /\ UNCHANGED <<pub, clk, glk, next>>

TopStaysLocked(t) ==   \* mutant: glk is never released
    /\ At(t, "untop")
    /\ Become(t, [Rest EXCEPT !.chunk = loc[t].chunk])
    /\ UNCHANGED <<g, pub, clk, glk, next>>

TopUnlock(t) == /\ At(t, "untop")
                /\ glk' = NoThread
                /\ Become(t, [Rest EXCEPT !.chunk = loc[t].chunk])
                /\ UNCHANGED <<g, pub, clk, next>>

\* The end of the parallel region.
Finished == \A t \in Threads : loc[t] = Rest
AllDone == next > Len(Batch) /\ Finished
Join == AllDone /\ UNCHANGED vars

Step(t) == /\ \/ Claim(t) \/ ReadEntry(t)
              \/ GreedySnap(t) \/ GreedyScan(t) \/ GreedyNext(t)
              \/ BeamSnap(t) \/ BeamScan(t) \/ BeamNext(t) \/ BeamEnd(t)
              \/ LinkAppend(t) \/ LinkRelease(t) \/ LinkNext(t)
              \/ BackAppend(t) \/ BackRelease(t) \/ BackNext(t)
              \/ Publish(t) \/ TopLock(t) \/ SetEntry(t) \/ TopUnlock(t)
           /\ UNCHANGED call

Next == (\E t \in Threads : Step(t)) \/ Join

Spec == Init /\ [][Next]_vars

\* The operating system runs every thread; a lock is released after a bounded
\* number of its holder's steps, so weak fairness per thread is enough here.
FairSpec == Spec /\ \A t \in Threads : WF_vars(Step(t))
-----------------------------------------------------------------------------
(***************************************************************************)
(* Properties.                                                             *)
(***************************************************************************)
Pcs == {"claim", "greedy", "gscan", "beam", "scan", "link", "linkend",
        "back", "backend", "publish", "top", "entry", "untop"}

\* Types, and every lock held is inside the critical section that took it.
TypeOK ==
    /\ g.lvl \in [Nodes(g) -> 0 .. MaxLevel]
    /\ \A v \in Nodes(g) : g.link[v] \in [1 .. g.lvl[v] + 1 -> Seq(Nodes(g))]
    /\ g.entry \in Nodes(g) /\ g.top \in 0 .. MaxLevel
    /\ pub \subseteq Nodes(g)
    /\ clk \in [Nodes(g) -> Threads \cup {NoThread}]
    /\ glk \in Threads \cup {NoThread}
    /\ next \in 1 .. Len(Batch) + Chunk
    /\ \A t \in Threads : /\ loc[t].pc \in Pcs
                          /\ ToSet(loc[t].snap) \cup ToSet(loc[t].sel) \subseteq Nodes(g)
    /\ \A v \in Nodes(g) : clk[v] # NoThread => loc[clk[v]].pc \in {"linkend", "backend"}
    /\ glk # NoThread => loc[glk].pc \in {"entry", "untop"}

\* The nodes thread t would read vectors or lists of, or link to.
Traversed(t) == loc[t].beam.cand \cup loc[t].beam.res \cup ToSet(loc[t].sel)
                \cup ({loc[t].ep} \ {NoNode})

\* "Traversal only follows edges INTO already-published nodes": no thread ever
\* stands on a node that another thread is still wiring.
OnlyPublished == \A t \in Threads : Traversed(t) \subseteq pub

\* "only after v's links at every level are fully wired": what a thread is about
\* to publish has neighbours on every level from the top it read down; and once
\* published a node keeps some on each of its levels that was there before the
\* batch.  (On the levels above, which only nodes of the batch have, it may have
\* none: it was wired before the first of them was the entry point.)
PublishedIsWired ==
    /\ \A t \in Threads : At(t, "publish") =>
          \A l \in 0 .. StartLevel(t) : Len(Links(g, loc[t].v, l)) > 0
    /\ \A v \in pub \cap ToSet(Batch) : \A l \in 0 .. g.lvl[v] :
          (\E u \in ToSet(call.pre) : g.lvl[u] >= l) => Len(Links(g, v, l)) > 0

\* A node appears in a list of a level only if it lives there, never twice and
\* never in its own list; an unlocked list is within its cap, and a locked one
\* within the one extra cell of its block; a copied list is one its owner had
\* between two updates, never the overfull one a pruning is about to cut, and all
\* of it as long as M0 <= CSNAP (the code does not check that).
ListsSound ==
    /\ \A v \in Nodes(g) : \A l \in 0 .. g.lvl[v] :
          LET L == Links(g, v, l)
          IN  /\ Len(L) <= LinkCap(l) + (IF clk[v] = NoThread THEN 0 ELSE 1)
              /\ IsInjective(L)
              /\ v \notin ToSet(L)
              /\ \A u \in ToSet(L) : g.lvl[u] >= l
    /\ \A t \in Threads : loc[t].pc \in {"gscan", "scan"} =>
          Len(loc[t].snap) <= LinkCap(loc[t].l)
    /\ M0 <= CSnap => \A v \in Nodes(g) : \A l \in 0 .. g.lvl[v] :
          Unlocked(v) => Snapshot(v, l) = Links(g, v, l)

\* Whenever glk is free the entry point is published and on the top level.
EntryOnTop == glk = NoThread => g.entry \in pub /\ g.lvl[g.entry] = g.top

\* When the parallel region ends every node is published, no lock is held and the
\* tallest level of the batch is the graph's, whoever read a stale max_level; and
\* as long as no level-0 list could overflow no link is lost: the bottom layer is
\* symmetric and every node reaches every other.
Complete == AllDone => /\ pub = Nodes(g)
                       /\ \A v \in Nodes(g) : g.lvl[v] <= g.top
                       /\ glk = NoThread /\ \A v \in Nodes(g) : clk[v] = NoThread
                       /\ BottomWhole(g)

\* The parallel region ends.
Terminates == <>AllDone

\* vecdb.h:47: "Graph construction stays serial, so the resulting index is
\* identical to vecdb_add_bulk".
SerialGraph == FoldLeft(LAMBDA a, v : WireNode(a, v), Stored(call, g.lvl), Batch)
IdenticalToSerial == AllDone => g = SerialGraph
=============================================================================
