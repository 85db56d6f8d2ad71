----------------------------- MODULE BeamSearch -----------------------------
(***************************************************************************)
(* search_layer of vecdb.c loop by loop: the candidate heap, the result    *)
(* heap and the visited marks, which the thread keeps from one search to   *)
(* the next.  HnswOps!SearchLayer is the same search over sets; here it is *)
(* computed with the arrays of the code.                                   *)
(*                                                                         *)
(* One thread searches level 0 of one graph after another; graphs have     *)
(* different capacities.  Slots are their own vectors: D is the distance   *)
(* of two slots.                                                           *)
(***************************************************************************)
EXTENDS Visited, HnswOps, Heaps

CONSTANTS
    Graphs,    \* the graphs searched
    Masks,     \* sets of slots that are neither dead nor masked
    MaxEf      \* bound on the beam width

ASSUME BeamAssumption ==
    /\ Points = 0 .. MaxCap - 1
    /\ MaxEf \in Nat
    /\ \A a \in Graphs :
          /\ Nodes(a) # {} /\ Nodes(a) \subseteq Points
          /\ Nodes(a) = 0 .. Cardinality(Nodes(a)) - 1      \* slots in order
          /\ \A v \in Nodes(a) : Links(a, v, 0) \in Seq(Nodes(a))

VARIABLES
    pc,        \* "idle", "enter", "pop", "scan" or "done"
    arg,       \* the arguments of the search
    cand,      \* min-heap of slots to expand
    res,       \* max-heap of the best ef admissible slots
    list       \* neighbours of the expanded slot still to look at

beam == <<pc, arg, cand, res, list>>

NoArg == [g |-> EmptyGraph, q |-> 0, ep |-> 0, ef |-> 0, ok |-> {}]

BeamInit == /\ MarksInit
            /\ pc = "idle" /\ arg = NoArg
            /\ cand = <<>> /\ res = <<>> /\ list = <<>>

Item(x) == [dist |-> D[arg.q][x], node |-> x]
Marked(x) == vis[x] = epoch

\* The search acquires the marks for the capacity of its database ...
Begin(a, q, ep, ef, ok) ==
    /\ pc = "idle"
    /\ Acquire(Cardinality(Nodes(a)))
    /\ pc' = "enter"
    /\ arg' = [g |-> a, q |-> q, ep |-> ep, ef |-> ef, ok |-> ok]
    /\ UNCHANGED <<cand, res, list>>

\* ... and starts from the entry point.
Enter == /\ pc = "enter"
         /\ Visit(arg.ep)
         /\ pc' = "pop"
         /\ cand' = HeapPush(FALSE, cand, Item(arg.ep))
         /\ res' = IF arg.ep \in arg.ok THEN HeapPush(TRUE, res, Item(arg.ep)) ELSE res
         /\ UNCHANGED <<arg, list>>

\* The nearest candidate leaves the heap; the search is over when it is
\* farther than the worst result of a full beam.
Hopeless(c) == Len(res) >= arg.ef /\ c.dist > res[1].dist
Pop == /\ pc = "pop" /\ cand # <<>>
       /\ cand' = HeapPop(FALSE, cand)
       /\ IF Hopeless(cand[1])
          THEN pc' = "done" /\ UNCHANGED list
          ELSE pc' = "scan" /\ list' = Links(arg.g, cand[1].node, 0)
       /\ UNCHANGED <<arg, res>> /\ UNCHANGED marks

Exhausted == /\ pc = "pop" /\ cand = <<>>
             /\ pc' = "done"
             /\ UNCHANGED <<arg, cand, res, list>> /\ UNCHANGED marks

\* The next neighbour of the expanded slot, seen before ...
Skip == /\ pc = "scan" /\ list # <<>>
        /\ Marked(Head(list))
        /\ list' = Tail(list)
        /\ UNCHANGED <<pc, arg, cand, res>> /\ UNCHANGED marks

\* ... or new: a candidate if it can still matter, a result if it may be one.
Promising(x) == Len(res) < arg.ef \/ Item(x).dist < res[1].dist

KeptAll(x) == HeapPush(TRUE, res, Item(x))   \* mutant: the beam is not cut to ef

Kept(x) == LET r == HeapPush(TRUE, res, Item(x))
           IN  IF Len(r) > arg.ef THEN HeapPop(TRUE, r) ELSE r
Scan == /\ pc = "scan" /\ list # <<>>
        /\ LET x == Head(list)
           IN  /\ Visit(x)
               /\ cand' = IF Promising(x) THEN HeapPush(FALSE, cand, Item(x)) ELSE cand
               /\ res' = IF Promising(x) /\ x \in arg.ok THEN Kept(x) ELSE res
        /\ list' = Tail(list)
        /\ UNCHANGED <<pc, arg>>

Expanded == /\ pc = "scan" /\ list = <<>>
            /\ pc' = "pop"
            /\ UNCHANGED <<arg, cand, res, list>> /\ UNCHANGED marks

\* The caller takes the results; the marks stay as they are.
End == /\ pc = "done"
       /\ Finish
       /\ pc' = "idle" /\ arg' = NoArg
       /\ cand' = <<>> /\ res' = <<>> /\ list' = <<>>

BeamNext ==
    \/ \E a \in Graphs, ok \in Masks, ef \in 1 .. MaxEf :
          \E q \in Points, ep \in Nodes(a) : Begin(a, q, ep, ef, ok)
    \/ Enter \/ Pop \/ Exhausted \/ Skip \/ Scan \/ Expanded \/ End

BeamSpec == BeamInit /\ [][BeamNext]_<<beam, marks>>
-----------------------------------------------------------------------------
(***************************************************************************)
(* Properties.                                                             *)
(***************************************************************************)
\* Both heaps have their nearest (farthest) item on top of every subtree, the
\* result heap never outgrows the beam, and no slot is in a heap twice: the
\* comparisons with res->a[0] in search_layer rely on it.
NodesOf(a) == [j \in DOMAIN a |-> a[j].node]
HeapsOrdered == /\ IsHeap(FALSE, cand) /\ IsHeap(TRUE, res)
                /\ Len(res) <= arg.ef
                /\ IsInjective(NodesOf(cand)) /\ IsInjective(NodesOf(res))

\* The heaps keep their order, and arrays and marks compute what the search over sets defines, however
\* many searches of other databases have left their marks behind, and
\* emit_topk hands the results out nearest first.
ComputesSearchLayer ==
    /\ HeapsOrdered
    /\ pc = "done" =>
       LET S == SearchLayer(arg.g, arg.q, arg.ep, arg.ef, 0, arg.ok)
       IN  \A k \in 1 .. MaxEf : NodesOf(Emitted(res, k)) = TopK(arg.q, k, S)
=============================================================================
