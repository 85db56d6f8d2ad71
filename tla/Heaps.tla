------------------------------- MODULE Heaps -------------------------------
(***************************************************************************)
(* The binary heaps of vecdb.c (heap_push, heap_pop) and the results taken *)
(* from them (emit_topk).  A heap is the array itself: the children of     *)
(* cell i are cells 2i and 2i + 1, counted from 1.  An item is a record    *)
(* with fields dist and node.                                              *)
(***************************************************************************)
EXTENDS Integers, SequencesExt

\* heap_before: a max-heap keeps its largest distance on top, a min-heap its
\* smallest; an equal distance never moves up.
Before(max, x, y) == IF max THEN x.dist > y.dist ELSE x.dist < y.dist

\* No item goes before the one it hangs below.
IsHeap(max, a) == \A j \in 2 .. Len(a) : ~ Before(max, a[j], a[j \div 2])

Swapped(a, i, j) == [a EXCEPT ![i] = a[j], ![j] = a[i]]

\* Enough turns for any path through a heap.
Steps(a) == [r \in 1 .. Len(a) |-> r]

\* Up from cell i while the item goes before its parent.
SiftUp(max, h) ==
    LET p == h.i \div 2
    IN  IF h.i > 1 /\ Before(max, h.a[h.i], h.a[p])
        THEN [a |-> Swapped(h.a, h.i, p), i |-> p]
        ELSE h

HeapPush(max, a, x) ==
    FoldLeft(LAMBDA h, r : SiftUp(max, h),
             [a |-> Append(a, x), i |-> Len(a) + 1], Steps(a)).a

\* Of cell i and its children, the one that belongs on top.
Topmost(max, a, i) ==
    LET Higher(b, c) == IF c <= Len(a) /\ Before(max, a[c], a[b]) THEN c ELSE b
    IN  Higher(Higher(i, 2 * i), 2 * i + 1)

\* Down from cell i while a child goes before the item.
SiftDown(max, h) ==
    LET first == Topmost(max, h.a, h.i)
    IN  IF first = h.i THEN h ELSE [a |-> Swapped(h.a, h.i, first), i |-> first]

\* What heap_pop leaves: the last item takes the place of the top.
HeapPop(max, a) ==
    LET last == Front(<<a[Len(a)]>> \o Tail(a))
    IN  IF Len(a) = 1 THEN <<>>
        ELSE FoldLeft(LAMBDA h, r : SiftDown(max, h),
                      [a |-> last, i |-> 1], Steps(last)).a

\* A heap that holds the k best items: push, and drop the worst when full.
Offer(a, x, k) ==
    IF Len(a) < k THEN HeapPush(TRUE, a, x)
    ELSE IF x.dist < a[1].dist THEN HeapPop(TRUE, HeapPush(TRUE, a, x))
    ELSE a

\* emit_topk on a max-heap: the surplus is dropped, the rest leaves the heap
\* from the farthest to the nearest.
Emitted(a, k) ==
    LET pops == FoldLeft(LAMBDA e, r : [a |-> HeapPop(TRUE, e.a),
                                        out |-> <<e.a[1]>> \o e.out],
                         [a |-> a, out |-> <<>>], Steps(a)).out
    IN  SubSeq(pops, 1, IF k < Len(a) THEN k ELSE Len(a))
=============================================================================
