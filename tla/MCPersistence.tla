--------------------------- MODULE MCPersistence ---------------------------
(* Model-checking instance of Persistence, M = 2.  The file may be there from *)
(* before: two slots, the second alone on level 1; four on level 1 after the  *)
(* last one made a list overflow; five with every list at its cap.  In the    *)
(* larger ones an id owns several tombstones.                                 *)
EXTENDS Persistence

CONSTANTS a, b

MCSymmetry == Permutations(Ids)

\* Slots of these levels, all linked with all.
Linked(lvl) ==
    LET n == Len(lvl)
        others(s, l) == SelectSeq([u \in 1 .. n |-> u - 1],
                                  LAMBDA u : u # s /\ lvl[u + 1] >= l)
    IN  [j \in 1 .. n |-> [lvl |-> lvl[j],
            list |-> [l \in 1 .. lvl[j] + 1 |-> others(j - 1, l - 1)]]]

\* Three on level 1, and what wiring a fourth may make of them.
WiredFourth == Wired(Append(Linked(<<1, 1, 1>>), [lvl |-> 1, list |-> <<<<>>, <<>>>>]), 3, 1)

\* Slot 0 has lost its link to slot 1, which keeps the one back.
OneWay == CHOOSE n \in WiredFourth : n[1].list[2] = <<3, 2>> /\ n[2].list[2] = <<0, 2>>

ASSUME PruningSound == \A n \in WiredFourth : \A j \in 1 .. 4 : NodeSound(n[j], 4)

IndexOf(slots, node, entry) ==
    LET n == Len(slots)
        slot == [s \in 0 .. n - 1 |-> slots[s + 1]]
        live == {s \in 0 .. n - 1 : ~ slot[s].dead}
    IN  [body |-> [cap |-> n, count |-> n, slot |-> slot, alive |-> Cardinality(live),
                   map |-> [id \in Ids |-> IF \A s \in live : slot[s].id # id THEN NoSlot
                                           ELSE CHOOSE s \in live : slot[s].id = id]],
         node |-> node, entry |-> entry, top |-> node[entry + 1].lvl]

Put(id, v) == [id |-> id, vec |-> v, dead |-> FALSE]
Gone(id, v) == [id |-> id, vec |-> v, dead |-> TRUE]
Pairs == {x \in Ids \X Ids : x[1] # x[2]}

MCOld ==
    UNION {{IndexOf(<<Put(x[1], 1), Put(x[2], 2)>>, Linked(<<0, 1>>), 1),
            IndexOf(<<Gone(x[1], 1), Gone(x[2], 2), Gone(x[1], 2), Put(x[2], 1)>>, OneWay, 0),
            IndexOf(<<Gone(x[1], 1), Gone(x[2], 2), Gone(x[1], 2), Put(x[2], 1), Put(x[1], 2)>>,
                    Linked(<<1, 0, 1, 0, 1>>), 0)} : x \in Pairs}
=============================================================================
