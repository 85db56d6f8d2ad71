---------------------------- MODULE MCBeamSearch ----------------------------
(* Model-checking instance of BeamSearch: three graphs of two, four and seven  *)
(* slots, so that the marks of the large ones are there when a small one is    *)
(* searched, and four epoch values.                                            *)
EXTENDS BeamSearch

\* Slots on a line at the marks of a Golomb ruler, in no order.
Mark == <<10, 0, 17, 4, 25, 1, 12>>
Gap(p, q) == IF p < q THEN q - p ELSE p - q
MCD == [p \in Points |-> [q \in Points |-> Gap(Mark[p + 1], Mark[q + 1])]]

Graph(links) == [lvl |-> [v \in DOMAIN links |-> 0],
                 link |-> [v \in DOMAIN links |-> <<links[v]>>],
                 entry |-> 0, top |-> 0]

Pair == Graph(0 :> <<1>> @@ 1 :> <<0>>)

\* One link is missing its way back, as pruning leaves it.
Four == Graph(0 :> <<2, 1>> @@ 1 :> <<3>> @@ 2 :> <<0, 3>> @@ 3 :> <<1, 2>>)

\* A hub with many neighbours fills the heaps.
Hub == Graph(0 :> <<4, 2, 6, 5>> @@ 1 :> <<5, 3>> @@ 2 :> <<0, 4, 6>>
             @@ 3 :> <<1, 5, 0>> @@ 4 :> <<2>> @@ 5 :> <<3, 1>> @@ 6 :> <<2, 3, 0>>)

MCGraphs == {Pair, Four, Hub}
MCMasks == {Points, {1, 4, 5, 6}, {2, 3}}
=============================================================================
