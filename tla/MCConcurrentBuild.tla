------------------------- MODULE MCConcurrentBuild -------------------------
(* Model-checking instances of ConcurrentBuild: two threads, vectors on a line *)
(* with no two equal distances from one of them.                               *)
EXTENDS ConcurrentBuild

CONSTANTS t1, t2

Gap(p, q) == IF p < q THEN q - p ELSE p - q
MCD == [p \in Points |-> [q \in Points |-> Gap(p, q) * Gap(p, q)]]

\* A fresh database: the first vector of the batch is the seed.
Fresh == [pre |-> <<1>>, batch |-> <<4, 0, 6>>]

\* A hub (110) with three neighbours and two vectors about to link to it: when
\* both have, its level-0 list has one link too many.
Hub == [pre |-> <<110, 126, 103, 115>>, batch |-> <<108, 111>>]

MCFresh == {Fresh}
MCHub == {Hub}
MCCalls == {Fresh, Hub}
=============================================================================
