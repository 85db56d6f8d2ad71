------------------------------- MODULE MCHnsw -------------------------------
(* Model-checking instance of Hnsw: points on a line at the marks of a Golomb *)
(* ruler, so that all distances differ; M = 2, the least the code accepts.    *)
EXTENDS Hnsw

Gap(p, q) == IF p < q THEN q - p ELSE p - q
MCD == [p \in Points |-> [q \in Points |-> Gap(p, q) * Gap(p, q)]]
=============================================================================
