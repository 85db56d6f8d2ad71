------------------------------ MODULE MCVecDB ------------------------------
(* Model-checking instance of VecDB: a first capacity of one slot, so that    *)
(* every third or fourth add grows the storage, and more slots than ids, so   *)
(* that an id is deleted and added again before and after a compaction.       *)
EXTENDS VecSearch, TLC

CONSTANTS a, b, c

\* A query near the first of the two vectors.
MCMetric == [q \in Queries |-> [v \in Vecs |-> v]]

MCSymmetry == Permutations(Ids)
=============================================================================
