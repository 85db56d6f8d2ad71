---------------------------- MODULE MCBindings -----------------------------
(* Model-checking instance of Bindings: three ids and three slots, batches of  *)
(* up to two, so that default ids run into ids in use; blocks of two queries,  *)
(* so that a batch of three does not fill its last block.                      *)
EXTENDS Bindings

MCMetric == [q \in Queries |-> [v \in Vecs |-> (q - v) * (q - v)]]
=============================================================================
