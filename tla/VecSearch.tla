----------------------------- MODULE VecSearch -----------------------------
(***************************************************************************)
(* Filtered exact search over the states of VecDB.  Searches change        *)
(* nothing, so they are evaluated in every state between calls.            *)
(***************************************************************************)
EXTENDS VecDB, Scan

CONSTANTS
    Queries,   \* query vectors
    MaxK       \* bound on the number of results asked for

ASSUME VecSearchAssumption == Metric \in [Queries -> [Vecs -> Int]] /\ MaxK \in Nat

\* vecdb.h:79: "1 = allowed ... unknown ids are ignored".  A search through a
\* mask returns the k nearest live vectors the ids stand for, however slots and
\* ids have drifted apart, and a mask keeps its meaning through a delete.
FilteredExact ==
    pc = "idle" =>
      \A e \in {db} \cup {Bury(db, id) : id \in {x \in Ids : ~ Absent(db, x)}} :
         \A q \in Queries, k \in 1 .. MaxK : MaskExact(db, e, q, k)
=============================================================================
