------------------------------ MODULE VecStore ------------------------------
(***************************************************************************)
(* What vecdb.c promises about storage, without slots, tombstones, growth  *)
(* or compaction: a partial map from ids to vectors, its size, and calls   *)
(* that either succeed as a whole or fail and change nothing.  VecDB is    *)
(* shown to implement this module.                                         *)
(***************************************************************************)
EXTENDS Naturals, FiniteSets, Sequences

CONSTANTS
    Ids,       \* external 64-bit ids
    Vecs,      \* vector payloads
    NoVec      \* "no vector under this id"

VARIABLES
    store,     \* id -> vector or NoVec
    size,      \* what vecdb_count returns
    ret        \* outcome of the last call: the success of which call, or "fail"

vars == <<store, size, ret>>

Present == {id \in Ids : store[id] # NoVec}

Init == /\ store = [id \in Ids |-> NoVec]
        /\ size = 0
        /\ ret = "none"

Fail == ret' = "fail" /\ UNCHANGED <<store, size>>

\* vecdb_add of an id that is absent.
Add == \E id \in Ids \ Present, v \in Vecs :
          /\ store' = [store EXCEPT ![id] = v]
          /\ size' = size + 1
          /\ ret' = "added"

\* vecdb_add_bulk: a batch of new, distinct ids goes in as a whole.
AddBulk == \E B \in SUBSET (Ids \ Present) : \E f \in [B -> Vecs] :
              /\ store' = [id \in Ids |-> IF id \in B THEN f[id] ELSE store[id]]
              /\ size' = size + Cardinality(B)
              /\ ret' = "bulk"

Delete == \E id \in Present :
             /\ store' = [store EXCEPT ![id] = NoVec]
             /\ size' = size - 1
             /\ ret' = "deleted"

\* vecdb_compact is invisible to the callers of the store.
Compact == ret' = "compacted" /\ UNCHANGED <<store, size>>

Next == Add \/ AddBulk \/ Delete \/ Compact \/ Fail

Spec == Init /\ [][Next]_vars
=============================================================================
