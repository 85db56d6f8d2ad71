------------------------------ MODULE IdTable ------------------------------
(***************************************************************************)
(* What the id -> slot map of vecdb.c promises its callers, without its    *)
(* hash table: a total function from ids to slots in which an absent id    *)
(* has the value UINT32_MAX.  IdMap is shown to implement this module, and *)
(* VecDB uses the map through this abstraction.                            *)
(***************************************************************************)

CONSTANTS
    Keys,      \* the 64-bit ids
    Vals,      \* the slots an id may be mapped to
    NoVal      \* UINT32_MAX, the "absent" result of map_get

VARIABLES
    tab,       \* the current mapping
    ret        \* the result of the last completed map_get

vars == <<tab, ret>>

Result == Vals \cup {NoVal}

Init == /\ tab = [k \in Keys |-> NoVal]
        /\ ret = NoVal

\* map_put: insert, or overwrite the value of a key that is present.
Put == \E k \in Keys, v \in Vals :
          /\ tab' = [tab EXCEPT ![k] = v]
          /\ UNCHANGED ret

\* map_del: remove, or do nothing when the key is absent.
Del == \E k \in Keys :
          /\ tab' = [tab EXCEPT ![k] = NoVal]
          /\ UNCHANGED ret

\* map_get: the present value, whatever put, delete or rehash came before.
Get == \E k \in Keys :
          /\ ret' = tab[k]
          /\ UNCHANGED tab

Next == Put \/ Del \/ Get

Spec == Init /\ [][Next]_vars
=============================================================================
