------------------------------ MODULE MCIdMap ------------------------------
(* Model-checking instance of IdMap: a first table of 2 cells, so that two   *)
(* or three keys already force rehashes, and hash values that collide and    *)
(* wrap around the end of the table.                                         *)
EXTENDS IdMap, TLC

CONSTANTS k1, k2, k3, k4

Homes == k1 :> 7 @@ k2 :> 7 @@ k3 :> 3 @@ k4 :> 4
MCHash == [k \in Keys |-> Homes[k]]

\* Every key has a home of its own in a table of four cells.
SpreadHomes == k1 :> 0 @@ k2 :> 1 @@ k3 :> 2 @@ k4 :> 3
MCSpreadHash == [k \in Keys |-> SpreadHomes[k]]
=============================================================================
