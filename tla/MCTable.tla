------------------------------ MODULE MCTable ------------------------------
(* Values for TLC: five keys for four slots, three of them on one probing  *)
(* chain that runs over the end of the array.                              *)
EXTENDS FlatHashMap

CONSTANTS k1, k2, k3, k4, k5

MCHash == [k \in Keys |-> CASE k = k1 -> 2 [] k = k2 -> 2 [] k = k3 -> 3
                            [] k = k4 -> 0 [] k = k5 -> 2]

MCAmount == [k \in Keys |-> 1]
=============================================================================
