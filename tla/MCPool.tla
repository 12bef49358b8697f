------------------------------- MODULE MCPool -------------------------------
(* Values for TLC: three callers, the first of whose tasks submits one more *)
(* task while it runs.                                                      *)
EXTENDS ThreadPool

CONSTANTS a, b, c, d

MCSpawns == [x \in Callers |-> IF x = a THEN {d} ELSE {}]
=============================================================================
