---------------------------- MODULE MCConfigReload ----------------------------
(* Two nodes; n1 serves the first change and the change of the Redis server,  *)
(* n2 the second change.                                                      *)
EXTENDS ConfigReload

CONSTANTS n1, n2, e1, e2, w1, b1, b2

MCHome == [q \in Reqs |-> IF q \in {e2} THEN n2 ELSE n1]
MCTarget == [w \in Switches |-> b2]
=============================================================================
