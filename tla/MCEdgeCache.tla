----------------------------- MODULE MCEdgeCache -----------------------------
(* Cacheable GETs and an unsafe request over query variants of one path, with *)
(* or without a reload.                                                       *)
EXTENDS EdgeCache, TLC

\* All keys are variants of the one path.
OnePath == [k \in Keys |-> CHOOSE p \in Paths : TRUE]

Symmetry == Permutations(Gets) \cup Permutations(Writes) \cup Permutations(Keys)
=============================================================================
