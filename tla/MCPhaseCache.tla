----------------------------- MODULE MCPhaseCache -----------------------------
(* Three requests of two sites around a reload.                               *)
EXTENDS PhaseCache, TLC

CONSTANTS r1, r2, r3, s1, s2

\* Maintenance, neither scripts nor limit, both.
MCSettings ==
    { [maint |-> TRUE, pre |-> FALSE, limit |-> FALSE],
      [maint |-> FALSE, pre |-> FALSE, limit |-> FALSE],
      [maint |-> FALSE, pre |-> TRUE, limit |-> TRUE] }

Symmetry == Permutations(Requests) \cup Permutations(Sites)
=============================================================================
