------------------------------- MODULE MCVerdict -------------------------------
(* Two hits of one client: the first is challenged, the second dropped.      *)
EXTENDS Verdict, TLC

\* A challenge from the first hit on, a drop from the second.
MCLadder == << [threshold |-> 1, action |-> "challenge"], [threshold |-> 2, action |-> "drop"] >>

Symmetry == Permutations(Requests)
=============================================================================
