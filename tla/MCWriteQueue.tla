----------------------------- MODULE MCWriteQueue -----------------------------
(* The write queue with one call of each kind and two racing calls of Close.  *)
EXTENDS WriteQueue

CONSTANTS a1, w1, p1, c1, c2
=============================================================================
