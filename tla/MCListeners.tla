----------------------------- MODULE MCListeners -----------------------------
(* One TCP and one HTTP/3 listener; the second snapshot changes what both are *)
(* built from, the third takes the HTTP/3 listener away.                      *)
EXTENDS Listeners

CONSTANTS site, h3, old, new

Drift == [r \in 0..MaxRevision |->
             [n \in Names |-> CASE r = 0 -> old
                                [] r = 2 /\ n = h3 -> None
                                [] OTHER -> new]]
=============================================================================
