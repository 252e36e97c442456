--------------------------- MODULE MCUnifiedWriter ---------------------------
(* Two records of a cached kind and one of an uncached kind; a second record  *)
(* of a kind overflows its channel when the writer is behind.                 *)
EXTENDS UnifiedWriter

CONSTANTS s1, s2, b1

MCKinds == {"security", "bot"}
MCKindOf == [r \in Records |-> IF r = b1 THEN "bot" ELSE "security"]
MCCapacity == [k \in MCKinds |-> 1]
=============================================================================
