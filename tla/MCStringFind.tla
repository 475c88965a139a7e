--------------------------- MODULE MCStringFind -----------------------------
(* Model-checking instance of StringFind at the code's real vector width  *)
(* (16 lanes), for the NEON four-vector block test, whose 8-bit            *)
(* horizontal add needs 16 matching nibbles to wrap.                       *)
EXTENDS StringFind

\* An 80-byte string whose searched character is at every odd offset from
\* 17 to 47: sixteen 0xf0 bytes in the ORed narrowed masks of the block at
\* 16, summing to 0xf00.  Other sizes are not searched.
NeonWrapHaystacks(n) ==
  IF n = 80 THEN {{17 + 2 * k : k \in 0..15}} ELSE {}
=============================================================================
