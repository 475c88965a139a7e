\* The code's 16-byte NEON vectors; an 80-byte string at every alignment of
\* its data pointer: the unaligned first vector, one four-vector block
\* starting at offset 1 to 16, and the unaligned last vector.
CONSTANTS
  Lanes = 16
  MaxSize = 80
  Haystacks <- NeonWrapHaystacks
  Cpus = {"neon"}
SPECIFICATION Spec
INVARIANT FindMatchesReference
CHECK_DEADLOCK FALSE
