SPECIFICATION Spec
CONSTANTS
  Sessions = {s1, s2, s3}
  None = None
SYMMETRY Symmetry
INVARIANTS
  NoUseAfterFree
  NoDanglingPointer
\* A program whose objects are gone has nothing left to do.
CHECK_DEADLOCK FALSE
