SPECIFICATION Spec
CONSTANTS
  Bytes <- MCBytes
  Length = 3
INVARIANTS
  Congruent
  TargetsAgree
CHECK_DEADLOCK FALSE
