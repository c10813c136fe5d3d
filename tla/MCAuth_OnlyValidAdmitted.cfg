CONSTANTS
  Cred = {c1, c2}
  Malformed = Malformed
  MaxLines = 2
  MaxTime = 3
  Faults = FALSE

SPECIFICATION Spec

INVARIANT OnlyValidAdmitted
CHECK_DEADLOCK FALSE
