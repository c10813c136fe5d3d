CONSTANTS
  Cred = {c1, c2}
  Malformed = Malformed
  MaxLines = 2
  MaxTime = 3
  Faults = TRUE

SPECIFICATION Spec
SYMMETRY Symmetric

INVARIANTS
  TypeOK
  OnlyListedAdmitted
  ListedAdmitted
  OnlyLateChangesMissed

CHECK_DEADLOCK FALSE
