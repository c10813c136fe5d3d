CONSTANTS
  any = any
  local = local
  a = a
  A = A
  b = b
  pem1 = pem1
  pem2 = pem2
  bad = bad
  File <- MCFile
  AuthFold <- MCAuthFold
  None = None
  Pem = {pem1, pem2}
  Faults = TRUE
  Lossy = {"/take", "/take/ws"}
  MemoryFails = TRUE

SPECIFICATION Spec

INVARIANTS
  TypeOK
  ServesAsConfigured
  ContextReady
  AnsweredTruthfully
  ReleasedOnce
  HandlersAreGuarded

PROPERTIES
  StartupEnds
  HandlersFinish

CHECK_DEADLOCK FALSE
