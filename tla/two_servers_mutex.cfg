CONSTANTS
  c1 = c1
  c2 = c2
  lockA = lockA
  lockB = lockB
  cvA = cvA
  mvA = mvA
  NoClient = NoClient
  NULL = NULL
  Clients = {c1, c2}
  Servers = {0, 1}
  Names <- MCNames
  TableSize = 1
  Calls <- LockCalls
  MaxCalls = 3
  Disciplined = TRUE
SPECIFICATION Spec
INVARIANTS UniqueNames ReferencedObjectsExist QueuedOnce NoDoubleResult
SYMMETRY ClientSymmetry
CHECK_DEADLOCK FALSE
