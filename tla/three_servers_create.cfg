CONSTANTS
  c1 = c1
  c2 = c2
  lockA = lockA
  lockB = lockB
  cvA = cvA
  mvA = mvA
  NoClient = NoClient
  NULL = NULL
  Clients = {c1, c2}
  Servers = {0, 1, 2}
  Names <- MCNames
  TableSize = 1
  Calls <- CreateCalls
  MaxCalls = 1
  Disciplined = TRUE
SPECIFICATION Spec
INVARIANTS UniqueNames
SYMMETRY ClientSymmetry
CHECK_DEADLOCK FALSE
