CONSTANTS
  c1 = c1
  c2 = c2
  lockA = lockA
  lockB = lockB
  cvA = cvA
  mvA = mvA
  NoClient = NoClient
  NULL = NULL
  Clients = {c1, c2}
  Servers = {0, 1}
  Names <- MCNames
  TableSize = 1
  Calls <- ObjectCalls
  MaxCalls = 2
  Disciplined = FALSE
SPECIFICATION FairSpec
INVARIANT NoDoubleResult
PROPERTY CallsReturn
CHECK_DEADLOCK FALSE
