CONSTANTS
  c1 = c1
  c2 = c2
  lockA = lockA
  lockB = lockB
  cvA = cvA
  mvA = mvA
  NoClient = NoClient
  NULL = NULL
  Clients = {c1, c2}
  Servers = {1}
  Names <- MCNames
  TableSize = 2
  Calls <- MonitorCalls
  MaxCalls = 4
  Disciplined = FALSE
SPECIFICATION Spec
INVARIANTS TypeOK MutualExclusion FreeLocksHaveNoWaiters QueuedOnce WaitingLockIffWaiters NoDoubleResult NoLostCall NoTableGap
SYMMETRY ClientSymmetry
CHECK_DEADLOCK FALSE
