CONSTANTS
  Threads = {t1, t2, t3, t4}
  Locks = {lockA, lockB}
  Conds = {cvA}
  Sems = {semA}
  NULL = NULL
  Initial <- InitialZero
  MaxValue = 2
  Disciplined = FALSE
SPECIFICATION FairSpec
INVARIANTS TypeOK InsideOwns WokenOwns FreeUnowned SignalFindsWaiter QueuedWhereAsleep NoLostV
PROPERTY BroadcastReturns
CHECK_DEADLOCK FALSE
