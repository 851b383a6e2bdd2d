CONSTANTS
  u1 = u1
  u2 = u2
  u3 = u3
  NULL = NULL
  Machines = {1, 2}
  Users = {u1, u2, u3}
  Host <- MCHost
  Routes <- Contention
  MaxSends = 1
  Lossy = TRUE
SPECIFICATION FairSpec
INVARIANTS OneSendAtATime WorkerFindsPacket
PROPERTIES AreQueues SendReturns MailIsReceived
CHECK_DEADLOCK FALSE
