SPECIFICATION Spec
CONSTANTS
  S1 = S1
  S2 = S2
  T1 = T1
  T2 = T2
  T3 = T3
  Spaces <- TwoSpaces
  Threads <- TwoThreads
  NoSpace = NoSpace
  NoThread = NoThread
  NumPhysPages = 2
  TLBSize = 2
  NumSwapPages = 2
  numNonStackPages = 1
  StackPages = 1
  USEFIFO = TRUE
  MaxForks = 1
  MaxExecs = 1
SYMMETRY Symmetry
INVARIANTS WasInExecutable
CHECK_DEADLOCK FALSE
