SPECIFICATION FairSpec
CONSTANTS
  Customers = {c1}
  Senators = {s1}
  Kinds <- AllKinds
  ClerkCount <- OneOfEach
  LongLine = 0
  MaxBribes = 0
  NoOne = NoOne
INVARIANT
  DocumentsInOrder
PROPERTY
  EveryoneLeaves
CHECK_DEADLOCK FALSE
