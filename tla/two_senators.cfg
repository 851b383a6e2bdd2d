SPECIFICATION FairSpec
CONSTANTS
  Customers = {c1}
  Senators = {s1, s2}
  Kinds <- OnlyPictures
  ClerkCount <- TwoOfEach
  LongLine = 0
  MaxBribes = 0
  NoOne = NoOne
INVARIANT
  SenatorsAlone
PROPERTY
  EveryoneLeaves
CHECK_DEADLOCK FALSE
