SPECIFICATION Spec
CONSTANTS
  Customers = {c1, c2}
  Senators = {s1}
  Kinds <- OnlyPictures
  ClerkCount <- TwoOfEach
  LongLine = 0
  MaxBribes = 1
  NoOne = NoOne
INVARIANTS
  TypeOK
  ALineIsOpen
  OneAtEachCounter
CHECK_DEADLOCK FALSE
