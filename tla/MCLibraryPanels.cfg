CONSTANTS
  a1 = a1
  a2 = a2
  b1 = b1
  b2 = b2
  A = A
  B = B
  Order <- MCOrder
  Owner <- MCOwner
  Title <- MCTitle
  Terse = {a1}
  Bad <- MCBad
  MaxRelease = 2
  MaxFolder = 5
  MaxEdit = 2
  MaxFault = 2
SPECIFICATION FairSpec
INVARIANTS PassInv
PROPERTIES EditsAreSeen NoNeedlessWrite GoodPrefixPublished
