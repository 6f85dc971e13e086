CONSTANTS
  MaxKill = 2
  MaxFault = 2
SPECIFICATION FairBootSpec
INVARIANTS BootInv OnlyWedgesStop
PROPERTIES UserDataKept BootSettles
CHECK_DEADLOCK FALSE
