CONSTANTS
  MaxKill = 2
  MaxFault = 2
SPECIFICATION FairBootSpec
PROPERTY ApplyIsRerunnable
CHECK_DEADLOCK FALSE
