CONSTANTS
  p1 = p1
  p2 = p2
  p3 = p3
  Pid = {p1, p2, p3}
  NoPid = NoPid
  Program = {1, 2}
  NoProgram = 0
  NumSvc = 2
  MaxRestarts = 1
  MaxCrash = 1
  MaxRuns = 2
SPECIFICATION MCSpec
CHECK_DEADLOCK FALSE
INVARIANTS
  TypeOK
  OneOwner
  StrayIsDying
  SilentOnlyInShutdown
  SurvivorRaced
PROPERTIES
  PlaneSettles
