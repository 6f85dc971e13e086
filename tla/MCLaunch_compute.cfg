CONSTANTS
  p1 = p1
  p2 = p2
  p3 = p3
  Pid = {p1, p2, p3}
  NoPid = NoPid
  Program <- MCProgram
  NoProgram = NoProgram
  Kind = {"compute"}
  MaxLaunch = 2
  MaxRestarts = 1
  MaxCrash = 2
SPECIFICATION MCSpec
CHECK_DEADLOCK FALSE
INVARIANTS
  ReadyIsAttended
