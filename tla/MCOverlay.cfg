CONSTANTS
  Task = {l1, l2}
  Artifact = {g}
  Grafana = g
  NoArtifact = none
  MaxRelease = 2
  MaxKill = 2
SPECIFICATION OverlaySpec
INVARIANTS MarkedIsWhole OverlayInv
PROPERTIES Implements
CHECK_DEADLOCK FALSE
