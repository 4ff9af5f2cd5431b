SPECIFICATION FairSpec
CONSTANTS
  p = p
  q = q
  r = r
  x = x
  v = v
  w = w
  sp = sp
  sq = sq
  sr = sr
  sx = sx
  AppPods <- FourPods
  VolumesOf <- Nested
  StageName <- CutNames
  Altered <- RAndX
  Invalid <- CutAtDash
  MaxFaults = 2
  MaxChanges = 1
INVARIANTS
  StageTypeOK
  VolumesAreStaged
  CopiedWhenRunning
PROPERTIES
  StagingEnds
CHECK_DEADLOCK FALSE
