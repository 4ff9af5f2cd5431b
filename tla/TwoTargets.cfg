SPECIFICATION Spec
CONSTANTS
  i1 = i1
  i2 = i2
  n1 = n1
  n2 = n2
  k1 = k1
  k2 = k2
  NoImport = NoImport
  Imports <- OneImport
  SnapshotOnly <- Full
  Targets <- IntoTwo
  Key <- KeyOfOne
  Copies <- CopyIsDone
  Timeouts = FALSE
  MaxFaults = 0
  MaxConflicts = 0
  MaxCrashes = 0
  MaxExpiries = 0
INVARIANTS
  CompletedRestored
