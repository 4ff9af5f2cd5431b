SPECIFICATION FairSpec
CONSTANTS
  i1 = i1
  i2 = i2
  n1 = n1
  n2 = n2
  k1 = k1
  k2 = k2
  NoImport = NoImport
  Imports <- OneImport
  SnapshotOnly <- Full
  Targets <- IntoOne
  Key <- KeyOfOne
  Copies <- AnyCopy
  Timeouts = TRUE
  MaxFaults = 1
  MaxConflicts = 1
  MaxCrashes = 1
  MaxExpiries = 1
INVARIANTS
  ImportTypeOK
  CompletedRestored
PROPERTIES
  ImportNeverRegresses
  ImportImplementsLifecycle
  OriginAfterStagePods
  CanceledIsFailing
  ImportEnds
