SPECIFICATION Spec
CONSTANTS
  n1 = n1
  n2 = n2
  v1 = v1
  v2 = v2
  Namespaces <- OneNamespace
  Volumes <- TwoVolumes
  NsOf <- BothInN1
  Mounted <- TwoVolumes
  Leftover <- None
  Suffixed <- OneNamespace
  Timeouts = TRUE
  MaxFaults = 2
  MaxConflicts = 1
  MaxCrashes = 1
  MaxLags = 0
INVARIANTS
  TypeOK
  Coherent
  SnapshotSurvives
  RestoredVolumeSurvives
  NoLeak
  CompletedExported
  CompletedClean
  RetriesAreSafe
PROPERTIES
  PhaseNeverRegresses
  TerminalIsFinal
  ImplementsLifecycle
  KeepsCustody
SYMMETRY VolumeSymmetry
