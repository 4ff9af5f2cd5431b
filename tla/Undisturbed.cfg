SPECIFICATION ServedSpec
CONSTANTS
  n1 = n1
  n2 = n2
  v1 = v1
  v2 = v2
  Namespaces <- TwoNamespaces
  Volumes <- TwoVolumes
  NsOf <- OneEach
  Mounted <- TwoVolumes
  Leftover <- None
  Suffixed <- TwoNamespaces
  Timeouts = FALSE
  MaxFaults = 0
  MaxConflicts = 0
  MaxCrashes = 0
  MaxLags = 2
INVARIANTS
  NoSpuriousFailure
PROPERTIES
  Completes
