SPECIFICATION Spec
CONSTANTS
  n1 = n1
  n2 = n2
  v1 = v1
  v2 = v2
  Namespaces <- OneNamespace
  Volumes <- OneVolume
  NsOf <- V1InN1
  Mounted <- OneVolume
  Leftover <- None
  Suffixed <- None
  Timeouts = TRUE
  MaxFaults = 1
  MaxConflicts = 0
  MaxCrashes = 0
  MaxLags = 0
INVARIANTS
  CompletedHoldsData
