SPECIFICATION Spec
CONSTANTS
  n1 = n1
  n2 = n2
  v1 = v1
  v2 = v2
  Namespaces <- OneNamespace
  Volumes <- OneVolume
  NsOf <- V1InN1
  Mounted <- OneVolume
  Leftover <- OneNamespace
  Suffixed <- None
  Timeouts = TRUE
  MaxFaults = 0
  MaxConflicts = 0
  MaxCrashes = 0
  MaxLags = 0
INVARIANTS
  PrepareDeletesTemp
