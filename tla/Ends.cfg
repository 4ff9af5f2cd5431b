SPECIFICATION FairSpec
CONSTANTS
  n1 = n1
  n2 = n2
  v1 = v1
  v2 = v2
  Namespaces <- OneNamespace
  Volumes <- OneVolume
  NsOf <- V1InN1
  Mounted <- OneVolume
  Leftover <- None
  Suffixed <- OneNamespace
  Timeouts = TRUE
  MaxFaults = 1
  MaxConflicts = 1
  MaxCrashes = 1
  MaxLags = 0
PROPERTIES
  Terminates
  Reclaimed
