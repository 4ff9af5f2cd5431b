SPECIFICATION FairSpec
CONSTANTS
  e1 = e1
  e2 = e2
  n1 = n1
  b1 = b1
  NoExport = NoExport
  Namespaces <- OneNamespace
  Backups <- OneBackup
  Exports <- TwoExports
  Claimed <- SameNamespace
  BackupOf <- SameBackup
  Overflows <- OnlyE2
  Timeouts = TRUE
  MaxFaults = 1
INVARIANTS
  QueueTypeOK
  Exclusive
  KeptForRetention
PROPERTIES
  QueueImplementsLifecycle
  EveryExportEnds
  ExpiredIsDeleted
