SPECIFICATION FairSpec
CONSTANTS
  MaxBackups = 3
  MaxRestores = 2
  MaxFaults = 2
CHECK_DEADLOCK FALSE
INVARIANTS
  CommandTypeOK
  BackupHoldsData
PROPERTIES
  DataFirst
  BackupEnds
