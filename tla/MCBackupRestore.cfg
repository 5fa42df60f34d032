SPECIFICATION Spec
CONSTANTS
  b1 = b1
  b2 = b2
  r1 = r1
  r2 = r2
  source = source
  restored = restored
  None = None
  Backup <- MCTwoBackups
  Restore <- MCTwoRestores
  Name <- MCName
  Source = source
  MaxRev = 2
  FirstComplete = 1
  MaxRows = 1
  MaxSecond = 1
  SameSecond = FALSE
INVARIANTS
  PublishedIsWhole
  BackupIsRestorable
  TargetHasOneRestore
  RestoredIsTheBackup
SYMMETRY Symmetry
CHECK_DEADLOCK FALSE
