SPECIFICATION Spec
CONSTANTS
  MaxFileSize = 2
  MaxBackupFiles = 2
  MaxBatch = 2
  MaxEntries = 6
  MaxFailures = 2
  MaxCrashes = 1
  MaxStarts = 1
INVARIANTS TypeOK OneLossPerFault BackupIsNth SizeAccounts AllEntriesKept
PROPERTY LiveKept
PROPERTY LossBounded
CHECK_DEADLOCK FALSE
