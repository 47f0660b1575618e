SPECIFICATION BackupSpec
CONSTANTS
  n1 = n1
  x = x
  None = None
  Server = {n1}
  Command = {x}
  Kinds = {"memory", "file", "uring", "fault"}
  Histories <- TwoHistories
  MaxTerm = 2
  MaxIndex = 3
  MaxCalls = 2
  MaxErrors = 1
  MaxReadErrors = 0
  MaxCrashes = 2
  MaxDamage = 1
INVARIANTS MemoryMirrorsMedium RestoredIsOriginal
PROPERTIES StoreIsAtomic AcceptedImageIsGenuine RecoveryCompletes
CHECK_DEADLOCK FALSE
