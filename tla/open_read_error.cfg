SPECIFICATION BackupSpec
CONSTANTS
  n1 = n1
  x = x
  None = None
  Server = {n1}
  Command = {x}
  Kinds = {"file"}
  Histories <- TwoHistories
  MaxTerm = 2
  MaxIndex = 3
  MaxCalls = 2
  MaxErrors = 1
  MaxReadErrors = 1
  MaxCrashes = 2
  MaxDamage = 1
PROPERTIES SyncedSurvives
CHECK_DEADLOCK FALSE
