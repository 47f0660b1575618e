SPECIFICATION Spec
CONSTANTS
  Depth = 1
  SQEntries = 2
  CQEntries = 4
  Wrap = 8
  Start = 6
  MaxRecords = 2
  MaxCalls = 4
  MaxErrors = 3
  MaxInterrupts = 1
INVARIANTS CountedIsDurable NoEntryOverwritten
PROPERTIES SyncReturns
CHECK_DEADLOCK FALSE
