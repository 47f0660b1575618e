SPECIFICATION SpecHandover
CONSTANTS
  n1 = n1
  n2 = n2
  n3 = n3
  x = x
  r1 = r1
  None = None
  Server <- Nodes3
  InitVoters <- Nodes3
  Command = {x}
  ReadContext = {}
  NewVoterSets = {}
  Driver = "server"
  SnapshotEntries = 0
  Electable = {}
  Heartbeats = TRUE
  Lost = {}
  MaxTimeouts = 0
  MaxTransfers = 1
  MaxDuplicates = 0
  MaxTerm = 2
  MaxProposals = 1
  MaxConfigs = 0
  MaxReads = 0
  MaxFaults = 0
  MaxRestarts = 0
  MaxCompactions = 0
INVARIANTS LogMatching
PROPERTIES FollowersCatchUp TransferHandsOver
CHECK_DEADLOCK FALSE
