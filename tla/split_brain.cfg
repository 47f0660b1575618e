SPECIFICATION SpecShrunk
CONSTANTS
  n1 = n1
  n2 = n2
  n3 = n3
  x = x
  r1 = r1
  None = None
  Server <- Nodes3
  InitVoters <- Nodes3
  Command = {x}
  ReadContext = {}
  NewVoterSets = {}
  Driver = "caller"
  SnapshotEntries = 0
  Electable = {n2}
  Heartbeats = FALSE
  Lost = {}
  MaxTimeouts = 1
  MaxTransfers = 0
  MaxDuplicates = 1
  MaxTerm = 2
  MaxProposals = 1
  MaxConfigs = 0
  MaxReads = 0
  MaxFaults = 0
  MaxRestarts = 0
  MaxCompactions = 0
INVARIANTS StateMachineSafety
CHECK_DEADLOCK FALSE
