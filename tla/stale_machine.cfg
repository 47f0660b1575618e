SPECIFICATION SpecService
CONSTANTS
  n1 = n1
  n2 = n2
  n3 = n3
  None = None
  Server <- Nodes3
  InitVoters <- Nodes3
  Command <- Mutations
  ReadContext <- Contexts
  NewVoterSets = {}
  Agendas <- Scripts
  Endpoint = {n1, n2}
  Restarting = {n1}
  MaxCalls = 3
  QueueCapacity = 1
  Driver = "server"
  SnapshotEntries = 3
  Electable = {n1, n2}
  Heartbeats = FALSE
  Lost = {}
  MaxTimeouts = 1
  MaxTransfers = 0
  MaxDuplicates = 0
  MaxTerm = 2
  MaxProposals = 0
  MaxConfigs = 0
  MaxReads = 0
  MaxFaults = 0
  MaxRestarts = 1
  MaxCompactions = 0
INVARIANTS MachineIsFold
CHECK_DEADLOCK FALSE
