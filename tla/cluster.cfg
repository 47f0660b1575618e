SPECIFICATION SpecCluster
CONSTANTS
  n1 = n1
  n2 = n2
  n3 = n3
  x = x
  r1 = r1
  None = None
  Server <- Nodes3
  InitVoters <- Nodes3
  Command = {x}
  ReadContext = {r1}
  NewVoterSets = {}
  Driver = "server"
  SnapshotEntries = 0
  Electable = {n2, n3}
  Heartbeats = FALSE
  Lost = {}
  MaxTimeouts = 2
  MaxTransfers = 0
  MaxDuplicates = 1
  MaxTerm = 2
  MaxProposals = 1
  MaxConfigs = 0
  MaxReads = 1
  MaxFaults = 1
  MaxRestarts = 1
  MaxCompactions = 0
INVARIANTS TypeOK AckDurable VoteDurable StateMachineSafety LeaderCompleteness ReadFreshness
PROPERTIES CommittedIsForever
CHECK_DEADLOCK FALSE
