SPECIFICATION SpecElection
CONSTANTS
  n1 = n1
  n2 = n2
  n3 = n3
  x = x
  r1 = r1
  None = None
  Server <- Nodes3
  InitVoters <- Nodes3
  Command = {}
  ReadContext = {}
  NewVoterSets = {}
  Driver = "server"
  SnapshotEntries = 0
  Electable <- Nodes3
  Heartbeats = FALSE
  Lost = {"Append"}
  MaxTimeouts = 2
  MaxTransfers = 0
  MaxDuplicates = 0
  MaxTerm = 2
  MaxProposals = 0
  MaxConfigs = 0
  MaxReads = 0
  MaxFaults = 1
  MaxRestarts = 1
  MaxCompactions = 0
SYMMETRY Symmetric
INVARIANTS ElectionSafety OneVotePerTerm NoTermWithoutQuorum LeaderCompleteness
CHECK_DEADLOCK FALSE
