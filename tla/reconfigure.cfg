SPECIFICATION SpecReconfigure
CONSTANTS
  n1 = n1
  n2 = n2
  n3 = n3
  x = x
  r1 = r1
  None = None
  Server <- Nodes3
  InitVoters <- Nodes3
  Command = {x}
  ReadContext = {}
  NewVoterSets = {{n2, n3}}
  Driver = "caller"
  SnapshotEntries = 0
  Electable = {}
  Heartbeats = FALSE
  Lost = {}
  MaxTimeouts = 0
  MaxTransfers = 0
  MaxDuplicates = 0
  MaxTerm = 1
  MaxProposals = 1
  MaxConfigs = 2
  MaxReads = 0
  MaxFaults = 1
  MaxRestarts = 1
  MaxCompactions = 2
INVARIANTS DiskMirrorsNode StoreContractKept CommittedConfigAgreement JointCommittedOpensFinal RecoverySucceeds
CHECK_DEADLOCK FALSE
