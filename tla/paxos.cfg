SPECIFICATION Spec
CONSTANTS
  v1 = v1
  v2 = v2
  N = 3
  Value = {v1, v2}
  NoValue = NoValue
  TimeoutBase = 4
  TimeoutStep = 1
  MaxDelay = 1
  Plans <- SixPlans
  MaxNow = 5
  Clients <- TwoClients
  MaxProposals = 2
INVARIANTS SingleChoice RootIsEarliest AcceptedOnce DecidedIsChosen QuietClusterChooses
PROPERTIES EngineIsNetwork
CHECK_DEADLOCK FALSE
