SPECIFICATION Spec
CONSTANTS
  Nodes = {1, 2}
  Stranger = 3
  Wrap = 12
  MaxDelay = 1
  MaxSteps = 3
  MaxMessages = 2
  MaxFaults = 2
INVARIANTS AnswersMatch DeliveredOnce
PROPERTIES CloseReaps
CHECK_DEADLOCK FALSE
