CONSTANTS
  i1 = i1
  i2 = i2
  NumRuns = 1
  MaxMembers = 3
  MaxDepth = 1
  MaxConcurrency = 2
  RunSlots = 1
  QueueLimit = 1
  Instances = {i1}
  InstanceOf <- OneInstance
  Reconcilers = {c1, c2}
  MaxFaults = 0
  MaxCrashes = 1
  MaxRetries = 1
SYMMETRY PassPerms
SPECIFICATION Spec
INVARIANTS
  SlotsRespected
  NothingQueuedIsLost
  ClosedBeforeUnmount
PROPERTIES
  TerminalIsFinal
