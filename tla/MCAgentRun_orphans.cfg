CONSTANTS
  i1 = i1
  i2 = i2
  NumRuns = 2
  MaxMembers = 2
  MaxDepth = 1
  MaxConcurrency = 1
  RunSlots = 1
  QueueLimit = 1
  Instances = {i1, i2}
  InstanceOf <- InstancePerRun
  Reconcilers = {1}
  MaxFaults = 0
  MaxCrashes = 1
  MaxRetries = 0
SPECIFICATION Spec
INVARIANTS
  SlotsRespected
  ExclusiveOwnership
  NothingQueuedIsLost
