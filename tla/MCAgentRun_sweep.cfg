CONSTANTS
  i1 = i1
  i2 = i2
  NumRuns = 2
  MaxMembers = 1
  MaxDepth = 0
  MaxConcurrency = 1
  RunSlots = 2
  QueueLimit = 1
  Instances = {i1}
  InstanceOf <- OneInstance
  Reconcilers = {1}
  MaxFaults = 0
  MaxCrashes = 1
  MaxRetries = 0
SPECIFICATION Spec
INVARIANTS
  SweepsOnlyOrphans
