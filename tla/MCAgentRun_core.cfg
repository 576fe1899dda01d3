CONSTANTS
  i1 = i1
  i2 = i2
  NumRuns = 1
  MaxMembers = 2
  MaxDepth = 1
  MaxConcurrency = 2
  RunSlots = 2
  QueueLimit = 2
  Instances = {i1}
  InstanceOf <- OneInstance
  Reconcilers = {1}
  MaxFaults = 1
  MaxCrashes = 2
  MaxRetries = 0
SPECIFICATION FairSpec
INVARIANTS
  TypeOK
  ClosedBeforeUnmount
  TerminalMemberClosed
PROPERTIES
  TerminalIsFinal
  EveryRunEnds
