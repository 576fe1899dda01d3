SPECIFICATION FairSpec
CONSTANTS
  Runs = {1, 2}
  Policies <- MCPolicies
  MaxQueued = 1
  MaxTickets = 3
  MaxRepeats = 1
  MaxCrashes = 1
INVARIANTS TypeOK FifoSlots QueuedIsOwned SkippedNeverDispatched RunningHoldsSlot
PROPERTIES QueuedDecided
CHECK_DEADLOCK FALSE
