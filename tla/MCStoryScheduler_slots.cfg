SPECIFICATION FairSpec
CONSTANTS
  Runs = {1, 2}
  Policies <- MCPolicies
  MaxQueued = 1
  MaxTickets = 3
  MaxRepeats = 0
  MaxCrashes = 0
PROPERTY SlotReleased
CHECK_DEADLOCK FALSE
