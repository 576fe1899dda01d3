SPECIFICATION FairSpec
CONSTANTS
  Procs = {1, 2}
  MaxCommands = 2
  MaxExits = 1
  MaxFaults = 1
  MaxLate = 1
  MaxCrashes = 1
INVARIANTS TypeOK SingleProcess LastCommandWins StoppedStaysStopped NotForgotten
PROPERTIES GateDrains RecoveryAttempted
CHECK_DEADLOCK FALSE
