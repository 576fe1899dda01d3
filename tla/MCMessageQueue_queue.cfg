SPECIFICATION FairSpec
CONSTANTS
  Messages = {1, 2, 3}
  QueueLimit = 2
  MaxOps = 2
  MaxFaults = 1
  MaxCrashes = 1
INVARIANTS TypeOK NothingLost SentOnce AttachmentsHeld
PROPERTIES StopHolds QueueMoves
CHECK_DEADLOCK FALSE
