SPECIFICATION Spec
CONSTANTS
  Paths = {p1, p2}
  Contents = {c1, c2}
  NoFile = NoFile
  Partial = Partial
  Kinds = {"write", "rename", "delete", "drop", "read", "archive"}
  MaxOps = 2
  MaxLists = 1
  MaxFaults = 1
  MaxCrashes = 1
INVARIANT IndexedFilesExist
CHECK_DEADLOCK FALSE
