CONSTANTS
  Procs = {p1, p2, p3}
  None = None
  Attempts = 3
  CrashPoints = {"mkdir", "inspect", "incomplete", "claim", "fill", "observe", "quarantine", "compare", "link", "reread", "mismatch", "match", "remove", "uninit", "held", "updTmp", "updCheck", "updRename", "unlock"}
SYMMETRY Perms
SPECIFICATION Spec
INVARIANTS
  TypeOK
  MutualExclusion
  HolderOnDisk
CHECK_DEADLOCK FALSE
