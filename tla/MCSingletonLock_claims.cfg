CONSTANTS
  Procs = {p1, p2, p3, p4}
  None = None
  Attempts = 2
  CrashPoints = {"held"}
SYMMETRY Perms
SPECIFICATION Spec
INVARIANTS
  MutualExclusion
CHECK_DEADLOCK FALSE
