\* Three commands, with kills, failed rollbacks, fatal exits and recovery.
SPECIFICATION LockSpec
CONSTANTS
  Process = {p1, p2, p3}
  NoProcess = NoProcess
  MaxRuns = 6
SYMMETRY ProcessSymmetry
CHECK_DEADLOCK FALSE
INVARIANTS
  MutualExclusion
  HalfwayIsMarked
  StaleLockExplained
