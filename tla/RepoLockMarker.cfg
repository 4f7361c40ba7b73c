\* Can a command start work while sync-pending is there?
SPECIFICATION LockSpec
CONSTANTS
  Process = {p1, p2, p3}
  NoProcess = NoProcess
  MaxRuns = 2
SYMMETRY ProcessSymmetry
CHECK_DEADLOCK FALSE
INVARIANTS
  MarkerRefuses
