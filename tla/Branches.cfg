\* All sequences of commands on three branches with two commits.
SPECIFICATION Spec
CONSTANTS
  main = main
  x = x
  xy = xy
  a = a
  ab = ab
  c = c
  one = one
  two = two
  None = None
  Dir = Dir
  Cut = Cut
  NoBranch = NoBranch
  NoLog = NoLog
  Branch <- MCBranch
  Above <- MCAbove
  Node <- MCNode
  Up <- MCUp
  Content = {one, two, Cut}
  Edits <- MCEdits
  MaxCommits = 2
INVARIANTS
  RestoreExact
  UntouchedIsTip
  NoNesting
PROPERTIES
  ImplementsBranchMap
