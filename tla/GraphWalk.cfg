\* Every walk over every readable part of a small graph.
SPECIFICATION FairSpec
CONSTANTS
  blob = blob
  tree = tree
  c1 = c1
  c2 = c2
  c3 = c3
  merge = merge
  bad = bad
  big = big
  NoHash = NoHash
  Hash <- MCHash
  Kind <- MCKind
  Refs <- MCRefs
  Size <- MCSize
  Roots <- MCRoots
  MaxGraphObjects = 9
  MaxGraphBytes = 6
CHECK_DEADLOCK FALSE
INVARIANTS
  AcceptSound
  IncompleteSound
  LimitsExact
PROPERTIES
  WalkEnds
