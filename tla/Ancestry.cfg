\* All questions about one graph, with every set of readable commits.
SPECIFICATION SearchSpec
CONSTANTS
  c1 = c1
  c2 = c2
  c3 = c3
  m = m
  d = d
  o = o
  Commit <- MCCommit
  Parents <- MCParents
  LegacySets <- MCLegacySets
CHECK_DEADLOCK FALSE
INVARIANTS
  AnswerSound
