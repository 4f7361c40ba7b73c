\* One pull with every failure, every kill, and edits before the swap.
SPECIFICATION FairSpec
CONSTANTS
  a = a
  b = b
  c = c
  d = d
  Name = {a, b, c, d}
  OldEntries = {a, b, c}
  NewEntries = {b, c, d}
CHECK_DEADLOCK FALSE
INVARIANTS
  Recoverable
  UnmarkedIsConsistent
  EditsSurvive
  ResultTruthful
PROPERTIES
  Ends
  ImplementsAtomic
