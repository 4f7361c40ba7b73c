\* Every race of two clients, killed anywhere, with one request that arrives
\* late, or twice; liveness is checked, hence no symmetry.
SPECIFICATION FairSpec
CONSTANTS
  tree = tree
  c1 = c1
  c2 = c2
  c3 = c3
  other = other
  p1 = p1
  p2 = p2
  NoHash = NoHash
  Hash <- MCHash
  Kind <- MCKind
  Refs <- MCRefs
  Size <- MCSize
  MaxGraphObjects = 10
  MaxGraphBytes = 10
  Client = {p1, p2}
  MaxLate = 1
INVARIANTS
  TypeOK
  LocalComplete
  LogIsHistory
  AckedSurvive
PROPERTIES
  LogAppendOnly
  ImplementsRegister
  CommandsEnd
