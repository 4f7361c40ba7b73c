\* Two handlers on three branches; kills and failures anywhere.
SPECIFICATION FairSpec
CONSTANTS
  tree = tree
  c1 = c1
  c2 = c2
  c3 = c3
  merge = merge
  bad = bad
  main = main
  dev = dev
  devx = devx
  h1 = h1
  h2 = h2
  NoHash = NoHash
  NoHandler = NoHandler
  Handler = {h1, h2}
  Hash <- MCHash
  Kind <- MCKind
  Refs <- MCRefs
  Size <- MCSize
  Under <- MCUnder
  Branch = {main, dev, devx}
  Requests <- MCRequests
  MaxGraphObjects = 8
  MaxGraphBytes = 10
INVARIANTS
  RefsComplete
  AckedSurvive
  LeaseUsedOnce
  NamesUnoccupied
  NamespaceFree
PROPERTIES
  ImplementsRegister
  Answered
