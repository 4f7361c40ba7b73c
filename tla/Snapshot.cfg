\* Commits that are killed or fail anywhere, next to hash-object -w.
SPECIFICATION Spec
CONSTANTS
  Blob = {b1, b2}
  NoBlob = NoBlob
  MaxCommits = 3
SYMMETRY BlobSymmetry
CHECK_DEADLOCK FALSE
INVARIANTS
  TypeOK
  HistoryReadable
  ListedAreStored
PROPERTIES
  TreeReadableAtPublish
