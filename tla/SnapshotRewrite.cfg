\* Are existing objects left alone?
SPECIFICATION Spec
CONSTANTS
  Blob = {b1}
  NoBlob = NoBlob
  MaxCommits = 2
CHECK_DEADLOCK FALSE
PROPERTIES
  NeverRewritten
