\* Is a published snapshot complete, whatever stopped or ran before?
SPECIFICATION Spec
CONSTANTS
  Blob = {b1}
  NoBlob = NoBlob
  MaxCommits = 1
CHECK_DEADLOCK FALSE
PROPERTIES
  PublishComplete
