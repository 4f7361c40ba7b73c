\* Processes that start, stop, fail and are killed under load.
SPECIFICATION FairSpec
CONSTANTS
  Server = {s1, s2}
  Handler = {h1, h2, h3}
  MaxSlots = 2
  NoServer = NoServer
INVARIANTS
  OneServer
  WorkCovered
  CountsExact
PROPERTIES
  StopEnds
