CONSTANTS
  Conns = {c1, c2, c3}
  MaxConnections = 3
  MaxQueue = 2
  MaxStarts = 2
SPECIFICATION FairSpec
INVARIANTS NothingOutlives
PROPERTIES KeepsPromise ClientsAnswered SessionsReclaimed StopEnds
CHECK_DEADLOCK FALSE
