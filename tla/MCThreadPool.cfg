CONSTANTS
  Names = {n1, n2}
  NoName = NoName
  MaxId = 2
SPECIFICATION FairSpec
INVARIANTS NoLostCommand OneThreadPerName StopNameReaches
PROPERTIES KeepsContract Served StopPoolEnds
CHECK_DEADLOCK FALSE
