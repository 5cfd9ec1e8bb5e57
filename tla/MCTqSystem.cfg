CONSTANTS
  Workers = {w1, w2}
  Limit = 2
SPECIFICATION FairSpec
INVARIANTS
  NoUseAfterDelete
  PoolOutlivesManager
PROPERTIES
  UninitEnds
CHECK_DEADLOCK FALSE
