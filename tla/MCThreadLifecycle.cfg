CONSTANTS
  Objs = {o1, o2}
  MaxStarts = 2
SPECIFICATION FairSpec
INVARIANTS NotRunningIsOver StopLeavesNoThread InitPublished AtMostOneLateCall
PROPERTIES KeepsContract StopReaches
CHECK_DEADLOCK FALSE
