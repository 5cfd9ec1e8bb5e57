CONSTANTS
  MaxConnections = 3
  MaxClients = 4
  MaxElements = 5
SPECIFICATION SingleFairSpec
INVARIANTS LimitKept
PROPERTIES AdmittedUntouched StopEnds
CHECK_DEADLOCK FALSE
