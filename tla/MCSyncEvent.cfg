CONSTANTS
  Waiters = {w1, w2}
  Signalers = {s1, s2}
  NoThread = none
SPECIFICATION EventFairSpec
INVARIANTS NoLostWakeup
PROPERTIES SignalReleases
CHECK_DEADLOCK FALSE
