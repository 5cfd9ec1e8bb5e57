CONSTANTS
  Waiters = {w1, w2}
  MaxVersion = 3
  MaxNodes = 3
  MaxRef = 3
SPECIFICATION Spec
INVARIANTS LoneWaitSafe
PROPERTIES SetWakesLoneWaiter
CHECK_DEADLOCK FALSE
