SPECIFICATION SafetySpec
CONSTANTS
  Workers = {w1, w2}
  Events = {e1, e2}
  None = none
  MaxPushes = 2
  MaxNested = 0
CHECK_DEADLOCK FALSE
INVARIANT NoSleepOnWork
