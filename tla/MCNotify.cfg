SPECIFICATION Spec
CONSTANTS
  Workers = {w1, w2}
  Events = {e1, e2}
  None = none
  MaxPushes = 2
  MaxNested = 1
CHECK_DEADLOCK FALSE
VIEW View
INVARIANT TypeOK
INVARIANT BlocksUntilRun
INVARIANT EventsExclusive
INVARIANT BlockedIsKnown
PROPERTY BlockedReturns
