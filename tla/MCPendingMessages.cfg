SPECIFICATION Spec
CONSTANTS
  Objects = {card}
  Names = {idle, tick}
  Subs = {}
  None = None
  Idle = idle
  IdleRate = 1
  Limit = 2
  IdLimit = 3
  Delays = {0, 2}
  MaxTime = 2
  MaxList = 3
  MaxWaits = 2
  Wraps = FALSE
VIEW View
INVARIANT TypeOK
INVARIANT Ordered
INVARIANT OneTimer
PROPERTY DueRuns
PROPERTY RunsInTurn
