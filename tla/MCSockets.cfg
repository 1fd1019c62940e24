CONSTANTS
  Sockets = {a, b}
  None = None
  MaxFd = 2
  MaxUnits = 1
  MaxQueue = 2
  MaxFrames = 2
  MaxCalls = 3
SPECIFICATION Spec
INVARIANT TypeOK
INVARIANT WatchesWanted
INVARIANT SafeUnlessReentered
 
 
PROPERTY CloseTerminates
CHECK_DEADLOCK FALSE
