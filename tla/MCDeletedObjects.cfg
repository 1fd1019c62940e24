SPECIFICATION SafetySpec
CONSTANTS
  Controls = {c1}
  Groups = {g}
  None = none
  MaxPool = 4
  MaxFrames = 4
CHECK_DEADLOCK FALSE
INVARIANT TypeOK
INVARIANT PoolsSound
INVARIANT NeverTwice
INVARIANT DeferredToItsWait
INVARIANT SuspendedSurvives
PROPERTY ImplementsDeferredDeletion
