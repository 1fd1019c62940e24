SPECIFICATION Spec
CONSTANTS
  Controls = {c1}
  Groups = {g}
  None = none
  MaxPool = 4
  MaxFrames = 4
CHECK_DEADLOCK FALSE
INVARIANT SuspendedAlive
