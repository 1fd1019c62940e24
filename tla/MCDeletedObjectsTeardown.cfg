SPECIFICATION Spec
CONSTANTS
  Controls = {c1}
  Groups = {}
  None = none
  MaxPool = 3
  MaxFrames = 3
CHECK_DEADLOCK FALSE
PROPERTY TeardownCompletes
