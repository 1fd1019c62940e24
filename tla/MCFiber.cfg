SPECIFICATION Spec
CONSTANTS
  Fibers = {main, script, other}
  Main = main
  None = none
  MaxDepth = 2
CHECK_DEADLOCK FALSE
INVARIANT TypeOK
INVARIANT OneRuns
 
 
PROPERTY SwitchesAtomically
