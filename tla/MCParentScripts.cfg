SPECIFICATION Spec
CONSTANTS
  a = a
  b = b
  c = c
  s = s
  Controls <- MCControls
  Stacks <- MCStacks
  Home <- MCHome
  Later <- MCLater
  Names = {A, B}
  Ids = {i, j}
  None = None
  MaxFrames = 1
  MaxChanges = 6
SYMMETRY Symmetry
INVARIANT TypeOK
 
 
INVARIANT ChecksSuffice
CHECK_DEADLOCK FALSE
