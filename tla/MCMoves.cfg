SPECIFICATION Spec
CONSTANTS
    a = a
    b = b
    c = c
    None = None
    Objects <- MCObjects
    Deletable = {c}
    Awaited = {a, c}
    LegsOf <- MCLegsOf
    MaxHandlers = 1
INVARIANTS TypeOK OneMovePerObject NodesInUse
 
