SPECIFICATION Spec
CONSTANTS
    e1 = e1
    e2 = e2
    e3 = e3
    e4 = e4
    NULL = NULL
    Events <- MCEvents
    MaxItems = 3
SYMMETRY Symmetry
INVARIANTS
    Represents
    UsedExact
    OperationsAreFifo
