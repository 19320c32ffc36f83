CONSTANTS
    a = a
    b = b
    c = c
    Symbol <- MCSymbol
    MaxPerStream = 2
    REQUEST_ID = 8
    REPLACES <- MCReplaces
    MaxConnections = 2
SPECIFICATION Spec
SYMMETRY MCSymmetry
INVARIANTS
    TypeOK
    IdsDistinct
    FeedsServed
PROPERTIES
    IdsNotReused
    ImplementsPromise
CHECK_DEADLOCK FALSE
