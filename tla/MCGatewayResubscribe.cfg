SPECIFICATION Spec
CONSTANTS
    a = a
    b = b
    c = c
    d = d
    Symbol <- MCFewSymbols
    Discarded = {}
    MaxPerStream = 2
    MaxSequence = 1
PROPERTY ResubscribesAll
CHECK_DEADLOCK FALSE
