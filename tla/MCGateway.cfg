SPECIFICATION FairSpec
CONSTANTS
    a = a
    b = b
    c = c
    d = d
    Symbol <- MCSymbol
    Discarded = {d}
    MaxPerStream = 2
    MaxSequence = 2
INVARIANTS TypeOK SymbolsDistinct NoSymbolForgotten EverySymbolHasStream SubscribedExactlyOnce
PROPERTIES ImplementsFeed EventuallyServed
CHECK_DEADLOCK FALSE
