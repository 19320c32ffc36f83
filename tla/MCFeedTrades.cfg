SPECIFICATION HistorySpec
CONSTANTS
    s1 = s1
    s2 = s2
    bid = bid
    ask = ask
    Symbol <- MCSymbol
    Level <- MCLevel
    Quantity = {0, 1}
    MaxChannel = 3
    MaxConnections = 2
    MaxChanges = 2
SYMMETRY MCSymmetry
INVARIANT TradesPublishedOnce
CHECK_DEADLOCK FALSE
