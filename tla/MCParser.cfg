SPECIFICATION Spec
CONSTANTS
    Message <- MCMessage
    KnownMethod <- MCKnownMethod
    UndefinedMethod <- MCUndefinedMethod
INVARIANTS TypeOK OrderIrrelevant OutcomeTellsEvent DispatchedOnce
CHECK_DEADLOCK FALSE
