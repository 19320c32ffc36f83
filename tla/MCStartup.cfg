CONSTANTS
    Name <- MCName
    Value <- MCValue
    File <- MCFile
    MaxSections = 3
SPECIFICATION Spec
INVARIANTS
    TypeOK
    OutcomeRight
    ServerHasFile
CHECK_DEADLOCK FALSE
