SPECIFICATION Spec
CONSTANTS
    RATE_LIMIT = TRUE
    OFFSET = 1
    DEFAULT_BACKOFF = 2
    BLOCKED_BACKOFF = 4
    MIN_BACKOFF = 1
    LimitStatus <- MCLimitStatus
    ResetTimestamp <- MCResetTimestamp
    MaxTime = 7
INVARIANT TypeOK ExhaustedSuspends ForbiddenSuspends SuspensionBounded
