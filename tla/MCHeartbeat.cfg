SPECIFICATION Spec
CONSTANTS
    PING_FREQUENCY = 3
    TIMER_PERIOD = 2
    LATENCY = 1
    IDLE_TIMEOUT = 6
    MaxTime = 18
INVARIANTS TypeOK QuietConnectionKept HalfOpenDetected
PROPERTY PingsSpaced
