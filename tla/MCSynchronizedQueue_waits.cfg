CONSTANTS
    Enqueuers = {e1}
    Dequeuers = {d1}
    Closers = {c}
    Nobody = Nobody
    Sizes = {2}
    Capacities = {1, 2}
    EnqueueModes = {"timed", "try"}
    DequeueModes = {"sync", "timed", "async", "try", "iter", "resize"}
    SPIN_LIMIT = 1
    OneAtATime = TRUE
    CanReopen = TRUE
SPECIFICATION Spec
INVARIANTS
    SleepingDequeuerIsOwedAWake
    SleepingEnqueuerIsOwedAWake
    SlotIsExclusive
    FlagIsUp
    WaitInv
PROPERTIES
    DequeueErrIsTotal
CHECK_DEADLOCK FALSE
