CONSTANTS
    Enqueuers = {e1}
    Dequeuers = {d1}
    Closers = {c}
    Nobody = Nobody
    Sizes = {1}
    Capacities = {1}
    EnqueueModes = {"sync", "async"}
    DequeueModes = {"stream"}
    SPIN_LIMIT = 1
    OneAtATime = TRUE
    CanReopen = FALSE
SPECIFICATION FairSpec
PROPERTIES
    CloseEndsOperations
    ValueEndsDequeue
    EnqueuerIsWoken
