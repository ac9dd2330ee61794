CONSTANTS
    Enqueuers = {}
    Dequeuers = {d1, d2}
    Closers = {c}
    Nobody = Nobody
    Sizes = {1}
    Capacities = {1}
    EnqueueModes = {"sync"}
    DequeueModes = {"sync"}
    SPIN_LIMIT = 1
    OneAtATime = FALSE
    CanReopen = FALSE
SPECIFICATION FairSpec
PROPERTIES
    CloseEndsOperations
