CONSTANTS
    short = short
    long = long
    Writer = {short, long}
    SizeOf <- MCSizeOf
    HEADER_SIZE = 1
    TRAILER_SIZE = 2
    Capacities = {2, 3}
    MaxCapacity = 3
    MaxRounds = 2
SPECIFICATION Spec
INVARIANTS
    BytesInv
    PayloadIsExact
    FrameIsExact
