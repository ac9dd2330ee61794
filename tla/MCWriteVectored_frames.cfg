CONSTANTS
    u = u
    v = v
    Blob <- MCBlob
    SizeOf <- MCSizeOf
    Uninit = Uninit
    EmptySlice = EmptySlice
    Header = Header
    Trailer = Trailer
    Capacities = {2, 3}
    MaxCapacity = 3
    Modulus = 16
    Bounded = FALSE
SPECIFICATION Spec
INVARIANTS
    VectoredInv
    
    FrameIsExact
    TotalSizeFollowsDrains
    SizeInv
