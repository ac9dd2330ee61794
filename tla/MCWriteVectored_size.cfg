CONSTANTS
    u = u
    v = v
    Blob <- MCBlob
    SizeOf <- MCSizeOf
    Uninit = Uninit
    EmptySlice = EmptySlice
    Header = Header
    Trailer = Trailer
    Capacities = {2}
    MaxCapacity = 2
    Modulus = 16
    Bounded = FALSE
SPECIFICATION Spec
INVARIANT TotalSizeIsExact
