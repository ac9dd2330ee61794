CONSTANTS
    elem_a = elem_a
    elem_b = elem_b
    elem_x = elem_x
    Uninit = Uninit
    Producers = {p1, p2, p3}
    Consumers = {c1, c2}
    Element <- MCElement
    Values <- OneOrTwo
    Inserts <- InsertOne
    Capacities = {}
    InitCapacity = 2
    MaxCapacity = 2
    CanReopen = TRUE
    CanPanic = TRUE
SPECIFICATION Spec
SYMMETRY Symmetry
INVARIANTS
    TypeOK
    BatchInv
    LockIsExclusive
    ExclusiveAccess
    SliceIsInitialized
    InsertIsSafe
    
PROPERTIES
    ImplementsBatchQueue
    OnlyReopenReopens
