CONSTANTS
    elem_a = elem_a
    elem_b = elem_b
    elem_x = elem_x
    Uninit = Uninit
    Producers = {p1, p2}
    Consumers = {c1}
    Element <- MCElement
    Values <- OneOrTwo
    Inserts <- InsertOneOrTwo
    Capacities = {0, 2}
    InitCapacity = 1
    MaxCapacity = 2
    CanReopen = TRUE
    CanPanic = TRUE
SPECIFICATION SpecDrop
SYMMETRY Symmetry
INVARIANTS
    IInv
    ResizeLosesNothing
    DebugAsserts
    CapacityIsPublished
    DropInv
    DropFreesOneBuffer
PROPERTIES
    ImplementsBatchQueue
    EmptyIsTrue
CHECK_DEADLOCK FALSE
