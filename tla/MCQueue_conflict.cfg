CONSTANTS
    elem_a = elem_a
    elem_b = elem_b
    elem_x = elem_x
    Uninit = Uninit
    Producers = {p1, p2}
    Consumers = {c1}
    Element <- MCElement
    Values <- OneOrTwo
    Inserts <- InsertOne
    Capacities = {}
    InitCapacity = 1
    MaxCapacity = 1
    CanReopen = FALSE
    CanPanic = FALSE
SPECIFICATION Spec
INVARIANT ConflictIsTrue
