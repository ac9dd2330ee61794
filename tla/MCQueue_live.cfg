CONSTANTS
    elem_a = elem_a
    elem_b = elem_b
    elem_x = elem_x
    Uninit = Uninit
    Producers = {p1, p2}
    Consumers = {c1, c2}
    Element <- MCElement
    Values <- OneOrTwo
    Inserts <- NoInserts
    Capacities = {1}
    InitCapacity = 2
    MaxCapacity = 2
    CanReopen = FALSE
    CanPanic = FALSE
SPECIFICATION FairSpec
PROPERTIES
    AcceptedIsLent
    EmptyIsTrue
