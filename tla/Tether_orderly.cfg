SPECIFICATION Spec
CONSTANTS
    Conns = {c1, c2, c3}
    Pushes = {p1, p2}
    Streams = {s1}
    None = None
    Chunks = 1
    CheckpointEvery = 2
    Faults = {}
INVARIANTS
    NoTurnLost
    NoDuplicateDelivery
    ServedIsRegistered
PROPERTIES
    ImplementsReliableTether
CHECK_DEADLOCK FALSE
SYMMETRY Symmetry
