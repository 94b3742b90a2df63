SPECIFICATION Spec
CONSTANTS
    Conns = {c1, c2}
    Pushes = {p1}
    Streams = {}
    None = None
    Chunks = 2
    CheckpointEvery = 1
    Faults = {"drop"}
INVARIANTS
    NoTurnLost
CHECK_DEADLOCK FALSE
