SPECIFICATION Spec
CONSTANTS
    Conns = {c1, c2}
    Pushes = {p1, p2}
    Streams = {}
    None = None
    Chunks = 2
    CheckpointEvery = 1
    Faults = {}
INVARIANTS
    BufferedBeforeLive
CHECK_DEADLOCK FALSE
