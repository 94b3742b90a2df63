SPECIFICATION Spec
CONSTANTS
    Conns = {c1, c2}
    Pushes = {}
    Streams = {s1}
    None = None
    Chunks = 2
    CheckpointEvery = 1
    Faults = {}
INVARIANTS
    StreamWhole
CHECK_DEADLOCK FALSE
