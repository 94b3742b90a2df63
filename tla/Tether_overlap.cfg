SPECIFICATION Spec
CONSTANTS
    Conns = {c1, c2}
    Pushes = {p1}
    Streams = {}
    None = None
    Chunks = 2
    CheckpointEvery = 1
    Faults = {"overlap"}
PROPERTIES
    RegisteredUntilGone
CHECK_DEADLOCK FALSE
