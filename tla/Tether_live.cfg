SPECIFICATION FairSpec
CONSTANTS
    Conns = {c1, c2}
    Pushes = {p1}
    Streams = {s1}
    None = None
    Chunks = 2
    CheckpointEvery = 1
    Faults = {"drop", "overlap"}
INVARIANTS
    ChunksInOrder
PROPERTIES
    RequestsSettle
    DrainDelivers
    LostSurfaceReleased
CHECK_DEADLOCK FALSE
