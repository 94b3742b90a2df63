SPECIFICATION Spec
CONSTANTS
    Conns = {c1, c2}
    Pushes = {p1, p2}
    Streams = {s1}
    None = None
    Chunks = 1
    CheckpointEvery = 2
    Faults = {"drop", "overlap"}
INVARIANTS
    TypeOK
    HandshakeFirst
    AtMostOncePerConnection
    RouteExclusive
    AnnouncedTurnsGiven
    StepCountNamesTurn
    QueueInHistoryOrder
    CheckpointBeforeDelivery
    AttachedIsActive
CHECK_DEADLOCK FALSE
SYMMETRY Symmetry
