SPECIFICATION Spec
CONSTANTS
    Requests = {r1, r2}
    Roams = {j1, j2, j3}
    Conns = {c1, c2}
    Names = {n1}
    None = None
    Calls = 6
    SlowCalls = 5
    Concurrent = 2
    CheckpointEvery = 1
INVARIANTS
    TypeOK
    TokenFindsOwner
    AnswersFollowQuestions
    CopiesAgree
    LineageIsTree
    SnapshotOfHistory
    IntegrityChecked
    ConsumedIsImported
    SuspendedUnderSurface
PROPERTIES
    TokenKeepsSession
    CheckpointsAdvance
    ImplementsSingleUse
CHECK_DEADLOCK FALSE
SYMMETRY Symmetry
