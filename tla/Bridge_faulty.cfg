SPECIFICATION FairSpec
CONSTANTS
    Conns = {c1, c2}
    Calls = {k1, k2}
    None = None
    Faults = {"drop", "overlap", "abandon"}
INVARIANTS
    TypeOK
    TablesAgree
    NothingLeaks
    PendingIsTracked
    NoCallWithoutSurface
PROPERTIES
    LossSettles
    CallsSettle
    ImplementsToolCalls
CHECK_DEADLOCK FALSE
