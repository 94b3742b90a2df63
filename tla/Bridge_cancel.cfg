SPECIFICATION Spec
CONSTANTS
    Conns = {c1}
    Calls = {k1}
    None = None
    Faults = {}
INVARIANTS
    RaisesAsDocumented
CHECK_DEADLOCK FALSE
