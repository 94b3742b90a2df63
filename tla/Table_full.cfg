SPECIFICATION Spec
CONSTANTS
    Callers = {p1, p2}
    Turns = {t1}
    Sessions = {s1}
    Steps = 1
    None = None
INVARIANTS
    EnqueuedTurnsSurvive
SYMMETRY Symmetry
