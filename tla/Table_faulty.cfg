SPECIFICATION Spec
CONSTANTS
    Callers = {p1, p2}
    Turns = {t1, t2}
    Sessions = {s1, s2}
    Steps = 2
    None = None
INVARIANTS
    TypeOK
    ToldTurnsSurvive
PROPERTIES
    ImplementsDurableQueue
SYMMETRY Symmetry
