SPECIFICATION Spec
CONSTANTS
    r1 = r1
    r2 = r2
    g1 = g1
    g2 = g2
    t1 = t1
    RunIds = {r1, r2}
    Grants = {g1, g2}
    Callers = {t1}
    Viewers = {}
    Cancellers = {t1}
    MaxContracts = 2
    MaxRestarts = 0
SYMMETRY Symmetry
INVARIANT OneActiveRun
CHECK_DEADLOCK FALSE
