SPECIFICATION Spec
CONSTANTS
    r1 = r1
    r2 = r2
    Runs = {r1, r2}
    Cancellers = {}
    MaxWorkers = 1
    MaxRestarts = 0
INVARIANT ClosedMeansDrained
SYMMETRY Symmetry
CHECK_DEADLOCK FALSE
