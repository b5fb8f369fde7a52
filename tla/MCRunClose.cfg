SPECIFICATION FairSpec
CONSTANTS
    r1 = r1
    c1 = c1
    Runs = {r1}
    Cancellers = {c1}
    MaxWorkers = 1
    MaxRestarts = 0
PROPERTY CloseTerminates
CHECK_DEADLOCK FALSE
