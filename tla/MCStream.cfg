SPECIFICATION StreamSpec
CONSTANTS
    r1 = r1
    d1 = d1
    Runs = {r1}
    Cancellers = {}
    MaxWorkers = 1
    MaxRestarts = 1
    Readers = {d1}
INVARIANT ExactlyOnce
CHECK_DEADLOCK FALSE
