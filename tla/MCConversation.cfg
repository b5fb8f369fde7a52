SPECIFICATION Spec
CONSTANTS
    g1 = g1
    e1 = e1
    Getters = {g1}
    Entries = {e1}
    HistoryLimit = 2
    MaxChanges = 2
    MaxFailures = 1
    MaxBeats = 1
    MaxHubs = 1
INVARIANT TypeOK
INVARIANT ViewIsCurrent
INVARIANT Attended
INVARIANT ClosedMeansQuiet
INVARIANT NoRepeat
CHECK_DEADLOCK FALSE
