SPECIFICATION FairSpec
CONSTANTS
    g1 = g1
    e1 = e1
    Getters = {g1}
    Entries = {e1}
    HistoryLimit = 2
    MaxChanges = 1
    MaxFailures = 1
    MaxBeats = 0
    MaxHubs = 2
INVARIANT OneHub
PROPERTY Informed
CHECK_DEADLOCK FALSE
