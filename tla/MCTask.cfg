SPECIFICATION MidSpec
CONSTANTS
    r1 = r1
    r2 = r2
    g1 = g1
    g2 = g2
    t1 = t1
    v1 = v1
    RunIds = {r1, r2}
    Grants = {g1, g2}
    Callers = {t1}
    Viewers = {v1}
    Cancellers = {t1}
    MaxContracts = 2
    MaxRestarts = 1
SYMMETRY Symmetry
INVARIANT TypeOK
INVARIANT Consent
INVARIANT GrantStartsOne
INVARIANT GrantIsExact
INVARIANT RunsAccountedFor
INVARIANT OutcomeIsTheRuns
PROPERTY LineIsCurrent
PROPERTY ArchivedStartsNothing
CHECK_DEADLOCK FALSE
