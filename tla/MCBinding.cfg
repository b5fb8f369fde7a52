SPECIFICATION Spec
CONSTANTS
    m1 = m1
    m2 = m2
    Sources = {m1, m2}
    PoolSize = 2
    MaxSpecs = 2
    MaxAttempts = 3
    MaxRestarts = 2
SYMMETRY Symmetry
INVARIANT TypeOK
INVARIANT AttemptTellsBinding
 
INVARIANT NoAttemptAbandoned
 
CHECK_DEADLOCK FALSE
