SPECIFICATION Spec
CONSTANTS
    r1 = r1
    c1 = c1
    Runs = {r1}
    Cancellers = {c1}
    MaxWorkers = 1
    MaxRestarts = 1
INVARIANT CancelBeatsCompletion
INVARIANT VerdictsAgree
INVARIANT QueuedCancelSettles
INVARIANT DenseLog
INVARIANT NoOrphan
PROPERTY CancelSticky
PROPERTY PublishesInOrder
CHECK_DEADLOCK FALSE
