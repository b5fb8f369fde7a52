SPECIFICATION Spec
CONSTANTS
    q1 = q1
    p1 = p1
    x1 = x1
    d1 = d1
    d2 = d2
    d3 = d3
    Requests = {q1}
    Payloads = {p1}
    Datasets = {d1, d2, d3}
    Texts = {x1}
    MaxRestarts = 1
INVARIANT ImportedOnce
INVARIANT ReceiptIsTrue
INVARIANT StartsOnItsData
SYMMETRY Symmetry
CHECK_DEADLOCK FALSE
