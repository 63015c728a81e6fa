CONSTANTS
    j1 = j1
    d1 = d1
    d2 = d2
    w1 = w1
    w2 = w2
    Jobs = {j1}
    Devices = {d1, d2}
    Workers = {w1, w2}
    MaxAttempts = 2
    MaxSends = 2
    MaxRetries = 1
    MaxFaults = 1
SPECIFICATION Spec
CHECK_DEADLOCK FALSE
SYMMETRY Symmetric
INVARIANTS SentIsDelivered DuplicatesNeedFaults
PROPERTIES EndedStaysEnded
