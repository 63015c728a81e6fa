CONSTANTS
    r1 = r1
    r2 = r2
    w1 = w1
    w2 = w2
    Orders <- Explored
    Returns = {r1, r2}
    Workers = {w1, w2}
    MaxRefunds = 2
    Purchased = 2
    LinePaise = 5
    GrandTotal = 4
    RoundOff = 1
SYMMETRY Symmetric
SPECIFICATION Spec
CHECK_DEADLOCK FALSE
INVARIANTS RefundsWithinTotal OneOutcome StatusIsReal AcceptedIsFindable
