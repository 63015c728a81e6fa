CONSTANTS
    r1 = r1
    r2 = r2
    w1 = w1
    w2 = w2
    Orders <- AnswerLost
    Returns = {r1}
    Workers = {w1}
    MaxRefunds = 1
    Purchased = 2
    LinePaise = 5
    GrandTotal = 4
    RoundOff = 1
SPECIFICATION Spec
CHECK_DEADLOCK FALSE
INVARIANTS GivenBackWithinTotal
