CONSTANTS
    o1 = o1
    o2 = o2
    s1 = s1
    s2 = s2
    w1 = w1
    w2 = w2
    w3 = w3
    Orders = {o1, o2}
    Skus = {s1}
    Workers = {w1, w2}
    LooseSkus = {}
    MaxEpoch = 1
    CancellableStatuses = {"pending", "processing"}
    MaxAdjusts = 1
    MaxEdits = 1
    Lines <- MixedLines
    OpeningStock <- TwoUnits
    AdjustDeltas <- OneRemoved
SPECIFICATION Spec
CHECK_DEADLOCK FALSE
SYMMETRY Symmetric
INVARIANTS NoOversell HoldsCovered
