CONSTANTS
    o1 = o1
    o2 = o2
    s1 = s1
    s2 = s2
    w1 = w1
    w2 = w2
    w3 = w3
    Orders = {o1}
    Skus = {s1}
    Workers = {w1, w2, w3}
    LooseSkus = {}
    MaxEpoch = 2
    CancellableStatuses = {"pending", "confirmed", "processing"}
    MaxAdjusts = 1
    MaxEdits = 1
    Lines <- MixedLines
    OpeningStock <- ThreeUnits
    AdjustDeltas <- OneMoved
SPECIFICATION HSpec
CHECK_DEADLOCK FALSE
SYMMETRY Symmetric
INVARIANTS TypeOK LedgerBalances FreshReservedMatches FreshHoldsMatch FreshSoldOnce
PROPERTIES CaptureNeverRevives ConfirmationSells
