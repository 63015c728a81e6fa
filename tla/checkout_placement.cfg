CONSTANTS
    w1 = w1
    w2 = w2
    shown = shown
    advance = advance
    cod = cod
    Workers = {w1, w2}
    Envelopes = {shown, advance, cod}
    FullCod = {cod}
    Amounts = {1, 2}
    Expected <- ShownOnly
    MaxCrashes = 1
SPECIFICATION FairSpec
CHECK_DEADLOCK FALSE
INVARIANTS OneProviderOrder PlacedOnItsAttempt ShownTotalCharged
PROPERTIES OpenedIsPlaced KeepsContract
