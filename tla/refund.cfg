CONSTANTS
    w1 = w1
    w2 = w2
    Workers = {w1, w2}
    MaxRefunds = 2
    MaxAttempts = 2
SPECIFICATION FairSpec
CHECK_DEADLOCK FALSE
INVARIANTS TypeOK RefundedIsReal OneDeliveryAtATime PendingHasOwner
PROPERTIES CancelledIsClaimed
