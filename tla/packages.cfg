CONSTANTS
    w1 = w1
    w2 = w2
    Workers = {w1, w2}
    MaxRequests = 3
    MaxPackages = 2
    Units = 2
    Reach = {"packed", "shipped", "delivered"}
    Cod = TRUE
    Staff = {"cancel_order", "cancel_package", "retry", "correct", "reconcile", "manual", "crash"}
SPECIFICATION Spec
SYMMETRY Symmetric
CHECK_DEADLOCK FALSE
INVARIANTS TypeOK AllocatedOnce CollectedOnce OrderFollowsPackages
PROPERTY TrackingMovesForward
