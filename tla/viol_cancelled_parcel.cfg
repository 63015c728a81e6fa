CONSTANTS
    w1 = w1
    w2 = w2
    Workers = {w1}
    MaxRequests = 4
    MaxPackages = 2
    Units = 2
    Reach = {"packed", "shipped", "delivered"}
    Cod = TRUE
    Staff = {"cancel_package"}
SPECIFICATION Spec
CHECK_DEADLOCK FALSE
INVARIANT CancelledIsRecalled
