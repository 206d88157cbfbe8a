CONSTANTS
    MaxOpen = 3
    MaxInFlight = 5
    InOrder = TRUE
SPECIFICATION Spec
INVARIANTS TypeOK IdleReconcilePending
