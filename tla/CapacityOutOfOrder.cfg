CONSTANTS
    MaxOpen = 2
    MaxInFlight = 3
    InOrder = FALSE
SPECIFICATION Spec
INVARIANTS IdleReconcilePending
