CONSTANTS
    Request = {r1, r2}
    Policy <- TwoSlots
    Null = Null
    Bodies <- Varied
    Losses = {}
    MaxLeases = 2
    Disconnects = TRUE
SPECIFICATION FairSpec
INVARIANTS BalancedOnDisconnect
