CONSTANTS
    Request = {r1, r2, r3}
    Policy <- TwoSlots
    Null = Null
    Bodies <- Varied
    Losses = {"lease", "release"}
    MaxLeases = 3
    Disconnects = TRUE
SPECIFICATION FairSpec
INVARIANTS TypeOK SlotsBalanced LeasesCovered ActiveWithinPolicy ForwardedWithinBudget NoParkingBesideFreeSlot
PROPERTIES EveryRequestEnds
