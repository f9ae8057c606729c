SPECIFICATION Spec
CONSTANTS
    Devices <- AllDevices
    Deltas <- MCDeltas
    MaxDelta = 3
    MaxEvents <- EventBounds
    MaxActivations = 2
INVARIANTS
    HeldMatchesUser
    NoFalseLoss
    ClickWhereMeant
CHECK_DEADLOCK FALSE
