SPECIFICATION Spec
CONSTANTS
    a1 = a1
    a2 = a2
    Address <- TwoControls
    Site <- Pairs
    None = None
    MaxFrame = 2
    MaxWire = 2
    MaxChanges = 1
    MaxGenerations = 2
SYMMETRY ControlSymmetry
INVARIANTS
    OwnBlind
    PopoverFresh
CHECK_DEADLOCK FALSE
