SPECIFICATION Spec
CONSTANTS
    b1 = b1
    b2 = b2
    on = on
    off = off
    Browser <- TwoPages
    Status <- OnOff
    Off = off
    Undefined = Undefined
    MaxChanges = 2
    MaxDrops = 1
    MaxRestarts = 1
INVARIANTS
    ReplicaInSync
    OnlineTold
PROPERTIES
    ImplementsViews
    Converges
CHECK_DEADLOCK FALSE
