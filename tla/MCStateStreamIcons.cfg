SPECIFICATION Spec
CONSTANTS
    b1 = b1
    b2 = b2
    on = on
    off = off
    Browser <- OnePage
    Status <- OnOff
    Off = off
    Undefined = Undefined
    MaxChanges = 2
    MaxDrops = 0
    MaxRestarts = 0
INVARIANTS
    OffIsShown
CHECK_DEADLOCK FALSE
