SPECIFICATION Spec
CONSTANTS
    c1 = c1
    c2 = c2
    Client <- OneClient
    Serial = Serial
    ClientKind <- JustData
    BusKind <- FlowAndData
    OptimisticBus = FALSE
    MaxSent = 1
    MaxBus = 1
    MaxQueue = 1
    MaxStarts = 1
INVARIANTS
    RemovedFromLoop
CHECK_DEADLOCK FALSE
