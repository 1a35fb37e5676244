SPECIFICATION GatewaySpec
CONSTANTS
    c1 = c1
    c2 = c2
    Client <- TwoClients
    Serial = Serial
    ClientKind <- JustData
    BusKind <- JustData
    OptimisticBus = FALSE
    MaxSent = 2
    MaxBus = 0
    MaxQueue = 2
    MaxStarts = 1
INVARIANTS
    WaitsForReply
    Conserved
PROPERTIES
    NoOverrun
    Delivered
    GateReopens
CHECK_DEADLOCK FALSE
