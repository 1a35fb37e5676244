SPECIFICATION Spec
CONSTANTS
    c1 = c1
    c2 = c2
    Client <- TwoClients
    Serial = Serial
    ClientKind <- JustData
    BusKind <- NoisyBus
    OptimisticBus = FALSE
    MaxSent = 1
    MaxBus = 2
    MaxQueue = 1
    MaxStarts = 2
SYMMETRY ClientSymmetry
INVARIANTS
    BusOffMeansNoClients
    Served
    BroadcastComplete
    RelayAgreement
PROPERTIES
    OneMessagePerReady
    ImplementsHub
CHECK_DEADLOCK FALSE
