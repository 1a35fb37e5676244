SPECIFICATION BusSpec
CONSTANTS
    Message <- FourMessages
    MaxSent = 3
    MaxCuts = 1
    MaxStarts = 2
    Noise <- Disturbances
    MaxNoise = 1
INVARIANTS
    NeverMisread
    HeldBack
    Conserved
    Faithful
    Prompt
CHECK_DEADLOCK FALSE
