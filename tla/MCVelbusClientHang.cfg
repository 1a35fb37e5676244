SPECIFICATION Spec
CONSTANTS
    Message <- ThreeMessages
    MaxSent = 1
    MaxCuts = 0
    MaxStarts = 1
PROPERTIES
    Returns
CHECK_DEADLOCK FALSE
