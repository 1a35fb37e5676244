SPECIFICATION PopoverSpec
CONSTANTS
    Travel = 3
    Undefined = Undefined
    MaxUpdates = 4
    MaxTime = 8
    Level <- Levels
    MaxSlides = 2
    MaxChanges = 1
    Unknown = Unknown
    Durations <- Typed
    Moments <- Later
    Clocks <- OClocks
    Day = 1200
    Ten = 180
    Step = 30
    Period = 60
    LastTime = 600
    NextStep = NextStep
    NoTime = NoTime
INVARIANTS
    PopoverTypeOK
    ExactAtEnd
    SameEstimate
    FieldsAgree
    SliderShowsLamp
PROPERTIES
    ClickIsMeant
CHECK_DEADLOCK FALSE
