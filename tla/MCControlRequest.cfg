SPECIFICATION Spec
CONSTANTS
    Request = {one, other}
    Content <- Contents
    None = None
    Configured <- Start
    Measured <- Mild
    MaxReports = 1
    MaxLost = 1
INVARIANTS
    AnsweredOnce
    Attended
    AnswersWhole
    KnownAfterStart
    Effective
    CurrentAboveZero
PROPERTIES
    EveryAnswered
CHECK_DEADLOCK FALSE
