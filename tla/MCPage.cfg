SPECIFICATION PageSpec
CONSTANTS
    Browser <- Browsers
    FirstWait = 100
    LongestWait = 300
    MaxMessages = 2
    MaxFailures = 2
    MaxThrows = 1
    File <- Names3
    Script <- Scripts2
    Directory <- Listings
    MaxErrors = 1
INVARIANTS
    PageTypeOK
    OneAttempt
    Beginning
    BundleWhole
PROPERTY Reconnects
CHECK_DEADLOCK FALSE
