SPECIFICATION Spec
CONSTANTS
    Bridges = {"dex", "library"}
    Words = {"get", "post", "url", "nul", "body", "miscounted", "huge", "a", "b", "c", "d"}
    Arrays <- MC_Arrays
    Requests <- MC_Requests
    RequestOf <- MC_RequestOf
    INT_MAX = 4
    MaxCaptures = 2
INVARIANTS
    TypeOK
    NoCallWhilePending
    NothingLeaks
    ArgvIsExact
    TransportGetsWholeTexts
    ExitIsHonest
CHECK_DEADLOCK FALSE
