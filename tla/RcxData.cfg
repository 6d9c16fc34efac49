SPECIFICATION DataSpec
CONSTANTS
    Networks = {e1, e2, e3}
    Keys = {a, b}
    MaxEnvironments = 2
    Lists <- MCLists
    maxIdentities = 3
    MaxRefreshes = 4
    Hour = 2
    Day = 3
    Rates = {0, 1, 2}
    DailyCap = 4
    MaxExtras = 1
    Horizon = 3
    MaxRestarts = 1
    Tests = {t1, t2}
    Searches = {x, y}
    MaxTombstones = 1
    MaxCalls = 5
    Streams = {s1, s2}
    Limit = 3
    Unit = 2
    Dials = {d1, d2, d3}
INVARIANTS
    KeptNotesStick
    BundleArrives
    
    AllowanceHolds
    OnlyTheLatestRuns
    
    TransportIsTraced
PROPERTIES
    
    BringsOverOnlyTheSource
CHECK_DEADLOCK FALSE
