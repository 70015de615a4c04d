SPECIFICATION MCSpec
CONSTANTS
    MaxPages = 3
    CallLimit = 2
    Names = {1, 2}
    Texts = {1, 2}
    MaxTools = 2
    Sets = {"s1", "s2"}
    MaxLength = 3
    MaxRecords = 2
    Retry = 1
    Fresh = 2
    GiveUp = 4
    MaxLines = 5
    Threads = {"t1", "t2"}
    Hubs = {"h1"}
    Buyers = {"b1"}
    Rate = 1
    Wide = 2
    ScanRate = 1
    Window <- PerTick
    MaxKeys = 2
    Tickets = {1, 2, 3, 4}
    MaxTime = 2
    Endpoints = {"e1", "e2"}
    Digests = {"s1"}
    MaxChanges = 2
INVARIANTS
    RobotsAreObeyed
    JudgedByContent
    ReadingIsHonest
    CheckIsTrue
    LimitsHold
PROPERTIES
    WithdrawnOnlyWhenRead
    ReadingEnds
    CardsHold
\* Records, and the clock of a caller's windows, stop at their bounds.
CHECK_DEADLOCK FALSE
