SPECIFICATION LiveSpec
CONSTANTS
    None = None
    Endpoints = {e1}
    Packages = {p1, p2}
    Listings = {{e1, p1, p2}, {e1, p2}}
    Budget = 1
    Interval = 2
    Retry = 1
    Gap = 1
    BatchSize = 1
    WithRemote = FALSE
    MaxTime = 3
    MaxRuns = 3
    MaxFaults = 1
\* Time and runs stop at their bounds.
CHECK_DEADLOCK FALSE

    
PROPERTIES
    CycleIsContinued
    CrawlCompletes
