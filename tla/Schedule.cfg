SPECIFICATION ScheduleSpec
CONSTANTS
    Endpoints = {"a", "b"}
    Curated = {"b"}
    PerHost = 1
    MaxDelay = 2
    MaxEdits = 2
    Count = 3
    PerCrawl = 2
    MaxEvents = 1
INVARIANTS
    OptOutStops

    
\* A crawl with nothing due and nothing new waits.
CHECK_DEADLOCK FALSE
