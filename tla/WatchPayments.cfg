SPECIFICATION PaymentsSpec
CONSTANTS
    Payments = {p1, p2}
    MaxClock = 4
    Period = 2
    WriteLock = TRUE
PROPERTIES
    PeriodsArePaidFor
    
\* The clock stops at its bound.
CHECK_DEADLOCK FALSE
