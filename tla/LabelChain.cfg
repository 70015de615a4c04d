SPECIFICATION MCSpec
CONSTANTS
    None = None
    service = service
    reobserve = reobserve
    d1 = d1
    d2 = d2
    Observers = {service, reobserve}
    Lists <- OneOfEachKind
    Interval = 1
    WriteLock = TRUE
    MaxTime = 3
    MaxRuleSets = 2
    MaxObservations = 3
    Digests = {d1, d2}
    Models = {"m1"}
    Lane <- TwoLanes
    Answers = {"flagged"}
    MaxDaily = 1
    MaxDays = 2
SYMMETRY Symmetry
INVARIANTS
    ChainIsTheHistory
    PassesSayWhatWasSeen
    AdviceHolds
PROPERTIES
    EachCommitReports
\* Time, rule sets, observations and days stop at their bounds.
CHECK_DEADLOCK FALSE
