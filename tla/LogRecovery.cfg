SPECIFICATION MCSpec
CONSTANTS
    None = None
    serve = serve
    crawl = crawl
    Labels = {l1, l2, l3}
    Keys = {k1, k2}
    Procs = {serve}
    Lanes = {crawl}
    ProcessOf <- ServeOnly
    Inodes = {1, 2}
    Width <- SameWidth
    MaxCrashes = 1
    Restores = {"database", "both"}
    MaxRestores = 2
    Builds = {"service", "command"}
    Newest = 3
    OfTargets = {2}
INVARIANTS
    RestoresAreSafe
    SchemaIsWhole
PROPERTIES
    StartsAgain
