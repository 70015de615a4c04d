SPECIFICATION Spec
CONSTANTS
    None = None
    serve = serve
    cli = cli
    crawl = crawl
    remote = remote
    cliCrawl = cliCrawl
    Labels = {l1, l2, l3}
    Keys = {k1}
    Procs = {serve, cli}
    Lanes = {crawl, cliCrawl}
    ProcessOf <- ServeAndCli
    Inodes = {1, 2, 3, 4}
    Width <- BinaryDigits
    MaxCrashes = 1
SYMMETRY Symmetry
INVARIANTS
    OneHistory
    MarkerNeverLeads
PROPERTIES
    KeepsThePromise
