SPECIFICATION LiveSpec
CONSTANTS
    None = None
    serve = serve
    cli = cli
    crawl = crawl
    remote = remote
    cliCrawl = cliCrawl
    Labels = {l1, l2, l3, l4}
    Keys = {k1}
    Procs = {serve}
    Lanes = {crawl, remote}
    ProcessOf <- ServeOnly
    Inodes = {1, 2, 3}
    Width <- BinaryDigits
    MaxCrashes = 2

    
PROPERTIES
    EveryLabelIsPromised
