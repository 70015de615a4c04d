SPECIFICATION RunSpec
CONSTANTS
    Threads = {t1, t2}
    Hosts = {h1, h2}
    Inside = {h1}
    PoolSlots = 2
    Slots = 2
    Addresses = {a1, a2}
    MaxFaults = 1
    Fds = {f1, f2, f3}
    MaxSockets = 2
SYMMETRY Interchangeable
INVARIANTS
    
    SlotsComeBack
\* Every thread has made its observation.
CHECK_DEADLOCK FALSE
