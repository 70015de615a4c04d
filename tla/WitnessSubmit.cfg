SPECIFICATION LiveSpec
CONSTANTS
    None = None
    Leaves = {0, 1}
    Witnesses = {w}
    Handlers = {t1, t2}
    Clients = {c}
    MaxSize = 2
    MaxRestores = 1
\* A witness and a client with nothing to submit rest.
CHECK_DEADLOCK FALSE
INVARIANTS
    CosignedIsOneHistory
    SavedIsCosigned
PROPERTIES
    ServedOnlyGrows
    NewestHeadIsWitnessed
