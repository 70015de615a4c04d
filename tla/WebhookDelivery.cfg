SPECIFICATION DeliverySpec
CONSTANTS
    Workers = {w1, w2}
    Watched = {A, B}
    Lists = {{A}, {A, B}}
    MaxChanges = 2
PROPERTIES
    NothingSkipped
    
\* The last change was delivered and nothing happens any more.
CHECK_DEADLOCK FALSE
