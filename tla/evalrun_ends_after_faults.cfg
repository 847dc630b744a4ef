SPECIFICATION FairSpec
CONSTANTS
    Items = {i1}
    Handlers = {w1}
    Sweepers = {p1}
    NoHandler = NoHandler
    NoItem = NoItem
    NoReceipt = NoReceipt
    RetryLimit = 1
    MaxFaults = 2

PROPERTIES
    DispatchedRunEnds
CHECK_DEADLOCK FALSE
