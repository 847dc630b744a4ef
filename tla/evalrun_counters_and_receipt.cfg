SPECIFICATION Spec
CONSTANTS
    Items = {i1, i2}
    Handlers = {w1, w2}
    Sweepers = {p1}
    NoHandler = NoHandler
    NoItem = NoItem
    NoReceipt = NoReceipt
    RetryLimit = 0
    MaxFaults = 1
SYMMETRY Symmetry
INVARIANTS
    CountersAreExact
    ReceiptIsTheRun
PROPERTIES
    LedgerSpec
CHECK_DEADLOCK FALSE
