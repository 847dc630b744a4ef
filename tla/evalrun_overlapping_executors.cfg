SPECIFICATION Spec
CONSTANTS
    Items = {i1}
    Handlers = {w1, w2}
    Sweepers = {p1, p2}
    NoHandler = NoHandler
    NoItem = NoItem
    NoReceipt = NoReceipt
    RetryLimit = 1
    MaxFaults = 2
SYMMETRY Symmetry
INVARIANTS
    TypeOK
    ProviderIsNeverCalledTwice
    OutcomesTellWhetherACallLeft
PROPERTIES
    FreshClaimIsRespected
    StartedIsNotUndone
CHECK_DEADLOCK FALSE
