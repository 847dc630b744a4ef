SPECIFICATION Spec
CONSTANTS
    r1 = r1  r2 = r2
    v1 = v1  v2 = v2
    w1 = w1  w2 = w2
    i1 = i1  i2 = i2
    NoRun = NoRun
    NoVersion = NoVersion
    NoWorker = NoWorker
    NoItem = NoItem
    Runs <- OneRun
    Versions <- OneVersion
    Workers <- TwoWorkers
    Items <- TwoItems
    MaxFaults = 2
    MaxRevisionEvents = 1
    MaxEvaluatorEvents = 1
SYMMETRY Symmetry
INVARIANTS TypeOK AtMostOneProviderCall AccountingIsPhysical AccountedIsExact OneStrandedCall CompleteIsFullyObserved
PROPERTIES TerminalIsFinal LiveClaimIsRespected
