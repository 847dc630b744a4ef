SPECIFICATION Spec

CONSTANTS
    x1 = x1
    x2 = x2
    y1 = y1
    y2 = y2
    home = home
    away = away
    i0 = i0
    o0 = o0
    Human = Human
    Null = Null
    IngestKeys = {y1}
    AppendRequests = {1, 2}
    RecordOwners = {o0}
    RecordSweepers = {x1}
    Batches <- Crossed
    Periods = {0}
    MaxTime = 1
    MaxResends = 1
    RecordFaults = 0
    Identities = {i0, e0}
    Evidence = {e0}
    Scaffolding = {e0}
    Importers = {x1, x2}
    Pruners = {y1}
    Freezers = {o0}
    MaxCases = 2
    MaxPrunes = 1
    MaxFreezes = 1
    Agents = {x1, x2}
    Clicks = {y1, y2}
    MaxPairings = 2
    MaxRequests = 2
    MaxImports = 1
    MaxEdits = 1
    SetupFaults = 1

SYMMETRY Symmetry
INVARIANTS
    ProjectHoldsWhatItCounts
PROPERTIES
    RecordsStayAnswerable
    FeedReachesTheCases
CHECK_DEADLOCK FALSE
