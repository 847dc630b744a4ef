SPECIFICATION Spec

CONSTANTS
    x1 = x1
    x2 = x2
    c1 = c1
    c2 = c2
    v1 = v1
    v2 = v2
    Null = Null

SYMMETRY Symmetry
INVARIANTS
    JudgedOnceAndOnRecord
PROPERTIES
    ReportIsOfTheRecords
    FeedsSayWhatTheLogSays
CHECK_DEADLOCK FALSE
