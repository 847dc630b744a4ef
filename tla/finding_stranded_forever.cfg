SPECIFICATION FairSpec
CONSTANTS
    r1 = r1  r2 = r2
    v1 = v1  v2 = v2
    w1 = w1  w2 = w2
    i1 = i1  i2 = i2
    NoRun = NoRun
    NoVersion = NoVersion
    NoWorker = NoWorker
    NoItem = NoItem
    Runs <- OneRun
    Versions <- OneVersion
    Workers <- OneWorker
    Items <- OneItem
    MaxFaults = 1
    MaxRevisionEvents = 0
    MaxEvaluatorEvents = 1
PROPERTIES StrandedCallIsAccounted
