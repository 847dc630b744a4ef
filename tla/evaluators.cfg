SPECIFICATION Spec

CONSTANTS
    v1 = v1
    v2 = v2
    a1 = a1
    b1 = b1
    r0 = r0
    r1 = r1
    r2 = r2
    i0 = i0
    e0 = e0
    n0 = n0
    n1 = n1
    Nobody = Nobody
    Lost = Lost
    Null = Null
    Actors = {x1, x2}
    Subjects = {y1, y2}
    DispatchFaults = 3
    ConvergenceFaults = 2
    JobDeaths = 1
    ActivationCommands = 4
    ActivationFaults = 1
    RevocationCommands = 3
    RevocationFaults = 0
    GateRetries = 1
    GateFaults = 1
    GateCrashes = 1
    GateExpiries = 1
    GateLockLosses = 1
    CallFaults = 1

SYMMETRY Symmetry
INVARIANTS
    CallIsReportedAsItWas
    ArtifactIsTheLedger
PROPERTIES
    DispatchIsExact
    VersionsAreGoverned
    ReceiptsVerify
CHECK_DEADLOCK FALSE
