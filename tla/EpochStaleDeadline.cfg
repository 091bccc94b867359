SPECIFICATION Spec
CONSTANTS
    r1 = r1
    r2 = r2
    h1 = h1
    h2 = h2
    FoundationCycles = 1
    ReckoningCycles = 2
    TotalCycles = 4
    Player <- OnePlayer
    Request <- OneRequest
    Sweep = sweep
    Timer = timer
    AutoResolve = TRUE
    RequireAction = TRUE
    AfkEnabled = FALSE
    AfkThreshold = 2
    AtomicAdvance = FALSE
    MaxFaults = 0
\* A finished epoch stops.
CHECK_DEADLOCK FALSE
PROPERTY ClaimMatchesCycle
