SPECIFICATION Spec
CONSTANTS
    raider = raider
    victim = victim
    agent = agent
    square = square
    r1 = r1
    r2 = r2
    FoundationCycles = 1
    ReckoningCycles = 2
    TotalCycles = 5
    Sim = {raider, victim}
    Agent = {agent}
    Owner <- OwnerOf
    Zone = {square}
    Home <- HomeOf
    ZoneLevel <- MediumZone
    Privileged = {victim}
    Request = {r1, r2}
    Pipeline = pipeline
    CreatorResolves = TRUE
    RpPerCycle = 5
    RpCap = 15
    TransferCap = 50
    FortificationCycles = 2
    DeployKind = {"spy", "saboteur"}
    Resonance = {TRUE}
    MissionId = {1, 2}
    MaxRequests = 3
    MaxFaults = 0
CHECK_DEADLOCK FALSE
PROPERTIES
    SabotageLowers
