SPECIFICATION Spec
CONSTANTS
    LastFile = 4
    Size <- Sizes
    Probe <- Probes
    Needs <- Builds
    Rerunnable = {2, 3, 4}
    Process = {api, worker}
    Api = api
    Restarted = {worker}
    MaxStarts = 2
    MaxDeaths = 2
    Entities = 2
    Edges = 2
    Reader = {r1, r2}
INVARIANTS
    LedgerSound
    OnlyRacesFail
    EdgesBounded
    GraphIsSound
PROPERTIES
    RestartedComeUp
CHECK_DEADLOCK FALSE
