SPECIFICATION Spec
CONSTANTS
    Absent = Absent
    NoKey = NoKey
    Client = {c1, c2}
    Content = {"near", "far"}
    Key <- Keys
    Semantic = {"policy"}
    Episodic = {"case"}
    Trust <- Levels
    MinTrust <- Gate
    Seed <- Seeds
    Query <- Queries
    Limit = 1
    MaxTime = 1
    MaxCalls <- Calls
SYMMETRY ClientSymmetry
INVARIANTS
    SemanticTrusted
    EpisodicSettles
PROPERTIES
    WindowHidesOnlyStale
    KeepsStore
CHECK_DEADLOCK FALSE
