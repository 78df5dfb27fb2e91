SPECIFICATION Spec
CONSTANTS
    Verticals = 2
    Golden <- Cases
    Final <- Ends
    MaxCases = 3
    Skills = 2
    Trace <- Traces
    NoReport = NoReport
    NoProposal = NoProposal
    MinRepeated = 2
    Thresholds <- Floor
    MaxTraces = 4
INVARIANTS
    MetricsAreSound
    ProposalsAreFounded
CHECK_DEADLOCK FALSE
