SPECIFICATION Spec
CONSTANTS
    NoTool = NoTool
    Tool <- MCTool
    Gated <- MCGated
    PolicySearch = "policy"
    Plans <- MCPlans
    CallCost = {0, 1}
    MaxSteps = 4
    MaxCost = 3
INVARIANTS
    ExecutionAuthorised
    TraceFollowsPlan
    GroundedCompletion
    LoopInv
PROPERTIES
    RunSettles
    KeepsPromise
