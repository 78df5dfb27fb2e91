SPECIFICATION Spec
CONSTANTS
    NoRun = NoRun
    NoWorker = NoWorker
    Run = {r1}
    Worker = {w1, w2}
    Handler = {h1, h2}
    ReadTrace <- OneRead
    RequestKinds = {"resume", "decide"}
    MaxRequests = 2
    MaxCheckouts = 0
    MaxCrashes = 1
    MaxErrors = 1
    MaxAborts = 1
    MaxLapses = 1
SYMMETRY Symmetry
INVARIANTS
    LedgerComplete
    LedgerHonest
    ExecutionIsRecorded
    DispatchPerConsent
    SoleWorker
    PausedIsAsked
PROPERTIES
    SettledUnless
