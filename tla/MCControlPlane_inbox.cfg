SPECIFICATION Spec
CONSTANTS
    NoRun = NoRun
    NoWorker = NoWorker
    Run = {r1, r2}
    Worker = {w1, w2}
    Handler = {h1}
    ReadTrace <- NoRead
    RequestKinds = {"decide"}
    MaxRequests = 2
    MaxCheckouts = 0
    MaxCrashes = 1
    MaxErrors = 1
    MaxAborts = 0
    MaxLapses = 0
INVARIANTS
    DecisionMatchesOutcome
    ConsentOnRecord
PROPERTIES
    PausedReachesInbox
    DecisionTakesEffect
    EveryRunSettles
