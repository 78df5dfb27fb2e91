SPECIFICATION Spec
CONSTANTS
    NoRun = NoRun
    NoWorker = NoWorker
    Run = {r1}
    Worker = {w1}
    Handler = {h1, h2}
    ReadTrace <- NoRead
    RequestKinds = {"resume", "decide"}
    MaxRequests = 2
    MaxCheckouts = 0
    MaxCrashes = 0
    MaxErrors = 0
    MaxAborts = 0
    MaxLapses = 0
INVARIANTS
    AtMostOnceExecution
