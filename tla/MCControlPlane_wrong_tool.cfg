SPECIFICATION Spec
CONSTANTS
    NoRun = NoRun
    NoWorker = NoWorker
    Run = {r1}
    Worker = {w1}
    Handler = {h1}
    ReadTrace <- NoRead
    RequestKinds = {"decide", "checkout"}
    MaxRequests = 1
    MaxCheckouts = 1
    MaxCrashes = 0
    MaxErrors = 0
    MaxAborts = 0
    MaxLapses = 0
INVARIANTS
    ConsentOnRecord
