SPECIFICATION Spec
CONSTANTS
    NoRun = NoRun
    NoWorker = NoWorker
    Run = {r1, r2}
    Worker = {w1}
    Handler = {h1}
    ReadTrace <- NoRead
    RequestKinds = {"resume", "decide", "checkout"}
    MaxRequests = 2
    MaxCheckouts = 1
    MaxCrashes = 1
    MaxErrors = 0
    MaxAborts = 0
    MaxLapses = 0
INVARIANTS
    AtMostOnceExecution
PROPERTIES
    TerminalIsFinal
    KeepsService
