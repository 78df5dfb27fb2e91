SPECIFICATION Spec
CONSTANTS
    Run = {r1}
    NoRun = NoRun
    MaxAnswers = 2
    MaxProposals = 1
    MaxRaises = 1
    Thread = {t1, t2, t3}
    NoThread = NoThread
    MaxMoment = 2
    MaxRestarts = 1
INVARIANTS
    FirstAnswerDecides
PROPERTIES
    ServiceKept
    NewerOnly
    LockIsReleased
