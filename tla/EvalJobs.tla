------------------------------- MODULE EvalJobs -----------------------------
(***************************************************************************)
(* The two jobs behind /api/evals: POST /run and GET /demo run the golden  *)
(* cases (EvalRun), GET /skill-improvements scans the corpus (HillClimb).  *)
(* EvalApi has the requests that start them; a job starts from its inputs  *)
(* alone and shares nothing with another.                                  *)
(***************************************************************************)
EXTENDS Naturals, Sequences

CONSTANTS
    Verticals, Golden, Final, MaxCases,
    Skills, Trace, NoReport, NoProposal, MinRepeated, Thresholds, MaxTraces

VARIABLES
    job,     \* _run_live_evals or _run_skill_improvement_scan
    vertical, results, reports, cases,
    corpus, grouped, by_skill, turn, proposals

Live == INSTANCE EvalRun
Scan == INSTANCE HillClimb

ASSUME EvalJobsAssumption == Live!EvalRunAssumption /\ Scan!HillClimbAssumption

liveVars == <<vertical, results, reports, cases>>
scanVars == <<corpus, grouped, by_skill, turn, proposals>>
vars == <<job, vertical, results, reports, cases, corpus, grouped, by_skill, turn, proposals>>

Init ==
    \/ /\ job = "live" /\ Live!Init
       /\ corpus = <<>> /\ grouped = 0 /\ by_skill = <<>> /\ turn = 1 /\ proposals = <<>>
    \/ /\ job = "scan" /\ Scan!Init
       /\ vertical = 1 /\ results = <<>> /\ reports = <<>> /\ cases = 0

Next ==
    \/ job = "live" /\ Live!Next /\ UNCHANGED scanVars /\ UNCHANGED job
    \/ job = "scan" /\ Scan!Next /\ UNCHANGED liveVars /\ UNCHANGED job

Spec == Init /\ [][Next]_vars

-----------------------------------------------------------------------------
\* The types of the golden runs.
TypeOK == job = "live" => Live!TypeOK

\* Scores, percentile and totals mean what their names say (metrics.py).
MetricsAreSound ==
    job = "live" => Live!ScoresAreSound /\ Live!P95IsRank /\ Live!TotalsAreSound

\* Proposals follow from the traces of their skill alone (hill_climb.py).
ProposalsAreFounded == job = "scan" => Scan!ProposalsAreFounded

=============================================================================
