----------------------------- MODULE ApiProcess -----------------------------
(***************************************************************************)
(* One API process without a database: the handlers of LocalApi on its     *)
(* event loop, those of EvalApi in its threads.  They share nothing but    *)
(* the process, and end with it.                                           *)
(***************************************************************************)
EXTENDS Naturals, FiniteSets

CONSTANTS
    Run, NoRun, MaxAnswers, MaxProposals, MaxRaises,
    Thread, NoThread, MaxMoment,
    MaxRestarts     \* bound on the restarts of the process

VARIABLES
    RUNS, RUN_STATES, DEMO_APPROVALS, DEMO_AUDIT_EVENTS, loop,
    dispatched, answers, first, raised, lost,
    _RUN_LOCK, _LATEST_SUMMARY, thread, moment,
    restarts

Local == INSTANCE LocalApi
Evals == INSTANCE EvalApi

ASSUME ApiProcessAssumption ==
    Local!LocalApiAssumption /\ Evals!EvalApiAssumption /\ MaxRestarts \in Nat

localVars == <<RUNS, RUN_STATES, DEMO_APPROVALS, DEMO_AUDIT_EVENTS, loop,
               dispatched, answers, first, raised, lost>>
evalVars == <<_RUN_LOCK, _LATEST_SUMMARY, thread, moment>>
vars == <<RUNS, RUN_STATES, DEMO_APPROVALS, DEMO_AUDIT_EVENTS, loop,
          dispatched, answers, first, raised, lost,
          _RUN_LOCK, _LATEST_SUMMARY, thread, moment, restarts>>

Init == Local!Init /\ Evals!Init /\ restarts = 0

OnLoop == Local!Handle /\ UNCHANGED evalVars /\ UNCHANGED restarts

InThread == Evals!Serve /\ UNCHANGED localVars /\ UNCHANGED restarts

Restart ==
    /\ restarts < MaxRestarts
    /\ restarts' = restarts + 1
    /\ Local!Forget
    /\ Evals!Forget

Next == OnLoop \/ InThread \/ Restart

\* A thread runs to its end; the loop serves what it has accepted.
Fairness ==
    \A t \in Thread : WF_vars(Evals!Progress(t) /\ UNCHANGED localVars /\ UNCHANGED restarts)

Spec == Init /\ [][Next]_vars /\ Fairness

-----------------------------------------------------------------------------
\* The types of both parts.
TypeOK == Local!TypeOK /\ Evals!TypeOK

\* A paused run follows its first answer (main.py, resume_run).
FirstAnswerDecides == Local!FirstAnswerDecides

\* The in-memory API implements GovernedService (main.py).
ServiceKept == Local!ServiceKept

\* A POST of the evals that no GET runs beside takes the summary forward; what
\* a GET beside it may undo is not claimed (evals.py).
NewerOnly == Evals!NewerOnly

\* The lock of the evals is released (evals.py, run_eval_summary).
LockIsReleased == Evals!LockIsReleased

=============================================================================
