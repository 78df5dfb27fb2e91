------------------------------ MODULE LocalApi ------------------------------
(***************************************************************************)
(* The API without a database (main.py): runs, graph states and approvals  *)
(* are dictionaries and lists of one process.  A handler holds the event   *)
(* loop from its start to its end, calls of the graph included, so         *)
(* handlers never interleave; what can come between the steps of one is    *)
(* an exception, and the death of the process.                             *)
(*                                                                         *)
(* A checkout proposal for an id the process does not know makes a run     *)
(* that RUNS lists and RUN_STATES lacks; it can be read, not resumed.      *)
(***************************************************************************)
EXTENDS Naturals

CONSTANTS
    Run, NoRun,
    MaxAnswers,     \* bound on the decisions a human sends for a run
    MaxProposals,   \* bound on the checkout proposals for a run
    MaxRaises       \* bound on the calls of the graph that raise

LocalApiAssumption ==
    /\ NoRun \notin Run
    /\ {MaxAnswers, MaxProposals, MaxRaises} \subseteq Nat

VARIABLES
    RUNS,            \* what the API shows of a run: status, recorded decision
    RUN_STATES,      \* the status of its graph state, "none" for no entry
    DEMO_APPROVALS,  \* how many entries name the run; all stay "pending"
    DEMO_AUDIT_EVENTS,   \* how many decisions on them are on record
    loop,            \* the handler that holds the event loop
    dispatched,      \* history: gated tool calls made for the run
    answers,         \* history: decisions sent for the run
    first,           \* history: the decision the run was paused for
    raised,          \* history: exceptions behind the graph of the run
    lost             \* history: runs whose entries are gone, or never came

vars == <<RUNS, RUN_STATES, DEMO_APPROVALS, DEMO_AUDIT_EVENTS, loop,
          dispatched, answers, first, raised, lost>>

Terminal == {"completed", "failed", "cancelled"}
Status == {"none", "approval_required"} \cup Terminal
Decision == {"none", "approved", "rejected"}

Free == [call |-> "free", run |-> NoRun, decision |-> "none", result |-> "none"]

Unknown == [status |-> "none", decision |-> "none"]

Init ==
    /\ RUNS = [r \in Run |-> Unknown]
    /\ RUN_STATES = [r \in Run |-> "none"]
    /\ DEMO_APPROVALS = [r \in Run |-> 0]
    /\ DEMO_AUDIT_EVENTS = [r \in Run |-> 0]
    /\ loop = Free
    /\ dispatched = [r \in Run |-> 0]
    /\ answers = [r \in Run |-> 0]
    /\ first = [r \in Run |-> "none"]
    /\ raised = [r \in Run |-> 0]
    /\ lost = {}

Known(r) == RUNS[r].status # "none"

Raises ==
    /\ loop' = Free
    /\ raised[loop.run] < MaxRaises
    /\ raised' = [raised EXCEPT ![loop.run] = @ + 1]

-----------------------------------------------------------------------------
\* POST /api/runs: the id is fresh, and nothing is kept before the graph ends.
CreateRun(r) ==
    /\ loop = Free
    /\ ~Known(r) /\ r \notin lost
    /\ loop' = [Free EXCEPT !.call = "create", !.run = r]
    /\ UNCHANGED <<RUNS, RUN_STATES, DEMO_APPROVALS, DEMO_AUDIT_EVENTS, dispatched, answers, first, raised, lost>>

\* graph.invoke settles the run or pauses it; it calls no gated tool (RunLoop).
InvokeAndKeep ==
    /\ loop.call = "create"
    /\ \E s \in {"completed", "failed", "approval_required"} :
          /\ RUNS' = [RUNS EXCEPT ![loop.run] = [status |-> s, decision |-> "none"]]
          /\ RUN_STATES' = [RUN_STATES EXCEPT ![loop.run] = s]
    /\ loop' = Free
    /\ UNCHANGED <<DEMO_APPROVALS, DEMO_AUDIT_EVENTS, dispatched, answers, first, raised, lost>>

CreateRaises ==
    /\ loop.call = "create"
    /\ Raises
    /\ lost' = lost \cup {loop.run}
    /\ UNCHANGED <<RUNS, RUN_STATES, DEMO_APPROVALS, DEMO_AUDIT_EVENTS, dispatched, answers, first>>

-----------------------------------------------------------------------------
\* POST /api/runs/{id}/resume; without an entry in RUN_STATES it is 404.
Resume(r, d) ==
    /\ loop = Free
    /\ RUN_STATES[r] # "none"
    /\ answers[r] < MaxAnswers
    /\ answers' = [answers EXCEPT ![r] = @ + 1]
    /\ first' = [first EXCEPT ![r] =
                    IF @ = "none" /\ RUN_STATES[r] = "approval_required" THEN d ELSE @]
    /\ loop' = [call |-> "resume", run |-> r, decision |-> d, result |-> RUN_STATES[r]]
    /\ UNCHANGED <<RUNS, RUN_STATES, DEMO_APPROVALS, DEMO_AUDIT_EVENTS, dispatched, raised, lost>>

\* What RunGraph.resume makes of a state: {status, gated calls} it can end with.
Resumed_Mutant(status, decision) ==
    IF decision = "rejected" THEN {<<"cancelled", 0>>} ELSE {<<"completed", 1>>, <<"failed", 1>>}
Resumed(status, decision) ==
    IF status # "approval_required" THEN {<<status, 0>>}
    ELSE IF decision = "rejected" THEN {<<"cancelled", 0>>}
    ELSE {<<"completed", 1>>, <<"failed", 1>>}

GraphResume ==
    /\ loop.call = "resume"
    /\ \E end \in Resumed(loop.result, loop.decision) :
          /\ loop' = [loop EXCEPT !.call = "record", !.result = end[1]]
          /\ dispatched' = [dispatched EXCEPT ![loop.run] = @ + end[2]]
    /\ UNCHANGED <<RUNS, RUN_STATES, DEMO_APPROVALS, DEMO_AUDIT_EVENTS, answers, first, raised, lost>>

\* Both dictionaries are written; the outcome takes the decision of this call,
\* whether the graph followed it or the run was settled before.
Kept_Mutant(status) == RUN_STATES[loop.run]
Kept(status) == status

RecordResume ==
    /\ loop.call = "record"
    /\ RUNS' = [RUNS EXCEPT ![loop.run] = [status |-> loop.result, decision |-> loop.decision]]
    /\ RUN_STATES' = [RUN_STATES EXCEPT ![loop.run] = Kept(loop.result)]
    /\ loop' = Free
    /\ UNCHANGED <<DEMO_APPROVALS, DEMO_AUDIT_EVENTS, dispatched, answers, first, raised, lost>>

\* The graph raises, before its tool or behind it: the caller gets a 500 and
\* both dictionaries say what they said before.
ResumeRaises ==
    /\ loop.call \in {"resume", "record"}
    /\ Raises
    /\ UNCHANGED <<RUNS, RUN_STATES, DEMO_APPROVALS, DEMO_AUDIT_EVENTS, dispatched, answers, first, lost>>

-----------------------------------------------------------------------------
\* POST /api/ucp/checkout-proposals, for a run that exists or with a new id,
\* or one a client kept from an earlier process.
ProposeCheckout(r) ==
    /\ loop = Free
    /\ DEMO_APPROVALS[r] < MaxProposals
    /\ DEMO_APPROVALS' = [DEMO_APPROVALS EXCEPT ![r] = @ + 1]
    /\ RUNS' = [RUNS EXCEPT ![r] =
                   IF Known(r) THEN @ ELSE [status |-> "approval_required", decision |-> "none"]]
    /\ UNCHANGED <<RUN_STATES, DEMO_AUDIT_EVENTS, loop, dispatched, answers, first, raised, lost>>

\* POST /api/approvals/{id}/decision records the decision and nothing else: the
\* approval stays pending and the run is left alone.
DecideApproval(r) ==
    /\ loop = Free
    /\ DEMO_APPROVALS[r] > 0
    /\ DEMO_AUDIT_EVENTS[r] < MaxAnswers
    /\ DEMO_AUDIT_EVENTS' = [DEMO_AUDIT_EVENTS EXCEPT ![r] = @ + 1]
    /\ UNCHANGED <<RUNS, RUN_STATES, DEMO_APPROVALS, loop, dispatched, answers, first, raised, lost>>

\* The process ends: what it kept is gone, ids that were handed out mean nothing.
Forget ==
    /\ RUNS' = [r \in Run |-> Unknown]
    /\ RUN_STATES' = [r \in Run |-> "none"]
    /\ DEMO_APPROVALS' = [r \in Run |-> 0]
    /\ DEMO_AUDIT_EVENTS' = [r \in Run |-> 0]
    /\ loop' = Free
    /\ lost' = lost \cup {r \in Run : Known(r) \/ loop.run = r}
    /\ UNCHANGED <<dispatched, answers, first, raised>>

Handle ==
    \/ \E r \in Run : CreateRun(r) \/ ProposeCheckout(r) \/ DecideApproval(r)
    \/ \E r \in Run, d \in {"approved", "rejected"} : Resume(r, d)
    \/ InvokeAndKeep \/ CreateRaises
    \/ GraphResume \/ RecordResume \/ ResumeRaises

Next == Handle \/ Forget

Spec == Init /\ [][Next]_vars

-----------------------------------------------------------------------------
TypeOK ==
    /\ RUNS \in [Run -> [status : Status, decision : Decision]]
    /\ RUN_STATES \in [Run -> Status]
    /\ DEMO_APPROVALS \in [Run -> Nat] /\ DEMO_AUDIT_EVENTS \in [Run -> Nat]
    /\ loop \in [call : {"free", "create", "resume", "record"}, run : Run \cup {NoRun},
                 decision : Decision, result : Status]
    /\ dispatched \in [Run -> Nat] /\ answers \in [Run -> Nat] /\ raised \in [Run -> Nat]
    /\ first \in [Run -> Decision]
    /\ lost \subseteq Run

\* The first answer to a run that is paused decides what happens to it, and
\* RUNS and RUN_STATES both say so, whatever is answered or proposed later;
\* a call that raised is the one exception.  The recorded decision follows the
\* last answer, so it explains the run only when there was no other (resume_run).
FirstAnswerDecides ==
    \A r \in Run : Known(r) /\ r \notin lost /\ loop.run # r /\ raised[r] = 0 =>
        /\ dispatched[r] = (IF first[r] = "approved" THEN 1 ELSE 0)
        /\ RUN_STATES[r] \in {"none", RUNS[r].status}
        /\ first[r] = "rejected" <=> RUNS[r].status = "cancelled"
        /\ first[r] = "approved" => RUNS[r].status \in {"completed", "failed"}
        /\ answers[r] = 1 /\ first[r] # "none" => RUNS[r].decision = first[r]

-----------------------------------------------------------------------------
(* The refinement of the promise ControlPlane keeps with its tables.       *)

StageBar ==
    [r \in Run |->
        IF dispatched[r] > 0 \/ r \in lost \/ RUNS[r].status \in Terminal THEN "closed"
        ELSE IF Known(r) THEN "awaiting"
        ELSE IF loop.run = r THEN "queued" ELSE "absent"]

\* The runs whose first answer, when they were paused, approved.
Consented == {r \in Run : first[r] = "approved"}

Service == INSTANCE GovernedService WITH
    Id <- Run, stage <- StageBar, consented <- Consented, performed <- dispatched

\* The end of the process closes every run it kept.
Closes ==
    /\ dispatched' = dispatched /\ Consented' = Consented
    /\ StageBar' = [r \in Run |-> IF r \in lost' THEN "closed" ELSE StageBar[r]]

\* Only the run changes.
Only(r) ==
    \A q \in Run \ {r} :
        /\ dispatched'[q] = dispatched[q] /\ StageBar'[q] = StageBar[q]
        /\ q \in Consented' <=> q \in Consented

\* The in-memory API keeps the promise: the gated tool of a run is called once,
\* and only after an answer approved it.  Runs behind whose graph an exception
\* was raised are excepted: a second approval calls their tool again (resume_run).
ServiceKept ==
    /\ Service!Init
    /\ [][Service!Next \/ Closes \/ \E r \in Run : raised[r] > 0 /\ Only(r)]_<<StageBar, Consented, dispatched>>

=============================================================================
