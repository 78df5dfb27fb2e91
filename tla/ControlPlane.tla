---------------------------- MODULE ControlPlane ----------------------------
(***************************************************************************)
(* The persisted control plane: worker processes (executor.py) and API     *)
(* request handlers (persisted.py) that share three Postgres tables, runs, *)
(* run_steps and approvals (persistence/runs.py, approvals.py).  Every     *)
(* awaited database call is one action, so other processes move between    *)
(* any two of them; a SQL statement is atomic.                             *)
(*                                                                         *)
(* A call of the graph is one action: RunLoop models its inside.  What the *)
(* tables keep of a graph state is its status and its tool trace, whose    *)
(* entries are abstracted to their kind, and its pending tool.  A skill    *)
(* stops at one gated tool at most (SkillPlan), so a run has two tools a   *)
(* human can be asked for: its skill's own, and the checkout a client      *)
(* proposed for it.                                                        *)
(***************************************************************************)
EXTENDS Integers, Sequences, FiniteSets

CONSTANTS
    Run,               \* run ids
    Worker,            \* worker processes, by their worker_id
    Handler,           \* API request slots: how many requests run at once
    NoRun, NoWorker,   \* SQL NULL
    ReadTrace,         \* the trace of a skill's read-only steps
    RequestKinds,      \* the endpoints in use: "resume", "decide", "checkout"
    \* Bounds on what the environment does, counted in "used".
    MaxRequests,       \* decisions humans send
    MaxCheckouts,      \* checkout proposals clients send
    MaxCrashes,        \* workers killed while busy
    MaxErrors,         \* exceptions raised in a worker's database calls
    MaxAborts,         \* requests that die before they end
    MaxLapses          \* leases that run out while their worker is alive

ASSUME ControlPlaneAssumption ==
    /\ NoRun \notin Run
    /\ NoWorker \notin Worker
    /\ Worker \cap Handler = {}
    /\ IsFiniteSet(Handler)
    /\ ReadTrace \in Seq({"read"})
    /\ RequestKinds \subseteq {"resume", "decide", "checkout"}
    /\ {MaxRequests, MaxCheckouts, MaxCrashes, MaxErrors, MaxAborts,
        MaxLapses} \subseteq Nat

VARIABLES
    runs,        \* table runs: status, worker_id, lease, checkpoint_json
    created,     \* the runs in the order of created_at
    run_steps,   \* table run_steps: how many rows of each kind a run has
    approvals,   \* table approvals, in the order of created_at
    proc,        \* the local variables of workers and handlers
    dispatched,  \* history: gated tool calls made for a run
    consents,    \* history: approving requests that were accepted for a run
    used         \* how much of each bound is used up

vars == <<runs, created, run_steps, approvals, proc, dispatched, consents, used>>

Proc == Worker \cup Handler

\* A checkout run is born with a proposal of its own in the trace.
StepKind == {"read", "proposed", "executed", "checkout"}

\* The gated tools a human can be asked for: the one the run's skill stopped
\* at, or ucp.propose_checkout.
Action == {"own", "checkout"}

Terminal == {"completed", "failed", "cancelled"}

RunStatus == {"absent", "pending", "running", "approval_required"} \cup Terminal

Decision == {"none", "approved", "rejected"}

Bound == {"requests", "checkouts", "crashes", "errors", "aborts", "lapses"}

\* checkpoint_json: the graph state with persisted_trace_len.  The status is
\* "none" where the column is NULL.
Checkpoint == [status : RunStatus \cup {"none"}, pending : Action \cup {"none"},
               trace : Seq(StepKind), persisted : Nat]

NoCheckpoint == [status |-> "none", pending |-> "none", trace |-> <<>>, persisted |-> 0]

Idle == [pc |-> "idle", run |-> NoRun, decision |-> "none", targets |-> {},
         snapshot |-> NoCheckpoint, final |-> NoCheckpoint, next |-> 0]

Init ==
    /\ runs = [r \in Run |-> [status |-> "absent", worker |-> NoWorker,
                              lease |-> "none", checkpoint |-> NoCheckpoint]]
    /\ created = <<>>
    /\ run_steps = [r \in Run |-> [k \in StepKind |-> 0]]
    /\ approvals = <<>>
    /\ proc = [p \in Proc |-> Idle]
    /\ dispatched = [r \in Run |-> [a \in Action |-> 0]]
    /\ consents = [r \in Run |-> 0]
    /\ used = [b \in Bound |-> 0]

Goto(p, label) == proc' = [proc EXCEPT ![p].pc = label]

\* The undecided approvals of a run (list_pending_for_run).
PendingFor(r) ==
    {i \in 1..Len(approvals) : approvals[i].run = r /\ approvals[i].decision = "none"}

-----------------------------------------------------------------------------
(* create_run_persisted: POST /runs queues a run.                          *)
CreateRun(r) ==
    /\ runs[r].status = "absent"
    /\ runs' = [runs EXCEPT ![r].status = "pending"]
    /\ created' = Append(created, r)
    /\ UNCHANGED <<run_steps, approvals, proc, dispatched, consents, used>>

-----------------------------------------------------------------------------
(* The worker: process_pending and _execute_run.  As in RunLoop, a         *)
(* definition named ..._Mutant is a plausible slip in the one after it.    *)

Stale_Mutant(r) == runs[r].status = "running"
Stale_Mutant2(r) == runs[r].status = "running" /\ runs[r].lease = "none"
Stale_Mutant3(r) == runs[r].status # "absent" /\ runs[r].lease # "live"
Stale(r) == runs[r].status = "running" /\ runs[r].lease = "expired"

ReleaseStaleRunning(w) ==
    /\ proc[w].pc = "idle"
    /\ runs' = [r \in Run |->
           IF Stale(r)
           THEN [runs[r] EXCEPT !.status = "pending", !.worker = NoWorker, !.lease = "none"]
           ELSE runs[r]]
    /\ Goto(w, "claim")
    /\ UNCHANGED <<created, run_steps, approvals, dispatched, consents, used>>

LeaseOfClaim == "live"

\* claim_next_pending takes the oldest pending run; its snapshot is the row.
Claim(w, r) ==
    /\ proc[w].pc = "claim"
    /\ \E i \in 1..Len(created) :
          /\ created[i] = r
          /\ runs[r].status = "pending"
          /\ \A j \in 1..(i - 1) : runs[created[j]].status # "pending"
    /\ runs' = [runs EXCEPT ![r].status = "running", ![r].worker = w,
                            ![r].lease = LeaseOfClaim]
    /\ proc' = [proc EXCEPT ![w] = [Idle EXCEPT !.pc = "renew", !.run = r,
                                    !.snapshot = runs[r].checkpoint]]
    /\ UNCHANGED <<created, run_steps, approvals, dispatched, consents, used>>

\* Nothing is pending: the worker sleeps and polls again.
NothingToClaim(w) ==
    /\ proc[w].pc = "claim"
    /\ \A r \in Run : runs[r].status # "pending"
    /\ Goto(w, "idle")
    /\ UNCHANGED <<runs, created, run_steps, approvals, dispatched, consents, used>>

\* renew_lease, called once, before the graph runs; a run that was taken over
\* or left "running" is left alone and the worker goes on all the same.
RenewLease(w) ==
    /\ proc[w].pc = "renew"
    /\ LET r == proc[w].run IN
       runs' = IF runs[r].worker = w /\ runs[r].status = "running"
               THEN [runs EXCEPT ![r].lease = "live"]
               ELSE runs
    /\ Goto(w, "invoke")
    /\ UNCHANGED <<created, run_steps, approvals, dispatched, consents, used>>

\* graph.invoke starts from the planner whatever the row holds (initial=True);
\* it ends settled, or paused at a proposal.
InvokeResult ==
    {[status |-> s, pending |-> "none", trace |-> ReadTrace, persisted |-> 0] :
        s \in {"completed", "failed"}}
    \cup {[status |-> "approval_required", pending |-> "own",
           trace |-> Append(ReadTrace, "proposed"), persisted |-> 0]}

\* persist_run_result takes persisted_trace_len from the row its caller read,
\* not from the row as it is now.
FirstNewStep_Mutant(snapshot) == snapshot.persisted + 1
FirstNewStep_Mutant2(snapshot) == 0
FirstNewStep(snapshot) == snapshot.persisted

Invoke(w) ==
    /\ proc[w].pc = "invoke"
    /\ \E state \in InvokeResult :
          proc' = [proc EXCEPT ![w].pc = "append", ![w].final = state,
                               ![w].next = FirstNewStep(proc[w].snapshot)]
    /\ UNCHANGED <<runs, created, run_steps, approvals, dispatched, consents, used>>

-----------------------------------------------------------------------------
(* persist_run_result, for workers and handlers alike.                     *)

\* append_new_tool_steps: one insert for each entry that is new.
AppendStep(p) ==
    /\ proc[p].pc = "append"
    /\ proc[p].next < Len(proc[p].final.trace)
    /\ run_steps' = [run_steps EXCEPT ![proc[p].run][proc[p].final.trace[proc[p].next + 1]] = @ + 1]
    /\ proc' = [proc EXCEPT ![p].next = @ + 1]
    /\ UNCHANGED <<runs, created, approvals, dispatched, consents, used>>

\* save_checkpoint writes by run id alone: who holds the lease, and what the
\* status has become, do not matter.
SavedRow(state) ==
    [status |-> state.status, worker |-> NoWorker, lease |-> "none", checkpoint |-> state]

SaveCheckpoint(p) ==
    /\ proc[p].pc = "append"
    /\ proc[p].next >= Len(proc[p].final.trace)
    /\ LET final == [proc[p].final EXCEPT !.persisted = Len(proc[p].final.trace)] IN
          /\ runs' = [runs EXCEPT ![proc[p].run] = SavedRow(final)]
          /\ Goto(p, IF final.status = "approval_required" THEN "inbox" ELSE "finish")
    /\ UNCHANGED <<created, run_steps, approvals, dispatched, consents, used>>

\* A run that pauses gets an approval unless it has one that is undecided,
\* whatever that one is for.
CheckInbox_Mutant(p) ==
    /\ proc[p].pc = "inbox"
    /\ Goto(p, IF \A a \in DOMAIN approvals : approvals[a].decision # "none"
               THEN "request" ELSE "finish")
    /\ UNCHANGED <<runs, created, run_steps, approvals, dispatched, consents, used>>
CheckInbox_Mutant2(p) ==
    /\ proc[p].pc = "inbox"
    /\ Goto(p, IF \A a \in DOMAIN approvals : approvals[a].run # proc[p].run
               THEN "request" ELSE "finish")
    /\ UNCHANGED <<runs, created, run_steps, approvals, dispatched, consents, used>>
CheckInbox(p) ==
    /\ proc[p].pc = "inbox"
    /\ Goto(p, IF PendingFor(proc[p].run) = {} THEN "request" ELSE "finish")
    /\ UNCHANGED <<runs, created, run_steps, approvals, dispatched, consents, used>>

RequestApproval(p) ==
    /\ proc[p].pc = "request"
    /\ approvals' = Append(approvals, [run |-> proc[p].run, decision |-> "none",
                                       action |-> proc[p].final.pending])
    /\ Goto(p, "finish")
    /\ UNCHANGED <<runs, created, run_steps, dispatched, consents, used>>

\* What is left, the audit record and the outcome memory, writes neither table.
Finish(p) ==
    /\ proc[p].pc = "finish"
    /\ proc' = [proc EXCEPT ![p] = Idle]
    /\ UNCHANGED <<runs, created, run_steps, approvals, dispatched, consents, used>>

-----------------------------------------------------------------------------
(* A handler: resume_run_persisted and decide_approval_persisted, which    *)
(* meet in _resume_run_with_decision.                                      *)

Receive ==
    /\ used["requests"] < MaxRequests
    /\ used' = [used EXCEPT !["requests"] = @ + 1]

Accept(r, d) ==
    consents' = [consents EXCEPT ![r] = IF d = "approved" THEN @ + 1 ELSE @]

\* POST /runs/{id}/resume: the run is read first; without a checkpoint it is 404.
StartResume(h, r, d) ==
    /\ "resume" \in RequestKinds
    /\ proc[h].pc = "idle"
    /\ runs[r].checkpoint # NoCheckpoint
    /\ Receive
    /\ Accept(r, d)
    /\ proc' = [proc EXCEPT ![h] = [Idle EXCEPT !.pc = "list", !.run = r, !.decision = d,
                                    !.snapshot = runs[r].checkpoint]]
    /\ UNCHANGED <<runs, created, run_steps, approvals, dispatched>>

ListTargets(h) ==
    /\ proc[h].pc = "list"
    /\ proc' = [proc EXCEPT ![h].pc = "decide", ![h].targets = PendingFor(proc[h].run)]
    /\ UNCHANGED <<runs, created, run_steps, approvals, dispatched, consents, used>>

Undecided_Mutant(i) == TRUE
Undecided(i) == approvals[i].decision = "none"

\* POST /approvals/{id}/decide: an approval that was decided is 409.
StartDecide(h, i, d) ==
    /\ "decide" \in RequestKinds
    /\ proc[h].pc = "idle"
    /\ Undecided(i)
    /\ Receive
    /\ proc' = [proc EXCEPT ![h] = [Idle EXCEPT !.pc = "load", !.run = approvals[i].run,
                                    !.decision = d, !.targets = {i}]]
    /\ UNCHANGED <<runs, created, run_steps, approvals, dispatched, consents>>

\* The run of the approval is read next.
LoadRun(h) ==
    /\ proc[h].pc = "load"
    /\ runs[proc[h].run].checkpoint # NoCheckpoint
    /\ Accept(proc[h].run, proc[h].decision)
    /\ proc' = [proc EXCEPT ![h].pc = "decide",
                            ![h].snapshot = runs[proc[h].run].checkpoint]
    /\ UNCHANGED <<runs, created, run_steps, approvals, dispatched, used>>

\* A run that has no checkpoint yet is 409; its checkout stays undecided.
RefuseDecision(h) ==
    /\ proc[h].pc = "load"
    /\ runs[proc[h].run].checkpoint = NoCheckpoint
    /\ proc' = [proc EXCEPT ![h] = Idle]
    /\ UNCHANGED <<runs, created, run_steps, approvals, dispatched, consents, used>>

\* ApprovalRepository.decide, oldest target first, writes by approval id alone.
DecideTarget(h) ==
    /\ proc[h].pc = "decide"
    /\ \E i \in proc[h].targets :
          /\ \A j \in proc[h].targets : i <= j
          /\ approvals' = [approvals EXCEPT ![i].decision = proc[h].decision]
          /\ proc' = [proc EXCEPT ![h].targets = @ \ {i}]
    /\ UNCHANGED <<runs, created, run_steps, dispatched, consents, used>>

Resumable_Mutant(snapshot) == snapshot.status = "running"
Resumable(snapshot) == snapshot.status = "approval_required"

Approves_Mutant(d) == TRUE
Approves(d) == d = "approved"

StatusOfRejection == "cancelled"

AfterExecution_Mutant(state, status) == [state EXCEPT !.trace = Append(@, "executed")]
AfterExecution(state, status) ==
    [state EXCEPT !.status = status, !.pending = "none", !.trace = Append(@, "executed")]

\* Every target of this request is decided.
Decided_Mutant(h) == TRUE
Decided(h) == proc[h].targets = {}

\* How the loop can end after the approved tool.  A checkout run has no plan
\* left and a policy cited, so the verifier completes it.
ResumeResult(action) == IF action = "checkout" THEN {"completed"} ELSE {"completed", "failed"}

\* RunGraph.resume on the state that was read when the request came in.  What
\* it executes is the tool pending there, whatever the approval is for.
GraphResume(h) ==
    /\ proc[h].pc = "decide"
    /\ Decided(h)
    /\ LET snapshot == proc[h].snapshot
           paused   == Resumable(snapshot)
           executes == paused /\ Approves(proc[h].decision)
       IN
          /\ \E s \in ResumeResult(snapshot.pending) :
                proc' = [proc EXCEPT ![h].pc = "append",
                    ![h].next = FirstNewStep(snapshot),
                    ![h].final =
                        CASE executes -> AfterExecution(snapshot, s)
                          [] paused /\ ~executes ->
                                 [snapshot EXCEPT !.status = StatusOfRejection, !.pending = "none"]
                          [] OTHER -> snapshot]
          /\ dispatched' = IF executes
                           THEN [dispatched EXCEPT ![proc[h].run][snapshot.pending] = @ + 1]
                           ELSE dispatched
    /\ UNCHANGED <<runs, created, run_steps, approvals, consents, used>>

-----------------------------------------------------------------------------
(* create_ucp_checkout_proposal_persisted: POST /ucp/checkout-proposals.   *)

Propose(h, r, label) ==
    /\ "checkout" \in RequestKinds
    /\ used["checkouts"] < MaxCheckouts
    /\ used' = [used EXCEPT !["checkouts"] = @ + 1]
    /\ proc[h].pc = "idle"
    /\ proc' = [proc EXCEPT ![h] = [Idle EXCEPT !.pc = label, !.run = r]]

\* The client names a run that exists, in whatever status.
ProposeForRun(h, r) ==
    /\ runs[r].status # "absent"
    /\ Propose(h, r, "request_checkout")
    /\ UNCHANGED <<runs, created, run_steps, approvals, dispatched, consents>>

\* Or a run of its own is made for the proposal.
ProposeAlone(h, r) ==
    /\ runs[r].status = "absent"
    /\ Propose(h, r, "save_checkout")
    /\ runs' = [runs EXCEPT ![r].status = "approval_required"]
    /\ created' = Append(created, r)
    /\ UNCHANGED <<run_steps, approvals, dispatched, consents>>

\* Its checkpoint claims the proposal's step is persisted; no row is written.
SaveCheckout(h) ==
    /\ proc[h].pc = "save_checkout"
    /\ runs' = [runs EXCEPT ![proc[h].run] =
                    SavedRow([status |-> "approval_required", pending |-> "checkout",
                              trace |-> <<"checkout">>, persisted |-> 1])]
    /\ Goto(h, "request_checkout")
    /\ UNCHANGED <<created, run_steps, approvals, dispatched, consents, used>>

RequestCheckout(h) ==
    /\ proc[h].pc = "request_checkout"
    /\ approvals' = Append(approvals, [run |-> proc[h].run, decision |-> "none",
                                       action |-> "checkout"])
    /\ Goto(h, "finish")
    /\ UNCHANGED <<runs, created, run_steps, dispatched, consents, used>>

-----------------------------------------------------------------------------
(* What goes wrong, each within its bound.                                 *)

Executing(w, r) == proc[w].run = r

\* The container is killed and starts again: the process forgets everything.
Crash(w) ==
    /\ proc[w].run # NoRun
    /\ used["crashes"] < MaxCrashes
    /\ used' = [used EXCEPT !["crashes"] = @ + 1]
    /\ proc' = [proc EXCEPT ![w] = Idle]
    /\ UNCHANGED <<runs, created, run_steps, approvals, dispatched, consents>>

\* A call inside _execute_run raises: audit and memory writes included.
RaiseError(w) ==
    /\ proc[w].run # NoRun
    /\ proc[w].pc # "except"
    /\ used["errors"] < MaxErrors
    /\ used' = [used EXCEPT !["errors"] = @ + 1]
    /\ Goto(w, "except")
    /\ UNCHANGED <<runs, created, run_steps, approvals, dispatched, consents>>

\* The except clause marks the run failed, by run id alone, and the exception
\* ends the process, which is started again.
FailRun(w) ==
    /\ proc[w].pc = "except"
    /\ runs' = [runs EXCEPT ![proc[w].run].status = "failed"]
    /\ proc' = [proc EXCEPT ![w] = Idle]
    /\ UNCHANGED <<created, run_steps, approvals, dispatched, consents, used>>

\* A request dies: the API process is killed, or a call raises.
Abort(h) ==
    /\ proc[h].pc # "idle"
    /\ used["aborts"] < MaxAborts
    /\ used' = [used EXCEPT !["aborts"] = @ + 1]
    /\ proc' = [proc EXCEPT ![h] = Idle]
    /\ UNCHANGED <<runs, created, run_steps, approvals, dispatched, consents>>

\* The lease of a run nobody works on runs out, sooner or later.
LeaseExpires(r) ==
    /\ runs[r].lease = "live"
    /\ \A w \in Worker : ~Executing(w, r)
    /\ runs' = [runs EXCEPT ![r].lease = "expired"]
    /\ UNCHANGED <<created, run_steps, approvals, proc, dispatched, consents, used>>

\* A worker that is slow outlives its lease: it is renewed only once.
LeaseLapses(r) ==
    /\ runs[r].lease = "live"
    /\ \E w \in Worker : Executing(w, r)
    /\ used["lapses"] < MaxLapses
    /\ used' = [used EXCEPT !["lapses"] = @ + 1]
    /\ runs' = [runs EXCEPT ![r].lease = "expired"]
    /\ UNCHANGED <<created, run_steps, approvals, proc, dispatched, consents>>

-----------------------------------------------------------------------------
PersistStep(p) ==
    AppendStep(p) \/ SaveCheckpoint(p) \/ CheckInbox(p) \/ RequestApproval(p) \/ Finish(p)

WorkerStep(w) ==
    \/ ReleaseStaleRunning(w)
    \/ \E r \in Run : Claim(w, r)
    \/ NothingToClaim(w)
    \/ RenewLease(w)
    \/ Invoke(w)
    \/ PersistStep(w)
    \/ FailRun(w)

\* The steps of a request that was accepted.
HandlerStep(h) ==
    \/ ListTargets(h) \/ LoadRun(h) \/ RefuseDecision(h) \/ DecideTarget(h) \/ GraphResume(h)
    \/ SaveCheckout(h) \/ RequestCheckout(h)
    \/ PersistStep(h)

Request(h) ==
    \/ \E r \in Run : ProposeForRun(h, r) \/ ProposeAlone(h, r)
    \/ \E d \in {"approved", "rejected"} :
          \/ \E r \in Run : StartResume(h, r, d)
          \/ \E i \in 1..Len(approvals) : StartDecide(h, i, d)

Fault ==
    \/ \E w \in Worker : Crash(w) \/ RaiseError(w)
    \/ \E h \in Handler : Abort(h)
    \/ \E r \in Run : LeaseLapses(r)

Next ==
    \/ \E r \in Run : CreateRun(r) \/ LeaseExpires(r)
    \/ \E w \in Worker : WorkerStep(w)
    \/ \E h \in Handler : Request(h) \/ HandlerStep(h)
    \/ Fault

\* Workers poll for ever and are restarted (restart: unless-stopped), a
\* request that was accepted is carried on with, and time passes; nobody has
\* to create a run or to send a decision.
Fairness ==
    /\ \A w \in Worker : WF_vars(WorkerStep(w))
    /\ \A h \in Handler : WF_vars(HandlerStep(h))
    /\ \A r \in Run : WF_vars(LeaseExpires(r))

Spec == Init /\ [][Next]_vars /\ Fairness

-----------------------------------------------------------------------------
RunRow == [status : RunStatus, worker : Worker \cup {NoWorker},
           lease : {"none", "live", "expired"}, checkpoint : Checkpoint]

ApprovalRow == [run : Run, decision : Decision, action : Action]

ProcState ==
    [pc : {"idle", "claim", "renew", "invoke", "append", "inbox", "request", "finish",
           "except", "list", "load", "decide", "save_checkout", "request_checkout"},
     run : Run \cup {NoRun}, decision : Decision, targets : SUBSET Nat,
     snapshot : Checkpoint, final : Checkpoint, next : Nat]

TypeOK ==
    /\ runs \in [Run -> RunRow]
    /\ created \in Seq(Run)
    /\ run_steps \in [Run -> [StepKind -> Nat]]
    /\ approvals \in Seq(ApprovalRow)
    /\ proc \in [Proc -> ProcState]
    /\ dispatched \in [Run -> [Action -> Nat]]
    /\ consents \in [Run -> Nat]
    /\ used \in [Bound -> Nat]

Count(trace, kind) == Cardinality({i \in 1..Len(trace) : trace[i] = kind})

\* How many gated calls were made for the run.
Dispatches(r) == dispatched[r]["own"] + dispatched[r]["checkout"]

\* Every entry of a checkpointed trace has its row in run_steps, but for the
\* proposal a checkout run is born with, which never gets one, and whichever
\* processes wrote rows and checkpoints in whatever order and wherever they
\* died: a stale persisted_trace_len may repeat a row, never lose one
\* (append_new_tool_steps, run_ops.py).
LedgerComplete ==
    \A r \in Run : \A k \in StepKind \ {"checkout"} :
        run_steps[r][k] >= Count(runs[r].checkpoint.trace, k)

\* run_steps never shows an execution that did not take place.
LedgerHonest ==
    \A r \in Run : run_steps[r]["executed"] <= Dispatches(r)

\* A gated tool is called at most once for each approving request; rejecting
\* requests and workers never call one (RunGraph.resume, graph.py).
DispatchPerConsent ==
    \A r \in Run : Dispatches(r) <= consents[r]

\* A run that is running has a lease, so release_stale_running can free it
\* when its worker is gone (runs.py).
RunningHasLease ==
    \A r \in Run : runs[r].status = "running" =>
        runs[r].lease # "none" /\ runs[r].worker \in Worker

\* As long as no lease ran out under a live worker, no two workers execute
\* the same run (claim_next_pending and release_stale_running, runs.py).
SoleWorker ==
    used["lapses"] = 0 =>
        \A w1, w2 \in Worker, r \in Run :
            Executing(w1, r) /\ Executing(w2, r) => w1 = w2

\* A run's gated tool is called once at most.
AtMostOnceExecution ==
    \A r \in Run : Dispatches(r) <= 1

\* A run that is completed, failed or cancelled stays what it is.
TerminalIsFinal ==
    [][\A r \in Run : runs[r].status \in Terminal =>
           runs'[r].status = runs[r].status]_vars

\* The process p takes the settled run r back.  The except clause does not look
\* whether the result is saved; a worker that outlived its lease saves over the
\* run another settled; and so does a request whose snapshot is not the row's
\* checkpoint any more, or whose row the except clause has marked.
Unsettles(p, r) ==
    /\ proc[p].run = r /\ proc'[p] # proc[p]
    /\ \/ proc[p].pc = "except"
       \/ p \in Worker /\ proc[p].pc = "append" /\ used["lapses"] > 0
       \/ /\ p \in Handler /\ proc[p].pc = "append"
          /\ \/ runs[r].checkpoint # proc[p].snapshot
             \/ runs[r].checkpoint.status # runs[r].status

\* Whatever overlaps, dies or lapses, there is no other way for a run that is
\* completed, failed or cancelled to become something else: a claim, a requeue, a
\* renewed lease, a repeated decision or a checkout proposed for it never do it
\* (executor.py, persisted.py, runs.py).
SettledUnless ==
    [][\A r \in Run :
          runs[r].status \in Terminal /\ runs'[r].status # runs[r].status =>
              \E p \in Proc : Unsettles(p, r)]_vars

\* A gated tool is called only when an approval of that run and that tool is
\* on record.
ConsentOnRecord ==
    \A r \in Run : \A a \in Action : dispatched[r][a] > 0 =>
        \E i \in 1..Len(approvals) : approvals[i] = [run |-> r, action |-> a,
                                                     decision |-> "approved"]

\* No process is busy with the run.
Quiet(r) == \A p \in Proc : proc[p].run # r

\* As long as nothing but a worker has died, no error was raised and no lease has
\* lapsed: once nobody works on a run that no checkout was proposed for, its
\* approvals say what became of it (decide_approval_persisted, persisted.py).
DecisionMatchesOutcome ==
    \A i \in 1..Len(approvals) :
        LET r == approvals[i].run IN
        (\A fault \in {"errors", "aborts", "lapses"} : used[fault] = 0) /\ Quiet(r) =>
            CASE approvals[i].decision = "approved" ->
                     Dispatches(r) > 0 /\ runs[r].status \in {"completed", "failed"}
              [] approvals[i].decision = "rejected" ->
                     Dispatches(r) = 0 /\ runs[r].status = "cancelled"
              [] OTHER -> Dispatches(r) = 0 /\ runs[r].status = "approval_required"

\* As long as no request died, every gated call made for a run that nobody
\* works on has a row of its own in run_steps, however requests and workers
\* overlap (append_new_tool_steps, run_ops.py).
ExecutionIsRecorded ==
    used["aborts"] = 0 =>
        \A r \in Run : Quiet(r) => run_steps[r]["executed"] >= Dispatches(r)

\* A paused run that nobody works on has an undecided approval, unless a process
\* died: however workers and requests overlap, whichever of them paused it last,
\* and whatever checkpoint a decision was taken on (persist_run_result and
\* _resume_run_with_decision, persisted.py).
PausedIsAsked ==
    used["crashes"] + used["aborts"] = 0 =>
        \A r \in Run : Quiet(r) /\ runs[r].status = "approval_required" =>
            PendingFor(r) # {}

\* A queued run is executed: it ends or pauses, although workers are killed,
\* raise errors and lose leases while they work on it.
EveryRunSettles ==
    \A r \in Run :
        runs[r].status \in {"pending", "running"} ~>
            runs[r].status \in Terminal \cup {"approval_required"}

\* A run that pauses is put to a human: an undecided approval appears in the
\* inbox, or the run has moved on; only a process that dies behind the
\* checkpoint that paused it can lose the approval (persist_run_result).
PausedReachesInbox ==
    \A r \in Run :
        runs[r].status = "approval_required" ~>
            \/ PendingFor(r) # {}
            \/ runs[r].status # "approval_required"
            \/ used["crashes"] + used["aborts"] > 0

\* A decision that was recorded takes effect on its run.
DecisionTakesEffect ==
    \A r \in Run :
        (\E i \in 1..Len(approvals) : approvals[i].run = r /\ approvals[i].decision # "none")
            ~> runs[r].status \in Terminal

-----------------------------------------------------------------------------
(* What makes LedgerHonest, DispatchPerConsent, RunningHasLease and        *)
(* SoleWorker inductive.                                                   *)

\* A state the graph has returned: it is paused just when a tool is pending.
Returned(state) ==
    /\ state.status \in Terminal \cup {"approval_required"}
    /\ state.pending # "none" <=> state.status = "approval_required"

\* A checkpoint is such a state and counts its whole trace as persisted, so a
\* resume has one new step to persist at most.
Saved(checkpoint) ==
    Returned(checkpoint) /\ checkpoint.persisted = Len(checkpoint.trace)

RowOK(row) ==
    /\ row.checkpoint = NoCheckpoint \/ Saved(row.checkpoint)
    /\ row.status = "running" => row.lease # "none" /\ row.worker \in Worker

PersistOK(s) ==
    /\ s.pc \in {"append", "inbox", "request"} => Returned(s.final)
    /\ s.pc \in {"inbox", "request"} => s.final.status = "approval_required"

WorkerOK(s) ==
    /\ s.pc \in {"idle", "claim", "renew", "invoke", "append", "inbox", "request",
                 "finish", "except"}
    /\ s.run \in Run <=> s.pc \notin {"idle", "claim"}
    /\ s.pc = "append" => \A i \in 1..Len(s.final.trace) : s.final.trace[i] # "executed"
    /\ PersistOK(s)

HandlerOK(s) ==
    /\ s.pc \in {"idle", "list", "load", "decide", "append", "inbox", "request", "finish",
                 "save_checkout", "request_checkout"}
    /\ s.run \in Run <=> s.pc # "idle"
    /\ s.pc \in {"list", "decide"} => Saved(s.snapshot)
    /\ s.pc = "append" => s.next + 1 >= Len(s.final.trace)
    /\ PersistOK(s)

\* A handler that dispatched a gated tool and has yet to write its step row.
Owes(s, r) == s.run = r /\ s.pc = "append" /\ s.next < Len(s.final.trace)

Owing(r) == {h \in Handler : Owes(proc[h], r)}

\* A handler with an approving request that has yet to resume the graph.
Asks(s, r) == s.run = r /\ s.pc \in {"list", "decide"} /\ s.decision = "approved"

Asking(r) == {h \in Handler : Asks(proc[h], r)}

StateInv ==
    /\ \A r \in Run : RowOK(runs[r])
    /\ \A w \in Worker : WorkerOK(proc[w])
    /\ \A h \in Handler : HandlerOK(proc[h])

LedgerInv ==
    \A r \in Run : run_steps[r]["executed"] + Cardinality(Owing(r)) <= Dispatches(r)

ConsentInv ==
    \A r \in Run : Dispatches(r) + Cardinality(Asking(r)) <= consents[r]

\* Until a lease lapses, a worker holds the run it executes or the run is out
\* of every worker's reach.
Holds(w, row) ==
    \/ row.status = "running" /\ row.worker = w /\ row.lease = "live"
    \/ row.status \in Terminal \cup {"approval_required"}

Holding ==
    used["lapses"] = 0 =>
        \A w \in Worker, r \in Run : Executing(w, r) => Holds(w, runs[r])

ControlInv ==
    /\ TypeOK
    /\ StateInv
    /\ LedgerInv
    /\ ConsentInv
    /\ Holding
    /\ SoleWorker

-----------------------------------------------------------------------------
(* The refinement mapping to GovernedService.  A gated call is the point   *)
(* of no return: the run is closed for the promise before its row says so. *)

StageOf(calls, status) ==
    CASE calls > 0 \/ status \in Terminal                -> "closed"
      [] calls = 0 /\ status \in {"pending", "running"} -> "queued"
      [] calls = 0 /\ status = "approval_required"       -> "awaiting"
      [] calls = 0 /\ status = "absent"                  -> "absent"

StageBar == [r \in Run |-> StageOf(Dispatches(r), runs[r].status)]

Consented == {r \in Run : consents[r] > 0}

Service == INSTANCE GovernedService WITH
    Id <- Run, stage <- StageBar, consented <- Consented,
    performed <- [r \in Run |-> Dispatches(r)]

\* The control plane keeps the promise of GovernedService: a run that is queued,
\* paused or closed never goes back, a human is heard only once it has paused,
\* and a gated tool is called for it only after an approving request and only
\* once, across every crash of a worker.  Which tool that is, is ConsentOnRecord.
KeepsService == Service!Spec

=============================================================================
