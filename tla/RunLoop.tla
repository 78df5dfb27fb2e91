------------------------------ MODULE RunLoop ------------------------------
(***************************************************************************)
(* One run of the governed tool loop: the nodes of                         *)
(* packages/py/orchestration/.../nodes.py wired by the two state graphs of *)
(* graph.py.  invoke() enters at "planner"; resume() enters, for a run     *)
(* that is paused at an approval, at "execute_pending".  Both graphs share *)
(* the specialist/verifier loop, so one module models both.                *)
(*                                                                         *)
(* A tool call is external: its success, its cost and whether a policy     *)
(* search finds a clause are chosen nondeterministically.  The list of     *)
(* policy citations is abstracted to whether it is empty, and the outcome  *)
(* dictionary to which node wrote it.                                      *)
(***************************************************************************)
EXTENDS Integers, Sequences

CONSTANTS
    Tool,          \* the tools of the risk registry
    NoTool,        \* Python's None where a tool name could be
    Gated,         \* the tools of tier financial or destructive
    PolicySearch,  \* policy.search, the only tool that yields citations
    Plans,         \* what planner_node can resolve, the fallback included
    CallCost,      \* the costs a tool call can report
    MaxSteps,      \* MAX_STEPS
    MaxCost        \* MAX_COST_USD

\* The plan facts are what SkillPlan's runs check of resolve_skill_plan: it
\* names registered tools only and stops at the first gated one.
ASSUME RunLoopAssumption ==
    /\ NoTool \notin Tool
    /\ Gated \subseteq Tool
    /\ PolicySearch \in Tool \ Gated
    /\ Plans \subseteq Seq(Tool)
    /\ \A p \in Plans : \A i \in 1..Len(p) : p[i] \in Gated => i = Len(p)
    /\ CallCost \subseteq Nat
    /\ MaxSteps \in Nat
    /\ MaxCost \in Nat

VARIABLES
    node,             \* the graph node about to run, "end" between calls
    plan,             \* state["plan"]
    current_step,     \* state["current_step"]: plan steps done
    step_count,       \* state["step_count"]: budget steps used
    cost_usd,         \* state["cost_usd"]
    status,           \* state["status"]
    pending_tool,     \* state["pending_tool"]
    tool_trace,       \* state["tool_trace"]
    policy_cited,     \* state["policy_citations"] is not empty
    outcome,          \* which node wrote state["outcome"]
    approvedAt        \* history: Len(tool_trace) at each human approval

vars == <<node, plan, current_step, step_count, cost_usd, status,
          pending_tool, tool_trace, policy_cited, outcome, approvedAt>>

Node == {"planner", "specialist", "verifier", "approval_gate",
         "memory_writer", "execute_pending", "end"}

Status == {"pending", "running", "approval_required", "completed",
           "failed", "cancelled"}

Outcome == {"none", "awaiting", "resolved", "rejected"}

TraceEntry == [tool : Tool, executed : BOOLEAN, success : BOOLEAN]

Init ==
    /\ node = "planner"
    /\ plan = <<>>
    /\ current_step = 0
    /\ step_count = 0
    /\ cost_usd = 0
    /\ status = "pending"
    /\ pending_tool = NoTool
    /\ tool_trace = <<>>
    /\ policy_cited = FALSE
    /\ outcome = "none"
    /\ approvedAt = {}

-----------------------------------------------------------------------------
(* The planner resets the whole state and sets the resolved plan.          *)
Planner ==
    /\ node = "planner"
    /\ plan' \in Plans
    /\ current_step' = 0
    /\ step_count' = 0
    /\ cost_usd' = 0
    /\ status' = "running"
    /\ pending_tool' = NoTool
    /\ tool_trace' = <<>>
    /\ policy_cited' = FALSE
    /\ outcome' = "none"
    /\ node' = "specialist"
    /\ UNCHANGED approvedAt

-----------------------------------------------------------------------------
(* The specialist handles one plan step per visit. _route_after_specialist*)
(* loops while the status is "running" and goes to the verifier otherwise. *)
(* Its first branch (status failed or cancelled) and its unknown-tool      *)
(* branch have no action: DefensiveBranchesDead and the assumption         *)
(* Plans \subseteq Seq(Tool) are why no execution takes them.              *)

(* The definitions named ..._Mutant here and below are plausible slips in  *)
(* the definition that follows them; no action uses one.                   *)

OverBudget == step_count >= MaxSteps \/ cost_usd >= MaxCost

NextTool == plan[current_step + 1]

NeedsApproval_Mutant(t) == FALSE
NeedsApproval(t) == t \in Gated

\* A proposal leaves the plan step for the resume to take.
StepAfterProposal_Mutant == current_step + 1
StepAfterProposal == current_step

RouteAfterSpecialist(s) == IF s = "running" THEN "specialist" ELSE "verifier"

PlanExhausted ==
    /\ node = "specialist"
    /\ current_step >= Len(plan)
    /\ status' = "completed"
    /\ node' = RouteAfterSpecialist(status')
    /\ UNCHANGED <<plan, current_step, step_count, cost_usd, pending_tool,
                   tool_trace, policy_cited, outcome, approvedAt>>

BudgetExceeded ==
    /\ node = "specialist"
    /\ current_step < Len(plan)
    /\ OverBudget
    /\ status' = "failed"
    /\ node' = RouteAfterSpecialist(status')
    /\ UNCHANGED <<plan, current_step, step_count, cost_usd, pending_tool,
                   tool_trace, policy_cited, outcome, approvedAt>>

\* A gated tool is only proposed: it is traced as not executed, the plan
\* step stays where it is and the run waits.
ProposeGatedTool ==
    /\ node = "specialist"
    /\ current_step < Len(plan)
    /\ ~OverBudget
    /\ NeedsApproval(NextTool)
    /\ tool_trace' = Append(tool_trace,
           [tool |-> NextTool, executed |-> FALSE, success |-> TRUE])
    /\ current_step' = StepAfterProposal
    /\ step_count' = step_count + 1
    /\ status' = "approval_required"
    /\ pending_tool' = NextTool
    /\ node' = RouteAfterSpecialist(status')
    /\ UNCHANGED <<plan, cost_usd, policy_cited, outcome, approvedAt>>

\* A read-only tool is dispatched.  A failed call is traced and the loop
\* goes on; only a successful policy search can add citations.
DispatchTool(success, cost, clauseFound) ==
    /\ node = "specialist"
    /\ current_step < Len(plan)
    /\ ~OverBudget
    /\ ~NeedsApproval(NextTool)
    /\ tool_trace' = Append(tool_trace,
           [tool |-> NextTool, executed |-> TRUE, success |-> success])
    /\ current_step' = current_step + 1
    /\ step_count' = step_count + 1
    /\ cost_usd' = cost_usd + cost
    /\ policy_cited' = (policy_cited \/
           (NextTool = PolicySearch /\ success /\ clauseFound))
    /\ status' = "running"
    /\ node' = RouteAfterSpecialist(status')
    /\ UNCHANGED <<plan, pending_tool, outcome, approvedAt>>

-----------------------------------------------------------------------------
(* The verifier and the routes out of it.  Its "steps are left" branch has *)
(* no action: CompletedMeansPlanDone is why no execution takes it.         *)

Grounded_Mutant == TRUE
Grounded == policy_cited

RouteAfterVerifier_Mutant(s) ==
    CASE s = "approval_required" -> "approval_gate"
      [] s = "completed"         -> "memory_writer"
      [] OTHER                   -> "specialist"
RouteAfterVerifier(s) ==
    CASE s = "approval_required" -> "approval_gate"
      [] s = "completed"         -> "memory_writer"
      [] OTHER                   -> "end"

\* A paused or failed run is passed on as it is.
VerifierForwards ==
    /\ node = "verifier"
    /\ status \in {"approval_required", "failed"}
    /\ node' = RouteAfterVerifier(status)
    /\ UNCHANGED <<plan, current_step, step_count, cost_usd, status,
                   pending_tool, tool_trace, policy_cited, outcome, approvedAt>>

VerifierRejectsUngrounded ==
    /\ node = "verifier"
    /\ status \notin {"approval_required", "failed"}
    /\ current_step >= Len(plan)
    /\ ~Grounded
    /\ status' = "failed"
    /\ node' = RouteAfterVerifier(status')
    /\ UNCHANGED <<plan, current_step, step_count, cost_usd, pending_tool,
                   tool_trace, policy_cited, outcome, approvedAt>>

VerifierCompletes ==
    /\ node = "verifier"
    /\ status \notin {"approval_required", "failed"}
    /\ current_step >= Len(plan)
    /\ Grounded
    /\ status' = "completed"
    /\ outcome' = "resolved"
    /\ node' = RouteAfterVerifier(status')
    /\ UNCHANGED <<plan, current_step, step_count, cost_usd, pending_tool,
                   tool_trace, policy_cited, approvedAt>>

ApprovalGate ==
    /\ node = "approval_gate"
    /\ outcome' = "awaiting"
    /\ node' = "end"
    /\ UNCHANGED <<plan, current_step, step_count, cost_usd, status,
                   pending_tool, tool_trace, policy_cited, approvedAt>>

MemoryWriter ==
    /\ node = "memory_writer"
    /\ node' = "end"
    /\ UNCHANGED <<plan, current_step, step_count, cost_usd, status,
                   pending_tool, tool_trace, policy_cited, outcome, approvedAt>>

-----------------------------------------------------------------------------
(* RunGraph.resume, called by a human decision.                            *)

Paused_Mutant == node = "end" /\ outcome \in {"awaiting", "rejected"}
Paused == node = "end" /\ status = "approval_required"

\* A run that is not paused at an approval is returned as it is.
ResumeNotPaused ==
    /\ node = "end"
    /\ ~Paused
    /\ UNCHANGED vars

StatusAfterRejection == "cancelled"

ResumeRejected ==
    /\ Paused
    /\ status' = StatusAfterRejection
    /\ pending_tool' = NoTool
    /\ outcome' = "rejected"
    /\ UNCHANGED <<node, plan, current_step, step_count, cost_usd,
                   tool_trace, policy_cited, approvedAt>>

ResumeApproved ==
    /\ Paused
    /\ node' = "execute_pending"
    /\ approvedAt' = approvedAt \cup {Len(tool_trace)}
    /\ UNCHANGED <<plan, current_step, step_count, cost_usd, status,
                   pending_tool, tool_trace, policy_cited, outcome>>

StatusAfterExecution == "running"

\* The approved tool is dispatched without a look at the budget.
ExecutePending(success, cost) ==
    /\ node = "execute_pending"
    /\ pending_tool # NoTool
    /\ tool_trace' = Append(tool_trace,
           [tool |-> pending_tool, executed |-> TRUE, success |-> success])
    /\ current_step' = current_step + 1
    /\ step_count' = step_count + 1
    /\ cost_usd' = cost_usd + cost
    /\ pending_tool' = NoTool
    /\ status' = StatusAfterExecution
    /\ node' = "specialist"
    /\ UNCHANGED <<plan, policy_cited, outcome, approvedAt>>

-----------------------------------------------------------------------------
Specialist ==
    \/ PlanExhausted
    \/ BudgetExceeded
    \/ ProposeGatedTool
    \/ \E success \in BOOLEAN, cost \in CallCost, clauseFound \in BOOLEAN :
           DispatchTool(success, cost, clauseFound)

Verifier ==
    \/ VerifierForwards
    \/ VerifierRejectsUngrounded
    \/ VerifierCompletes

\* The steps of a graph invocation: the program takes them by itself.
GraphStep ==
    \/ Planner
    \/ Specialist
    \/ Verifier
    \/ ApprovalGate
    \/ MemoryWriter
    \/ \E success \in BOOLEAN, cost \in CallCost : ExecutePending(success, cost)

\* The steps a human takes.
Resume == ResumeNotPaused \/ ResumeRejected \/ ResumeApproved

Next == GraphStep \/ Resume

\* A graph invocation that was started runs on; a human may never answer.
Spec == Init /\ [][Next]_vars /\ WF_vars(GraphStep)

-----------------------------------------------------------------------------
TypeOK ==
    /\ node \in Node
    /\ plan \in Seq(Tool)
    /\ current_step \in Nat
    /\ step_count \in Nat
    /\ cost_usd \in Nat
    /\ status \in Status
    /\ pending_tool \in Tool \cup {NoTool}
    /\ tool_trace \in Seq(TraceEntry)
    /\ policy_cited \in BOOLEAN
    /\ outcome \in Outcome
    /\ approvedAt \subseteq Nat

\* A gated tool is executed only straight after its own proposal, and only
\* when a human approved while that proposal was the last thing traced
\* (specialist_node and execute_pending_gated_tool, nodes.py).
ExecutionAuthorised ==
    \A i \in 1..Len(tool_trace) :
        tool_trace[i].tool \in Gated /\ tool_trace[i].executed =>
            /\ i > 1
            /\ tool_trace[i-1] =
                  [tool |-> tool_trace[i].tool, executed |-> FALSE, success |-> TRUE]
            /\ (i - 1) \in approvedAt

Proposed == {i \in 1..Len(tool_trace) : ~tool_trace[i].executed}

\* The trace is the plan, step by step, with the gated last tool once as a
\* proposal and once more when it is executed; the two counters of the state
\* agree with it.  A resume that skipped, repeated or reordered a step would
\* break it.
TraceFollowsPlan ==
    /\ Len(tool_trace) <= Len(plan) + 1
    /\ \A i \in 1..Len(tool_trace) :
          tool_trace[i].tool = plan[IF i <= Len(plan) THEN i ELSE Len(plan)]
    /\ \A i \in Proposed : i = Len(plan) /\ tool_trace[i].tool \in Gated
    /\ step_count = Len(tool_trace)
    /\ current_step = IF Proposed = {} THEN Len(tool_trace) ELSE Len(tool_trace) - 1

\* The trace holds a successful policy search.
SearchSucceeded ==
    \E j \in 1..Len(tool_trace) :
        tool_trace[j] = [tool |-> PolicySearch, executed |-> TRUE, success |-> TRUE]

\* A run is left completed only when every tool of its plan was executed and
\* a policy search among them succeeded (verifier_node, nodes.py).
GroundedCompletion ==
    node \in {"memory_writer", "end"} /\ status = "completed" =>
        /\ \A i \in 1..Len(plan) :
              \E j \in 1..Len(tool_trace) :
                  tool_trace[j].tool = plan[i] /\ tool_trace[j].executed
        /\ SearchSucceeded

\* The step budget is exceeded by one step at most, and only by a gated tool
\* a human approved: execute_pending_gated_tool does not look at the budget.
StepBudget ==
    /\ step_count <= MaxSteps + 1
    /\ step_count > MaxSteps => tool_trace[Len(tool_trace)].tool \in Gated
                                /\ tool_trace[Len(tool_trace)].executed

\* The branches of the code that have no action here are dead: the specialist
\* never sees a failed or cancelled run, the verifier never sees steps left
\* over, and execute_pending_gated_tool always has a tool to execute.
DefensiveBranchesDead ==
    /\ node = "specialist" => status = "running"
    /\ node = "verifier" /\ status \notin {"approval_required", "failed"} =>
           status = "completed" /\ current_step >= Len(plan)
    /\ node = "execute_pending" => pending_tool # NoTool

\* The conjunction of the invariants above with what makes them inductive:
\* which status each node can see, what a pending tool says of the trace, and
\* where a citation comes from.
NodeStatus ==
    /\ node = "planner" =>
          /\ status = "pending"
          /\ plan = <<>>
          /\ tool_trace = <<>>
          /\ step_count = 0
          /\ current_step = 0
    /\ node = "specialist" => status = "running"
    /\ node = "verifier" => status \in {"approval_required", "failed", "completed"}
    /\ node \in {"approval_gate", "execute_pending"} => status = "approval_required"
    /\ node = "memory_writer" => status = "completed"
    /\ node = "end" => status \in {"approval_required", "failed", "completed", "cancelled"}
    /\ node # "planner" => plan \in Plans
    /\ status = "completed" => current_step >= Len(plan)

PendingTool ==
    /\ pending_tool # NoTool <=> status = "approval_required"
    /\ pending_tool # NoTool =>
          /\ Len(tool_trace) > 0
          /\ pending_tool \in Gated
          /\ tool_trace[Len(tool_trace)] =
                [tool |-> pending_tool, executed |-> FALSE, success |-> TRUE]
    /\ node = "execute_pending" => Len(tool_trace) \in approvedAt
    /\ node = "specialist" /\ Proposed # {} => Len(tool_trace) = Len(plan) + 1

Citation ==
    /\ policy_cited => SearchSucceeded
    /\ node \in {"memory_writer", "end"} /\ status = "completed" => policy_cited

Budget == Len(tool_trace) <= Len(plan) => step_count <= MaxSteps

LoopInv ==
    /\ TypeOK
    /\ NodeStatus
    /\ PendingTool
    /\ ExecutionAuthorised
    /\ TraceFollowsPlan
    /\ Citation
    /\ Budget
    /\ StepBudget

\* A graph invocation comes to rest: it completes, fails or waits for a
\* human (graph.py, the edges to END).
RunSettles == (node # "end") ~> (node = "end")

-----------------------------------------------------------------------------
(* The refinement mapping to GovernedRun.                                  *)
PhaseBar ==
    CASE node = "execute_pending"              -> "authorised"
      [] Paused                                -> "awaiting"
      [] node = "end" /\ ~Paused               -> "closed"
      [] OTHER                                 -> "working"

ProposalBar ==
    IF PhaseBar \in {"awaiting", "authorised"} THEN pending_tool ELSE NoTool

PerformedBar ==
    {t \in Gated : \E i \in 1..Len(tool_trace) :
                      tool_trace[i].tool = t /\ tool_trace[i].executed}

Promise == INSTANCE GovernedRun WITH
    GatedTool <- Gated, NoProposal <- NoTool,
    phase <- PhaseBar, proposal <- ProposalBar, performed <- PerformedBar

\* The loop keeps the promise of GovernedRun, its progress included.
KeepsPromise == Promise!Spec

=============================================================================
