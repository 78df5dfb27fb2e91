--------------------------- MODULE RunLoopProofs ---------------------------
(***************************************************************************)
(* Proofs about RunLoop for every registry, every set of plans that        *)
(* RunLoopAssumption allows and every budget.                              *)
(***************************************************************************)
EXTENDS RunLoop, TLAPS

\* The steps that leave the trace, the plan and the counters alone.
TraceUnchanged ==
    UNCHANGED <<plan, current_step, step_count, tool_trace>>

\* Four parts of LoopInv speak of the trace and the counters only, so a step
\* that leaves those alone preserves them.
LEMMA TraceUnchangedKeeps ==
    ASSUME LoopInv, TraceUnchanged, approvedAt \subseteq approvedAt'
    PROVE  /\ ExecutionAuthorised'
           /\ TraceFollowsPlan'
           /\ Budget'
           /\ StepBudget'
<1>1. ExecutionAuthorised'
  BY DEF LoopInv, TraceUnchanged, ExecutionAuthorised
<1>2. TraceFollowsPlan'
  BY DEF LoopInv, TraceUnchanged, TraceFollowsPlan, Proposed
<1>3. Budget' /\ StepBudget'
  BY DEF LoopInv, TraceUnchanged, Budget, StepBudget
<1>4. QED  BY <1>1, <1>2, <1>3

\* A search that was traced stays in a trace that grows.
LEMMA SearchStays ==
    ASSUME NEW entry,
           tool_trace \in Seq(TraceEntry),
           entry \in TraceEntry,
           tool_trace' = Append(tool_trace, entry),
           SearchSucceeded
    PROVE  SearchSucceeded'
<1>1. PICK j \in 1..Len(tool_trace) :
          tool_trace[j] = [tool |-> PolicySearch, executed |-> TRUE, success |-> TRUE]
  BY DEF SearchSucceeded
<1>2. j \in 1..Len(tool_trace') /\ tool_trace'[j] = tool_trace[j]
  OBVIOUS
<1>3. QED  BY <1>1, <1>2 DEF SearchSucceeded

LEMMA InitLoopInv == Init => LoopInv
<1> SUFFICES ASSUME Init PROVE LoopInv  OBVIOUS
<1> USE RunLoopAssumption DEF Init
<1>1. TypeOK
  <2>1. policy_cited \in BOOLEAN  BY Zenon
  <2>2. QED  BY <2>1 DEF TypeOK, Node, Status, Outcome
<1>2. NodeStatus  BY DEF NodeStatus
<1>3. PendingTool  BY DEF PendingTool
<1>4. ExecutionAuthorised  BY DEF ExecutionAuthorised
<1>5. TraceFollowsPlan  BY DEF TraceFollowsPlan, Proposed
<1>6. Citation /\ Budget /\ StepBudget  BY DEF Citation, Budget, StepBudget
<1>7. QED  BY <1>1, <1>2, <1>3, <1>4, <1>5, <1>6 DEF LoopInv

LEMMA PlannerKeeps == LoopInv /\ Planner => LoopInv'
<1> SUFFICES ASSUME LoopInv, Planner PROVE LoopInv'  OBVIOUS
<1> USE RunLoopAssumption DEF Planner
<1>1. TypeOK'
  <2>1. policy_cited' \in BOOLEAN  BY Zenon
  <2>2. plan' \in Seq(Tool)  OBVIOUS
  <2>3. QED  BY <2>1, <2>2 DEF LoopInv, TypeOK, Node, Status, Outcome
<1>2. NodeStatus'  BY DEF NodeStatus
<1>3. PendingTool'  BY DEF PendingTool, Proposed
<1>4. ExecutionAuthorised'  BY DEF ExecutionAuthorised
<1>5. TraceFollowsPlan'  BY DEF TraceFollowsPlan, Proposed
<1>6. Citation' /\ Budget' /\ StepBudget'  BY DEF Citation, Budget, StepBudget
<1>7. QED  BY <1>1, <1>2, <1>3, <1>4, <1>5, <1>6 DEF LoopInv

LEMMA PlanExhaustedKeeps == LoopInv /\ PlanExhausted => LoopInv'
<1> SUFFICES ASSUME LoopInv, PlanExhausted PROVE LoopInv'  OBVIOUS
<1> USE RunLoopAssumption DEF LoopInv, PlanExhausted, RouteAfterSpecialist
<1>1. TypeOK'  BY DEF TypeOK, Node, Status
<1>2. NodeStatus'  BY DEF NodeStatus
<1>3. PendingTool'  BY DEF PendingTool, NodeStatus, Proposed
<1>4. Citation'  BY DEF Citation, SearchSucceeded
<1>5. QED  BY <1>1, <1>2, <1>3, <1>4, TraceUnchangedKeeps DEF TraceUnchanged

LEMMA BudgetExceededKeeps == LoopInv /\ BudgetExceeded => LoopInv'
<1> SUFFICES ASSUME LoopInv, BudgetExceeded PROVE LoopInv'  OBVIOUS
<1> USE RunLoopAssumption DEF LoopInv, BudgetExceeded, RouteAfterSpecialist
<1>1. TypeOK'  BY DEF TypeOK, Node, Status
<1>2. NodeStatus'  BY DEF NodeStatus
<1>3. PendingTool'  BY DEF PendingTool, NodeStatus, Proposed
<1>4. Citation'  BY DEF Citation, SearchSucceeded
<1>5. QED  BY <1>1, <1>2, <1>3, <1>4, TraceUnchangedKeeps DEF TraceUnchanged

\* When the specialist has a step left, no gated tool was proposed yet, so
\* the trace is the plan up to current_step.
LEMMA SpecialistAtStep ==
    ASSUME LoopInv, node = "specialist", current_step < Len(plan)
    PROVE  /\ Proposed = {}
           /\ current_step = Len(tool_trace)
           /\ step_count = Len(tool_trace)
           /\ plan \in Plans
           /\ plan \in Seq(Tool)
           /\ NextTool \in Tool
           /\ pending_tool = NoTool
           /\ NextTool \in Gated => Len(tool_trace) + 1 = Len(plan)
<1> USE RunLoopAssumption DEF LoopInv
<1>1. Proposed = {} /\ current_step = Len(tool_trace) /\ step_count = Len(tool_trace)
  BY DEF TypeOK, PendingTool, TraceFollowsPlan
<1>2. plan \in Plans /\ plan \in Seq(Tool) /\ pending_tool = NoTool
  BY DEF NodeStatus, PendingTool
<1>3. NextTool \in Tool /\ (NextTool \in Gated => Len(tool_trace) + 1 = Len(plan))
  BY <1>1, <1>2 DEF NextTool, TypeOK
<1>4. QED  BY <1>1, <1>2, <1>3

LEMMA ProposeKeeps == LoopInv /\ ProposeGatedTool => LoopInv'
<1> SUFFICES ASSUME LoopInv, ProposeGatedTool PROVE LoopInv'  OBVIOUS
<1> USE RunLoopAssumption
<1> DEFINE entry == [tool |-> NextTool, executed |-> FALSE, success |-> TRUE]
<1>1. /\ Proposed = {}
      /\ current_step = Len(tool_trace)
      /\ step_count = Len(tool_trace)
      /\ plan \in Plans
      /\ plan \in Seq(Tool)
      /\ NextTool \in Gated
      /\ NextTool \in Tool
      /\ Len(tool_trace) + 1 = Len(plan)
      /\ tool_trace \in Seq(TraceEntry)
      /\ entry \in TraceEntry
      /\ tool_trace' = Append(tool_trace, entry)
      /\ plan' = plan
      /\ current_step' = current_step
      /\ step_count' = step_count + 1
      /\ approvedAt' = approvedAt
  BY SpecialistAtStep DEF LoopInv, TypeOK, ProposeGatedTool, NeedsApproval,
     StepAfterProposal, TraceEntry
<1>2. /\ Len(tool_trace') = Len(tool_trace) + 1
      /\ \A i \in 1..Len(tool_trace) : tool_trace'[i] = tool_trace[i]
      /\ tool_trace'[Len(tool_trace) + 1] = entry
      /\ tool_trace' \in Seq(TraceEntry)
  <2> HIDE DEF entry
  <2>1. QED  BY <1>1
<1>3. TypeOK'
  BY <1>1, <1>2 DEF LoopInv, ProposeGatedTool, TypeOK, Node, Status, RouteAfterSpecialist
<1>4. NodeStatus'
  BY <1>1 DEF LoopInv, ProposeGatedTool, NodeStatus, RouteAfterSpecialist
<1>5. Proposed' = {Len(plan)}
  BY <1>1, <1>2 DEF Proposed
<1>6. PendingTool'
  BY <1>1, <1>2 DEF LoopInv, ProposeGatedTool, PendingTool, RouteAfterSpecialist
<1>7. ExecutionAuthorised'
  BY <1>1, <1>2 DEF LoopInv, ExecutionAuthorised
<1>8. TraceFollowsPlan'
  BY <1>1, <1>2, <1>5 DEF LoopInv, TraceFollowsPlan, NextTool
<1>9. Citation'
  BY <1>1, SearchStays DEF LoopInv, ProposeGatedTool, Citation, RouteAfterSpecialist
<1>10. Budget' /\ StepBudget'
  BY <1>1, <1>2 DEF LoopInv, ProposeGatedTool, Budget, StepBudget, OverBudget
<1>11. QED  BY <1>3, <1>4, <1>6, <1>7, <1>8, <1>9, <1>10 DEF LoopInv

LEMMA DispatchKeeps ==
    ASSUME LoopInv,
           NEW success \in BOOLEAN, NEW cost \in CallCost, NEW clauseFound \in BOOLEAN,
           DispatchTool(success, cost, clauseFound)
    PROVE  LoopInv'
<1> USE RunLoopAssumption
<1> DEFINE entry == [tool |-> NextTool, executed |-> TRUE, success |-> success]
<1>1. /\ Proposed = {}
      /\ current_step = Len(tool_trace)
      /\ step_count = Len(tool_trace)
      /\ Len(tool_trace) < Len(plan)
      /\ plan \in Plans
      /\ plan \in Seq(Tool)
      /\ NextTool \notin Gated
      /\ NextTool \in Tool
      /\ pending_tool = NoTool
      /\ tool_trace \in Seq(TraceEntry)
      /\ entry \in TraceEntry
      /\ tool_trace' = Append(tool_trace, entry)
      /\ plan' = plan
      /\ current_step' = current_step + 1
      /\ step_count' = step_count + 1
      /\ approvedAt' = approvedAt
      /\ node' = "specialist"
      /\ status' = "running"
      /\ pending_tool' = pending_tool
      /\ cost_usd' = cost_usd + cost
      /\ cost_usd' \in Nat
      /\ outcome' = outcome
  BY SpecialistAtStep DEF LoopInv, TypeOK, DispatchTool, NeedsApproval,
     TraceEntry, RouteAfterSpecialist
<1>2. /\ Len(tool_trace') = Len(tool_trace) + 1
      /\ \A i \in 1..Len(tool_trace) : tool_trace'[i] = tool_trace[i]
      /\ tool_trace'[Len(tool_trace) + 1] = entry
      /\ tool_trace' \in Seq(TraceEntry)
  <2> HIDE DEF entry
  <2>1. QED  BY <1>1
<1>3. policy_cited' \in BOOLEAN
  BY Zenon DEF DispatchTool
<1>4. TypeOK'
  BY <1>1, <1>2, <1>3 DEF LoopInv, TypeOK, Node, Status
<1>5. NodeStatus'
  BY <1>1 DEF NodeStatus
<1>6. Proposed' = {}
  BY <1>1, <1>2 DEF Proposed
<1>7. PendingTool'
  BY <1>1, <1>6 DEF LoopInv, PendingTool
<1>8. ExecutionAuthorised'
  BY <1>1, <1>2 DEF LoopInv, ExecutionAuthorised
<1>9. TraceFollowsPlan'
  BY <1>1, <1>2, <1>6 DEF LoopInv, TraceFollowsPlan, NextTool
<1>10. Citation'
  <2>1. CASE policy_cited
    <3>1. SearchSucceeded  BY <2>1 DEF LoopInv, Citation
    <3>2. SearchSucceeded'  BY <3>1, <1>1, SearchStays
    <3>3. QED  BY <3>2, <1>1 DEF Citation
  <2>2. CASE ~policy_cited
    <3>1. policy_cited' => NextTool = PolicySearch /\ success = TRUE
      BY <2>2 DEF DispatchTool
    <3>2. policy_cited' => SearchSucceeded'
      BY <3>1, <1>1, <1>2 DEF SearchSucceeded
    <3>3. QED  BY <3>2, <1>1 DEF Citation
  <2>3. QED  BY <2>1, <2>2
<1>11. Budget' /\ StepBudget'
  BY <1>1, <1>2 DEF LoopInv, DispatchTool, Budget, StepBudget, OverBudget
<1>12. QED  BY <1>4, <1>5, <1>7, <1>8, <1>9, <1>10, <1>11 DEF LoopInv

\* The steps that only move the run to another node or status.
LEMMA VerifierForwardsKeeps == LoopInv /\ VerifierForwards => LoopInv'
<1> SUFFICES ASSUME LoopInv, VerifierForwards PROVE LoopInv'  OBVIOUS
<1> USE RunLoopAssumption DEF LoopInv, VerifierForwards, RouteAfterVerifier
<1>1. TypeOK'  BY DEF TypeOK, Node, Status
<1>2. NodeStatus'  BY DEF NodeStatus
<1>3. PendingTool'  BY DEF PendingTool, NodeStatus, Proposed
<1>4. Citation'  BY DEF Citation, SearchSucceeded
<1>5. QED  BY <1>1, <1>2, <1>3, <1>4, TraceUnchangedKeeps DEF TraceUnchanged

LEMMA VerifierRejectsKeeps == LoopInv /\ VerifierRejectsUngrounded => LoopInv'
<1> SUFFICES ASSUME LoopInv, VerifierRejectsUngrounded PROVE LoopInv'  OBVIOUS
<1> USE RunLoopAssumption DEF LoopInv, VerifierRejectsUngrounded, RouteAfterVerifier
<1>1. TypeOK'  BY DEF TypeOK, Node, Status
<1>2. NodeStatus'  BY DEF NodeStatus
<1>3. PendingTool'  BY DEF PendingTool, NodeStatus, Proposed
<1>4. Citation'  BY DEF Citation, SearchSucceeded
<1>5. QED  BY <1>1, <1>2, <1>3, <1>4, TraceUnchangedKeeps DEF TraceUnchanged

LEMMA VerifierCompletesKeeps == LoopInv /\ VerifierCompletes => LoopInv'
<1> SUFFICES ASSUME LoopInv, VerifierCompletes PROVE LoopInv'  OBVIOUS
<1> USE RunLoopAssumption DEF LoopInv, VerifierCompletes, RouteAfterVerifier, Grounded
<1>1. TypeOK'  BY DEF TypeOK, Node, Status, Outcome
<1>2. NodeStatus'  BY DEF NodeStatus
<1>3. PendingTool'  BY DEF PendingTool, NodeStatus, Proposed
<1>4. Citation'  BY DEF Citation, SearchSucceeded
<1>5. QED  BY <1>1, <1>2, <1>3, <1>4, TraceUnchangedKeeps DEF TraceUnchanged

LEMMA ApprovalGateKeeps == LoopInv /\ ApprovalGate => LoopInv'
<1> SUFFICES ASSUME LoopInv, ApprovalGate PROVE LoopInv'  OBVIOUS
<1> USE RunLoopAssumption DEF LoopInv, ApprovalGate
<1>1. TypeOK'  BY DEF TypeOK, Node, Status, Outcome
<1>2. NodeStatus'  BY DEF NodeStatus
<1>3. PendingTool'  BY DEF PendingTool, NodeStatus, Proposed
<1>4. Citation'  BY DEF Citation, NodeStatus, SearchSucceeded
<1>5. QED  BY <1>1, <1>2, <1>3, <1>4, TraceUnchangedKeeps DEF TraceUnchanged

LEMMA MemoryWriterKeeps == LoopInv /\ MemoryWriter => LoopInv'
<1> SUFFICES ASSUME LoopInv, MemoryWriter PROVE LoopInv'  OBVIOUS
<1> USE RunLoopAssumption DEF LoopInv, MemoryWriter
<1>1. TypeOK'  BY DEF TypeOK, Node, Status, Outcome
<1>2. NodeStatus'  BY DEF NodeStatus
<1>3. PendingTool'  BY DEF PendingTool, NodeStatus, Proposed
<1>4. Citation'  BY DEF Citation, SearchSucceeded
<1>5. QED  BY <1>1, <1>2, <1>3, <1>4, TraceUnchangedKeeps DEF TraceUnchanged

LEMMA ResumeRejectedKeeps == LoopInv /\ ResumeRejected => LoopInv'
<1> SUFFICES ASSUME LoopInv, ResumeRejected PROVE LoopInv'  OBVIOUS
<1> USE RunLoopAssumption DEF LoopInv, ResumeRejected, Paused, StatusAfterRejection
<1>1. TypeOK'  BY DEF TypeOK, Node, Status, Outcome
<1>2. NodeStatus'  BY DEF NodeStatus
<1>3. PendingTool'  BY DEF PendingTool, NodeStatus, Proposed
<1>4. Citation'  BY DEF Citation, SearchSucceeded
<1>5. QED  BY <1>1, <1>2, <1>3, <1>4, TraceUnchangedKeeps DEF TraceUnchanged

LEMMA ResumeApprovedKeeps == LoopInv /\ ResumeApproved => LoopInv'
<1> SUFFICES ASSUME LoopInv, ResumeApproved PROVE LoopInv'  OBVIOUS
<1> USE RunLoopAssumption DEF LoopInv, ResumeApproved, Paused
<1>1. TypeOK'
  <2>1. Len(tool_trace) \in Nat  BY DEF TypeOK
  <2>2. approvedAt' \subseteq Nat  BY <2>1 DEF TypeOK
  <2>3. QED  BY <2>2 DEF TypeOK, Node
<1>2. NodeStatus'  BY DEF NodeStatus
<1>3. PendingTool'  BY DEF PendingTool, NodeStatus, Proposed
<1>4. Citation'  BY DEF Citation, SearchSucceeded
<1>5. QED  BY <1>1, <1>2, <1>3, <1>4, TraceUnchangedKeeps DEF TraceUnchanged

\* The only step that executes a gated tool: its proposal is the last entry
\* of the trace and an approval stands for that entry.
LEMMA ExecutePendingKeeps ==
    ASSUME LoopInv, NEW success \in BOOLEAN, NEW cost \in CallCost,
           ExecutePending(success, cost)
    PROVE  LoopInv'
<1> USE RunLoopAssumption
<1> DEFINE entry == [tool |-> pending_tool, executed |-> TRUE, success |-> success]
<1>1. /\ tool_trace \in Seq(TraceEntry)
      /\ pending_tool \in Gated
      /\ pending_tool \in Tool
      /\ Len(tool_trace) > 0
      /\ tool_trace[Len(tool_trace)] =
            [tool |-> pending_tool, executed |-> FALSE, success |-> TRUE]
      /\ Len(tool_trace) \in approvedAt
      /\ plan \in Plans
      /\ plan \in Seq(Tool)
      /\ entry \in TraceEntry
      /\ tool_trace' = Append(tool_trace, entry)
      /\ plan' = plan
      /\ current_step' = current_step + 1
      /\ step_count' = step_count + 1
      /\ cost_usd' \in Nat
      /\ pending_tool' = NoTool
      /\ status' = "running"
      /\ node' = "specialist"
      /\ policy_cited' = policy_cited
      /\ outcome' = outcome
      /\ approvedAt' = approvedAt
  BY DEF LoopInv, TypeOK, NodeStatus, PendingTool, ExecutePending, TraceEntry,
     StatusAfterExecution
<1>2. /\ Len(tool_trace') = Len(tool_trace) + 1
      /\ \A i \in 1..Len(tool_trace) : tool_trace'[i] = tool_trace[i]
      /\ tool_trace'[Len(tool_trace) + 1] = entry
      /\ tool_trace' \in Seq(TraceEntry)
  <2> HIDE DEF entry
  <2>1. QED  BY <1>1
\* The proposal is at the plan's last step.
<1>3. /\ Len(tool_trace) \in Proposed
      /\ Len(tool_trace) = Len(plan)
      /\ pending_tool = plan[Len(plan)]
      /\ current_step = Len(tool_trace) - 1
      /\ step_count = Len(tool_trace)
  BY <1>1 DEF LoopInv, TraceFollowsPlan, Proposed
<1>4. Proposed' = Proposed
  BY <1>1, <1>2 DEF Proposed
<1>5. TypeOK'
  BY <1>1, <1>2 DEF LoopInv, TypeOK, Node, Status
<1>6. NodeStatus'
  BY <1>1 DEF NodeStatus
<1>7. PendingTool'
  BY <1>1, <1>2, <1>3 DEF PendingTool
<1>8. ExecutionAuthorised'
  <2> DEFINE Authorised(trace, i) ==
               trace[i].tool \in Gated /\ trace[i].executed =>
                 /\ i > 1
                 /\ trace[i-1] =
                       [tool |-> trace[i].tool, executed |-> FALSE, success |-> TRUE]
                 /\ (i - 1) \in approvedAt
  <2>1. ASSUME NEW i \in 1..Len(tool_trace) PROVE Authorised(tool_trace', i)
    <3>1. Authorised(tool_trace, i)  BY DEF LoopInv, ExecutionAuthorised
    <3>2. tool_trace'[i] = tool_trace[i]  BY <1>2
    <3>3. i > 1 => tool_trace'[i-1] = tool_trace[i-1]  BY <1>1, <1>2
    <3>4. i > 1 /\ tool_trace[i].tool \in Gated /\ tool_trace[i].executed =>
            tool_trace'[i-1] =
                [tool |-> tool_trace'[i].tool, executed |-> FALSE, success |-> TRUE]
      BY <3>1, <3>2, <3>3
    <3>5. QED  BY <3>1, <3>2, <3>4
  <2>2. Authorised(tool_trace', Len(tool_trace) + 1)
    <3>1. tool_trace'[Len(tool_trace)] = tool_trace[Len(tool_trace)]
      BY <1>1, <1>2
    <3>2. /\ (Len(tool_trace) + 1) - 1 = Len(tool_trace)
          /\ Len(tool_trace) + 1 > 1
      BY <1>1
    <3>3. tool_trace'[Len(tool_trace) + 1].tool = pending_tool  BY <1>2
    <3>4. tool_trace'[(Len(tool_trace) + 1) - 1] =
            [tool |-> tool_trace'[Len(tool_trace) + 1].tool,
             executed |-> FALSE, success |-> TRUE]
      BY <1>1, <3>1, <3>2, <3>3
    <3>5. ((Len(tool_trace) + 1) - 1) \in approvedAt  BY <1>1, <3>2
    <3>6. QED  BY <3>2, <3>4, <3>5
  <2>3. \A i \in 1..Len(tool_trace') : Authorised(tool_trace', i)
    <3> HIDE DEF Authorised
    <3> SUFFICES ASSUME NEW i \in 1..Len(tool_trace')
                 PROVE  Authorised(tool_trace', i)
      OBVIOUS
    <3>1. i \in 1..Len(tool_trace) \/ i = Len(tool_trace) + 1  BY <1>1, <1>2
    <3>2. QED  BY <3>1, <2>1, <2>2
  <2>4. QED  BY <2>3, <1>1 DEF ExecutionAuthorised
<1>9. TraceFollowsPlan'
  BY <1>1, <1>2, <1>3, <1>4 DEF LoopInv, TraceFollowsPlan
<1>10. Citation'
  BY <1>1, SearchStays DEF LoopInv, Citation
<1>11. Budget' /\ StepBudget'
  BY <1>1, <1>2, <1>3 DEF LoopInv, Budget, StepBudget
<1>12. QED  BY <1>5, <1>6, <1>7, <1>8, <1>9, <1>10, <1>11 DEF LoopInv

LEMMA StutterKeeps == LoopInv /\ UNCHANGED vars => LoopInv'
<1> SUFFICES ASSUME LoopInv, UNCHANGED vars PROVE LoopInv'  OBVIOUS
<1> USE DEF LoopInv, vars
<1>1. TypeOK'  BY DEF TypeOK
<1>2. NodeStatus'  BY DEF NodeStatus
<1>3. PendingTool'  BY DEF PendingTool, Proposed
<1>4. Citation'  BY DEF Citation, SearchSucceeded
<1>5. QED  BY <1>1, <1>2, <1>3, <1>4, TraceUnchangedKeeps DEF TraceUnchanged

\* LoopInv is inductive.
LEMMA NextKeepsLoopInv == LoopInv /\ [Next]_vars => LoopInv'
<1> SUFFICES ASSUME LoopInv, [Next]_vars PROVE LoopInv'  OBVIOUS
<1>1. CASE Planner  BY <1>1, PlannerKeeps
<1>2. CASE Specialist
  BY <1>2, PlanExhaustedKeeps, BudgetExceededKeeps, ProposeKeeps, DispatchKeeps
     DEF Specialist
<1>3. CASE Verifier
  BY <1>3, VerifierForwardsKeeps, VerifierRejectsKeeps, VerifierCompletesKeeps
     DEF Verifier
<1>4. CASE ApprovalGate  BY <1>4, ApprovalGateKeeps
<1>5. CASE MemoryWriter  BY <1>5, MemoryWriterKeeps
<1>6. CASE \E success \in BOOLEAN, cost \in CallCost : ExecutePending(success, cost)
  BY <1>6, ExecutePendingKeeps
<1>7. CASE Resume
  BY <1>7, ResumeRejectedKeeps, ResumeApprovedKeeps, StutterKeeps
     DEF Resume, ResumeNotPaused
<1>8. CASE UNCHANGED vars  BY <1>8, StutterKeeps
<1>9. QED
  BY <1>1, <1>2, <1>3, <1>4, <1>5, <1>6, <1>7, <1>8 DEF Next, GraphStep

-----------------------------------------------------------------------------
\* LoopInv holds in every reachable state.
THEOREM LoopInvHolds == Spec => []LoopInv
<1>1. Init => LoopInv  BY InitLoopInv
<1>2. LoopInv /\ [Next]_vars => LoopInv'  BY NextKeepsLoopInv
<1>3. QED  BY <1>1, <1>2, PTL DEF Spec

\* The state of a run keeps its types (state.py) whatever the plan, the tool
\* results and the human decisions.
THEOREM TypeCorrect == Spec => []TypeOK
<1>1. LoopInv => TypeOK  BY DEF LoopInv
<1>2. QED  BY <1>1, LoopInvHolds, PTL

\* No gated tool is ever executed without a human approval of the proposal
\* that was traced just before it (specialist_node and
\* execute_pending_gated_tool).
THEOREM OnlyAuthorisedExecution == Spec => []ExecutionAuthorised
<1>1. LoopInv => ExecutionAuthorised  BY DEF LoopInv
<1>2. QED  BY <1>1, LoopInvHolds, PTL

\* The trace of a run is its plan, in order, without a repetition other than
\* the proposal of the gated tool; the counters of the state agree with it.
THEOREM TraceIsPlan == Spec => []TraceFollowsPlan
<1>1. LoopInv => TraceFollowsPlan  BY DEF LoopInv
<1>2. QED  BY <1>1, LoopInvHolds, PTL

\* The step budget is exceeded by at most the one approved gated tool.
THEOREM StepBudgetHolds == Spec => []StepBudget
<1>1. LoopInv => StepBudget  BY DEF LoopInv
<1>2. QED  BY <1>1, LoopInvHolds, PTL

\* The branches that no action models are unreachable.
THEOREM DeadBranches == Spec => []DefensiveBranchesDead
<1>1. LoopInv => DefensiveBranchesDead
  BY DEF LoopInv, NodeStatus, PendingTool, DefensiveBranchesDead
<1>2. QED  BY <1>1, LoopInvHolds, PTL

\* A completed run executed its whole plan and a policy search succeeded in it
\* (verifier_node).
THEOREM CompletionIsGrounded == Spec => []GroundedCompletion
<1>1. LoopInv => GroundedCompletion
  <2> SUFFICES ASSUME LoopInv,
                      node \in {"memory_writer", "end"}, status = "completed"
               PROVE  /\ \A i \in 1..Len(plan) :
                            \E j \in 1..Len(tool_trace) :
                                tool_trace[j].tool = plan[i] /\ tool_trace[j].executed
                      /\ SearchSucceeded
    BY DEF GroundedCompletion
  <2>1. SearchSucceeded  BY DEF LoopInv, Citation
  <2>2. /\ current_step >= Len(plan)
        /\ plan \in Seq(Tool)
        /\ tool_trace \in Seq(TraceEntry)
        /\ current_step \in Nat
    BY DEF LoopInv, NodeStatus, TypeOK
  <2>3. ASSUME NEW i \in 1..Len(plan)
        PROVE  \E j \in 1..Len(tool_trace) :
                   tool_trace[j].tool = plan[i] /\ tool_trace[j].executed
    <3>1. i \in 1..Len(tool_trace) /\ tool_trace[i].tool = plan[i]
      BY <2>2 DEF LoopInv, TraceFollowsPlan
    <3>2. CASE i \notin Proposed
      BY <3>1, <3>2 DEF Proposed
    <3>3. CASE i \in Proposed
      <4>1. i = Len(plan) /\ Len(tool_trace) = Len(plan) + 1
        BY <2>2, <3>3 DEF LoopInv, TraceFollowsPlan
      <4>2. /\ i + 1 \in 1..Len(tool_trace)
            /\ tool_trace[i + 1].tool = plan[i]
            /\ i + 1 \notin Proposed
        BY <2>2, <4>1 DEF LoopInv, TraceFollowsPlan
      <4>3. tool_trace[i + 1].executed  BY <4>2 DEF Proposed
      <4>4. QED  BY <4>2, <4>3
    <3>4. QED  BY <3>2, <3>3
  <2>4. QED  BY <2>1, <2>3
<1>2. QED  BY <1>1, LoopInvHolds, PTL

-----------------------------------------------------------------------------
(* Refinement: each step of the loop is a step of GovernedRun or stutters. *)

\* The tools performed depend on the trace only.
LEMMA PerformedUnchanged ==
    ASSUME tool_trace' = tool_trace
    PROVE  PerformedBar' = PerformedBar
BY DEF PerformedBar

\* While a proposal is the last entry of the trace, no gated tool has been
\* executed yet.
LEMMA NothingPerformedBefore ==
    ASSUME LoopInv, pending_tool # NoTool
    PROVE  PerformedBar = {}
<1>1. /\ tool_trace \in Seq(TraceEntry)
      /\ plan \in Seq(Tool)
      /\ Len(tool_trace) = Len(plan)
  BY DEF LoopInv, TypeOK, PendingTool, TraceFollowsPlan, Proposed
<1>2. ASSUME NEW i \in 1..Len(tool_trace),
             tool_trace[i].tool \in Gated, tool_trace[i].executed
      PROVE  FALSE
  <2> DEFINE proposal ==
               [tool |-> tool_trace[i].tool, executed |-> FALSE, success |-> TRUE]
  <2>0. i > 1 /\ tool_trace[i-1] = proposal
    BY <1>2 DEF LoopInv, ExecutionAuthorised
  <2>1. i > 1 /\ ~tool_trace[i-1].executed
    <3>1. ~proposal.executed  OBVIOUS
    <3>2. QED  BY <2>0, <3>1, Zenon
  <2>2. i - 1 \in Proposed  BY <1>1, <2>1 DEF Proposed
  <2>3. i - 1 = Len(plan)  BY <2>2 DEF LoopInv, TraceFollowsPlan
  <2>4. QED  BY <1>1, <2>3
<1>3. QED  BY <1>2 DEF PerformedBar

\* A step inside the loop that leaves the trace alone changes nothing the
\* promise speaks of.
LEMMA WorkingStutters ==
    ASSUME tool_trace' = tool_trace,
           PhaseBar = "working", PhaseBar' = "working"
    PROVE  UNCHANGED Promise!vars
BY PerformedUnchanged DEF Promise!vars, ProposalBar

LEMMA InitRefines == Init => Promise!Init
BY DEF Init, Promise!Init, PhaseBar, ProposalBar, PerformedBar, Paused

LEMMA NextRefines ==
    LoopInv /\ LoopInv' /\ [Next]_vars => [Promise!Next]_(Promise!vars)
<1> SUFFICES ASSUME LoopInv, LoopInv', [Next]_vars
             PROVE  [Promise!Next]_(Promise!vars)
  OBVIOUS
<1> USE RunLoopAssumption
<1>1. CASE Planner
  <2>1. PhaseBar = "working" /\ PhaseBar' = "working"
    BY <1>1 DEF Planner, PhaseBar, Paused
  <2>2. tool_trace' = tool_trace  BY <1>1 DEF LoopInv, NodeStatus, Planner
  <2>3. QED  BY <2>1, <2>2, WorkingStutters
<1>2. CASE PlanExhausted \/ BudgetExceeded
  <2>1. PhaseBar = "working" /\ PhaseBar' = "working"
    BY <1>2 DEF PlanExhausted, BudgetExceeded, RouteAfterSpecialist, PhaseBar, Paused
  <2>2. tool_trace' = tool_trace  BY <1>2 DEF PlanExhausted, BudgetExceeded
  <2>3. QED  BY <2>1, <2>2, WorkingStutters
<1>3. CASE ProposeGatedTool
  <2>1. PhaseBar = "working" /\ PhaseBar' = "working"
    BY <1>3 DEF ProposeGatedTool, RouteAfterSpecialist, PhaseBar, Paused
  <2>2. PerformedBar' = PerformedBar
    BY <1>3 DEF LoopInv, TypeOK, ProposeGatedTool, PerformedBar
  <2>3. QED  BY <2>1, <2>2 DEF Promise!vars, ProposalBar
<1>4. ASSUME NEW success \in BOOLEAN, NEW cost \in CallCost, NEW clauseFound \in BOOLEAN,
             DispatchTool(success, cost, clauseFound)
      PROVE  UNCHANGED Promise!vars
  <2>1. PhaseBar = "working" /\ PhaseBar' = "working"
    BY <1>4 DEF DispatchTool, RouteAfterSpecialist, PhaseBar, Paused
  <2>2. PerformedBar' = PerformedBar
    BY <1>4 DEF LoopInv, TypeOK, DispatchTool, NeedsApproval, PerformedBar
  <2>3. QED  BY <2>1, <2>2 DEF Promise!vars, ProposalBar
<1>5. CASE Verifier \/ ApprovalGate \/ MemoryWriter
  <2>1. tool_trace' = tool_trace /\ pending_tool' = pending_tool
    BY <1>5 DEF Verifier, VerifierForwards, VerifierRejectsUngrounded,
       VerifierCompletes, ApprovalGate, MemoryWriter
  <2>2. PerformedBar' = PerformedBar  BY <2>1, PerformedUnchanged
  <2>3. PhaseBar = "working" /\ ProposalBar = NoTool
    BY <1>5 DEF Verifier, VerifierForwards, VerifierRejectsUngrounded,
       VerifierCompletes, ApprovalGate, MemoryWriter, PhaseBar, ProposalBar, Paused
  <2>4. node' \in {"approval_gate", "memory_writer", "end"}
    BY <1>5 DEF Verifier, VerifierForwards, VerifierRejectsUngrounded,
       VerifierCompletes, RouteAfterVerifier, ApprovalGate, MemoryWriter
  <2>5. CASE node' # "end"
    <3>1. PhaseBar' = "working"  BY <2>4, <2>5 DEF PhaseBar, Paused
    <3>2. QED  BY <2>1, <2>3, <3>1, WorkingStutters
  <2>6. CASE node' = "end" /\ status' = "approval_required"
    <3>1. PhaseBar' = "awaiting"  BY <2>6 DEF PhaseBar, Paused
    <3>2. ProposalBar' = pending_tool  BY <2>1, <3>1 DEF ProposalBar
    <3>3. pending_tool' # NoTool /\ pending_tool' \in Gated
      BY <2>6 DEF LoopInv, PendingTool
    <3>4. PerformedBar = {}
      BY <2>1, <3>3, NothingPerformedBefore
    <3>5. Promise!Propose(pending_tool)
      BY <2>2, <2>3, <3>1, <3>2, <3>4 DEF Promise!Propose
    <3>6. QED  BY <2>1, <3>3, <3>5 DEF Promise!Next, Promise!Loop
  <2>7. CASE node' = "end" /\ status' # "approval_required"
    <3>1. PhaseBar' = "closed" /\ ProposalBar' = NoTool
      BY <2>7 DEF PhaseBar, ProposalBar, Paused
    <3>2. Promise!Close  BY <2>2, <2>3, <3>1 DEF Promise!Close
    <3>3. QED  BY <3>2 DEF Promise!Next, Promise!Loop
  <2>8. QED  BY <2>4, <2>5, <2>6, <2>7
<1>6. ASSUME NEW success \in BOOLEAN, NEW cost \in CallCost,
             ExecutePending(success, cost)
      PROVE  Promise!Perform
  <2>1. /\ PhaseBar = "authorised"
        /\ PhaseBar' = "working"
        /\ ProposalBar = pending_tool
        /\ ProposalBar' = NoTool
    BY <1>6 DEF ExecutePending, PhaseBar, ProposalBar, Paused
  <2>2. PerformedBar' = PerformedBar \cup {pending_tool}
    <3>1. /\ pending_tool \in Gated
          /\ tool_trace \in Seq(TraceEntry)
      BY <1>6 DEF LoopInv, TypeOK, PendingTool, ExecutePending
    <3> DEFINE entry == [tool |-> pending_tool, executed |-> TRUE, success |-> success]
    <3>2. tool_trace' = Append(tool_trace, entry)  BY <1>6 DEF ExecutePending
    <3>3. /\ Len(tool_trace') = Len(tool_trace) + 1
          /\ \A i \in 1..Len(tool_trace) : tool_trace'[i] = tool_trace[i]
          /\ tool_trace'[Len(tool_trace) + 1] = entry
      BY <3>1, <3>2
    <3>4. PerformedBar \cup {pending_tool} \subseteq PerformedBar'
      BY <3>1, <3>3 DEF PerformedBar
    <3>5. PerformedBar' \subseteq PerformedBar \cup {pending_tool}
      BY <3>1, <3>3 DEF PerformedBar
    <3>6. QED  BY <3>4, <3>5
  <2>3. QED  BY <2>1, <2>2 DEF Promise!Perform
<1>7. CASE ResumeRejected
  <2>1. PhaseBar = "awaiting" /\ PhaseBar' = "closed" /\ ProposalBar' = NoTool
    BY <1>7 DEF ResumeRejected, Paused, StatusAfterRejection, PhaseBar, ProposalBar
  <2>2. PerformedBar' = PerformedBar
    BY <1>7, PerformedUnchanged DEF ResumeRejected
  <2>3. Promise!Decline  BY <2>1, <2>2 DEF Promise!Decline
  <2>4. QED  BY <2>3 DEF Promise!Next
<1>8. CASE ResumeApproved
  <2>1. PhaseBar = "awaiting" /\ PhaseBar' = "authorised" /\ ProposalBar' = ProposalBar
    BY <1>8 DEF ResumeApproved, Paused, PhaseBar, ProposalBar
  <2>2. PerformedBar' = PerformedBar
    BY <1>8, PerformedUnchanged DEF ResumeApproved
  <2>3. Promise!Authorise  BY <2>1, <2>2 DEF Promise!Authorise
  <2>4. QED  BY <2>3 DEF Promise!Next
<1>9. CASE UNCHANGED vars
  <2>1. UNCHANGED <<PhaseBar, ProposalBar, PerformedBar>>
    BY <1>9, PerformedUnchanged DEF vars, PhaseBar, ProposalBar, Paused
  <2>2. QED  BY <2>1 DEF Promise!vars
<1>10. QED
  BY <1>1, <1>2, <1>3, <1>4, <1>5, <1>6, <1>7, <1>8, <1>9
     DEF Next, GraphStep, Specialist, Resume, ResumeNotPaused, Promise!Next, Promise!Loop

\* The loop keeps the safety part of GovernedRun's promise: it proposes before
\* it performs, performs only what a human authorised, and stops at a
\* rejection.
THEOREM KeepsPromiseSafety == Spec => Promise!Safety
<1>1. Init => Promise!Init  BY InitRefines
<1>2. LoopInv /\ LoopInv' /\ [Next]_vars => [Promise!Next]_(Promise!vars)
  BY NextRefines
<1>3. QED  BY <1>1, <1>2, LoopInvHolds, PTL DEF Spec, Promise!Safety

=============================================================================
