------------------------- MODULE ControlPlaneProofs -------------------------
(***************************************************************************)
(* Proofs about ControlPlane for any number of runs, workers, concurrent   *)
(* requests and faults: calls, consents and leases; what run_steps owes to *)
(* checkpoints and calls; paused runs and their approvals.                 *)
(***************************************************************************)
EXTENDS ControlPlane, FiniteSetTheorems, TLAPS

\* Process p goes to state s and no other process moves.
Moves(p, s) == proc' = [proc EXCEPT ![p] = s]

LEMMA MovesOne ==
    ASSUME TypeOK, NEW p \in Proc, NEW s \in ProcState, Moves(p, s)
    PROVE  /\ proc' \in [Proc -> ProcState]
           /\ proc'[p] = s
           /\ \A q \in Proc : q # p => proc'[q] = proc[q]
  BY DEF TypeOK, Moves

\* Goto in the form of Moves.
LEMMA GotoMoves ==
    ASSUME TypeOK, NEW p \in Proc, NEW l, Goto(p, l)
    PROVE  Moves(p, [proc[p] EXCEPT !.pc = l])
  BY DEF Goto, Moves, TypeOK

-----------------------------------------------------------------------------
\* How the handlers that satisfy a condition are counted when one moves.
LEMMA CountMove ==
    ASSUME NEW S \in SUBSET Handler, NEW T \in SUBSET Handler, NEW p,
           \A h \in Handler : h # p => (h \in S <=> h \in T)
    PROVE  /\ Cardinality(S) \in Nat
           /\ Cardinality(T) \in Nat
           /\ p \notin Handler => Cardinality(T) = Cardinality(S)
           /\ p \in T => Cardinality(T) <= Cardinality(S) + 1
           /\ p \notin T => Cardinality(T) <= Cardinality(S)
           /\ p \in S => Cardinality(T) <= Cardinality(S)
           /\ p \in S /\ p \notin T => Cardinality(T) = Cardinality(S) - 1
<1>1. IsFiniteSet(S) /\ IsFiniteSet(T)
  BY FS_Subset, ControlPlaneAssumption
<1>2. Cardinality(S) \in Nat /\ Cardinality(T) \in Nat
  BY <1>1, FS_CardinalityType
<1>3. CASE p \in Handler /\ p \in S /\ p \notin T
  <2>1. T = S \ {p}  BY <1>3
  <2>2. Cardinality(T) = Cardinality(S) - 1  BY <1>1, <1>3, <2>1, FS_RemoveElement
  <2>3. QED  BY <1>2, <1>3, <2>2
<1>4. CASE p \in Handler /\ p \notin S /\ p \in T
  <2>1. T = S \cup {p}  BY <1>4
  <2>2. Cardinality(T) = Cardinality(S) + 1  BY <1>1, <1>4, <2>1, FS_AddElement
  <2>3. QED  BY <1>2, <1>4, <2>2
<1>5. CASE p \notin Handler \/ (p \in S <=> p \in T)
  <2>1. S = T  BY <1>5
  <2>2. QED  BY <1>2, <2>1
<1>6. QED  BY <1>3, <1>4, <1>5

\* What a move of one process does to the two counts.
LEMMA OwingMoves ==
    ASSUME ControlInv, NEW p \in Proc, NEW s \in ProcState, Moves(p, s), NEW r \in Run
    PROVE  /\ Cardinality(Owing(r)) \in Nat
           /\ Cardinality(Owing(r)') \in Nat
           /\ Cardinality(Owing(r)') <= Cardinality(Owing(r)) + 1
           /\ (p \in Handler => (Owes(s, r) => Owes(proc[p], r))) =>
                 Cardinality(Owing(r)') <= Cardinality(Owing(r))
           /\ p \in Handler /\ Owes(proc[p], r) /\ ~Owes(s, r) =>
                 Cardinality(Owing(r)') = Cardinality(Owing(r)) - 1
<1>1. proc'[p] = s /\ \A q \in Proc : q # p => proc'[q] = proc[q]
  BY MovesOne DEF ControlInv
<1>2. \A h \in Handler : h # p => (h \in Owing(r) <=> h \in Owing(r)')
  BY <1>1 DEF Owing, Proc
<1>3. /\ p \in Owing(r) <=> p \in Handler /\ Owes(proc[p], r)
      /\ p \in Owing(r)' <=> p \in Handler /\ Owes(s, r)
  BY <1>1 DEF Owing
<1>4. Owing(r) \in SUBSET Handler /\ Owing(r)' \in SUBSET Handler  BY DEF Owing
<1> HIDE DEF Owing
<1>5. /\ Cardinality(Owing(r)) \in Nat
      /\ Cardinality(Owing(r)') \in Nat
      /\ p \notin Handler => Cardinality(Owing(r)') = Cardinality(Owing(r))
      /\ p \in Owing(r)' => Cardinality(Owing(r)') <= Cardinality(Owing(r)) + 1
      /\ p \notin Owing(r)' => Cardinality(Owing(r)') <= Cardinality(Owing(r))
      /\ p \in Owing(r) => Cardinality(Owing(r)') <= Cardinality(Owing(r))
      /\ p \in Owing(r) /\ p \notin Owing(r)' =>
            Cardinality(Owing(r)') = Cardinality(Owing(r)) - 1
  BY <1>2, <1>4, CountMove
<1>6. QED  BY <1>3, <1>5

LEMMA AskingMoves ==
    ASSUME ControlInv, NEW p \in Proc, NEW s \in ProcState, Moves(p, s), NEW r \in Run
    PROVE  /\ Cardinality(Asking(r)) \in Nat
           /\ Cardinality(Asking(r)') \in Nat
           /\ Cardinality(Asking(r)') <= Cardinality(Asking(r)) + 1
           /\ (p \in Handler => (Asks(s, r) => Asks(proc[p], r))) =>
                 Cardinality(Asking(r)') <= Cardinality(Asking(r))
           /\ p \in Handler /\ Asks(proc[p], r) /\ ~Asks(s, r) =>
                 Cardinality(Asking(r)') = Cardinality(Asking(r)) - 1
<1>1. proc'[p] = s /\ \A q \in Proc : q # p => proc'[q] = proc[q]
  BY MovesOne DEF ControlInv
<1>2. \A h \in Handler : h # p => (h \in Asking(r) <=> h \in Asking(r)')
  BY <1>1 DEF Asking, Proc
<1>3. /\ p \in Asking(r) <=> p \in Handler /\ Asks(proc[p], r)
      /\ p \in Asking(r)' <=> p \in Handler /\ Asks(s, r)
  BY <1>1 DEF Asking
<1>4. Asking(r) \in SUBSET Handler /\ Asking(r)' \in SUBSET Handler  BY DEF Asking
<1> HIDE DEF Asking
<1>5. /\ Cardinality(Asking(r)) \in Nat
      /\ Cardinality(Asking(r)') \in Nat
      /\ p \notin Handler => Cardinality(Asking(r)') = Cardinality(Asking(r))
      /\ p \in Asking(r)' => Cardinality(Asking(r)') <= Cardinality(Asking(r)) + 1
      /\ p \notin Asking(r)' => Cardinality(Asking(r)') <= Cardinality(Asking(r))
      /\ p \in Asking(r) => Cardinality(Asking(r)') <= Cardinality(Asking(r))
      /\ p \in Asking(r) /\ p \notin Asking(r)' =>
            Cardinality(Asking(r)') = Cardinality(Asking(r)) - 1
  BY <1>2, <1>4, CountMove
<1>6. QED  BY <1>3, <1>5

\* A process that neither comes to owe a row nor comes to ask for a tool keeps
\* both counts.
LEMMA CountsKept ==
    ASSUME ControlInv, NEW p \in Proc, NEW s \in ProcState, Moves(p, s),
           UNCHANGED <<run_steps, dispatched, consents>>,
           p \in Handler => \A r \in Run : Owes(s, r) => Owes(proc[p], r),
           p \in Handler => \A r \in Run : Asks(s, r) => Asks(proc[p], r)
    PROVE  LedgerInv' /\ ConsentInv'
<1>1. \A r \in Run : /\ Cardinality(Owing(r)) \in Nat
                     /\ Cardinality(Owing(r)') \in Nat
                     /\ Cardinality(Owing(r)') <= Cardinality(Owing(r))
  BY OwingMoves
<1>2. \A r \in Run : /\ Cardinality(Asking(r)) \in Nat
                     /\ Cardinality(Asking(r)') \in Nat
                     /\ Cardinality(Asking(r)') <= Cardinality(Asking(r))
  BY AskingMoves
<1>3. \A r \in Run : /\ run_steps[r]["executed"] \in Nat
                     /\ Dispatches(r) \in Nat
                     /\ consents[r] \in Nat
  BY DEF ControlInv, TypeOK, Dispatches, StepKind, Action
<1>4. \A r \in Run : Dispatches(r)' = Dispatches(r)  BY DEF Dispatches
<1>5. LedgerInv'  BY <1>1, <1>3, <1>4 DEF ControlInv, LedgerInv
<1>6. ConsentInv'  BY <1>2, <1>3, <1>4 DEF ControlInv, ConsentInv
<1>7. QED  BY <1>5, <1>6

-----------------------------------------------------------------------------
\* The row of one run is written at most, and not with a status that a worker
\* could claim or requeue.
WritesSettled ==
    \/ UNCHANGED runs
    \/ \E r \in Run, row \in RunRow :
          /\ RowOK(row)
          /\ row.status \in Terminal \cup {"approval_required"}
          /\ runs' = [runs EXCEPT ![r] = row]

LEMMA RowsKept ==
    ASSUME ControlInv, WritesSettled
    PROVE  /\ runs' \in [Run -> RunRow]
           /\ \A q \in Run : RowOK(runs'[q])
           /\ \A q \in Run : \/ runs'[q] = runs[q]
                             \/ runs'[q].status \in Terminal \cup {"approval_required"}
<1> USE DEF ControlInv, StateInv, TypeOK
<1>1. CASE UNCHANGED runs  BY <1>1
<1>2. ASSUME NEW r \in Run, NEW row \in RunRow, RowOK(row),
             row.status \in Terminal \cup {"approval_required"},
             runs' = [runs EXCEPT ![r] = row]
      PROVE  /\ runs' \in [Run -> RunRow]
             /\ \A q \in Run : RowOK(runs'[q])
             /\ \A q \in Run : \/ runs'[q] = runs[q]
                               \/ runs'[q].status \in Terminal \cup {"approval_required"}
  <2>1. \A q \in Run : runs'[q] = IF q = r THEN row ELSE runs[q]  BY <1>2
  <2>2. QED  BY <1>2, <2>1
<1>3. QED  BY <1>1, <1>2 DEF WritesSettled

\* One process moves to a state that is in order.
LEMMA StatesKept ==
    ASSUME ControlInv, NEW p \in Proc, NEW s \in ProcState, Moves(p, s),
           p \in Worker => WorkerOK(s),
           p \in Handler => HandlerOK(s),
           \A q \in Run : RowOK(runs'[q])
    PROVE  StateInv'
<1> USE DEF ControlInv, StateInv
<1>1. proc'[p] = s /\ \A q \in Proc : q # p => proc'[q] = proc[q]
  BY MovesOne
<1>2. \A w \in Worker : WorkerOK(proc'[w])  BY <1>1 DEF Proc
<1>3. \A h \in Handler : HandlerOK(proc'[h])  BY <1>1 DEF Proc
<1>4. QED  BY <1>2, <1>3

\* A step that starts no execution and leaves every other worker its run.
LEMMA HoldingKept ==
    ASSUME ControlInv, NEW p \in Proc, NEW s \in ProcState, Moves(p, s),
           p \in Worker => s.run = proc[p].run \/ s.run = NoRun,
           used'["lapses"] = used["lapses"],
           \A q \in Run : \/ runs'[q] = runs[q]
                         \/ runs'[q].status \in Terminal \cup {"approval_required"}
    PROVE  Holding' /\ SoleWorker'
<1> USE DEF ControlInv
<1>1. proc'[p] = s /\ \A q \in Proc : q # p => proc'[q] = proc[q]
  BY MovesOne
<1>2. ASSUME NEW w \in Worker, NEW q \in Run, Executing(w, q)'
      PROVE  Executing(w, q)
  BY <1>1, <1>2, ControlPlaneAssumption DEF Executing, Proc
<1>3. ASSUME NEW w \in Worker, NEW q \in Run, Holds(w, runs[q])
      PROVE  Holds(w, runs'[q])
  BY <1>3 DEF Holds
<1>4. Holding'  BY <1>2, <1>3 DEF Holding
<1>5. SoleWorker'  BY <1>2 DEF SoleWorker
<1>6. QED  BY <1>4, <1>5

\* A step that does all of this and counts nothing.
QuietStep(p, s) ==
    /\ Moves(p, s)
    /\ s \in ProcState
    /\ p \in Worker => WorkerOK(s) /\ (s.run = proc[p].run \/ s.run = NoRun)
    /\ p \in Handler =>
          /\ HandlerOK(s)
          /\ \A r \in Run : (Owes(s, r) => Owes(proc[p], r)) /\ (Asks(s, r) => Asks(proc[p], r))
    /\ WritesSettled
    /\ UNCHANGED <<run_steps, dispatched, consents>>
    /\ created' \in Seq(Run)
    /\ approvals' \in Seq(ApprovalRow)
    /\ used' \in [Bound -> Nat]
    /\ used'["lapses"] = used["lapses"]

LEMMA QuietStepKeeps ==
    ASSUME ControlInv, NEW p \in Proc, NEW s, QuietStep(p, s)
    PROVE  ControlInv'
<1> USE DEF QuietStep
<1>1. /\ runs' \in [Run -> RunRow]
      /\ \A q \in Run : RowOK(runs'[q])
      /\ \A q \in Run : \/ runs'[q] = runs[q]
                        \/ runs'[q].status \in Terminal \cup {"approval_required"}
  BY RowsKept
<1>2. proc' \in [Proc -> ProcState]  BY MovesOne DEF ControlInv
<1>3. TypeOK'  BY <1>1, <1>2 DEF ControlInv, TypeOK
<1>4. StateInv'  BY <1>1, StatesKept
<1>5. LedgerInv' /\ ConsentInv'  BY CountsKept
<1>6. Holding' /\ SoleWorker'  BY <1>1, HoldingKept
<1>7. QED  BY <1>3, <1>4, <1>5, <1>6 DEF ControlInv

-----------------------------------------------------------------------------
(* The quiet actions.                                                      *)

\* What ControlInv says of one process.
LEMMA ProcessOK ==
    ASSUME ControlInv, NEW p \in Proc
    PROVE  /\ proc[p] \in ProcState
           /\ p \in Worker => WorkerOK(proc[p]) /\ p \notin Handler
           /\ p \in Handler => HandlerOK(proc[p]) /\ p \notin Worker
  BY ControlPlaneAssumption DEF ControlInv, TypeOK, StateInv

LEMMA RunOK ==
    ASSUME ControlInv, NEW r \in Run
    PROVE  /\ runs[r] \in RunRow
           /\ RowOK(runs[r])
  BY DEF ControlInv, TypeOK, StateInv

LEMMA IdleOK ==
    /\ Idle \in ProcState
    /\ WorkerOK(Idle) /\ HandlerOK(Idle)
    /\ \A r \in Run : ~Owes(Idle, r) /\ ~Asks(Idle, r)
    /\ Idle.run = NoRun
  BY ControlPlaneAssumption
     DEF Idle, ProcState, Decision, Checkpoint, NoCheckpoint, WorkerOK, HandlerOK, PersistOK,
         Owes, Asks, RunStatus, Action

\* A process goes back to idle.
LEMMA ToIdle ==
    ASSUME ControlInv, NEW p \in Proc, Moves(p, Idle), WritesSettled,
           UNCHANGED <<created, run_steps, approvals, dispatched, consents>>,
           used' \in [Bound -> Nat],
           used'["lapses"] = used["lapses"]
    PROVE  ControlInv'
<1>1. QuietStep(p, Idle)  BY IdleOK DEF QuietStep, ControlInv, TypeOK
<1>2. QED  BY <1>1, IdleOK, QuietStepKeeps

\* A process goes on to another label.
LEMMA ToLabel ==
    ASSUME ControlInv, NEW p \in Proc, NEW l, Goto(p, l), WritesSettled,
           UNCHANGED <<created, run_steps, dispatched, consents>>,
           approvals' \in Seq(ApprovalRow),
           used' \in [Bound -> Nat],
           used'["lapses"] = used["lapses"],
           [proc[p] EXCEPT !.pc = l] \in ProcState,
           p \in Worker => WorkerOK([proc[p] EXCEPT !.pc = l]),
           p \in Handler => HandlerOK([proc[p] EXCEPT !.pc = l]),
           l \notin {"append", "list", "decide"}
    PROVE  ControlInv'
<1> DEFINE s == [proc[p] EXCEPT !.pc = l]
<1>1. Moves(p, s)  BY GotoMoves DEF ControlInv
<1>2. s.run = proc[p].run /\ s.pc = l  BY ProcessOK DEF ProcState
<1>3. \A r \in Run : ~Owes(s, r) /\ ~Asks(s, r)  BY <1>2 DEF Owes, Asks
<1>4. QuietStep(p, s)  BY <1>1, <1>2, <1>3 DEF QuietStep, ControlInv, TypeOK
<1>5. QED  BY <1>4, QuietStepKeeps

LEMMA BoundUsed ==
    ASSUME TypeOK, NEW b \in Bound, used' = [used EXCEPT ![b] = @ + 1]
    PROVE  /\ used' \in [Bound -> Nat]
           /\ b # "lapses" => used'["lapses"] = used["lapses"]
  BY DEF TypeOK, Bound

LEMMA NothingToClaimKeeps ==
    ASSUME ControlInv, NEW w \in Worker, NothingToClaim(w)
    PROVE  ControlInv'
<1> DEFINE s == [proc[w] EXCEPT !.pc = "idle"]
<1> USE DEF NothingToClaim
<1>1. w \in Proc /\ proc[w] \in ProcState /\ WorkerOK(proc[w]) /\ w \notin Handler
  BY ProcessOK DEF Proc
<1>2. s \in ProcState  BY <1>1 DEF ProcState
<1>3. WorkerOK(s)  BY <1>1 DEF WorkerOK, PersistOK, ProcState
<1>4. QED  BY <1>1, <1>2, <1>3, ToLabel DEF WritesSettled, ControlInv, TypeOK

LEMMA CheckInboxKeeps ==
    ASSUME ControlInv, NEW p \in Proc, CheckInbox(p)
    PROVE  ControlInv'
<1> DEFINE l == IF PendingFor(proc[p].run) = {} THEN "request" ELSE "finish"
           s == [proc[p] EXCEPT !.pc = l]
<1> USE DEF CheckInbox
<1>1. /\ proc[p] \in ProcState
      /\ p \in Worker => WorkerOK(proc[p])
      /\ p \in Handler => HandlerOK(proc[p])
  BY ProcessOK
<1>2. l \in {"request", "finish"}  OBVIOUS
<1>3. s \in ProcState  BY <1>1, <1>2 DEF ProcState
<1>4. p \in Worker => WorkerOK(s)  BY <1>1, <1>2 DEF WorkerOK, PersistOK, ProcState
<1>5. p \in Handler => HandlerOK(s)  BY <1>1, <1>2 DEF HandlerOK, PersistOK, ProcState
<1>6. QED  BY <1>2, <1>3, <1>4, <1>5, ToLabel DEF WritesSettled, ControlInv, TypeOK

LEMMA RequestApprovalKeeps ==
    ASSUME ControlInv, NEW p \in Proc, RequestApproval(p)
    PROVE  ControlInv'
<1> DEFINE s == [proc[p] EXCEPT !.pc = "finish"]
<1> USE DEF RequestApproval
<1>1. /\ proc[p] \in ProcState
      /\ p \in Worker => WorkerOK(proc[p])
      /\ p \in Handler => HandlerOK(proc[p])
      /\ p \in Worker \/ p \in Handler
  BY ProcessOK DEF Proc
<1>2. s \in ProcState  BY <1>1 DEF ProcState
<1>3. p \in Worker => WorkerOK(s)  BY <1>1 DEF WorkerOK, PersistOK, ProcState
<1>4. p \in Handler => HandlerOK(s)  BY <1>1 DEF HandlerOK, PersistOK, ProcState
<1>5. proc[p].run \in Run /\ proc[p].final.pending \in Action
  BY <1>1 DEF WorkerOK, HandlerOK, PersistOK, Returned, ProcState, Checkpoint
<1>6. approvals' \in Seq(ApprovalRow)
  BY <1>5 DEF ControlInv, TypeOK, ApprovalRow, Decision
<1>7. QED  BY <1>2, <1>3, <1>4, <1>6, ToLabel DEF WritesSettled, ControlInv, TypeOK

LEMMA FinishKeeps ==
    ASSUME ControlInv, NEW p \in Proc, Finish(p)
    PROVE  ControlInv'
  BY ToIdle DEF Finish, Moves, WritesSettled, ControlInv, TypeOK

LEMMA SavedRowOK ==
    ASSUME NEW c \in Checkpoint, Saved(c)
    PROVE  /\ SavedRow(c) \in RunRow
           /\ RowOK(SavedRow(c))
           /\ SavedRow(c).status \in Terminal \cup {"approval_required"}
  BY DEF SavedRow, RunRow, RowOK, Saved, Returned, Terminal, Checkpoint, RunStatus

LEMMA SaveCheckpointKeeps ==
    ASSUME ControlInv, NEW p \in Proc, SaveCheckpoint(p)
    PROVE  ControlInv'
<1> DEFINE final == [proc[p].final EXCEPT !.persisted = Len(proc[p].final.trace)]
           l == IF final.status = "approval_required" THEN "inbox" ELSE "finish"
           s == [proc[p] EXCEPT !.pc = l]
<1> USE DEF SaveCheckpoint
<1>1. /\ proc[p] \in ProcState
      /\ p \in Worker => WorkerOK(proc[p])
      /\ p \in Handler => HandlerOK(proc[p])
      /\ p \in Worker \/ p \in Handler
  BY ProcessOK DEF Proc
<1>2. final \in Checkpoint  BY <1>1 DEF ProcState, Checkpoint
<1>3. Returned(proc[p].final) /\ proc[p].run \in Run
  BY <1>1 DEF WorkerOK, HandlerOK, PersistOK
<1>4. Saved(final) /\ final.status = proc[p].final.status
  BY <1>1, <1>3 DEF Saved, Returned, ProcState, Checkpoint
<1>5. l \in {"inbox", "finish"}  OBVIOUS
<1>6. s \in ProcState  BY <1>1, <1>5 DEF ProcState
<1>7. PersistOK(s)  BY <1>1, <1>3, <1>4 DEF PersistOK, ProcState
<1>8. p \in Worker => WorkerOK(s)  BY <1>1, <1>5, <1>7 DEF WorkerOK, ProcState
<1>9. p \in Handler => HandlerOK(s)  BY <1>1, <1>5, <1>7 DEF HandlerOK, ProcState
<1>10. WritesSettled  BY <1>2, <1>3, <1>4, SavedRowOK DEF WritesSettled
<1>11. QED  BY <1>5, <1>6, <1>8, <1>9, <1>10, ToLabel DEF ControlInv, TypeOK

LEMMA InvokeKeeps ==
    ASSUME ControlInv, NEW w \in Worker, Invoke(w)
    PROVE  ControlInv'
<1> USE DEF Invoke
<1>1. /\ w \in Proc
      /\ proc[w] \in ProcState
      /\ WorkerOK(proc[w])
      /\ w \notin Handler
  BY ProcessOK DEF Proc
<1>2. PICK state \in InvokeResult :
          proc' = [proc EXCEPT ![w].pc = "append", ![w].final = state,
                               ![w].next = FirstNewStep(proc[w].snapshot)]
  OBVIOUS
<1> DEFINE s == [proc[w] EXCEPT !.pc = "append", !.final = state,
                                !.next = FirstNewStep(proc[w].snapshot)]
<1>3. /\ state \in Checkpoint
      /\ Returned(state)
      /\ \A i \in 1..Len(state.trace) : state.trace[i] # "executed"
  <2>1. ReadTrace \in Seq(StepKind) /\ Append(ReadTrace, "proposed") \in Seq(StepKind)
    BY ControlPlaneAssumption DEF StepKind
  <2>2. \A i \in 1..Len(ReadTrace) : ReadTrace[i] # "executed"
    BY ControlPlaneAssumption
  <2>3. \A i \in 1..Len(Append(ReadTrace, "proposed")) :
            Append(ReadTrace, "proposed")[i] # "executed"
    BY <2>1, <2>2
  <2>4. CASE state \in {[status |-> t, pending |-> "none", trace |-> ReadTrace, persisted |-> 0] :
                           t \in {"completed", "failed"}}
    BY <2>1, <2>2, <2>4 DEF Checkpoint, RunStatus, Terminal, Returned
  <2>5. CASE state = [status |-> "approval_required", pending |-> "own",
                      trace |-> Append(ReadTrace, "proposed"), persisted |-> 0]
    BY <2>1, <2>3, <2>5 DEF Checkpoint, RunStatus, Action, Returned
  <2>6. QED  BY <2>4, <2>5 DEF InvokeResult
<1>4. s \in ProcState  BY <1>1, <1>3 DEF ProcState, FirstNewStep, Checkpoint
<1>5. WorkerOK(s)  BY <1>1, <1>3 DEF WorkerOK, PersistOK, ProcState
<1>6. Moves(w, s)  BY <1>2 DEF Moves, ControlInv, TypeOK
<1>7. s.run = proc[w].run  BY <1>1 DEF ProcState
<1>8. QuietStep(w, s)
  BY <1>1, <1>4, <1>5, <1>6, <1>7 DEF QuietStep, WritesSettled, ControlInv, TypeOK
<1>9. QED  BY <1>1, <1>8, QuietStepKeeps

LEMMA CrashKeeps ==
    ASSUME ControlInv, NEW w \in Worker, Crash(w)
    PROVE  ControlInv'
<1>1. /\ used' \in [Bound -> Nat]
      /\ used'["lapses"] = used["lapses"]
  BY BoundUsed DEF Crash, ControlInv, Bound
<1>2. QED  BY <1>1, ToIdle DEF Crash, Moves, WritesSettled, Proc

LEMMA AbortKeeps ==
    ASSUME ControlInv, NEW h \in Handler, Abort(h)
    PROVE  ControlInv'
<1>1. /\ used' \in [Bound -> Nat]
      /\ used'["lapses"] = used["lapses"]
  BY BoundUsed DEF Abort, ControlInv, Bound
<1>2. QED  BY <1>1, ToIdle DEF Abort, Moves, WritesSettled, Proc

LEMMA RaiseErrorKeeps ==
    ASSUME ControlInv, NEW w \in Worker, RaiseError(w)
    PROVE  ControlInv'
<1> DEFINE s == [proc[w] EXCEPT !.pc = "except"]
<1> USE DEF RaiseError
<1>1. /\ w \in Proc
      /\ proc[w] \in ProcState
      /\ WorkerOK(proc[w])
      /\ w \notin Handler
  BY ProcessOK DEF Proc
<1>2. /\ used' \in [Bound -> Nat]
      /\ used'["lapses"] = used["lapses"]
  BY BoundUsed DEF ControlInv, Bound
<1>3. s \in ProcState  BY <1>1 DEF ProcState
<1>4. WorkerOK(s)  BY <1>1 DEF WorkerOK, PersistOK, ProcState
<1>5. QED  BY <1>1, <1>2, <1>3, <1>4, ToLabel DEF WritesSettled, ControlInv, TypeOK

LEMMA FailRunKeeps ==
    ASSUME ControlInv, NEW w \in Worker, FailRun(w)
    PROVE  ControlInv'
<1> DEFINE r == proc[w].run
           row == [runs[r] EXCEPT !.status = "failed"]
<1> USE DEF FailRun
<1>1. w \in Proc /\ proc[w] \in ProcState /\ WorkerOK(proc[w])
  BY ProcessOK DEF Proc
<1>2. r \in Run  BY <1>1 DEF WorkerOK
<1>3. runs[r] \in RunRow /\ RowOK(runs[r])  BY <1>2, RunOK
<1>4. /\ row \in RunRow
      /\ row.status = "failed"
      /\ row.checkpoint = runs[r].checkpoint
  BY <1>3 DEF RunRow, RunStatus, Terminal
<1>5. RowOK(row)  BY <1>3, <1>4 DEF RowOK
<1>6. WritesSettled
  <2>1. runs' = [runs EXCEPT ![r] = row]  BY <1>2 DEF ControlInv, TypeOK
  <2>2. QED  BY <1>2, <1>4, <1>5, <2>1 DEF WritesSettled, Terminal
<1>7. QED  BY <1>1, <1>6, ToIdle DEF Moves, ControlInv, TypeOK

-----------------------------------------------------------------------------
LEMMA ListTargetsKeeps ==
    ASSUME ControlInv, NEW h \in Handler, ListTargets(h)
    PROVE  ControlInv'
<1> DEFINE s == [proc[h] EXCEPT !.pc = "decide", !.targets = PendingFor(proc[h].run)]
<1> USE DEF ListTargets
<1>1. /\ h \in Proc
      /\ proc[h] \in ProcState
      /\ HandlerOK(proc[h])
      /\ h \notin Worker
  BY ProcessOK DEF Proc
<1>2. PendingFor(proc[h].run) \in SUBSET Nat
  BY DEF PendingFor, ControlInv, TypeOK
<1>3. s \in ProcState  BY <1>1, <1>2 DEF ProcState
<1>4. HandlerOK(s)  BY <1>1 DEF HandlerOK, PersistOK, ProcState
<1>5. Moves(h, s)  BY DEF Moves, ControlInv, TypeOK
<1>6. \A r \in Run : ~Owes(s, r) /\ (Asks(s, r) => Asks(proc[h], r))
  BY <1>1 DEF Owes, Asks, ProcState
<1>7. QuietStep(h, s)
  BY <1>1, <1>3, <1>4, <1>5, <1>6 DEF QuietStep, WritesSettled, ControlInv, TypeOK
<1>8. QED  BY <1>1, <1>7, QuietStepKeeps

\* A handler starts on something that is neither a resume nor a result.
LEMMA StartKeeps ==
    ASSUME ControlInv, NEW h \in Handler, NEW s \in ProcState, Moves(h, s), WritesSettled,
           s.pc \in {"load", "request_checkout", "save_checkout"}, s.run \in Run,
           UNCHANGED <<run_steps, approvals, dispatched, consents>>,
           created' \in Seq(Run),
           used' \in [Bound -> Nat],
           used'["lapses"] = used["lapses"]
    PROVE  ControlInv'
<1>1. h \in Proc /\ h \notin Worker  BY ProcessOK DEF Proc
<1>2. HandlerOK(s)  BY DEF HandlerOK, PersistOK
<1>3. \A r \in Run : ~Owes(s, r) /\ ~Asks(s, r)  BY DEF Owes, Asks
<1>4. QuietStep(h, s)  BY <1>1, <1>2, <1>3 DEF QuietStep, ControlInv, TypeOK
<1>5. QED  BY <1>1, <1>4, QuietStepKeeps

LEMMA StartDecideKeeps ==
    ASSUME ControlInv, NEW h \in Handler, NEW i \in 1..Len(approvals),
           NEW d \in {"approved", "rejected"}, StartDecide(h, i, d)
    PROVE  ControlInv'
<1> DEFINE s == [Idle EXCEPT !.pc = "load", !.run = approvals[i].run,
                             !.decision = d, !.targets = {i}]
<1> USE DEF StartDecide, Receive
<1>1. /\ used' \in [Bound -> Nat]
      /\ used'["lapses"] = used["lapses"]
  BY BoundUsed DEF ControlInv, Bound
<1>2. approvals[i].run \in Run /\ i \in Nat
  <2>1. approvals \in Seq(ApprovalRow)  BY DEF ControlInv, TypeOK
  <2>2. approvals[i] \in ApprovalRow  BY <2>1
  <2>3. QED  BY <2>2 DEF ApprovalRow
<1>3. s \in ProcState /\ s.pc = "load" /\ s.run \in Run
  BY <1>2, IdleOK DEF Idle, ProcState, Decision
<1>4. QED  BY <1>1, <1>3, StartKeeps DEF Moves, WritesSettled, ControlInv, TypeOK

LEMMA ProposeForRunKeeps ==
    ASSUME ControlInv, NEW h \in Handler, NEW r \in Run, ProposeForRun(h, r)
    PROVE  ControlInv'
<1> DEFINE s == [Idle EXCEPT !.pc = "request_checkout", !.run = r]
<1> USE DEF ProposeForRun, Propose
<1>1. /\ used' \in [Bound -> Nat]
      /\ used'["lapses"] = used["lapses"]
  BY BoundUsed DEF ControlInv, Bound
<1>2. s \in ProcState /\ s.pc = "request_checkout" /\ s.run \in Run
  BY IdleOK DEF Idle, ProcState
<1>3. QED  BY <1>1, <1>2, StartKeeps DEF Moves, WritesSettled, ControlInv, TypeOK

LEMMA ProposeAloneKeeps ==
    ASSUME ControlInv, NEW h \in Handler, NEW r \in Run, ProposeAlone(h, r)
    PROVE  ControlInv'
<1> DEFINE s == [Idle EXCEPT !.pc = "save_checkout", !.run = r]
           row == [runs[r] EXCEPT !.status = "approval_required"]
<1> USE DEF ProposeAlone, Propose
<1>1. /\ used' \in [Bound -> Nat]
      /\ used'["lapses"] = used["lapses"]
  BY BoundUsed DEF ControlInv, Bound
<1>2. s \in ProcState /\ s.pc = "save_checkout" /\ s.run \in Run
  BY IdleOK DEF Idle, ProcState
<1>3. runs[r] \in RunRow /\ RowOK(runs[r])  BY RunOK
<1>4. /\ row \in RunRow
      /\ row.status = "approval_required"
      /\ row.checkpoint = runs[r].checkpoint
  BY <1>3 DEF RunRow, RunStatus
<1>5. RowOK(row)  BY <1>3, <1>4 DEF RowOK
<1>6. WritesSettled
  <2>1. runs' = [runs EXCEPT ![r] = row]  BY DEF ControlInv, TypeOK
  <2>2. QED  BY <1>4, <1>5, <2>1 DEF WritesSettled
<1>7. created' \in Seq(Run)  BY DEF ControlInv, TypeOK
<1>8. QED  BY <1>1, <1>2, <1>6, <1>7, StartKeeps DEF Moves

LEMMA RefuseDecisionKeeps ==
    ASSUME ControlInv, NEW h \in Handler, RefuseDecision(h)
    PROVE  ControlInv'
  BY ToIdle DEF RefuseDecision, Moves, WritesSettled, Proc, ControlInv, TypeOK

LEMMA SaveCheckoutKeeps ==
    ASSUME ControlInv, NEW h \in Handler, SaveCheckout(h)
    PROVE  ControlInv'
<1> DEFINE s == [proc[h] EXCEPT !.pc = "request_checkout"]
           c == [status |-> "approval_required", pending |-> "checkout",
                 trace |-> <<"checkout">>, persisted |-> 1]
<1> USE DEF SaveCheckout
<1>1. /\ h \in Proc
      /\ proc[h] \in ProcState
      /\ HandlerOK(proc[h])
      /\ h \notin Worker
  BY ProcessOK DEF Proc
<1>2. c \in Checkpoint /\ Saved(c)
  BY DEF Checkpoint, RunStatus, Action, StepKind, Saved, Returned
<1>3. proc[h].run \in Run  BY <1>1 DEF HandlerOK
<1>4. WritesSettled  BY <1>2, <1>3, SavedRowOK DEF WritesSettled
<1>5. s \in ProcState  BY <1>1 DEF ProcState
<1>6. HandlerOK(s)  BY <1>1 DEF HandlerOK, PersistOK, ProcState
<1>7. QED  BY <1>1, <1>4, <1>5, <1>6, ToLabel DEF ControlInv, TypeOK

LEMMA RequestCheckoutKeeps ==
    ASSUME ControlInv, NEW h \in Handler, RequestCheckout(h)
    PROVE  ControlInv'
<1> DEFINE s == [proc[h] EXCEPT !.pc = "finish"]
<1> USE DEF RequestCheckout
<1>1. /\ h \in Proc
      /\ proc[h] \in ProcState
      /\ HandlerOK(proc[h])
      /\ h \notin Worker
  BY ProcessOK DEF Proc
<1>2. approvals' \in Seq(ApprovalRow)
  BY <1>1 DEF HandlerOK, ControlInv, TypeOK, ApprovalRow, Decision, Action
<1>3. s \in ProcState  BY <1>1 DEF ProcState
<1>4. HandlerOK(s)  BY <1>1 DEF HandlerOK, PersistOK, ProcState
<1>5. QED  BY <1>1, <1>2, <1>3, <1>4, ToLabel DEF WritesSettled, ControlInv, TypeOK

\* Replacing an entry of a list, or none where the list has no such place.
LEMMA ReplaceInSeq ==
    ASSUME NEW S, NEW f \in Seq(S), NEW i, NEW e,
           i \in 1..Len(f) => e \in S
    PROVE  [f EXCEPT ![i] = e] \in Seq(S)
<1>1. CASE i \in 1..Len(f)  BY <1>1
<1>2. CASE i \notin 1..Len(f)
  <2>1. f = [k \in 1..Len(f) |-> f[k]]  OBVIOUS
  <2>2. [f EXCEPT ![i] = e] = [k \in 1..Len(f) |-> f[k]]  BY <1>2, <2>1
  <2>3. QED  BY <2>1, <2>2
<1>3. QED  BY <1>1, <1>2

LEMMA DecideTargetKeeps ==
    ASSUME ControlInv, NEW h \in Handler, DecideTarget(h)
    PROVE  ControlInv'
<1> USE DEF DecideTarget
<1>1. /\ h \in Proc
      /\ proc[h] \in ProcState
      /\ HandlerOK(proc[h])
      /\ h \notin Worker
  BY ProcessOK DEF Proc
<1>2. PICK i \in proc[h].targets :
          /\ approvals' = [approvals EXCEPT ![i].decision = proc[h].decision]
          /\ proc' = [proc EXCEPT ![h].targets = @ \ {i}]
  OBVIOUS
<1> DEFINE s == [proc[h] EXCEPT !.targets = @ \ {i}]
<1>3. s \in ProcState  BY <1>1 DEF ProcState
<1>4. HandlerOK(s)  BY <1>1 DEF HandlerOK, PersistOK, ProcState
<1>5. Moves(h, s)  BY <1>2 DEF Moves, ControlInv, TypeOK
<1>6. \A r \in Run : ~Owes(s, r) /\ (Asks(s, r) => Asks(proc[h], r))
  BY <1>1 DEF Owes, Asks, ProcState
<1>7. approvals' \in Seq(ApprovalRow)
  <2>1. approvals \in Seq(ApprovalRow)  BY DEF ControlInv, TypeOK
  <2>2. proc[h].decision \in Decision  BY <1>1 DEF ProcState
  <2> DEFINE e == [approvals[i] EXCEPT !.decision = proc[h].decision]
  <2>3. approvals' = [approvals EXCEPT ![i] = e]  BY <1>2
  <2>4. ASSUME i \in 1..Len(approvals) PROVE e \in ApprovalRow
    <3>1. approvals[i] \in ApprovalRow  BY <2>1, <2>4
    <3>2. QED  BY <2>2, <3>1 DEF ApprovalRow
  <2>5. QED  BY <2>1, <2>3, <2>4, ReplaceInSeq
<1>8. QuietStep(h, s)
  BY <1>1, <1>3, <1>4, <1>5, <1>6, <1>7 DEF QuietStep, WritesSettled, ControlInv, TypeOK
<1>9. QED  BY <1>1, <1>8, QuietStepKeeps

-----------------------------------------------------------------------------
(* The actions that count: a step row, a dispatch, a consent.              *)

\* One entry of a table of counters goes up.
LEMMA OneMore ==
    ASSUME NEW R, NEW K, NEW f \in [R -> [K -> Nat]], NEW r0 \in R, NEW k0 \in K,
           NEW g, g = [f EXCEPT ![r0][k0] = @ + 1]
    PROVE  /\ g \in [R -> [K -> Nat]]
           /\ \A r \in R : r # r0 => g[r] = f[r]
           /\ \A k \in K : k # k0 => g[r0][k] = f[r0][k]
           /\ g[r0][k0] = f[r0][k0] + 1
<1>1. g = [r \in R |-> IF r = r0
                       THEN [k \in K |-> IF k = k0 THEN f[r0][k0] + 1 ELSE f[r0][k]]
                       ELSE f[r]]
  OBVIOUS
<1>2. f[r0] \in [K -> Nat] /\ f[r0][k0] \in Nat  OBVIOUS
<1>3. [k \in K |-> IF k = k0 THEN f[r0][k0] + 1 ELSE f[r0][k]] \in [K -> Nat]
  BY <1>2
<1>4. QED  BY <1>1, <1>3

LEMMA AppendStepKeeps ==
    ASSUME ControlInv, NEW p \in Proc, AppendStep(p)
    PROVE  ControlInv'
<1> DEFINE r0 == proc[p].run
           k0 == proc[p].final.trace[proc[p].next + 1]
           s == [proc[p] EXCEPT !.next = @ + 1]
<1> USE DEF AppendStep
<1>1. /\ proc[p] \in ProcState
      /\ p \in Worker => WorkerOK(proc[p])
      /\ p \in Handler => HandlerOK(proc[p])
      /\ p \in Worker \/ p \in Handler
  BY ProcessOK DEF Proc
<1>2. /\ r0 \in Run
      /\ proc[p].next + 1 \in 1..Len(proc[p].final.trace)
      /\ k0 \in StepKind
      /\ p \in Worker => k0 # "executed"
  BY <1>1 DEF WorkerOK, HandlerOK, ProcState, Checkpoint
<1>3. s \in ProcState  BY <1>1 DEF ProcState
<1>4. p \in Worker => WorkerOK(s)  BY <1>1 DEF WorkerOK, PersistOK, ProcState
<1>5. p \in Handler => HandlerOK(s)  BY <1>1 DEF HandlerOK, PersistOK, ProcState
<1>6. Moves(p, s)  BY DEF Moves, ControlInv, TypeOK
<1>7. /\ s.run = proc[p].run
      /\ \A r \in Run : ~Asks(s, r)
      /\ p \in Handler => \A r \in Run : ~Owes(s, r)
      /\ Owes(proc[p], r0)
  BY <1>1 DEF Owes, Asks, ProcState, HandlerOK, Checkpoint
<1>8. /\ \A r \in Run : run_steps[r] \in [StepKind -> Nat] /\ Dispatches(r) \in Nat
      /\ \A r \in Run : consents[r] \in Nat
      /\ \A r \in Run : Dispatches(r)' = Dispatches(r)
  BY DEF ControlInv, TypeOK, Dispatches, Action
<1>9. /\ run_steps' \in [Run -> [StepKind -> Nat]]
      /\ \A r \in Run : r # r0 => run_steps'[r] = run_steps[r]
      /\ k0 # "executed" => run_steps'[r0]["executed"] = run_steps[r0]["executed"]
      /\ k0 = "executed" => run_steps'[r0]["executed"] = run_steps[r0]["executed"] + 1
  <2>1. run_steps \in [Run -> [StepKind -> Nat]]  BY DEF ControlInv, TypeOK
  <2>2. run_steps' = [run_steps EXCEPT ![r0][k0] = @ + 1]  OBVIOUS
  <2>3. "executed" \in StepKind  BY DEF StepKind
  <2> HIDE DEF r0, k0, AppendStep
  <2>4. /\ run_steps' \in [Run -> [StepKind -> Nat]]
        /\ \A r \in Run : r # r0 => run_steps'[r] = run_steps[r]
        /\ \A k \in StepKind : k # k0 => run_steps'[r0][k] = run_steps[r0][k]
        /\ run_steps'[r0][k0] = run_steps[r0][k0] + 1
    BY ONLY <1>2, <2>1, <2>2, OneMore
  <2>5. QED  BY <2>3, <2>4
<1>10. TypeOK'
  BY <1>3, <1>6, <1>9, MovesOne DEF ControlInv, TypeOK
<1>11. StateInv'  BY <1>3, <1>4, <1>5, <1>6, StatesKept DEF ControlInv, StateInv
<1>12. Holding' /\ SoleWorker'  BY <1>3, <1>6, <1>7, HoldingKept
<1>13. ConsentInv'
  <2>1. \A r \in Run : /\ Cardinality(Asking(r)) \in Nat
                       /\ Cardinality(Asking(r)') \in Nat
                       /\ Cardinality(Asking(r)') <= Cardinality(Asking(r))
    BY <1>3, <1>6, <1>7, AskingMoves
  <2>2. QED  BY <2>1, <1>8 DEF ControlInv, ConsentInv
<1>14. ASSUME NEW r \in Run
       PROVE  run_steps'[r]["executed"] + Cardinality(Owing(r)') <= Dispatches(r)'
  <2>1. /\ Cardinality(Owing(r)) \in Nat
        /\ Cardinality(Owing(r)') \in Nat
        /\ Cardinality(Owing(r)') <= Cardinality(Owing(r))
        /\ p \in Handler /\ r = r0 => Cardinality(Owing(r)') = Cardinality(Owing(r)) - 1
    BY <1>3, <1>6, <1>7, OwingMoves
  <2>2. run_steps[r]["executed"] + Cardinality(Owing(r)) <= Dispatches(r)
    BY DEF ControlInv, LedgerInv
  <2>3. /\ run_steps[r]["executed"] \in Nat
        /\ Dispatches(r) \in Nat
        /\ Dispatches(r)' = Dispatches(r)
    BY <1>8 DEF StepKind
  <2>4. CASE r # r0 \/ k0 # "executed"
    <3>1. run_steps'[r]["executed"] = run_steps[r]["executed"]  BY <1>9, <2>4
    <3> HIDE DEF r0, k0, s, AppendStep, Dispatches, Owing
    <3>2. QED  BY ONLY <2>1, <2>2, <2>3, <3>1
  <2>5. CASE r = r0 /\ k0 = "executed"
    <3>1. p \in Handler  BY <1>1, <1>2, <2>5
    <3>2. run_steps'[r]["executed"] = run_steps[r]["executed"] + 1  BY <1>9, <2>5
    <3>3. Cardinality(Owing(r)') = Cardinality(Owing(r)) - 1  BY <2>1, <2>5, <3>1
    <3> HIDE DEF r0, k0, s, AppendStep, Dispatches, Owing
    <3>4. QED  BY ONLY <2>1, <2>2, <2>3, <3>2, <3>3
  <2>6. QED  BY <2>4, <2>5
<1>15. LedgerInv'  BY <1>14 DEF LedgerInv
<1>16. QED  BY <1>10, <1>11, <1>12, <1>13, <1>15 DEF ControlInv

\* What the graph returns for a paused or settled snapshot.
LEMMA ResumedOK ==
    ASSUME NEW c \in Checkpoint, Saved(c), NEW t \in {"completed", "failed"}
    PROVE  /\ AfterExecution(c, t) \in Checkpoint
           /\ Returned(AfterExecution(c, t))
           /\ Len(AfterExecution(c, t).trace) = Len(c.trace) + 1
<1> DEFINE e == AfterExecution(c, t)
<1>1. c.trace \in Seq(StepKind)  BY DEF Checkpoint
<1>2. /\ Append(c.trace, "executed") \in Seq(StepKind)
      /\ Len(Append(c.trace, "executed")) = Len(c.trace) + 1
  BY <1>1 DEF StepKind
<1> DEFINE tr == Append(c.trace, "executed")
<1>3. e = [c EXCEPT !.status = t, !.pending = "none", !.trace = tr]  BY DEF AfterExecution
<1> HIDE DEF e, tr
<1>4. e.trace = tr /\ e.status = t /\ e.pending = "none"  BY <1>3 DEF Checkpoint
<1>5. e \in Checkpoint
  <2>1. tr \in Seq(StepKind) /\ t \in RunStatus  BY <1>2 DEF tr, RunStatus, Terminal
  <2>2. QED  BY <1>3, <2>1 DEF Checkpoint
<1>6. Returned(e)  BY <1>4 DEF Returned, Terminal
<1>7. QED  BY <1>2, <1>4, <1>5, <1>6 DEF e, tr

LEMMA RejectedOK ==
    ASSUME NEW c \in Checkpoint, Saved(c)
    PROVE  /\ [c EXCEPT !.status = StatusOfRejection, !.pending = "none"] \in Checkpoint
           /\ Returned([c EXCEPT !.status = StatusOfRejection, !.pending = "none"])
           /\ [c EXCEPT !.status = StatusOfRejection, !.pending = "none"].trace = c.trace
  BY DEF Checkpoint, RunStatus, Terminal, Saved, Returned, StatusOfRejection

LEMMA GraphResumeKeeps ==
    ASSUME ControlInv, NEW h \in Handler, GraphResume(h)
    PROVE  ControlInv'
<1> DEFINE c == proc[h].snapshot
           r0 == proc[h].run
           executes == Resumable(c) /\ Approves(proc[h].decision)
<1>1. /\ h \in Proc
      /\ proc[h] \in ProcState
      /\ HandlerOK(proc[h])
      /\ h \notin Worker
  BY ProcessOK DEF Proc
<1>2. /\ c \in Checkpoint /\ Saved(c)
      /\ r0 \in Run
      /\ Resumable(c) => c.pending \in Action
      /\ c.persisted = Len(c.trace) /\ Len(c.trace) \in Nat
  BY <1>1 DEF GraphResume, HandlerOK, ProcState, Checkpoint, Saved, Returned, Resumable
<1>3. PICK t \in ResumeResult(c.pending) :
          proc' = [proc EXCEPT ![h].pc = "append",
              ![h].next = FirstNewStep(c),
              ![h].final =
                  CASE executes -> AfterExecution(c, t)
                    [] Resumable(c) /\ ~executes ->
                           [c EXCEPT !.status = StatusOfRejection, !.pending = "none"]
                    [] OTHER -> c]
  BY DEF GraphResume
<1> DEFINE final == CASE executes -> AfterExecution(c, t)
                      [] Resumable(c) /\ ~executes ->
                             [c EXCEPT !.status = StatusOfRejection, !.pending = "none"]
                      [] OTHER -> c
           s == [proc[h] EXCEPT !.pc = "append", !.next = FirstNewStep(c), !.final = final]
<1>4. t \in {"completed", "failed"}  BY DEF ResumeResult
<1>5. /\ final \in Checkpoint
      /\ Returned(final)
      /\ Len(final.trace) <= Len(c.trace) + 1
      /\ ~executes => Len(final.trace) = Len(c.trace)
  <2>1. CASE executes  BY <1>2, <1>4, <2>1, ResumedOK
  <2>2. CASE Resumable(c) /\ ~executes
    <3>1. final = [c EXCEPT !.status = StatusOfRejection, !.pending = "none"]  BY <2>2
    <3>2. /\ final \in Checkpoint
          /\ Returned(final)
          /\ final.trace = c.trace
      BY ONLY <1>2, <3>1, RejectedOK
    <3>3. QED  BY <1>2, <2>2, <3>2
  <2>3. CASE ~Resumable(c)
    <3>1. final = c  BY <2>3
    <3>2. QED  BY <1>2, <2>3, <3>1 DEF Saved
  <2>4. QED  BY <2>1, <2>2, <2>3
<1>6. s.pc = "append" /\ s.run = r0 /\ s.next = Len(c.trace) /\ s.final = final
  BY <1>1, <1>2 DEF ProcState, FirstNewStep
<1> HIDE DEF final
<1>7. s \in ProcState  BY <1>1, <1>2, <1>5 DEF ProcState, FirstNewStep
<1>8. Moves(h, s)  BY <1>3 DEF Moves, final, ControlInv, TypeOK
<1> HIDE DEF s
<1>9. HandlerOK(s)
  <2>1. Len(final.trace) \in Nat  BY <1>5 DEF Checkpoint
  <2>2. QED  BY <1>2, <1>5, <1>6, <2>1 DEF HandlerOK, PersistOK
<1>10. /\ \A r \in Run : ~Asks(s, r)
       /\ \A r \in Run : Owes(s, r) => executes /\ r = r0
       /\ \A r \in Run : ~Owes(proc[h], r)
       /\ executes => Asks(proc[h], r0)
  BY <1>1, <1>2, <1>5, <1>6 DEF Asks, Owes, GraphResume, Approves
<1>11. /\ runs' = runs /\ created' = created /\ run_steps' = run_steps
       /\ approvals' = approvals /\ consents' = consents /\ used' = used
  BY DEF GraphResume
<1>12. /\ dispatched' \in [Run -> [Action -> Nat]]
       /\ \A r \in Run : r # r0 \/ ~executes => Dispatches(r)' = Dispatches(r)
       /\ \A r \in Run : r = r0 /\ executes => Dispatches(r)' = Dispatches(r) + 1
  <2>1. dispatched \in [Run -> [Action -> Nat]]  BY DEF ControlInv, TypeOK
  <2>2. CASE executes
    <3>1. dispatched' = [dispatched EXCEPT ![r0][c.pending] = @ + 1]
      BY <2>2 DEF GraphResume
    <3>2. c.pending \in Action  BY <1>2, <2>2
    <3> DEFINE a0 == c.pending
    <3> HIDE DEF r0, a0
    <3>3. /\ dispatched' \in [Run -> [Action -> Nat]]
          /\ \A r \in Run : r # r0 => dispatched'[r] = dispatched[r]
          /\ \A a \in Action : a # a0 => dispatched'[r0][a] = dispatched[r0][a]
          /\ dispatched'[r0][a0] = dispatched[r0][a0] + 1
      BY ONLY <1>2, <2>1, <3>1, <3>2, OneMore DEF a0
    <3>4. dispatched[r0] \in [Action -> Nat]  BY <1>2, <2>1
    <3>5. dispatched'[r0]["own"] + dispatched'[r0]["checkout"]
             = dispatched[r0]["own"] + dispatched[r0]["checkout"] + 1
      BY <3>2, <3>3, <3>4 DEF Action, a0
    <3>6. QED  BY <2>2, <3>3, <3>5 DEF Dispatches
  <2>3. CASE ~executes
    <3>1. dispatched' = dispatched  BY <2>3 DEF GraphResume
    <3>2. QED  BY <2>1, <2>3, <3>1 DEF Dispatches
  <2>4. QED  BY <2>2, <2>3
<1> HIDE DEF executes, r0
<1>13. TypeOK'  BY <1>1, <1>7, <1>8, <1>11, <1>12, MovesOne DEF ControlInv, TypeOK
<1>14. StateInv'  BY <1>1, <1>7, <1>8, <1>9, <1>11, StatesKept DEF ControlInv, StateInv
<1>15. Holding' /\ SoleWorker'  BY <1>1, <1>7, <1>8, <1>11, HoldingKept
<1>16. \A r \in Run : /\ run_steps[r]["executed"] \in Nat
                      /\ Dispatches(r) \in Nat
                      /\ consents[r] \in Nat
  BY DEF ControlInv, TypeOK, Dispatches, StepKind, Action
<1>17. LedgerInv'
  <2>1. ASSUME NEW r \in Run
        PROVE  run_steps'[r]["executed"] + Cardinality(Owing(r)') <= Dispatches(r)'
    <3>1. /\ Cardinality(Owing(r)) \in Nat
          /\ Cardinality(Owing(r)') \in Nat
          /\ Cardinality(Owing(r)') <= Cardinality(Owing(r)) + 1
          /\ ~Owes(s, r) => Cardinality(Owing(r)') <= Cardinality(Owing(r))
      BY <1>1, <1>7, <1>8, OwingMoves
    <3>2. run_steps[r]["executed"] + Cardinality(Owing(r)) <= Dispatches(r)
      BY DEF ControlInv, LedgerInv
    <3>3. QED  BY <1>10, <1>11, <1>12, <1>16, <3>1, <3>2
  <2>2. QED  BY <2>1 DEF LedgerInv
<1>18. ConsentInv'
  <2>1. ASSUME NEW r \in Run
        PROVE  Dispatches(r)' + Cardinality(Asking(r)') <= consents'[r]
    <3>1. /\ Cardinality(Asking(r)) \in Nat
          /\ Cardinality(Asking(r)') \in Nat
          /\ Cardinality(Asking(r)') <= Cardinality(Asking(r))
          /\ Asks(proc[h], r) => Cardinality(Asking(r)') = Cardinality(Asking(r)) - 1
      BY <1>1, <1>7, <1>8, <1>10, AskingMoves
    <3>2. Dispatches(r) + Cardinality(Asking(r)) <= consents[r]
      BY DEF ControlInv, ConsentInv
    <3>3. QED  BY <1>10, <1>11, <1>12, <1>16, <3>1, <3>2
  <2>2. QED  BY <2>1 DEF ConsentInv
<1>19. QED  BY <1>13, <1>14, <1>15, <1>17, <1>18 DEF ControlInv

\* A request that is accepted counts as a consent, if it approves, and asks
\* for one dispatch.
LEMMA AcceptKeeps ==
    ASSUME ControlInv, NEW h \in Handler, NEW s \in ProcState, Moves(h, s),
           HandlerOK(s), s.pc \in {"list", "decide"}, NEW r0 \in Run, s.run = r0,
           Accept(r0, s.decision),
           UNCHANGED <<runs, created, run_steps, approvals, dispatched>>,
           used' \in [Bound -> Nat],
           used'["lapses"] = used["lapses"]
    PROVE  ControlInv'
<1>1. /\ h \in Proc
      /\ proc[h] \in ProcState
      /\ h \notin Worker
  BY ProcessOK DEF Proc
<1>2. /\ consents' \in [Run -> Nat]
      /\ \A r \in Run : consents'[r] =
            IF r = r0 /\ s.decision = "approved" THEN consents[r] + 1 ELSE consents[r]
  BY DEF Accept, ControlInv, TypeOK
<1>3. \A r \in Run : /\ ~Owes(s, r)
                     /\ Asks(s, r) => r = r0 /\ s.decision = "approved"
  BY DEF Owes, Asks
<1>4. TypeOK'  BY <1>1, <1>2, MovesOne DEF ControlInv, TypeOK
<1>5. StateInv'  BY <1>1, StatesKept DEF ControlInv, StateInv
<1>6. Holding' /\ SoleWorker'  BY <1>1, HoldingKept
<1>7. \A r \in Run : /\ run_steps[r]["executed"] \in Nat
                     /\ Dispatches(r) \in Nat
                     /\ Dispatches(r)' = Dispatches(r)
                     /\ consents[r] \in Nat
  BY DEF ControlInv, TypeOK, Dispatches, StepKind, Action
<1>8. LedgerInv'
  <2>1. \A r \in Run : /\ Cardinality(Owing(r)) \in Nat
                       /\ Cardinality(Owing(r)') \in Nat
                       /\ Cardinality(Owing(r)') <= Cardinality(Owing(r))
    BY <1>1, <1>3, OwingMoves
  <2>2. QED  BY <1>7, <2>1 DEF ControlInv, LedgerInv
<1>9. ConsentInv'
  <2>1. ASSUME NEW r \in Run
        PROVE  Dispatches(r)' + Cardinality(Asking(r)') <= consents'[r]
    <3>1. /\ Cardinality(Asking(r)) \in Nat
          /\ Cardinality(Asking(r)') \in Nat
          /\ Cardinality(Asking(r)') <= Cardinality(Asking(r)) + 1
          /\ ~Asks(s, r) => Cardinality(Asking(r)') <= Cardinality(Asking(r))
      BY <1>1, AskingMoves
    <3>2. Dispatches(r) + Cardinality(Asking(r)) <= consents[r]
      BY DEF ControlInv, ConsentInv
    <3>3. CASE Asks(s, r)
      <4>1. consents'[r] = consents[r] + 1  BY <1>2, <1>3, <3>3
      <4>2. QED  BY <1>7, <3>1, <3>2, <4>1
    <3>4. CASE ~Asks(s, r)
      <4>1. consents'[r] >= consents[r]  BY <1>2, <1>7
      <4>2. consents'[r] \in Nat  BY <1>2
      <4>3. QED  BY <1>7, <3>1, <3>2, <3>4, <4>1, <4>2
    <3>5. QED  BY <3>3, <3>4
  <2>2. QED  BY <2>1 DEF ConsentInv
<1>10. QED  BY <1>4, <1>5, <1>6, <1>8, <1>9 DEF ControlInv

LEMMA StartResumeKeeps ==
    ASSUME ControlInv, NEW h \in Handler, NEW r \in Run,
           NEW d \in {"approved", "rejected"}, StartResume(h, r, d)
    PROVE  ControlInv'
<1> DEFINE s == [Idle EXCEPT !.pc = "list", !.run = r, !.decision = d,
                             !.snapshot = runs[r].checkpoint]
<1> USE DEF StartResume, Receive
<1>1. /\ used' \in [Bound -> Nat]
      /\ used'["lapses"] = used["lapses"]
  BY BoundUsed DEF ControlInv, Bound
<1>2. Saved(runs[r].checkpoint) /\ runs[r].checkpoint \in Checkpoint
  BY RunOK DEF RowOK, RunRow
<1>3. /\ s.pc = "list" /\ s.run = r /\ s.decision = d
      /\ s.snapshot = runs[r].checkpoint
  BY DEF Idle
<1>4. s \in ProcState  BY <1>2, IdleOK DEF Idle, ProcState, Decision
<1>5. HandlerOK(s)  BY <1>2, <1>3 DEF HandlerOK, PersistOK
<1>6. Moves(h, s)  BY DEF Moves
<1>7. QED  BY <1>1, <1>3, <1>4, <1>5, <1>6, AcceptKeeps

LEMMA LoadRunKeeps ==
    ASSUME ControlInv, NEW h \in Handler, LoadRun(h)
    PROVE  ControlInv'
<1> DEFINE r == proc[h].run
           s == [proc[h] EXCEPT !.pc = "decide", !.snapshot = runs[r].checkpoint]
<1> USE DEF LoadRun
<1>1. /\ h \in Proc
      /\ proc[h] \in ProcState
      /\ HandlerOK(proc[h])
  BY ProcessOK DEF Proc
<1>2. r \in Run  BY <1>1 DEF HandlerOK
<1>3. Saved(runs[r].checkpoint) /\ runs[r].checkpoint \in Checkpoint
  BY <1>2, RunOK DEF RowOK, RunRow
<1>4. /\ s.pc = "decide" /\ s.run = r /\ s.decision = proc[h].decision
      /\ s.snapshot = runs[r].checkpoint
  BY <1>1 DEF ProcState
<1>5. s \in ProcState  BY <1>1, <1>3 DEF ProcState
<1>6. HandlerOK(s)  BY <1>2, <1>3, <1>4 DEF HandlerOK, PersistOK
<1>7. Moves(h, s)  BY DEF Moves, ControlInv, TypeOK
<1>8. used' \in [Bound -> Nat] /\ used'["lapses"] = used["lapses"]
  BY DEF ControlInv, TypeOK
<1>9. QED  BY <1>2, <1>4, <1>5, <1>6, <1>7, <1>8, AcceptKeeps

-----------------------------------------------------------------------------
(* The actions on leases.                                                  *)

\* A worker moves and the rows stay in order; who holds what is up to the
\* action.
LEMMA WorkerMoveKeeps ==
    ASSUME ControlInv, NEW w \in Worker, NEW s \in ProcState, Moves(w, s), WorkerOK(s),
           runs' \in [Run -> RunRow], \A q \in Run : RowOK(runs'[q]),
           UNCHANGED <<created, run_steps, approvals, dispatched, consents, used>>,
           Holding', SoleWorker'
    PROVE  ControlInv'
<1>1. w \in Proc /\ w \notin Handler  BY ProcessOK DEF Proc
<1>2. TypeOK'  BY <1>1, MovesOne DEF ControlInv, TypeOK
<1>3. StateInv'  BY <1>1, StatesKept
<1>4. LedgerInv' /\ ConsentInv'  BY <1>1, CountsKept
<1>5. QED  BY <1>2, <1>3, <1>4 DEF ControlInv

\* No process moves.
LEMMA NoMoveKeeps ==
    ASSUME ControlInv, runs' \in [Run -> RunRow], \A q \in Run : RowOK(runs'[q]),
           UNCHANGED <<run_steps, approvals, proc, dispatched, consents>>,
           created' \in Seq(Run), used' \in [Bound -> Nat],
           Holding', SoleWorker'
    PROVE  ControlInv'
<1>1. TypeOK'  BY DEF ControlInv, TypeOK
<1>2. StateInv'  BY DEF ControlInv, StateInv
<1>3. \A r \in Run : Owing(r)' = Owing(r) /\ Asking(r)' = Asking(r)
  BY DEF Owing, Asking
<1>4. LedgerInv'  BY <1>3 DEF ControlInv, LedgerInv, Dispatches
<1>5. ConsentInv'  BY <1>3 DEF ControlInv, ConsentInv, Dispatches
<1>6. QED  BY <1>1, <1>2, <1>4, <1>5 DEF ControlInv

\* As long as no lease lapsed, nobody executes a run that is absent, queued or
\* stale.
LEMMA NobodyExecutes ==
    ASSUME ControlInv, used["lapses"] = 0, NEW r \in Run,
           \/ runs[r].status \in {"absent", "pending"}
           \/ runs[r].status = "running" /\ runs[r].lease = "expired"
    PROVE  \A w \in Worker : ~Executing(w, r)
  BY DEF ControlInv, Holding, Holds, Terminal

LEMMA CreateRunKeeps ==
    ASSUME ControlInv, NEW r \in Run, CreateRun(r)
    PROVE  ControlInv'
<1> DEFINE row == [runs[r] EXCEPT !.status = "pending"]
<1> USE DEF CreateRun
<1>1. runs[r] \in RunRow /\ RowOK(runs[r])  BY RunOK
<1>2. /\ row \in RunRow
      /\ row.status = "pending"
      /\ row.checkpoint = runs[r].checkpoint
  BY <1>1 DEF RunRow, RunStatus
<1>3. RowOK(row)  BY <1>1, <1>2 DEF RowOK
<1>4. /\ runs' \in [Run -> RunRow]
      /\ \A q \in Run : runs'[q] = IF q = r THEN row ELSE runs[q]
  BY <1>2 DEF ControlInv, TypeOK
<1>5. \A q \in Run : RowOK(runs'[q])  BY <1>3, <1>4, RunOK
<1>6. \A w \in Worker, q \in Run : Executing(w, q)' <=> Executing(w, q)  BY DEF Executing
<1>7. Holding'
  BY <1>4, <1>6, NobodyExecutes DEF ControlInv, Holding
<1>8. SoleWorker'  BY <1>6 DEF ControlInv, SoleWorker
<1>9. created' \in Seq(Run) /\ used' \in [Bound -> Nat]  BY DEF ControlInv, TypeOK
<1>10. QED  BY <1>4, <1>5, <1>7, <1>8, <1>9, NoMoveKeeps

\* A lease that is out.
LEMMA ExpiredRowOK ==
    ASSUME ControlInv, NEW r \in Run, runs' = [runs EXCEPT ![r].lease = "expired"]
    PROVE  /\ runs' \in [Run -> RunRow]
           /\ \A q \in Run : RowOK(runs'[q])
           /\ \A q \in Run : q # r => runs'[q] = runs[q]
<1> DEFINE row == [runs[r] EXCEPT !.lease = "expired"]
<1>1. runs[r] \in RunRow /\ RowOK(runs[r])  BY RunOK
<1>2. /\ row \in RunRow
      /\ row.status = runs[r].status
      /\ row.worker = runs[r].worker
      /\ row.lease = "expired"
      /\ row.checkpoint = runs[r].checkpoint
  BY <1>1 DEF RunRow
<1>3. RowOK(row)  BY <1>1, <1>2 DEF RowOK
<1>4. /\ runs' \in [Run -> RunRow]
      /\ \A q \in Run : runs'[q] = IF q = r THEN row ELSE runs[q]
  BY <1>2 DEF ControlInv, TypeOK
<1>5. QED  BY <1>3, <1>4, RunOK

LEMMA LeaseExpiresKeeps ==
    ASSUME ControlInv, NEW r \in Run, LeaseExpires(r)
    PROVE  ControlInv'
<1> USE DEF LeaseExpires
<1>1. /\ runs' \in [Run -> RunRow]
      /\ \A q \in Run : RowOK(runs'[q])
      /\ \A q \in Run : q # r => runs'[q] = runs[q]
  BY ExpiredRowOK
<1>2. \A w \in Worker, q \in Run : Executing(w, q)' <=> Executing(w, q)  BY DEF Executing
<1>3. Holding'  BY <1>1, <1>2 DEF ControlInv, Holding
<1>4. SoleWorker'  BY <1>2 DEF ControlInv, SoleWorker
<1>5. created' \in Seq(Run) /\ used' \in [Bound -> Nat]  BY DEF ControlInv, TypeOK
<1>6. QED  BY <1>1, <1>3, <1>4, <1>5, NoMoveKeeps

LEMMA LeaseLapsesKeeps ==
    ASSUME ControlInv, NEW r \in Run, LeaseLapses(r)
    PROVE  ControlInv'
<1> USE DEF LeaseLapses
<1>1. /\ runs' \in [Run -> RunRow]
      /\ \A q \in Run : RowOK(runs'[q])
  BY ExpiredRowOK
<1>2. /\ used' \in [Bound -> Nat]
      /\ used'["lapses"] = used["lapses"] + 1
      /\ used["lapses"] \in Nat
  BY DEF ControlInv, TypeOK, Bound
<1>3. Holding' /\ SoleWorker'  BY <1>2 DEF Holding, SoleWorker
<1>4. created' \in Seq(Run)  BY DEF ControlInv, TypeOK
<1>5. QED  BY <1>1, <1>2, <1>3, <1>4, NoMoveKeeps

LEMMA ReleaseStaleRunningKeeps ==
    ASSUME ControlInv, NEW w \in Worker, ReleaseStaleRunning(w)
    PROVE  ControlInv'
<1> DEFINE s == [proc[w] EXCEPT !.pc = "claim"]
           Freed(q) == [runs[q] EXCEPT !.status = "pending", !.worker = NoWorker,
                                       !.lease = "none"]
<1> USE DEF ReleaseStaleRunning
<1>1. /\ w \in Proc
      /\ proc[w] \in ProcState
      /\ WorkerOK(proc[w])
  BY ProcessOK DEF Proc
<1>2. Moves(w, s)  BY <1>1, GotoMoves DEF ControlInv
<1>3. s \in ProcState /\ s.run = proc[w].run  BY <1>1 DEF ProcState
<1>4. WorkerOK(s)  BY <1>1 DEF WorkerOK, PersistOK, ProcState
<1>5. /\ \A q \in Run : Freed(q) \in RunRow /\ RowOK(Freed(q))
      /\ \A q \in Run : runs[q] \in RunRow /\ RowOK(runs[q])
  <2>1. ASSUME NEW q \in Run
        PROVE  Freed(q) \in RunRow /\ RowOK(Freed(q))
    <3>1. runs[q] \in RunRow /\ RowOK(runs[q])  BY RunOK
    <3>2. /\ Freed(q) \in RunRow
          /\ Freed(q).status = "pending"
          /\ Freed(q).checkpoint = runs[q].checkpoint
      BY <3>1 DEF RunRow, RunStatus
    <3>3. QED  BY <3>1, <3>2 DEF RowOK
  <2>2. QED  BY <2>1, RunOK
<1> HIDE DEF Freed
<1>6. \A q \in Run : runs'[q] = IF Stale(q) THEN Freed(q) ELSE runs[q]
  BY DEF Freed
<1>7. runs' \in [Run -> RunRow] /\ \A q \in Run : RowOK(runs'[q])
  <2>1. runs' = [q \in Run |-> IF Stale(q) THEN Freed(q) ELSE runs[q]]  BY DEF Freed
  <2>2. QED  BY <1>5, <2>1
<1>8. \A v \in Worker, q \in Run : Executing(v, q)' => Executing(v, q)
  BY <1>1, <1>2, <1>3, MovesOne DEF Executing, Proc, ControlInv
<1>9. Holding'  BY <1>6, <1>8, NobodyExecutes DEF ControlInv, Holding, Stale
<1>10. SoleWorker'  BY <1>8 DEF ControlInv, SoleWorker
<1>11. QED  BY <1>2, <1>3, <1>4, <1>7, <1>9, <1>10, WorkerMoveKeeps

LEMMA ClaimKeeps ==
    ASSUME ControlInv, NEW w \in Worker, NEW r \in Run, Claim(w, r)
    PROVE  ControlInv'
<1> DEFINE s == [Idle EXCEPT !.pc = "renew", !.run = r, !.snapshot = runs[r].checkpoint]
           row == [runs[r] EXCEPT !.status = "running", !.worker = w, !.lease = LeaseOfClaim]
<1> USE DEF Claim
<1>1. /\ w \in Proc
      /\ proc[w] \in ProcState
      /\ WorkerOK(proc[w])
  BY ProcessOK DEF Proc
<1>2. runs[r] \in RunRow /\ RowOK(runs[r]) /\ runs[r].status = "pending"
  BY RunOK
<1>3. s.pc = "renew" /\ s.run = r  BY DEF Idle
<1>4. s \in ProcState  BY <1>2, IdleOK DEF Idle, ProcState, RunRow
<1>5. WorkerOK(s)  BY <1>3 DEF WorkerOK, PersistOK
<1>6. Moves(w, s)  BY DEF Moves
<1>7. /\ row \in RunRow
      /\ row.status = "running"
      /\ row.worker = w
      /\ row.lease = "live"
      /\ row.checkpoint = runs[r].checkpoint
  BY <1>2 DEF RunRow, RunStatus, LeaseOfClaim
<1>8. RowOK(row)  BY <1>2, <1>7 DEF RowOK
<1>9. /\ runs' \in [Run -> RunRow]
      /\ \A q \in Run : runs'[q] = IF q = r THEN row ELSE runs[q]
  BY <1>7 DEF ControlInv, TypeOK
<1>10. \A q \in Run : RowOK(runs'[q])  BY <1>8, <1>9, RunOK
<1> HIDE DEF s, row
<1>11. \A v \in Worker, q \in Run : Executing(v, q)' => Executing(v, q) \/ (v = w /\ q = r)
  BY <1>1, <1>3, <1>4, <1>6, MovesOne DEF Executing, Proc, ControlInv
<1>12. used["lapses"] = 0 => \A v \in Worker : ~Executing(v, r)
  BY <1>2, NobodyExecutes
<1>13. Holding'
  <2>1. ASSUME used["lapses"] = 0, NEW v \in Worker, NEW q \in Run, Executing(v, q)'
        PROVE  Holds(v, runs'[q])
    <3>1. CASE q = r
      <4>1. v = w  BY <1>11, <1>12, <2>1, <3>1
      <4>2. QED  BY <1>7, <1>9, <3>1, <4>1 DEF Holds
    <3>2. CASE q # r
      <4>1. Executing(v, q)  BY <1>11, <2>1, <3>2
      <4>2. QED  BY <1>9, <2>1, <3>2, <4>1 DEF ControlInv, Holding
    <3>3. QED  BY <3>1, <3>2
  <2>2. QED  BY <2>1 DEF Holding
<1>14. SoleWorker'
  <2>1. ASSUME used["lapses"] = 0, NEW v1 \in Worker, NEW v2 \in Worker, NEW q \in Run,
               Executing(v1, q)', Executing(v2, q)'
        PROVE  v1 = v2
    <3>1. CASE q = r  BY <1>11, <1>12, <2>1, <3>1
    <3>2. CASE q # r
      <4>1. Executing(v1, q) /\ Executing(v2, q)  BY <1>11, <2>1, <3>2
      <4>2. QED  BY <2>1, <4>1 DEF ControlInv, SoleWorker
    <3>3. QED  BY <3>1, <3>2
  <2>2. QED  BY <2>1 DEF SoleWorker
<1>15. QED  BY <1>4, <1>5, <1>6, <1>9, <1>10, <1>13, <1>14, WorkerMoveKeeps

LEMMA RenewLeaseKeeps ==
    ASSUME ControlInv, NEW w \in Worker, RenewLease(w)
    PROVE  ControlInv'
<1> DEFINE r == proc[w].run
           s == [proc[w] EXCEPT !.pc = "invoke"]
           row == [runs[r] EXCEPT !.lease = "live"]
<1> USE DEF RenewLease
<1>1. /\ w \in Proc
      /\ proc[w] \in ProcState
      /\ WorkerOK(proc[w])
  BY ProcessOK DEF Proc
<1>2. r \in Run  BY <1>1 DEF WorkerOK
<1>3. Moves(w, s)  BY <1>1, GotoMoves DEF ControlInv
<1>4. s \in ProcState /\ s.run = proc[w].run  BY <1>1 DEF ProcState
<1>5. WorkerOK(s)  BY <1>1 DEF WorkerOK, PersistOK, ProcState
<1>6. runs[r] \in RunRow /\ RowOK(runs[r])  BY <1>2, RunOK
<1>7. /\ row \in RunRow
      /\ row.status = runs[r].status
      /\ row.worker = runs[r].worker
      /\ row.lease = "live"
      /\ row.checkpoint = runs[r].checkpoint
  BY <1>6 DEF RunRow
<1>8. RowOK(row)  BY <1>6, <1>7 DEF RowOK
<1>9. runs' = runs \/ runs' = [runs EXCEPT ![r] = row]
  BY <1>2 DEF ControlInv, TypeOK
<1> HIDE DEF s, row
<1>10. /\ runs' \in [Run -> RunRow]
       /\ \A q \in Run : runs'[q] = runs[q] \/ (q = r /\ runs'[q] = row)
  BY <1>2, <1>7, <1>9 DEF ControlInv, TypeOK
<1>11. \A q \in Run : RowOK(runs'[q])  BY <1>8, <1>10, RunOK
<1>12. \A v \in Worker, q \in Run : Executing(v, q)' => Executing(v, q)
  BY <1>1, <1>3, <1>4, MovesOne DEF Executing, Proc, ControlInv
<1>13. \A v \in Worker, q \in Run : Holds(v, runs[q]) => Holds(v, runs'[q])
  BY <1>7, <1>10 DEF Holds
<1>14. Holding'  BY <1>12, <1>13 DEF ControlInv, Holding
<1>15. SoleWorker'  BY <1>12 DEF ControlInv, SoleWorker
<1>16. QED  BY <1>3, <1>4, <1>5, <1>10, <1>11, <1>14, <1>15, WorkerMoveKeeps

LEMMA NothingMovesKeeps ==
    ASSUME ControlInv, UNCHANGED vars
    PROVE  ControlInv'
<1> USE DEF vars
<1>1. TypeOK'  BY DEF ControlInv, TypeOK
<1>2. StateInv'  BY DEF ControlInv, StateInv
<1>3. \A r \in Run : Owing(r)' = Owing(r) /\ Asking(r)' = Asking(r)
  BY DEF Owing, Asking
<1>4. LedgerInv'  BY <1>3 DEF ControlInv, LedgerInv, Dispatches
<1>5. ConsentInv'  BY <1>3 DEF ControlInv, ConsentInv, Dispatches
<1>6. Holding'  BY DEF ControlInv, Holding, Executing
<1>7. SoleWorker'  BY DEF ControlInv, SoleWorker, Executing
<1>8. QED  BY <1>1, <1>2, <1>4, <1>5, <1>6, <1>7 DEF ControlInv

-----------------------------------------------------------------------------
LEMMA InitControlInv == Init => ControlInv
<1> SUFFICES ASSUME Init PROVE ControlInv  OBVIOUS
<1> USE DEF Init
<1>1. NoCheckpoint \in Checkpoint  BY DEF NoCheckpoint, Checkpoint
<1>2. TypeOK
  <2>1. runs \in [Run -> RunRow]  BY <1>1 DEF RunRow, RunStatus
  <2>2. proc \in [Proc -> ProcState]  BY IdleOK
  <2>3. QED  BY <2>1, <2>2 DEF TypeOK
<1>3. StateInv  BY IdleOK DEF StateInv, RowOK, Proc
<1>4. \A r \in Run : Owing(r) = {} /\ Asking(r) = {}
  BY IdleOK DEF Owing, Asking, Proc
<1>5. Cardinality({}) = 0  BY FS_EmptySet
<1> HIDE DEF Init
<1>6. \A r \in Run : Dispatches(r) = 0 /\ run_steps[r]["executed"] = 0 /\ consents[r] = 0
  BY DEF Init, Dispatches, Action, StepKind
<1>7. LedgerInv /\ ConsentInv
  <2>1. \A r \in Run : Cardinality(Owing(r)) = 0 /\ Cardinality(Asking(r)) = 0
    BY <1>4, <1>5
  <2>2. QED  BY <1>6, <2>1 DEF LedgerInv, ConsentInv
<1>8. \A w \in Worker, r \in Run : ~Executing(w, r)
  BY IdleOK, ControlPlaneAssumption DEF Init, Executing, Proc
<1>9. Holding /\ SoleWorker  BY <1>8 DEF Holding, SoleWorker
<1>10. QED  BY <1>2, <1>3, <1>7, <1>9 DEF ControlInv

LEMMA PersistStepKeeps ==
    ASSUME ControlInv, NEW p \in Proc, PersistStep(p)
    PROVE  ControlInv'
  BY AppendStepKeeps, SaveCheckpointKeeps, CheckInboxKeeps, RequestApprovalKeeps, FinishKeeps
     DEF PersistStep

LEMMA WorkerStepKeeps ==
    ASSUME ControlInv, NEW w \in Worker, WorkerStep(w)
    PROVE  ControlInv'
  BY ReleaseStaleRunningKeeps, ClaimKeeps, NothingToClaimKeeps, RenewLeaseKeeps, InvokeKeeps,
     PersistStepKeeps, FailRunKeeps DEF WorkerStep, Proc

LEMMA HandlerStepKeeps ==
    ASSUME ControlInv, NEW h \in Handler, HandlerStep(h)
    PROVE  ControlInv'
  BY ListTargetsKeeps, LoadRunKeeps, RefuseDecisionKeeps, DecideTargetKeeps, GraphResumeKeeps,
     SaveCheckoutKeeps, RequestCheckoutKeeps, PersistStepKeeps DEF HandlerStep, Proc

LEMMA RequestKeeps ==
    ASSUME ControlInv, NEW h \in Handler, Request(h)
    PROVE  ControlInv'
  BY ProposeForRunKeeps, ProposeAloneKeeps, StartResumeKeeps, StartDecideKeeps DEF Request

LEMMA FaultKeeps ==
    ASSUME ControlInv, Fault
    PROVE  ControlInv'
  BY CrashKeeps, RaiseErrorKeeps, AbortKeeps, LeaseLapsesKeeps DEF Fault

LEMMA NextKeeps == ControlInv /\ [Next]_vars => ControlInv'
<1> SUFFICES ASSUME ControlInv, [Next]_vars PROVE ControlInv'  OBVIOUS
<1>1. ASSUME NEW r \in Run, CreateRun(r) \/ LeaseExpires(r) PROVE ControlInv'
  BY <1>1, CreateRunKeeps, LeaseExpiresKeeps
<1>2. ASSUME NEW w \in Worker, WorkerStep(w) PROVE ControlInv'
  BY <1>2, WorkerStepKeeps
<1>3. ASSUME NEW h \in Handler, Request(h) \/ HandlerStep(h) PROVE ControlInv'
  BY <1>3, RequestKeeps, HandlerStepKeeps
<1>4. CASE Fault  BY <1>4, FaultKeeps
<1>5. CASE UNCHANGED vars  BY <1>5, NothingMovesKeeps
<1>6. QED  BY <1>1, <1>2, <1>3, <1>4, <1>5 DEF Next

\* Whatever interleaving, crash, exception, aborted request or lapsed lease:
\* rows and checkpoints stay well formed, every executed row and every dispatch
\* is accounted for, and a worker holds the run it executes.
THEOREM ControlInvHolds == Spec => []ControlInv
<1>1. Init => ControlInv  BY InitControlInv
<1>2. ControlInv /\ [Next]_vars => ControlInv'  BY NextKeeps
<1>3. QED  BY <1>1, <1>2, PTL DEF Spec

\* The counts are counts.
LEMMA CountsAreNat ==
    ASSUME ControlInv, NEW r \in Run
    PROVE  /\ Cardinality(Owing(r)) \in Nat
           /\ Cardinality(Asking(r)) \in Nat
           /\ run_steps[r]["executed"] \in Nat
           /\ Dispatches(r) \in Nat
           /\ consents[r] \in Nat
<1>1. IsFiniteSet(Owing(r)) /\ IsFiniteSet(Asking(r))
  BY FS_Subset, ControlPlaneAssumption DEF Owing, Asking
<1>2. Cardinality(Owing(r)) \in Nat /\ Cardinality(Asking(r)) \in Nat
  BY <1>1, FS_CardinalityType
<1>3. QED  BY <1>2 DEF ControlInv, TypeOK, Dispatches, StepKind, Action

\* run_steps never shows an execution that did not take place, however the
\* writers overlap (append_new_tool_steps, run_ops.py).
THEOREM LedgerHonestHolds == Spec => []LedgerHonest
<1>1. ControlInv => LedgerHonest
  BY CountsAreNat DEF ControlInv, LedgerInv, LedgerHonest
<1>2. QED  BY <1>1, ControlInvHolds, PTL

\* No gated tool is called without an approving request of its own, however
\* many requests and workers race for the run (RunGraph.resume, graph.py).
THEOREM DispatchPerConsentHolds == Spec => []DispatchPerConsent
<1>1. ControlInv => DispatchPerConsent
  BY CountsAreNat DEF ControlInv, ConsentInv, DispatchPerConsent
<1>2. QED  BY <1>1, ControlInvHolds, PTL

\* A running row always has a worker and a lease to time out
\* (claim_next_pending and release_stale_running, runs.py).
THEOREM RunningHasLeaseHolds == Spec => []RunningHasLease
<1>1. ControlInv => RunningHasLease
  BY DEF ControlInv, StateInv, RowOK, RunningHasLease
<1>2. QED  BY <1>1, ControlInvHolds, PTL

\* Any number of workers: as long as no lease lapses under a live worker, no two
\* of them execute one run (claim_next_pending, runs.py).
THEOREM SoleWorkerHolds == Spec => []SoleWorker
<1>1. ControlInv => SoleWorker  BY DEF ControlInv
<1>2. QED  BY <1>1, ControlInvHolds, PTL

-----------------------------------------------------------------------------
(* What run_steps owes to the checkpoints and to the calls that were made, *)
(* proved for any number of runs, workers, overlapping requests and faults.*)

\* How many of the first n entries of a trace are of that kind.
CountTo(trace, n, kind) == Cardinality({i \in 1..n : trace[i] = kind})

\* The first n entries of the trace have their rows.
Covered(r, trace, n) ==
    \A k \in StepKind \ {"checkout"} : run_steps[r][k] >= CountTo(trace, n, k)

Unsettled == {"absent", "pending", "running"}

\* A run that was not executed to an end or a pause has no checkpoint, so a
\* claim never starts from one; a checkpoint that was saved has its rows.
RowCovered(r) ==
    /\ runs[r].status \in Unsettled => runs[r].checkpoint = NoCheckpoint
    /\ Covered(r, runs[r].checkpoint.trace, Len(runs[r].checkpoint.trace))

\* A handler works on a snapshot that was saved once; rows are never deleted,
\* so it is covered for good.  What is left to append is one execution for a
\* handler, and the whole trace for a worker that starts.
ProcCovered(p) ==
    LET s == proc[p] IN
    /\ s.pc \in {"list", "decide"} => Covered(s.run, s.snapshot.trace, Len(s.snapshot.trace))
    /\ s.pc \in {"renew", "invoke"} => s.snapshot = NoCheckpoint
    /\ s.pc = "append" => s.next <= Len(s.final.trace) /\ Covered(s.run, s.final.trace, s.next)
    /\ p \in Handler /\ s.pc = "append" /\ s.next < Len(s.final.trace) =>
          s.final.trace[s.next + 1] = "executed"

CoverInv ==
    /\ \A r \in Run : RowCovered(r)
    /\ \A p \in Proc : ProcCovered(p)

\* Until a request dies, a gated call has its row or a handler that owes it.
OwedInv ==
    used["aborts"] = 0 =>
        \A r \in Run : Dispatches(r) <= run_steps[r]["executed"] + Cardinality(Owing(r))

-----------------------------------------------------------------------------
(* Counting the entries of a trace.                                        *)

LEMMA CountsTo ==
    ASSUME NEW trace, NEW n \in Nat, NEW k
    PROVE  /\ CountTo(trace, n, k) \in Nat
           /\ trace[n + 1] = k => CountTo(trace, n + 1, k) = CountTo(trace, n, k) + 1
           /\ trace[n + 1] # k => CountTo(trace, n + 1, k) = CountTo(trace, n, k)
<1> DEFINE S == {i \in 1..n : trace[i] = k}
           T == {i \in 1..(n + 1) : trace[i] = k}
<1>1. IsFiniteSet(S)
  <2>1. IsFiniteSet(1..n)  BY FS_Interval
  <2>2. QED  BY <2>1, FS_Subset
<1>2. CASE trace[n + 1] = k
  <2>1. T = S \cup {n + 1} /\ n + 1 \notin S  BY <1>2
  <2> HIDE DEF S, T
  <2>2. Cardinality(T) = Cardinality(S) + 1  BY <1>1, <2>1, FS_AddElement
  <2>3. QED  BY <1>1, <1>2, <2>2, FS_CardinalityType DEF CountTo, S, T
<1>3. CASE trace[n + 1] # k
  <2>1. T = S  BY <1>3
  <2> HIDE DEF S, T
  <2>2. QED  BY <1>1, <1>3, <2>1, FS_CardinalityType DEF CountTo, S, T
<1>4. QED  BY <1>2, <1>3

LEMMA NothingCounted ==
    ASSUME NEW trace, NEW k
    PROVE  CountTo(trace, 0, k) = 0
<1>1. {i \in 1..0 : trace[i] = k} = {}  OBVIOUS
<1>2. QED  BY <1>1, FS_EmptySet DEF CountTo

LEMMA SamePrefix ==
    ASSUME NEW t, NEW u, NEW n \in Nat, NEW k, \A i \in 1..n : t[i] = u[i]
    PROVE  CountTo(t, n, k) = CountTo(u, n, k)
<1>1. {i \in 1..n : t[i] = k} = {i \in 1..n : u[i] = k}  OBVIOUS
<1>2. QED  BY <1>1 DEF CountTo

-----------------------------------------------------------------------------
(* Rows are never deleted, so what is covered stays covered.               *)

RowsGrow == \A r \in Run : \A k \in StepKind : run_steps'[r][k] >= run_steps[r][k]

LEMMA CoveredStays ==
    ASSUME TypeOK, TypeOK', RowsGrow, NEW r \in Run, NEW trace, NEW n \in Nat,
           Covered(r, trace, n)
    PROVE  \A k \in StepKind \ {"checkout"} : run_steps'[r][k] >= CountTo(trace, n, k)
<1>1. SUFFICES ASSUME NEW k \in StepKind \ {"checkout"}
               PROVE  run_steps'[r][k] >= CountTo(trace, n, k)
  OBVIOUS
<1>2. run_steps[r][k] >= CountTo(trace, n, k)  BY DEF Covered
<1>3. run_steps[r][k] \in Nat /\ run_steps'[r][k] \in Nat  BY DEF TypeOK
<1>4. CountTo(trace, n, k) \in Nat  BY CountsTo
<1>5. QED  BY <1>2, <1>3, <1>4 DEF RowsGrow

\* The row keeps its checkpoint, and does not become unsettled with one.
KeepsCheckpoint(r) ==
    /\ runs'[r].checkpoint = runs[r].checkpoint
    /\ runs'[r].status \in Unsettled => runs[r].status \in Unsettled

LEMMA CoverStep ==
    ASSUME ControlInv, ControlInv', CoverInv, RowsGrow,
           \A r \in Run : RowCovered(r)' \/ KeepsCheckpoint(r),
           \A p \in Proc : ProcCovered(p)' \/ proc'[p] = proc[p]
    PROVE  CoverInv'
<1>1. TypeOK /\ TypeOK'  BY DEF ControlInv
<1>2. ASSUME NEW r \in Run, KeepsCheckpoint(r)
      PROVE  RowCovered(r)'
  <2> DEFINE c == runs[r].checkpoint
  <2>1. c \in Checkpoint  BY <1>1 DEF TypeOK, RunRow
  <2>2. Len(c.trace) \in Nat  BY <2>1 DEF Checkpoint
  <2>3. RowCovered(r)  BY DEF CoverInv
  <2>4. \A k \in StepKind \ {"checkout"} : run_steps'[r][k] >= CountTo(c.trace, Len(c.trace), k)
    BY <1>1, <2>2, <2>3, CoveredStays DEF RowCovered
  <2>5. QED  BY <1>2, <2>3, <2>4 DEF RowCovered, Covered, KeepsCheckpoint
<1>3. ASSUME NEW p \in Proc, proc'[p] = proc[p]
      PROVE  ProcCovered(p)'
  <2> DEFINE s == proc[p]
  <2>1. /\ s \in ProcState
        /\ p \in Worker => WorkerOK(s)
        /\ p \in Handler => HandlerOK(s)
        /\ p \in Worker \/ p \in Handler
    BY ProcessOK DEF Proc
  <2>2. ProcCovered(p)  BY DEF CoverInv
  <2>3. s.pc \in {"list", "decide", "append"} => s.run \in Run
    BY <2>1 DEF WorkerOK, HandlerOK
  <2>4. Len(s.snapshot.trace) \in Nat /\ s.next \in Nat
    BY <2>1 DEF ProcState, Checkpoint
  <2>5. s.pc \in {"list", "decide"} =>
            \A k \in StepKind \ {"checkout"} :
                run_steps'[s.run][k] >= CountTo(s.snapshot.trace, Len(s.snapshot.trace), k)
    BY <1>1, <2>2, <2>3, <2>4, CoveredStays DEF ProcCovered
  <2>6. s.pc = "append" =>
            \A k \in StepKind \ {"checkout"} :
                run_steps'[s.run][k] >= CountTo(s.final.trace, s.next, k)
    BY <1>1, <2>2, <2>3, <2>4, CoveredStays DEF ProcCovered
  <2>7. QED  BY <1>3, <2>2, <2>5, <2>6 DEF ProcCovered, Covered
<1>4. QED  BY <1>2, <1>3 DEF CoverInv

-----------------------------------------------------------------------------
(* The actions that append nothing.                                        *)

\* Labels at which a process has nothing to cover.
Plain == {"idle", "claim", "inbox", "request", "finish", "except", "load", "save_checkout",
          "request_checkout"}

LEMMA PlainStep ==
    ASSUME ControlInv, ControlInv', CoverInv, UNCHANGED run_steps,
           \A r \in Run : RowCovered(r)' \/ KeepsCheckpoint(r),
           \A p \in Proc : proc'[p].pc \in Plain \/ proc'[p] = proc[p]
    PROVE  CoverInv'
<1>1. RowsGrow  BY DEF RowsGrow, ControlInv, TypeOK
<1>2. \A p \in Proc : proc'[p].pc \in Plain => ProcCovered(p)'  BY DEF ProcCovered, Plain
<1>3. QED  BY <1>1, <1>2, CoverStep

\* A process goes to a plain label, or is idle again.
LEMMA PlainMove ==
    ASSUME ControlInv, ControlInv', CoverInv, UNCHANGED run_steps,
           \A r \in Run : RowCovered(r)' \/ KeepsCheckpoint(r),
           NEW p \in Proc, NEW l \in Plain,
           \/ Goto(p, l)
           \/ \E s \in ProcState : s.pc = l /\ Moves(p, s)
    PROVE  CoverInv'
<1>1. proc \in [Proc -> ProcState]  BY DEF ControlInv, TypeOK
<1>2. CASE Goto(p, l)
  <2>1. \A q \in Proc : proc'[q].pc = l \/ proc'[q] = proc[q]
    BY <1>1, <1>2 DEF Goto, ProcState
  <2>2. QED  BY <2>1, PlainStep
<1>3. CASE \E s \in ProcState : s.pc = l /\ Moves(p, s)
  <2>1. \A q \in Proc : proc'[q].pc = l \/ proc'[q] = proc[q]
    BY <1>1, <1>3 DEF Moves
  <2>2. QED  BY <2>1, PlainStep
<1>4. QED  BY <1>2, <1>3

LEMMA IdleIsPlain ==
    ASSUME ControlInv, ControlInv', CoverInv, UNCHANGED run_steps,
           \A r \in Run : RowCovered(r)' \/ KeepsCheckpoint(r),
           NEW p \in Proc, Moves(p, Idle)
    PROVE  CoverInv'
<1>1. Idle \in ProcState /\ Idle.pc \in Plain  BY IdleOK DEF Idle, Plain
<1>2. QED  BY <1>1, PlainMove

LEMMA SameRows ==
    ASSUME UNCHANGED runs
    PROVE  \A r \in Run : KeepsCheckpoint(r)
  BY DEF KeepsCheckpoint

LEMMA CreateRunCovers ==
    ASSUME ControlInv, ControlInv', CoverInv, NEW r \in Run, CreateRun(r)
    PROVE  CoverInv'
<1>1. \A q \in Run : KeepsCheckpoint(q)
  BY DEF CreateRun, KeepsCheckpoint, ControlInv, TypeOK, RunRow, Unsettled
<1>2. QED  BY <1>1, PlainStep DEF CreateRun

LEMMA LeaseCovers ==
    ASSUME ControlInv, ControlInv', CoverInv, NEW r \in Run, LeaseExpires(r) \/ LeaseLapses(r)
    PROVE  CoverInv'
<1>1. runs' = [runs EXCEPT ![r].lease = "expired"]  BY DEF LeaseExpires, LeaseLapses
<1>2. \A q \in Run : KeepsCheckpoint(q)
  BY <1>1 DEF KeepsCheckpoint, ControlInv, TypeOK, RunRow
<1>3. QED  BY <1>2, PlainStep DEF LeaseExpires, LeaseLapses

LEMMA ReleaseStaleRunningCovers ==
    ASSUME ControlInv, ControlInv', CoverInv, NEW w \in Worker, ReleaseStaleRunning(w)
    PROVE  CoverInv'
<1>1. ASSUME NEW q \in Run
      PROVE  KeepsCheckpoint(q)
  <2>1. runs[q] \in RunRow  BY RunOK
  <2>2. runs'[q] = IF Stale(q)
                   THEN [runs[q] EXCEPT !.status = "pending", !.worker = NoWorker, !.lease = "none"]
                   ELSE runs[q]
    BY DEF ReleaseStaleRunning
  <2>3. runs'[q].checkpoint = runs[q].checkpoint  BY <2>1, <2>2 DEF RunRow
  <2>4. runs'[q].status = runs[q].status \/ runs[q].status = "running"
    BY <2>2 DEF Stale
  <2>5. QED  BY <2>3, <2>4 DEF KeepsCheckpoint, Unsettled
<1>2. QED  BY <1>1, PlainMove DEF ReleaseStaleRunning, Plain, Proc

LEMMA FailRunCovers ==
    ASSUME ControlInv, ControlInv', CoverInv, NEW w \in Worker, FailRun(w)
    PROVE  CoverInv'
<1>1. \A q \in Run : KeepsCheckpoint(q)
  BY DEF FailRun, KeepsCheckpoint, ControlInv, TypeOK, RunRow, Unsettled
<1>2. QED  BY <1>1, IdleIsPlain DEF FailRun, Moves, Proc

LEMMA ProposeAloneCovers ==
    ASSUME ControlInv, ControlInv', CoverInv, NEW h \in Handler, NEW r \in Run, ProposeAlone(h, r)
    PROVE  CoverInv'
<1> DEFINE s == [Idle EXCEPT !.pc = "save_checkout", !.run = r]
<1>1. \A q \in Run : KeepsCheckpoint(q)
  BY DEF ProposeAlone, KeepsCheckpoint, ControlInv, TypeOK, RunRow, Unsettled
<1>2. s \in ProcState /\ s.pc = "save_checkout"  BY IdleOK DEF ProcState
<1>3. Moves(h, s)  BY DEF ProposeAlone, Propose, Moves
<1>4. QED  BY <1>1, <1>2, <1>3, PlainMove DEF ProposeAlone, Plain, Proc

\* Moves of one process that leave the rows alone and go to a plain label.
LEMMA QuietCovers ==
    ASSUME ControlInv, ControlInv', CoverInv, NEW p \in Proc,
           \/ NothingToClaim(p)
           \/ CheckInbox(p) \/ RequestApproval(p) \/ Finish(p)
           \/ RefuseDecision(p) \/ RequestCheckout(p)
           \/ Crash(p) \/ RaiseError(p) \/ Abort(p)
    PROVE  CoverInv'
<1>1. UNCHANGED <<runs, run_steps>>
  BY DEF NothingToClaim, CheckInbox, RequestApproval, Finish, RefuseDecision, RequestCheckout,
         Crash, RaiseError, Abort
<1>2. \A q \in Run : KeepsCheckpoint(q)  BY <1>1, SameRows
<1>3. CASE NothingToClaim(p) \/ CheckInbox(p) \/ RequestApproval(p) \/ RequestCheckout(p)
           \/ RaiseError(p)
  <2>1. \E l \in Plain : Goto(p, l)
    BY <1>3 DEF NothingToClaim, CheckInbox, RequestApproval, RequestCheckout, RaiseError, Plain
  <2>2. QED  BY <1>1, <1>2, <2>1, PlainMove
<1>4. CASE Finish(p) \/ RefuseDecision(p) \/ Crash(p) \/ Abort(p)
  <2>1. Moves(p, Idle)  BY <1>4 DEF Finish, RefuseDecision, Crash, Abort, Moves
  <2>2. QED  BY <1>1, <1>2, <2>1, IdleIsPlain
<1>5. QED  BY <1>3, <1>4

\* Requests that read no checkpoint.
LEMMA AcceptedCovers ==
    ASSUME ControlInv, ControlInv', CoverInv, NEW h \in Handler,
           \/ \E r \in Run : ProposeForRun(h, r)
           \/ \E i \in 1..Len(approvals), d \in {"approved", "rejected"} : StartDecide(h, i, d)
    PROVE  CoverInv'
<1>1. UNCHANGED <<runs, run_steps>>  BY DEF ProposeForRun, StartDecide
<1>2. \A q \in Run : KeepsCheckpoint(q)  BY <1>1, SameRows
<1>3. \A r \in Run : [Idle EXCEPT !.pc = "request_checkout", !.run = r] \in ProcState
  BY IdleOK DEF ProcState
<1>4. \A i \in 1..Len(approvals), d \in {"approved", "rejected"} :
          [Idle EXCEPT !.pc = "load", !.run = approvals[i].run, !.decision = d, !.targets = {i}]
              \in ProcState
  <2>1. \A i \in 1..Len(approvals) : approvals[i] \in ApprovalRow
    BY DEF ControlInv, TypeOK
  <2>2. \A i \in 1..Len(approvals) : approvals[i].run \in Run /\ {i} \in SUBSET Nat
    BY <2>1 DEF ApprovalRow
  <2>3. QED  BY <2>2, IdleOK DEF ProcState, Decision
<1>5. \E s \in ProcState : s.pc \in {"request_checkout", "load"} /\ Moves(h, s)
  <2>1. ASSUME NEW r \in Run, ProposeForRun(h, r)
        PROVE  \E s \in ProcState : s.pc \in {"request_checkout", "load"} /\ Moves(h, s)
    <3> DEFINE s == [Idle EXCEPT !.pc = "request_checkout", !.run = r]
    <3>1. s.pc = "request_checkout" /\ Moves(h, s)
      BY <2>1 DEF ProposeForRun, Propose, Moves, Idle
    <3>2. QED  BY <1>3, <3>1
  <2>2. ASSUME NEW i \in 1..Len(approvals), NEW d \in {"approved", "rejected"},
               StartDecide(h, i, d)
        PROVE  \E s \in ProcState : s.pc \in {"request_checkout", "load"} /\ Moves(h, s)
    <3> DEFINE s == [Idle EXCEPT !.pc = "load", !.run = approvals[i].run, !.decision = d,
                                 !.targets = {i}]
    <3>1. s.pc = "load" /\ Moves(h, s)  BY <2>2 DEF StartDecide, Moves, Idle
    <3>2. QED  BY <1>4, <3>1
  <2>3. QED  BY <2>1, <2>2
<1>6. QED  BY <1>1, <1>2, <1>5, PlainMove DEF Plain, Proc

-----------------------------------------------------------------------------
(* The actions that save a checkpoint.                                     *)

\* A checkpoint whose entries all have their rows is saved.
LEMMA SaveCovers ==
    ASSUME ControlInv, ControlInv', CoverInv, UNCHANGED run_steps, NEW r0 \in Run,
           NEW c \in Checkpoint, c.status \notin Unsettled, Covered(r0, c.trace, Len(c.trace)),
           runs' = [runs EXCEPT ![r0] = SavedRow(c)],
           NEW p \in Proc, NEW l \in Plain, Goto(p, l)
    PROVE  CoverInv'
<1>1. \A r \in Run : r # r0 => KeepsCheckpoint(r)  BY DEF KeepsCheckpoint
<1>2. runs'[r0] = SavedRow(c)  BY DEF ControlInv, TypeOK
<1>3. RowCovered(r0)'  BY <1>2 DEF SavedRow, RowCovered, Covered
<1>4. QED  BY <1>1, <1>3, PlainMove

LEMMA SaveCheckpointCovers ==
    ASSUME ControlInv, ControlInv', CoverInv, NEW p \in Proc, SaveCheckpoint(p)
    PROVE  CoverInv'
<1> DEFINE s == proc[p]
           c == [s.final EXCEPT !.persisted = Len(s.final.trace)]
           l == IF c.status = "approval_required" THEN "inbox" ELSE "finish"
<1>1. /\ s \in ProcState
      /\ p \in Worker => WorkerOK(s)
      /\ p \in Handler => HandlerOK(s)
      /\ p \in Worker \/ p \in Handler
  BY ProcessOK DEF Proc
<1>2. Returned(s.final) /\ s.run \in Run
  BY <1>1 DEF WorkerOK, HandlerOK, PersistOK, SaveCheckpoint
<1>3. s.final \in Checkpoint /\ Len(s.final.trace) \in Nat /\ s.next \in Nat
  BY <1>1 DEF ProcState, Checkpoint
<1>4. /\ c \in Checkpoint
      /\ c.status = s.final.status
      /\ c.trace = s.final.trace
  BY <1>3 DEF Checkpoint
<1>5. c.status \notin Unsettled  BY <1>2, <1>4 DEF Returned, Unsettled, Terminal
<1>6. s.next = Len(s.final.trace) /\ Covered(s.run, s.final.trace, s.next)
  BY <1>3 DEF SaveCheckpoint, CoverInv, ProcCovered
<1>7. Covered(s.run, c.trace, Len(c.trace))  BY <1>4, <1>6
<1>8. /\ UNCHANGED run_steps
      /\ runs' = [runs EXCEPT ![s.run] = SavedRow(c)]
      /\ Goto(p, l)
  BY DEF SaveCheckpoint
<1>9. l \in Plain  BY DEF Plain
<1> HIDE DEF s, c, l
<1>10. QED  BY <1>2, <1>4, <1>5, <1>7, <1>8, <1>9, SaveCovers

\* The proposal a checkout run is born with is the one entry that needs no row.
LEMMA SaveCheckoutCovers ==
    ASSUME ControlInv, ControlInv', CoverInv, NEW h \in Handler, SaveCheckout(h)
    PROVE  CoverInv'
<1> DEFINE c == [status |-> "approval_required", pending |-> "checkout",
                 trace |-> <<"checkout">>, persisted |-> 1]
<1>1. h \in Proc /\ proc[h].run \in Run
  BY ProcessOK DEF Proc, HandlerOK, SaveCheckout
<1>2. c \in Checkpoint  BY DEF Checkpoint, RunStatus, Action, StepKind
<1>3. Covered(proc[h].run, c.trace, Len(c.trace))
  <2>1. SUFFICES ASSUME NEW k \in StepKind \ {"checkout"}
                 PROVE  run_steps[proc[h].run][k] >= CountTo(<<"checkout">>, 1, k)
    BY DEF Covered
  <2>2. <<"checkout">>[0 + 1] # k  BY DEF StepKind
  <2>3. CountTo(<<"checkout">>, 0 + 1, k) = 0  BY <2>2, CountsTo, NothingCounted
  <2>4. run_steps[proc[h].run][k] \in Nat  BY <1>1 DEF ControlInv, TypeOK
  <2>5. QED  BY <2>3, <2>4
<1>4. c.status \notin Unsettled  BY DEF Unsettled
<1>5. QED
  BY <1>1, <1>2, <1>3, <1>4, SaveCovers DEF SaveCheckout, Plain

-----------------------------------------------------------------------------
(* The actions that come to hold a snapshot or a trace.                    *)

\* One process moves to a state that is covered.
LEMMA CoveredMove ==
    ASSUME ControlInv, ControlInv', CoverInv, RowsGrow,
           \A r \in Run : KeepsCheckpoint(r),
           NEW p \in Proc, NEW s \in ProcState, Moves(p, s), ProcCovered(p)'
    PROVE  CoverInv'
<1>1. \A q \in Proc : q # p => proc'[q] = proc[q]  BY MovesOne DEF ControlInv
<1>2. QED  BY <1>1, CoverStep

LEMMA SameSteps ==
    ASSUME ControlInv, UNCHANGED run_steps
    PROVE  RowsGrow
  BY DEF RowsGrow, ControlInv, TypeOK

LEMMA ClaimCovers ==
    ASSUME ControlInv, ControlInv', CoverInv, NEW w \in Worker, NEW r \in Run, Claim(w, r)
    PROVE  CoverInv'
<1> DEFINE s == [Idle EXCEPT !.pc = "renew", !.run = r, !.snapshot = runs[r].checkpoint]
<1>1. runs[r].status = "pending" /\ RowCovered(r)  BY DEF Claim, CoverInv
<1>2. runs[r].checkpoint = NoCheckpoint  BY <1>1 DEF RowCovered, Unsettled
<1>3. \A q \in Run : KeepsCheckpoint(q)
  BY <1>1 DEF Claim, KeepsCheckpoint, ControlInv, TypeOK, RunRow, Unsettled
<1>4. w \in Proc /\ w \notin Handler  BY ControlPlaneAssumption DEF Proc
<1>5. s \in ProcState /\ s.pc = "renew" /\ s.snapshot = NoCheckpoint
  BY <1>2, IdleOK DEF Idle, ProcState
<1>6. Moves(w, s)  BY DEF Claim, Moves
<1>7. proc'[w] = s  BY <1>4, <1>5, <1>6, MovesOne DEF ControlInv
<1>8. ProcCovered(w)'  BY <1>5, <1>7 DEF ProcCovered
<1>9. RowsGrow  BY SameSteps DEF Claim
<1> HIDE DEF s
<1>10. QED  BY <1>3, <1>4, <1>5, <1>6, <1>8, <1>9, CoveredMove

LEMMA RenewLeaseCovers ==
    ASSUME ControlInv, ControlInv', CoverInv, NEW w \in Worker, RenewLease(w)
    PROVE  CoverInv'
<1>1. w \in Proc /\ w \notin Handler /\ proc[w] \in ProcState
  BY ProcessOK DEF Proc
<1>2. \A q \in Run : KeepsCheckpoint(q)
  BY DEF RenewLease, KeepsCheckpoint, ControlInv, TypeOK, RunRow
<1>3. proc'[w].pc = "invoke" /\ proc'[w].snapshot = proc[w].snapshot
      /\ \A q \in Proc : q # w => proc'[q] = proc[q]
  BY <1>1 DEF RenewLease, Goto, ControlInv, TypeOK, ProcState
<1>4. ProcCovered(w)'  BY <1>1, <1>3 DEF ProcCovered, CoverInv, RenewLease
<1>5. RowsGrow  BY SameSteps DEF RenewLease
<1>6. QED  BY <1>2, <1>3, <1>4, <1>5, CoverStep

\* A worker starts from nothing: its whole trace is still to be appended.
LEMMA InvokeCovers ==
    ASSUME ControlInv, ControlInv', CoverInv, NEW w \in Worker, Invoke(w)
    PROVE  CoverInv'
<1>1. w \in Proc /\ w \notin Handler /\ proc[w] \in ProcState /\ proc'[w] \in ProcState
  BY ProcessOK DEF Proc, ControlInv, TypeOK
<1>2. PICK state \in InvokeResult :
          proc' = [proc EXCEPT ![w].pc = "append", ![w].final = state,
                               ![w].next = FirstNewStep(proc[w].snapshot)]
  BY DEF Invoke
<1>3. proc[w].snapshot = NoCheckpoint  BY <1>1 DEF Invoke, CoverInv, ProcCovered
<1>4. FirstNewStep(proc[w].snapshot) = 0  BY <1>3 DEF FirstNewStep, NoCheckpoint
<1>5. /\ proc'[w].pc = "append" /\ proc'[w].next = 0 /\ proc'[w].run = proc[w].run
      /\ \A q \in Proc : q # w => proc'[q] = proc[q]
  BY <1>1, <1>2, <1>4 DEF ControlInv, TypeOK, ProcState
<1>6. proc[w].run \in Run  BY <1>1, ProcessOK DEF WorkerOK, Invoke
<1>7. Covered(proc[w].run, proc'[w].final.trace, 0)
  BY <1>6, NothingCounted DEF Covered, ControlInv, TypeOK
<1>8. 0 <= Len(proc'[w].final.trace)  BY <1>1 DEF ProcState, Checkpoint
<1>9. UNCHANGED run_steps  BY DEF Invoke
<1>10. ProcCovered(w)'  BY <1>1, <1>5, <1>7, <1>8, <1>9 DEF ProcCovered, Covered
<1>11. RowsGrow  BY <1>9, SameSteps
<1>12. \A q \in Run : KeepsCheckpoint(q)  BY SameRows DEF Invoke
<1>13. QED  BY <1>5, <1>10, <1>11, <1>12, CoverStep

\* A handler takes a checkpoint for its snapshot, or keeps the one it has.
LEMMA SnapshotCovers ==
    ASSUME ControlInv, ControlInv', CoverInv, NEW h \in Handler,
           UNCHANGED <<runs, run_steps>>, NEW s \in ProcState, Moves(h, s),
           s.pc \in {"list", "decide"},
           \/ s.run \in Run /\ s.snapshot = runs[s.run].checkpoint
           \/ /\ proc[h].pc \in {"list", "decide"}
              /\ s.run = proc[h].run /\ s.snapshot = proc[h].snapshot
    PROVE  CoverInv'
<1>1. h \in Proc  BY DEF Proc
<1>2. proc'[h] = s  BY <1>1, MovesOne DEF ControlInv
<1>3. Covered(s.run, s.snapshot.trace, Len(s.snapshot.trace))
  BY <1>1 DEF CoverInv, RowCovered, ProcCovered
<1>4. ProcCovered(h)'  BY <1>2, <1>3 DEF ProcCovered, Covered
<1>5. RowsGrow /\ \A q \in Run : KeepsCheckpoint(q)  BY SameSteps, SameRows
<1>6. QED  BY <1>1, <1>4, <1>5, CoveredMove

LEMMA ReadsCover ==
    ASSUME ControlInv, ControlInv', CoverInv, NEW h \in Handler,
           \/ ListTargets(h) \/ LoadRun(h) \/ DecideTarget(h)
           \/ \E r \in Run, d \in {"approved", "rejected"} : StartResume(h, r, d)
    PROVE  CoverInv'
<1>1. /\ h \in Proc /\ proc[h] \in ProcState /\ HandlerOK(proc[h])
      /\ proc \in [Proc -> ProcState]
  BY ProcessOK DEF Proc, ControlInv, TypeOK
<1>2. UNCHANGED <<runs, run_steps>>
  BY DEF ListTargets, LoadRun, DecideTarget, StartResume
<1>3. proc'[h] \in ProcState  BY <1>1 DEF ControlInv, TypeOK
<1>4. Moves(h, proc'[h])
  BY <1>1 DEF Moves, ListTargets, LoadRun, DecideTarget, StartResume
<1>5. CASE ListTargets(h)
  <2>1. /\ proc'[h].pc = "decide" /\ proc[h].pc = "list"
        /\ proc'[h].run = proc[h].run /\ proc'[h].snapshot = proc[h].snapshot
    BY <1>1, <1>5 DEF ListTargets, ProcState
  <2>2. QED  BY <1>2, <1>3, <1>4, <2>1, SnapshotCovers
<1>6. CASE DecideTarget(h)
  <2>1. /\ proc'[h].pc = "decide" /\ proc[h].pc = "decide"
        /\ proc'[h].run = proc[h].run /\ proc'[h].snapshot = proc[h].snapshot
    BY <1>1, <1>6 DEF DecideTarget, ProcState
  <2>2. QED  BY <1>2, <1>3, <1>4, <2>1, SnapshotCovers
<1>7. CASE LoadRun(h)
  <2>1. /\ proc'[h].pc = "decide"
        /\ proc'[h].run = proc[h].run
        /\ proc'[h].snapshot = runs[proc[h].run].checkpoint
    BY <1>1, <1>7 DEF LoadRun, ProcState
  <2>2. proc[h].run \in Run  BY <1>1, <1>7 DEF LoadRun, HandlerOK
  <2>3. QED  BY <1>2, <1>3, <1>4, <2>1, <2>2, SnapshotCovers
<1>8. ASSUME NEW r \in Run, NEW d \in {"approved", "rejected"}, StartResume(h, r, d)
      PROVE  CoverInv'
  <2>1. proc'[h].pc = "list" /\ proc'[h].run = r /\ proc'[h].snapshot = runs[r].checkpoint
    BY <1>1, <1>8 DEF StartResume, Idle
  <2>2. QED  BY <1>2, <1>3, <1>4, <2>1, SnapshotCovers
<1>9. QED  BY <1>5, <1>6, <1>7, <1>8

\* What a resume does: it executes the pending tool of a paused snapshot that was
\* approved, cancels one that was rejected, and returns any other as it is.
Executes(h) == Resumable(proc[h].snapshot) /\ Approves(proc[h].decision)

LEMMA ResumeFacts ==
    ASSUME ControlInv, NEW h \in Handler, GraphResume(h)
    PROVE  LET s == proc[h]
               c == s.snapshot
               f == proc'[h].final
           IN  /\ s.pc = "decide" /\ s.targets = {} /\ s.run \in Run
               /\ c \in Checkpoint /\ Saved(c) /\ Len(c.trace) \in Nat
               /\ proc'[h].pc = "append" /\ proc'[h].run = s.run
               /\ proc'[h].decision = s.decision
               /\ proc'[h].targets = {} /\ proc'[h].snapshot = c
               /\ proc'[h].next = Len(c.trace)
               /\ \A q \in Proc : q # h => proc'[q] = proc[q]
               /\ f \in Checkpoint
               /\ Executes(h) =>
                     /\ f.status \in {"completed", "failed"} /\ f.pending = "none"
                     /\ f.trace = Append(c.trace, "executed")
                     /\ c.pending \in Action
                     /\ dispatched' = [dispatched EXCEPT ![s.run][c.pending] = @ + 1]
               /\ Resumable(c) /\ ~Executes(h) =>
                     f.status = "cancelled" /\ f.pending = "none" /\ f.trace = c.trace
               /\ ~Resumable(c) => f = c
               /\ ~Executes(h) => dispatched' = dispatched
<1> DEFINE s == proc[h]
           c == s.snapshot
           f == proc'[h].final
<1>1. /\ h \in Proc /\ s \in ProcState /\ HandlerOK(s)
      /\ proc \in [Proc -> ProcState]
  BY ProcessOK DEF Proc, ControlInv, TypeOK
<1>2. /\ c \in Checkpoint /\ Saved(c) /\ c.trace \in Seq(StepKind)
      /\ FirstNewStep(c) = Len(c.trace) /\ Len(c.trace) \in Nat
      /\ s.run \in Run /\ s.pc = "decide" /\ s.targets = {}
  BY <1>1 DEF GraphResume, Decided, HandlerOK, ProcState, Checkpoint, Saved, FirstNewStep
<1>3. PICK t \in ResumeResult(c.pending) :
          proc' = [proc EXCEPT ![h].pc = "append",
              ![h].next = FirstNewStep(c),
              ![h].final =
                  CASE Executes(h) -> AfterExecution(c, t)
                    [] Resumable(c) /\ ~Executes(h) ->
                           [c EXCEPT !.status = StatusOfRejection, !.pending = "none"]
                    [] OTHER -> c]
  BY DEF GraphResume, Executes
<1>4. t \in {"completed", "failed"}  BY DEF ResumeResult
<1>5. /\ proc'[h].pc = "append" /\ proc'[h].run = s.run /\ proc'[h].decision = s.decision
      /\ proc'[h].targets = {} /\ proc'[h].snapshot = c
      /\ proc'[h].next = Len(c.trace)
      /\ f = CASE Executes(h) -> AfterExecution(c, t)
               [] Resumable(c) /\ ~Executes(h) ->
                      [c EXCEPT !.status = StatusOfRejection, !.pending = "none"]
               [] OTHER -> c
      /\ \A q \in Proc : q # h => proc'[q] = proc[q]
  BY <1>1, <1>2, <1>3 DEF ProcState
<1> HIDE DEF s, c, f
<1>6. CASE Executes(h)
  <2> DEFINE tr == Append(c.trace, "executed")
  <2>1. f = AfterExecution(c, t)  BY <1>5, <1>6
  <2>2. f \in Checkpoint  BY <1>2, <1>4, <2>1, ResumedOK
  <2>3. f = [c EXCEPT !.status = t, !.pending = "none", !.trace = tr]
    BY <2>1 DEF AfterExecution
  <2> HIDE DEF tr
  <2>4. f.trace = tr /\ f.status = t /\ f.pending = "none"  BY <1>2, <2>3 DEF Checkpoint
  <2>5. Resumable(c)  BY <1>6 DEF Executes, c, s
  <2>6. c.pending \in Action
    BY <1>2, <2>5 DEF Resumable, Saved, Returned, Checkpoint
  <2>7. dispatched' = [dispatched EXCEPT ![s.run][c.pending] = @ + 1]
    BY <1>6 DEF GraphResume, Executes, c, s
  <2>8. QED  BY <1>2, <1>4, <1>5, <1>6, <2>2, <2>4, <2>5, <2>6, <2>7 DEF tr, s, c, f
<1>7. CASE Resumable(c) /\ ~Executes(h)
  <2>1. f = [c EXCEPT !.status = StatusOfRejection, !.pending = "none"]  BY <1>5, <1>7
  <2>2. f \in Checkpoint /\ f.trace = c.trace  BY <1>2, <2>1, RejectedOK
  <2>3. f.status = "cancelled" /\ f.pending = "none"
    BY <1>2, <2>1 DEF Checkpoint, StatusOfRejection
  <2>4. dispatched' = dispatched  BY <1>7 DEF GraphResume, Executes, c, s
  <2>5. QED  BY <1>2, <1>5, <1>7, <2>2, <2>3, <2>4 DEF s, c, f
<1>8. CASE ~Resumable(c)
  <2>1. ~Executes(h)  BY <1>8 DEF Executes, c, s
  <2>2. f = c  BY <1>5, <1>8, <2>1
  <2>3. dispatched' = dispatched  BY <2>1 DEF GraphResume, Executes, c, s
  <2>4. QED  BY <1>2, <1>5, <1>8, <2>1, <2>2, <2>3 DEF s, c, f
<1>9. QED  BY <1>6, <1>7, <1>8

\* At most one entry is new, the execution.
LEMMA GraphResumeCovers ==
    ASSUME ControlInv, ControlInv', CoverInv, NEW h \in Handler, GraphResume(h)
    PROVE  CoverInv'
<1> DEFINE s == proc[h]
           old == s.snapshot.trace
           new == proc'[h].final.trace
           n == Len(old)
<1>1. /\ s.pc = "decide" /\ s.run \in Run /\ old \in Seq(StepKind) /\ n \in Nat
      /\ proc'[h].pc = "append" /\ proc'[h].run = s.run /\ proc'[h].next = n
      /\ \A q \in Proc : q # h => proc'[q] = proc[q]
      /\ new = old \/ new = Append(old, "executed")
  BY ResumeFacts DEF Checkpoint
<1>2. Covered(s.run, old, n)  BY <1>1 DEF CoverInv, ProcCovered, Proc
<1> HIDE DEF s, old, new, n
<1>3. /\ n <= Len(new)
      /\ n < Len(new) => new[n + 1] = "executed"
      /\ \A i \in 1..n : new[i] = old[i]
  BY <1>1 DEF n
<1>4. Covered(s.run, new, n)
  <2>1. \A k : CountTo(new, n, k) = CountTo(old, n, k)  BY <1>1, <1>3, SamePrefix
  <2>2. QED  BY <1>2, <2>1 DEF Covered
<1>5. UNCHANGED <<runs, run_steps>>  BY DEF GraphResume
<1>6. ProcCovered(h)'  BY <1>1, <1>3, <1>4, <1>5 DEF ProcCovered, Covered, new
<1>7. RowsGrow /\ \A q \in Run : KeepsCheckpoint(q)  BY <1>5, SameSteps, SameRows
<1>8. QED  BY <1>1, <1>6, <1>7, CoverStep

\* One row of one run and one kind is added for the entry that is appended.
LEMMA AppendRows ==
    ASSUME ControlInv, NEW p \in Proc, AppendStep(p)
    PROVE  LET s  == proc[p]
               k0 == s.final.trace[s.next + 1]
           IN  /\ s.run \in Run /\ k0 \in StepKind
               /\ s.next \in Nat /\ s.next + 1 <= Len(s.final.trace)
               /\ RowsGrow
               /\ \A k \in StepKind : k # k0 => run_steps'[s.run][k] = run_steps[s.run][k]
               /\ run_steps'[s.run][k0] = run_steps[s.run][k0] + 1
               /\ proc'[p] = [s EXCEPT !.next = @ + 1]
               /\ \A q \in Proc : q # p => proc'[q] = proc[q]
<1> DEFINE s == proc[p]
           r0 == s.run
           k0 == s.final.trace[s.next + 1]
<1>1. /\ s \in ProcState
      /\ p \in Worker => WorkerOK(s)
      /\ p \in Handler => HandlerOK(s)
      /\ p \in Worker \/ p \in Handler
      /\ proc \in [Proc -> ProcState]
      /\ run_steps \in [Run -> [StepKind -> Nat]]
  BY ProcessOK DEF Proc, ControlInv, TypeOK
<1>2. /\ s.pc = "append" /\ s.next \in Nat /\ s.next + 1 <= Len(s.final.trace)
      /\ s.final.trace \in Seq(StepKind)
      /\ r0 \in Run /\ k0 \in StepKind
  BY <1>1 DEF AppendStep, WorkerOK, HandlerOK, ProcState, Checkpoint
<1>3. /\ proc'[p] = [s EXCEPT !.next = @ + 1]
      /\ \A q \in Proc : q # p => proc'[q] = proc[q]
  BY <1>1 DEF AppendStep
<1>4. run_steps' = [run_steps EXCEPT ![r0][k0] = @ + 1]  BY DEF AppendStep
<1> HIDE DEF s, r0, k0
<1>5. /\ \A r \in Run : r # r0 => run_steps'[r] = run_steps[r]
      /\ \A k \in StepKind : k # k0 => run_steps'[r0][k] = run_steps[r0][k]
      /\ run_steps'[r0][k0] = run_steps[r0][k0] + 1
  BY ONLY <1>1, <1>2, <1>4, OneMore
<1>6. RowsGrow
  <2>1. SUFFICES ASSUME NEW r \in Run, NEW k \in StepKind
                 PROVE  run_steps'[r][k] >= run_steps[r][k]
    BY DEF RowsGrow
  <2>2. run_steps[r][k] \in Nat  BY <1>1
  <2>3. QED  BY <1>5, <2>2
<1>7. QED  BY <1>2, <1>3, <1>5, <1>6 DEF s, r0, k0

LEMMA AppendStepCovers ==
    ASSUME ControlInv, ControlInv', CoverInv, NEW p \in Proc, AppendStep(p)
    PROVE  CoverInv'
<1> DEFINE s == proc[p]
           r0 == s.run
           k0 == s.final.trace[s.next + 1]
<1>1. /\ r0 \in Run /\ k0 \in StepKind
      /\ s.next \in Nat /\ s.next + 1 <= Len(s.final.trace)
      /\ RowsGrow
      /\ \A k \in StepKind : k # k0 => run_steps'[r0][k] = run_steps[r0][k]
      /\ run_steps'[r0][k0] = run_steps[r0][k0] + 1
      /\ proc'[p] = [s EXCEPT !.next = @ + 1]
      /\ \A q \in Proc : q # p => proc'[q] = proc[q]
  BY AppendRows
<1>2. s \in ProcState /\ (p \in Handler => HandlerOK(s)) /\ s.pc = "append"
  BY ProcessOK DEF AppendStep
<1>3. /\ proc'[p].pc = "append" /\ proc'[p].run = r0 /\ proc'[p].final = s.final
      /\ proc'[p].next = s.next + 1
  BY <1>1, <1>2 DEF ProcState
<1> HIDE DEF s, r0, k0
<1>4. ASSUME NEW k \in StepKind \ {"checkout"}
      PROVE  run_steps'[r0][k] >= CountTo(s.final.trace, s.next + 1, k)
  <2>1. run_steps[r0][k] >= CountTo(s.final.trace, s.next, k)
    BY <1>2 DEF CoverInv, ProcCovered, Covered, s, r0
  <2>2. /\ CountTo(s.final.trace, s.next, k) \in Nat
        /\ k0 = k => CountTo(s.final.trace, s.next + 1, k) = CountTo(s.final.trace, s.next, k) + 1
        /\ k0 # k => CountTo(s.final.trace, s.next + 1, k) = CountTo(s.final.trace, s.next, k)
    BY <1>1, CountsTo DEF k0
  <2>3. run_steps[r0][k] \in Nat  BY <1>1 DEF ControlInv, TypeOK
  <2>4. QED  BY <1>1, <2>1, <2>2, <2>3
<1>5. p \in Handler => ~(s.next + 1 < Len(s.final.trace))
  BY <1>1, <1>2 DEF HandlerOK, ProcState, Checkpoint
<1>6. ProcCovered(p)'  BY <1>1, <1>3, <1>4, <1>5 DEF ProcCovered, Covered
<1>7. \A q \in Run : KeepsCheckpoint(q)  BY SameRows DEF AppendStep
<1>8. QED  BY <1>1, <1>6, <1>7, CoverStep

-----------------------------------------------------------------------------
LEMMA CoverInit == Init => CoverInv
<1> SUFFICES ASSUME Init PROVE CoverInv  OBVIOUS
<1>1. ASSUME NEW r \in Run
      PROVE  RowCovered(r)
  <2>1. runs[r].checkpoint = NoCheckpoint /\ Len(NoCheckpoint.trace) = 0
    BY <1>1 DEF Init, NoCheckpoint
  <2>2. \A k \in StepKind : run_steps[r][k] = 0  BY <1>1 DEF Init
  <2>3. QED  BY <2>1, <2>2, NothingCounted DEF RowCovered, Covered
<1>2. \A p \in Proc : proc[p].pc = "idle"  BY DEF Init, Idle
<1>3. QED  BY <1>1, <1>2 DEF CoverInv, ProcCovered

LEMMA CoverNext == ControlInv /\ ControlInv' /\ CoverInv /\ [Next]_vars => CoverInv'
<1> SUFFICES ASSUME ControlInv, ControlInv', CoverInv, [Next]_vars PROVE CoverInv'  OBVIOUS
<1>1. ASSUME NEW r \in Run, CreateRun(r) \/ LeaseExpires(r) PROVE CoverInv'
  BY <1>1, CreateRunCovers, LeaseCovers
<1>2. ASSUME NEW p \in Proc, PersistStep(p) PROVE CoverInv'
  BY <1>2, AppendStepCovers, SaveCheckpointCovers, QuietCovers DEF PersistStep
<1>3. ASSUME NEW w \in Worker, WorkerStep(w) PROVE CoverInv'
  BY <1>2, <1>3, ReleaseStaleRunningCovers, ClaimCovers, QuietCovers, RenewLeaseCovers,
     InvokeCovers, FailRunCovers DEF WorkerStep, Proc
<1>4. ASSUME NEW h \in Handler, HandlerStep(h) PROVE CoverInv'
  BY <1>2, <1>4, ReadsCover, QuietCovers, GraphResumeCovers, SaveCheckoutCovers
     DEF HandlerStep, Proc
<1>5. ASSUME NEW h \in Handler, Request(h) PROVE CoverInv'
  BY <1>5, AcceptedCovers, ProposeAloneCovers, ReadsCover DEF Request
<1>6. CASE Fault  BY <1>6, QuietCovers, LeaseCovers DEF Fault, Proc
<1>7. CASE UNCHANGED vars
  <2>1. UNCHANGED <<runs, run_steps, proc>>  BY <1>7 DEF vars
  <2>2. QED  BY <2>1, SameRows, PlainStep
<1>8. QED  BY <1>1, <1>3, <1>4, <1>5, <1>6, <1>7 DEF Next

\* Whatever interleaving, crash, exception, aborted request or lapsed lease:
\* what any process is about to save has its rows already.
THEOREM CoverInvHolds == Spec => []CoverInv
<1>1. Init => CoverInv  BY CoverInit
<1>2. ControlInv /\ ControlInv' /\ CoverInv /\ [Next]_vars => CoverInv'  BY CoverNext
<1>3. QED  BY <1>1, <1>2, ControlInvHolds, PTL DEF Spec

\* Every entry of a checkpointed trace has its row in run_steps, but for the
\* proposal a checkout run is born with, in whatever order processes write and
\* wherever they die (append_new_tool_steps, run_ops.py).
THEOREM LedgerCompleteHolds == Spec => []LedgerComplete
<1>1. CoverInv => LedgerComplete
  BY DEF CoverInv, RowCovered, Covered, CountTo, LedgerComplete, Count
<1>2. QED  BY <1>1, CoverInvHolds, PTL

-----------------------------------------------------------------------------
(* Calls that were made and the rows they are owed.                        *)

NoNewAbort == used'["aborts"] = 0 => used["aborts"] = 0

\* A handler that owes a row does not move.
LEMMA OwedKept ==
    ASSUME ControlInv, ControlInv', OwedInv, NoNewAbort, RowsGrow, UNCHANGED dispatched,
           \A h \in Handler, r \in Run : Owes(proc[h], r) => proc'[h] = proc[h]
    PROVE  OwedInv'
<1>1. SUFFICES ASSUME used["aborts"] = 0, NEW r \in Run
               PROVE  Dispatches(r)' <= run_steps'[r]["executed"] + Cardinality(Owing(r)')
  BY DEF OwedInv, NoNewAbort
<1>2. Owing(r) \subseteq Owing(r)'  BY DEF Owing
<1>3. IsFiniteSet(Owing(r)')  BY FS_Subset, ControlPlaneAssumption DEF Owing
<1> HIDE DEF Owing
<1>4. Cardinality(Owing(r)) <= Cardinality(Owing(r)')  BY <1>2, <1>3, FS_Subset
<1>5. Dispatches(r) <= run_steps[r]["executed"] + Cardinality(Owing(r))  BY <1>1 DEF OwedInv
<1>6. Dispatches(r)' = Dispatches(r)  BY DEF Dispatches
<1>7. run_steps'[r]["executed"] >= run_steps[r]["executed"]  BY DEF RowsGrow, StepKind
<1>8. /\ Cardinality(Owing(r)) \in Nat /\ Dispatches(r) \in Nat
      /\ run_steps[r]["executed"] \in Nat
  BY CountsAreNat
<1>9. Cardinality(Owing(r)') \in Nat /\ run_steps'[r]["executed"] \in Nat
  BY <1>3, FS_CardinalityType DEF ControlInv, TypeOK, StepKind
<1> HIDE DEF Dispatches
<1>10. QED  BY <1>4, <1>5, <1>6, <1>7, <1>8, <1>9

\* At any label but "append" nothing is owed, and at its end nothing either.
LEMMA NothingOwed ==
    ASSUME NEW s, s.pc # "append" \/ ~(s.next < Len(s.final.trace))
    PROVE  \A r \in Run : ~Owes(s, r)
  BY DEF Owes

LEMMA OwedByOne ==
    ASSUME ControlInv, ControlInv', OwedInv, NoNewAbort, RowsGrow, UNCHANGED dispatched,
           NEW p \in Proc,
           \A q \in Proc : q # p => proc'[q] = proc[q],
           p \in Worker \/ (\A r \in Run : ~Owes(proc[p], r))
    PROVE  OwedInv'
<1>1. \A h \in Handler, r \in Run : Owes(proc[h], r) => proc'[h] = proc[h]
  BY ControlPlaneAssumption DEF Proc
<1>2. QED  BY <1>1, OwedKept

\* Who moves in a step that appends nothing, and what it was at.
LEMMA OnlyMoves ==
    ASSUME ControlInv, NEW p \in Proc,
           \/ SaveCheckpoint(p) \/ CheckInbox(p) \/ RequestApproval(p) \/ Finish(p)
           \/ ListTargets(p) \/ LoadRun(p) \/ RefuseDecision(p) \/ DecideTarget(p)
           \/ SaveCheckout(p) \/ RequestCheckout(p)
           \/ (\E r \in Run : ProposeForRun(p, r) \/ ProposeAlone(p, r))
           \/ (\E r \in Run, d \in {"approved", "rejected"} : StartResume(p, r, d))
           \/ (\E i \in 1..Len(approvals), d \in {"approved", "rejected"} : StartDecide(p, i, d))
    PROVE  /\ \A q \in Proc : q # p => proc'[q] = proc[q]
           /\ \A r \in Run : ~Owes(proc[p], r)
           /\ UNCHANGED <<run_steps, dispatched>>
           /\ NoNewAbort
<1>1. proc \in [Proc -> ProcState]  BY DEF ControlInv, TypeOK
<1>2. used' = used \/ \E b \in {"requests", "checkouts"} : used' = [used EXCEPT ![b] = @ + 1]
  BY DEF SaveCheckpoint, CheckInbox, RequestApproval, Finish, ListTargets, LoadRun,
         RefuseDecision, DecideTarget, SaveCheckout, RequestCheckout, ProposeForRun,
         ProposeAlone, Propose, StartResume, StartDecide, Receive
<1>3. NoNewAbort  BY <1>2 DEF NoNewAbort, ControlInv, TypeOK, Bound
<1>4. UNCHANGED <<run_steps, dispatched>>
  BY DEF SaveCheckpoint, CheckInbox, RequestApproval, Finish, ListTargets, LoadRun,
         RefuseDecision, DecideTarget, SaveCheckout, RequestCheckout, ProposeForRun,
         ProposeAlone, StartResume, StartDecide
<1>5. \A q \in Proc : q # p => proc'[q] = proc[q]
  <2>1. \/ \E l : Goto(p, l)
        \/ \E s : proc' = [proc EXCEPT ![p] = s]
    <3>1. CASE \/ SaveCheckpoint(p) \/ CheckInbox(p) \/ RequestApproval(p)
               \/ SaveCheckout(p) \/ RequestCheckout(p)
      BY <3>1 DEF SaveCheckpoint, CheckInbox, RequestApproval, SaveCheckout, RequestCheckout
    <3>2. CASE Finish(p) \/ RefuseDecision(p)
      BY <3>2 DEF Finish, RefuseDecision
    <3>3. CASE ListTargets(p) \/ LoadRun(p) \/ DecideTarget(p)
      BY <3>3, <1>1 DEF ListTargets, LoadRun, DecideTarget
    <3>4. CASE \E r \in Run : ProposeForRun(p, r) \/ ProposeAlone(p, r)
      BY <3>4 DEF ProposeForRun, ProposeAlone, Propose
    <3>5. CASE \E r \in Run, d \in {"approved", "rejected"} : StartResume(p, r, d)
      BY <3>5 DEF StartResume
    <3>6. CASE \E i \in 1..Len(approvals), d \in {"approved", "rejected"} : StartDecide(p, i, d)
      BY <3>6 DEF StartDecide
    <3>7. QED  BY <3>1, <3>2, <3>3, <3>4, <3>5, <3>6
  <2>2. QED  BY <1>1, <2>1 DEF Goto
<1>6. proc[p].pc # "append" \/ ~(proc[p].next < Len(proc[p].final.trace))
  <2>1. proc[p].next \in Nat /\ Len(proc[p].final.trace) \in Nat
    BY <1>1 DEF ProcState, Checkpoint
  <2>2. CASE SaveCheckpoint(p)  BY <2>1, <2>2 DEF SaveCheckpoint
  <2>3. CASE \/ CheckInbox(p) \/ RequestApproval(p) \/ Finish(p)
             \/ ListTargets(p) \/ LoadRun(p) \/ RefuseDecision(p) \/ DecideTarget(p)
             \/ SaveCheckout(p) \/ RequestCheckout(p)
    BY <2>3 DEF CheckInbox, RequestApproval, Finish, ListTargets, LoadRun, RefuseDecision,
         DecideTarget, SaveCheckout, RequestCheckout
  <2>4. CASE \E r \in Run : ProposeForRun(p, r) \/ ProposeAlone(p, r)
    BY <2>4 DEF ProposeForRun, ProposeAlone, Propose
  <2>5. CASE \E r \in Run, d \in {"approved", "rejected"} : StartResume(p, r, d)
    BY <2>5 DEF StartResume
  <2>6. CASE \E i \in 1..Len(approvals), d \in {"approved", "rejected"} : StartDecide(p, i, d)
    BY <2>6 DEF StartDecide
  <2>7. QED  BY <2>2, <2>3, <2>4, <2>5, <2>6
<1>7. QED  BY <1>3, <1>4, <1>5, <1>6, NothingOwed

LEMMA QuietOwes ==
    ASSUME ControlInv, ControlInv', OwedInv, NEW p \in Proc,
           \/ SaveCheckpoint(p) \/ CheckInbox(p) \/ RequestApproval(p) \/ Finish(p)
           \/ ListTargets(p) \/ LoadRun(p) \/ RefuseDecision(p) \/ DecideTarget(p)
           \/ SaveCheckout(p) \/ RequestCheckout(p)
           \/ (\E r \in Run : ProposeForRun(p, r) \/ ProposeAlone(p, r))
           \/ (\E r \in Run, d \in {"approved", "rejected"} : StartResume(p, r, d))
           \/ (\E i \in 1..Len(approvals), d \in {"approved", "rejected"} : StartDecide(p, i, d))
    PROVE  OwedInv'
<1>1. /\ \A q \in Proc : q # p => proc'[q] = proc[q]
      /\ \A r \in Run : ~Owes(proc[p], r)
      /\ UNCHANGED <<run_steps, dispatched>>
      /\ NoNewAbort
  BY OnlyMoves
<1>2. RowsGrow  BY <1>1, SameSteps
<1>3. QED  BY <1>1, <1>2, OwedByOne

LEMMA WorkerOwes ==
    ASSUME ControlInv, ControlInv', OwedInv, NEW w \in Worker,
           \/ ReleaseStaleRunning(w) \/ (\E r \in Run : Claim(w, r)) \/ NothingToClaim(w)
           \/ RenewLease(w) \/ Invoke(w) \/ FailRun(w) \/ Crash(w) \/ RaiseError(w)
    PROVE  OwedInv'
<1>1. w \in Proc /\ proc \in [Proc -> ProcState]  BY DEF Proc, ControlInv, TypeOK
<1>2. \A q \in Proc : q # w => proc'[q] = proc[q]
  <2>1. CASE \/ ReleaseStaleRunning(w) \/ NothingToClaim(w) \/ RenewLease(w) \/ RaiseError(w)
    BY <1>1, <2>1 DEF ReleaseStaleRunning, NothingToClaim, RenewLease, RaiseError, Goto
  <2>2. CASE (\E r \in Run : Claim(w, r)) \/ FailRun(w) \/ Crash(w)
    BY <1>1, <2>2 DEF Claim, FailRun, Crash
  <2>3. CASE Invoke(w)  BY <1>1, <2>3 DEF Invoke
  <2>4. QED  BY <2>1, <2>2, <2>3
<1>3. UNCHANGED <<run_steps, dispatched>>
  BY DEF ReleaseStaleRunning, Claim, NothingToClaim, RenewLease, Invoke, FailRun, Crash, RaiseError
<1>4. used' = used \/ \E b \in {"crashes", "errors"} : used' = [used EXCEPT ![b] = @ + 1]
  BY DEF ReleaseStaleRunning, Claim, NothingToClaim, RenewLease, Invoke, FailRun, Crash, RaiseError
<1>5. NoNewAbort  BY <1>4 DEF NoNewAbort, ControlInv, TypeOK, Bound
<1>6. RowsGrow  BY <1>3, SameSteps
<1>7. QED  BY <1>1, <1>2, <1>3, <1>5, <1>6, OwedByOne

\* Steps of no process.
LEMMA NobodyOwes ==
    ASSUME ControlInv, ControlInv', OwedInv,
           UNCHANGED <<run_steps, dispatched, proc>>, used'["aborts"] = used["aborts"]
    PROVE  OwedInv'
<1>1. RowsGrow /\ NoNewAbort  BY SameSteps DEF NoNewAbort
<1>2. QED  BY <1>1, OwedKept

\* A request that dies ends the account.
LEMMA AbortOwes ==
    ASSUME ControlInv, NEW h \in Handler, Abort(h)
    PROVE  OwedInv'
  BY DEF Abort, OwedInv, ControlInv, TypeOK, Bound

\* A worker's rows are no executions; a handler writes the one it owes.
LEMMA AppendStepOwes ==
    ASSUME ControlInv, ControlInv', CoverInv, OwedInv, NEW p \in Proc, AppendStep(p)
    PROVE  OwedInv'
<1> DEFINE s == proc[p]
           k0 == s.final.trace[s.next + 1]
<1>1. /\ s.run \in Run /\ k0 \in StepKind
      /\ s.next \in Nat /\ s.next + 1 <= Len(s.final.trace)
      /\ RowsGrow
      /\ run_steps'[s.run][k0] = run_steps[s.run][k0] + 1
      /\ proc'[p] = [s EXCEPT !.next = @ + 1]
      /\ \A q \in Proc : q # p => proc'[q] = proc[q]
  BY AppendRows
<1>2. UNCHANGED dispatched /\ NoNewAbort  BY DEF AppendStep, NoNewAbort
<1>3. CASE p \in Worker  BY <1>1, <1>2, <1>3, OwedByOne
<1>4. CASE p \in Handler
  <2>1. SUFFICES ASSUME used["aborts"] = 0, NEW r \in Run
                 PROVE  Dispatches(r)' <= run_steps'[r]["executed"] + Cardinality(Owing(r)')
    BY <1>2 DEF OwedInv, NoNewAbort
  <2>2. k0 = "executed"
    <3>1. s.pc = "append" /\ s.next < Len(s.final.trace)
      BY <1>1, ProcessOK DEF AppendStep, ProcState, Checkpoint
    <3>2. QED  BY <1>4, <3>1 DEF CoverInv, ProcCovered
  <2>3. Owing(r) \ {p} \subseteq Owing(r)'  BY <1>1 DEF Owing, Proc
  <2>4. r # s.run => p \notin Owing(r)  BY DEF Owing, Owes
  <2>5. IsFiniteSet(Owing(r)) /\ IsFiniteSet(Owing(r)')
    BY FS_Subset, ControlPlaneAssumption DEF Owing
  <2> HIDE DEF Owing, Dispatches, s, k0
  <2>6. Cardinality(Owing(r)) \in Nat /\ Cardinality(Owing(r)') \in Nat
    BY <2>5, FS_CardinalityType
  <2>7. /\ p \in Owing(r) => Cardinality(Owing(r)) <= Cardinality(Owing(r)') + 1
        /\ p \notin Owing(r) => Cardinality(Owing(r)) <= Cardinality(Owing(r)')
    <3>1. Cardinality(Owing(r) \ {p}) <= Cardinality(Owing(r)')  BY <2>3, <2>5, FS_Subset
    <3>2. CASE p \in Owing(r)
      <4>1. Cardinality(Owing(r) \ {p}) = Cardinality(Owing(r)) - 1
        BY <2>5, <3>2, FS_RemoveElement
      <4>2. QED  BY <2>6, <3>1, <3>2, <4>1
    <3>3. CASE p \notin Owing(r)
      <4>1. Owing(r) \ {p} = Owing(r)  BY <3>3
      <4>2. QED  BY <3>1, <3>3, <4>1
    <3>4. QED  BY <3>2, <3>3
  <2>8. Dispatches(r) <= run_steps[r]["executed"] + Cardinality(Owing(r))
    BY <2>1 DEF OwedInv
  <2>9. /\ run_steps[r]["executed"] \in Nat /\ run_steps'[r]["executed"] \in Nat
        /\ Dispatches(r) \in Nat
    <3>1. run_steps[r]["executed"] \in Nat /\ Dispatches(r) \in Nat  BY CountsAreNat
    <3>2. TypeOK'  BY DEF ControlInv
    <3>3. run_steps'[r]["executed"] \in Nat  BY <3>2 DEF TypeOK, StepKind
    <3>4. QED  BY <3>1, <3>3
  <2>10. Dispatches(r)' = Dispatches(r)  BY <1>2 DEF Dispatches
  <2>11. /\ run_steps'[r]["executed"] >= run_steps[r]["executed"]
         /\ r = s.run => run_steps'[r]["executed"] = run_steps[r]["executed"] + 1
    BY <1>1, <2>2 DEF RowsGrow, StepKind
  <2>12. QED  BY <2>4, <2>6, <2>7, <2>8, <2>9, <2>10, <2>11
<1>5. QED  BY <1>3, <1>4 DEF Proc

\* How a dispatch is counted.
LEMMA DispatchCounted ==
    ASSUME ControlInv, NEW r0 \in Run, NEW a0 \in Action,
           dispatched' = [dispatched EXCEPT ![r0][a0] = @ + 1]
    PROVE  /\ Dispatches(r0)' = Dispatches(r0) + 1
           /\ \A r \in Run : r # r0 => Dispatches(r)' = Dispatches(r)
           /\ \A r \in Run, a \in Action :
                 dispatched'[r][a] > 0 => dispatched[r][a] > 0 \/ (r = r0 /\ a = a0)
<1>1. dispatched \in [Run -> [Action -> Nat]]  BY DEF ControlInv, TypeOK
<1>2. /\ \A r \in Run : r # r0 => dispatched'[r] = dispatched[r]
      /\ \A a \in Action : a # a0 => dispatched'[r0][a] = dispatched[r0][a]
      /\ dispatched'[r0][a0] = dispatched[r0][a0] + 1
  BY ONLY <1>1, OneMore, r0 \in Run, a0 \in Action,
          dispatched' = [dispatched EXCEPT ![r0][a0] = @ + 1]
<1>3. dispatched[r0]["own"] \in Nat /\ dispatched[r0]["checkout"] \in Nat
  BY <1>1 DEF Action
<1>4. Dispatches(r0)' = Dispatches(r0) + 1  BY <1>2, <1>3 DEF Dispatches, Action
<1>5. QED  BY <1>2, <1>4 DEF Dispatches

LEMMA GraphResumeOwes ==
    ASSUME ControlInv, ControlInv', OwedInv, NEW h \in Handler, GraphResume(h)
    PROVE  OwedInv'
<1> DEFINE s == proc[h]
<1>1. /\ s.pc = "decide" /\ s.run \in Run /\ h \in Proc
      /\ \A q \in Proc : q # h => proc'[q] = proc[q]
  BY ResumeFacts DEF Proc
<1>2. UNCHANGED run_steps /\ NoNewAbort  BY DEF GraphResume, NoNewAbort
<1>3. \A r \in Run : ~Owes(s, r)  BY <1>1, NothingOwed
<1>4. RowsGrow  BY <1>2, SameSteps
<1>5. CASE ~Executes(h)
  <2>1. dispatched' = dispatched  BY <1>5, ResumeFacts
  <2>2. QED  BY <1>1, <1>2, <1>3, <1>4, <2>1, OwedByOne
<1>6. CASE Executes(h)
  <2>1. /\ s.snapshot.pending \in Action
        /\ dispatched' = [dispatched EXCEPT ![s.run][s.snapshot.pending] = @ + 1]
    BY <1>6, ResumeFacts
  <2>2. \A r \in Run : Dispatches(r)' = IF r = s.run THEN Dispatches(r) + 1 ELSE Dispatches(r)
    <3>1. PICK r0 \in Run : r0 = s.run  BY <1>1
    <3>2. PICK a0 \in Action : a0 = s.snapshot.pending  BY <2>1
    <3>3. dispatched' = [dispatched EXCEPT ![r0][a0] = @ + 1]  BY <2>1, <3>1, <3>2
    <3>4. /\ Dispatches(r0)' = Dispatches(r0) + 1
          /\ \A r \in Run : r # r0 => Dispatches(r)' = Dispatches(r)
      BY <3>3, DispatchCounted
    <3> HIDE DEF Dispatches, s
    <3>5. QED  BY <3>1, <3>4
  <2>3. Owes(proc'[h], s.run)
    <3>1. /\ proc'[h].pc = "append" /\ proc'[h].run = s.run
          /\ proc'[h].next = Len(s.snapshot.trace)
          /\ proc'[h].final.trace = Append(s.snapshot.trace, "executed")
          /\ s.snapshot.trace \in Seq(StepKind)
      BY <1>6, ResumeFacts DEF Checkpoint
    <3>2. QED  BY <3>1 DEF Owes
  <2>4. SUFFICES ASSUME used["aborts"] = 0, NEW r \in Run
                 PROVE  Dispatches(r)' <= run_steps'[r]["executed"] + Cardinality(Owing(r)')
    BY <1>2 DEF OwedInv, NoNewAbort
  <2>5. /\ Owing(r) \subseteq Owing(r)'
        /\ h \notin Owing(r)
        /\ r = s.run => h \in Owing(r)'
    BY <1>1, <1>3, <2>3 DEF Owing, Proc
  <2>6. IsFiniteSet(Owing(r)) /\ IsFiniteSet(Owing(r)')
    BY FS_Subset, ControlPlaneAssumption DEF Owing
  <2> HIDE DEF Owing, Dispatches, s
  <2>7. Cardinality(Owing(r)) \in Nat /\ Cardinality(Owing(r)') \in Nat
    BY <2>6, FS_CardinalityType
  <2>8. Cardinality(Owing(r)) <= Cardinality(Owing(r)')  BY <2>5, <2>6, FS_Subset
  <2>9. r = s.run => Cardinality(Owing(r)) + 1 <= Cardinality(Owing(r)')
    <3>1. Cardinality(Owing(r) \cup {h}) = Cardinality(Owing(r)) + 1
      BY <2>5, <2>6, FS_AddElement
    <3>2. r = s.run => Owing(r) \cup {h} \subseteq Owing(r)'  BY <2>5
    <3>3. r = s.run => Cardinality(Owing(r) \cup {h}) <= Cardinality(Owing(r)')
      BY <2>6, <3>2, FS_Subset
    <3>4. QED  BY <3>1, <3>3
  <2>10. Dispatches(r) <= run_steps[r]["executed"] + Cardinality(Owing(r))
    BY <2>4 DEF OwedInv
  <2>11. run_steps[r]["executed"] \in Nat /\ Dispatches(r) \in Nat  BY CountsAreNat
  <2>12. run_steps'[r]["executed"] = run_steps[r]["executed"]  BY <1>2
  <2>13. CASE r = s.run
    <3>1. Dispatches(r)' = Dispatches(r) + 1  BY <2>2, <2>4, <2>13
    <3>2. QED  BY <2>7, <2>9, <2>10, <2>11, <2>12, <2>13, <3>1
  <2>14. CASE r # s.run
    <3>1. Dispatches(r)' = Dispatches(r)  BY <2>2, <2>4, <2>14
    <3>2. QED  BY <2>7, <2>8, <2>10, <2>11, <2>12, <3>1
  <2>15. QED  BY <2>13, <2>14
<1>7. QED  BY <1>5, <1>6

-----------------------------------------------------------------------------
LEMMA OwedInit == Init => OwedInv
<1> SUFFICES ASSUME Init PROVE OwedInv  OBVIOUS
<1>1. \A r \in Run : Dispatches(r) = 0 /\ run_steps[r]["executed"] = 0
  BY DEF Init, Dispatches, Action, StepKind
<1>2. \A r \in Run : Cardinality(Owing(r)) \in Nat  BY CountsAreNat, InitControlInv
<1>3. QED  BY <1>1, <1>2 DEF OwedInv

LEMMA OwedNext == ControlInv /\ ControlInv' /\ CoverInv /\ OwedInv /\ [Next]_vars => OwedInv'
<1> SUFFICES ASSUME ControlInv, ControlInv', CoverInv, OwedInv, [Next]_vars PROVE OwedInv'
  OBVIOUS
<1>1. ASSUME NEW r \in Run, CreateRun(r) \/ LeaseExpires(r) PROVE OwedInv'
  BY <1>1, NobodyOwes DEF CreateRun, LeaseExpires
<1>2. ASSUME NEW p \in Proc, PersistStep(p) PROVE OwedInv'
  BY <1>2, AppendStepOwes, QuietOwes DEF PersistStep
<1>3. ASSUME NEW w \in Worker, WorkerStep(w) PROVE OwedInv'
  BY <1>2, <1>3, WorkerOwes DEF WorkerStep, Proc
<1>4. ASSUME NEW h \in Handler, HandlerStep(h) PROVE OwedInv'
  BY <1>2, <1>4, QuietOwes, GraphResumeOwes DEF HandlerStep, Proc
<1>5. ASSUME NEW h \in Handler, Request(h) PROVE OwedInv'
  BY <1>5, QuietOwes DEF Request, Proc
<1>6. CASE Fault
  <2>1. ASSUME NEW r \in Run, LeaseLapses(r) PROVE OwedInv'
    BY <2>1, NobodyOwes DEF LeaseLapses, ControlInv, TypeOK, Bound
  <2>2. QED  BY <1>6, <2>1, WorkerOwes, AbortOwes DEF Fault
<1>7. CASE UNCHANGED vars  BY <1>7, NobodyOwes DEF vars
<1>8. QED  BY <1>1, <1>3, <1>4, <1>5, <1>6, <1>7 DEF Next

\* Until a request dies, every gated call has its row in run_steps or a handler
\* that is about to write it, however requests and workers overlap.
THEOREM OwedInvHolds == Spec => []OwedInv
<1>1. Init => OwedInv  BY OwedInit
<1>2. ControlInv /\ ControlInv' /\ CoverInv /\ OwedInv /\ [Next]_vars => OwedInv'  BY OwedNext
<1>3. QED  BY <1>1, <1>2, ControlInvHolds, CoverInvHolds, PTL DEF Spec

\* As long as no request died, every gated call made for a run that nobody
\* works on has a row of its own in run_steps (append_new_tool_steps, run_ops.py).
THEOREM ExecutionIsRecordedHolds == Spec => []ExecutionIsRecorded
<1>1. ControlInv /\ OwedInv => ExecutionIsRecorded
  <2>1. SUFFICES ASSUME ControlInv, OwedInv, used["aborts"] = 0, NEW r \in Run, Quiet(r)
                 PROVE  run_steps[r]["executed"] >= Dispatches(r)
    BY DEF ExecutionIsRecorded
  <2>2. Owing(r) = {}  BY <2>1 DEF Quiet, Owing, Owes, Proc
  <2>3. Cardinality(Owing(r)) = 0  BY <2>2, FS_EmptySet
  <2>4. QED  BY <2>1, <2>3, CountsAreNat DEF OwedInv
<1>2. QED  BY <1>1, ControlInvHolds, OwedInvHolds, PTL

-----------------------------------------------------------------------------
(* What a step of one process does to the fields that the invariants about *)
(* approvals and snapshots read.                                                  *)

\* Nobody but p moves.
Alone(p) == \A q \in Proc : q # p => proc'[q] = proc[q]

\* p moves on to a label and keeps the rest of its state, but for "next".
GoesTo(p, label) ==
    /\ Alone(p)
    /\ proc'[p].pc = label
    /\ proc'[p].run = proc[p].run /\ proc'[p].decision = proc[p].decision
    /\ proc'[p].targets = proc[p].targets
    /\ proc'[p].snapshot = proc[p].snapshot /\ proc'[p].final = proc[p].final

SameTables == UNCHANGED <<runs, approvals, dispatched>>

\* Only the row of r is written.
OnlyRow(r) == \A q \in Run : q # r => runs'[q] = runs[q]

LEMMA GotoShape ==
    ASSUME ControlInv, NEW p \in Proc, NEW label, Goto(p, label)
    PROVE  GoesTo(p, label)
  BY DEF ControlInv, TypeOK, Goto, GoesTo, Alone, ProcState

\* persist_run_result, one step of it.
PersistShape(p) ==
    LET s == proc[p] IN
    /\ s.run \in Run
    /\ UNCHANGED <<dispatched, used>>
    /\ \/ s.pc = "append" /\ SameTables /\ GoesTo(p, "append")
       \/ /\ s.pc = "append"
          /\ UNCHANGED approvals /\ OnlyRow(s.run)
          /\ runs'[s.run].status = s.final.status
          /\ runs'[s.run].checkpoint.status = s.final.status
          /\ runs'[s.run].checkpoint.pending = s.final.pending
          /\ GoesTo(p, IF s.final.status = "approval_required" THEN "inbox" ELSE "finish")
       \/ /\ s.pc = "inbox" /\ SameTables
          /\ GoesTo(p, "request") \/ GoesTo(p, "finish")
       \/ /\ s.pc = "request"
          /\ UNCHANGED runs
          /\ approvals' = Append(approvals, [run |-> s.run, decision |-> "none",
                                             action |-> s.final.pending])
          /\ GoesTo(p, "finish")
       \/ s.pc = "finish" /\ SameTables /\ Alone(p) /\ proc'[p] = Idle

LEMMA PersistShapes ==
    ASSUME ControlInv, NEW p \in Proc, PersistStep(p)
    PROVE  PersistShape(p)
<1> DEFINE s == proc[p]
<1>1. /\ s \in ProcState
      /\ p \in Worker => WorkerOK(s)
      /\ p \in Handler => HandlerOK(s)
      /\ p \in Worker \/ p \in Handler
      /\ runs \in [Run -> RunRow]
      /\ proc \in [Proc -> ProcState]
  BY ProcessOK DEF Proc, ControlInv, TypeOK
<1>2. s.pc \in {"append", "inbox", "request", "finish"}
  BY DEF PersistStep, AppendStep, SaveCheckpoint, CheckInbox, RequestApproval, Finish
<1>3. s.run \in Run  BY <1>1, <1>2 DEF WorkerOK, HandlerOK
<1>4. CASE AppendStep(p)
  <2>1. GoesTo(p, "append")  BY <1>1, <1>4 DEF AppendStep, GoesTo, Alone, ProcState
  <2>2. QED  BY <1>3, <1>4, <2>1 DEF AppendStep, PersistShape, SameTables
<1>5. CASE SaveCheckpoint(p)
  <2> DEFINE final == [s.final EXCEPT !.persisted = Len(s.final.trace)]
  <2>1. /\ final.status = s.final.status /\ final.pending = s.final.pending
    BY <1>1 DEF ProcState, Checkpoint
  <2>2. /\ s.pc = "append" /\ UNCHANGED <<approvals, dispatched, used>>
        /\ runs' = [runs EXCEPT ![s.run] = SavedRow(final)]
        /\ Goto(p, IF final.status = "approval_required" THEN "inbox" ELSE "finish")
    BY <1>5 DEF SaveCheckpoint
  <2> HIDE DEF final
  <2>3. GoesTo(p, IF s.final.status = "approval_required" THEN "inbox" ELSE "finish")
    BY <2>1, <2>2, GotoShape
  <2>4. runs'[s.run] = SavedRow(final) /\ OnlyRow(s.run)
    BY <1>1, <1>3, <2>2 DEF OnlyRow
  <2>5. SavedRow(final).status = final.status /\ SavedRow(final).checkpoint = final
    BY DEF SavedRow
  <2> HIDE DEF s
  <2>6. /\ runs'[s.run].status = s.final.status
        /\ runs'[s.run].checkpoint.status = s.final.status
        /\ runs'[s.run].checkpoint.pending = s.final.pending
    BY <2>1, <2>4, <2>5
  <2>7. QED  BY <1>3, <2>2, <2>3, <2>4, <2>6 DEF PersistShape, s
<1>6. CASE CheckInbox(p)
  <2>1. GoesTo(p, "request") \/ GoesTo(p, "finish")  BY <1>6, GotoShape DEF CheckInbox
  <2>2. QED  BY <1>3, <1>6, <2>1 DEF CheckInbox, PersistShape, SameTables
<1>7. CASE RequestApproval(p)
  <2>1. GoesTo(p, "finish")  BY <1>7, GotoShape DEF RequestApproval
  <2>2. QED  BY <1>3, <1>7, <2>1 DEF RequestApproval, PersistShape
<1>8. CASE Finish(p)
  <2>1. Alone(p) /\ proc'[p] = Idle  BY <1>1, <1>8 DEF Finish, Alone
  <2>2. QED  BY <1>3, <1>8, <2>1 DEF Finish, PersistShape, SameTables
<1>9. QED  BY <1>4, <1>5, <1>6, <1>7, <1>8 DEF PersistStep

\* What a worker does besides.
ClaimShape(w, r) ==
    /\ runs[r].status = "pending"
    /\ UNCHANGED <<approvals, dispatched, used>>
    /\ OnlyRow(r)
    /\ runs'[r].status = "running" /\ runs'[r].worker = w /\ runs'[r].lease = "live"
    /\ runs'[r].checkpoint = runs[r].checkpoint
    /\ Alone(w)
    /\ proc'[w].pc = "renew" /\ proc'[w].run = r
    /\ proc'[w].snapshot = runs[r].checkpoint /\ proc'[w].final = NoCheckpoint

LEMMA ClaimShapes ==
    ASSUME ControlInv, NEW w \in Worker, NEW r \in Run, Claim(w, r)
    PROVE  ClaimShape(w, r)
<1>1. proc \in [Proc -> ProcState] /\ runs \in [Run -> RunRow] /\ w \in Proc
  BY DEF ControlInv, TypeOK, Proc
<1>2. runs'[r].status = "running" /\ runs'[r].worker = w /\ runs'[r].lease = "live"
      /\ runs'[r].checkpoint = runs[r].checkpoint /\ OnlyRow(r)
  BY <1>1 DEF Claim, RunRow, LeaseOfClaim, OnlyRow
<1>3. Alone(w) /\ proc'[w].pc = "renew" /\ proc'[w].run = r
      /\ proc'[w].snapshot = runs[r].checkpoint /\ proc'[w].final = NoCheckpoint
  BY <1>1 DEF Claim, Alone, Idle
<1>4. QED  BY <1>2, <1>3 DEF Claim, ClaimShape

ReleaseShape(w) ==
    /\ proc[w].pc = "idle" /\ GoesTo(w, "claim")
    /\ UNCHANGED <<approvals, dispatched, used>>
    /\ \A q \in Run : \/ runs'[q] = runs[q]
                      \/ /\ Stale(q) /\ runs'[q].status = "pending"
                         /\ runs'[q].checkpoint = runs[q].checkpoint

LEMMA ReleaseShapes ==
    ASSUME ControlInv, NEW w \in Worker, ReleaseStaleRunning(w)
    PROVE  ReleaseShape(w)
<1>1. GoesTo(w, "claim")  BY GotoShape DEF ReleaseStaleRunning, Proc
<1>2. ASSUME NEW q \in Run
      PROVE  \/ runs'[q] = runs[q]
             \/ /\ Stale(q) /\ runs'[q].status = "pending"
                /\ runs'[q].checkpoint = runs[q].checkpoint
  <2>1. runs[q] \in RunRow  BY RunOK
  <2>2. runs'[q] = IF Stale(q)
                   THEN [runs[q] EXCEPT !.status = "pending", !.worker = NoWorker, !.lease = "none"]
                   ELSE runs[q]
    BY DEF ReleaseStaleRunning
  <2>3. QED  BY <2>1, <2>2 DEF RunRow
<1>3. QED  BY <1>1, <1>2 DEF ReleaseShape, ReleaseStaleRunning

RenewShape(w) ==
    LET r == proc[w].run IN
    /\ proc[w].pc = "renew" /\ r \in Run /\ GoesTo(w, "invoke")
    /\ UNCHANGED <<approvals, dispatched, used>>
    /\ OnlyRow(r)
    /\ runs'[r].status = runs[r].status /\ runs'[r].worker = runs[r].worker
    /\ runs'[r].checkpoint = runs[r].checkpoint
    /\ runs'[r].lease \in {runs[r].lease, "live"}

LEMMA RenewShapes ==
    ASSUME ControlInv, NEW w \in Worker, RenewLease(w)
    PROVE  RenewShape(w)
<1>1. GoesTo(w, "invoke")  BY GotoShape DEF RenewLease, Proc
<1>2. proc[w].pc = "renew" /\ proc[w].run \in Run
  BY ProcessOK DEF RenewLease, WorkerOK, Proc
<1> DEFINE r == proc[w].run
<1>3. \/ runs' = [runs EXCEPT ![r].lease = "live"]
      \/ runs' = runs
  BY DEF RenewLease
<1>4. runs \in [Run -> RunRow]  BY DEF ControlInv, TypeOK
<1>5. UNCHANGED <<approvals, dispatched, used>>  BY DEF RenewLease
<1>6. /\ OnlyRow(r) /\ runs'[r].status = runs[r].status /\ runs'[r].worker = runs[r].worker
      /\ runs'[r].checkpoint = runs[r].checkpoint /\ runs'[r].lease \in {runs[r].lease, "live"}
  BY <1>2, <1>3, <1>4 DEF RunRow, OnlyRow
<1>7. QED  BY <1>1, <1>2, <1>5, <1>6 DEF RenewShape

InvokeShape(w) ==
    LET s == proc[w] IN
    /\ s.pc = "invoke" /\ s.run \in Run /\ SameTables /\ UNCHANGED used /\ Alone(w)
    /\ proc'[w].pc = "append" /\ proc'[w].run = s.run /\ proc'[w].snapshot = s.snapshot
    /\ proc'[w].final.status \in {"completed", "failed", "approval_required"}
    /\ proc'[w].final.pending \in {"none", "own"}

LEMMA InvokeShapes ==
    ASSUME ControlInv, NEW w \in Worker, Invoke(w)
    PROVE  InvokeShape(w)
<1> DEFINE s == proc[w]
<1>1. /\ w \in Proc /\ s.pc = "invoke" /\ s.run \in Run /\ s \in ProcState
      /\ proc \in [Proc -> ProcState]
  BY ProcessOK DEF Invoke, WorkerOK, Proc, ControlInv, TypeOK
<1>2. PICK state \in InvokeResult :
          proc' = [proc EXCEPT ![w].pc = "append", ![w].final = state,
                               ![w].next = FirstNewStep(proc[w].snapshot)]
  BY DEF Invoke
<1>3. /\ state.status \in {"completed", "failed", "approval_required"}
      /\ state.pending \in {"none", "own"}
  BY DEF InvokeResult
<1>4. /\ Alone(w) /\ proc'[w].pc = "append" /\ proc'[w].run = s.run
      /\ proc'[w].snapshot = s.snapshot /\ proc'[w].final = state
  BY <1>1, <1>2 DEF ProcState, Alone
<1>5. QED  BY <1>1, <1>3, <1>4 DEF Invoke, InvokeShape, SameTables

FailShape(w) ==
    LET r == proc[w].run IN
    /\ proc[w].pc = "except" /\ r \in Run
    /\ UNCHANGED <<approvals, dispatched, used>>
    /\ OnlyRow(r)
    /\ runs'[r].status = "failed" /\ runs'[r].checkpoint = runs[r].checkpoint
    /\ Alone(w) /\ proc'[w] = Idle

LEMMA FailShapes ==
    ASSUME ControlInv, NEW w \in Worker, FailRun(w)
    PROVE  FailShape(w)
<1>1. /\ w \in Proc /\ proc[w].pc = "except" /\ proc[w].run \in Run
      /\ runs \in [Run -> RunRow] /\ proc \in [Proc -> ProcState]
  BY ProcessOK DEF FailRun, WorkerOK, Proc, ControlInv, TypeOK
<1>2. Alone(w) /\ proc'[w] = Idle  BY <1>1 DEF FailRun, Alone
<1>3. runs'[proc[w].run].status = "failed" /\ OnlyRow(proc[w].run)
      /\ runs'[proc[w].run].checkpoint = runs[proc[w].run].checkpoint
  BY <1>1 DEF FailRun, RunRow, OnlyRow
<1>4. QED  BY <1>1, <1>2, <1>3 DEF FailShape, FailRun

-----------------------------------------------------------------------------
\* A step of a request.
ReadShape(h) ==
    LET s == proc[h]
        u == proc'[h]
    IN  /\ SameTables /\ UNCHANGED used /\ Alone(h) /\ s.run \in Run
        /\ \/ /\ s.pc = "list" /\ u.pc = "decide"
              /\ u.targets = PendingFor(s.run) /\ u.snapshot = s.snapshot
              /\ u.run = s.run /\ u.decision = s.decision /\ u.final = s.final
           \/ /\ s.pc = "load" /\ u.pc = "decide"
              /\ u.targets = s.targets /\ u.snapshot = runs[s.run].checkpoint
              /\ u.run = s.run /\ u.decision = s.decision /\ u.final = s.final
              /\ runs[s.run].checkpoint # NoCheckpoint
           \/ s.pc = "load" /\ u = Idle

LEMMA ReadShapes ==
    ASSUME ControlInv, NEW h \in Handler, ListTargets(h) \/ LoadRun(h) \/ RefuseDecision(h)
    PROVE  ReadShape(h)
<1> DEFINE s == proc[h]
<1>1. /\ h \in Proc /\ s \in ProcState /\ HandlerOK(s) /\ proc \in [Proc -> ProcState]
  BY ProcessOK DEF Proc, ControlInv, TypeOK
<1>2. s.run \in Run  BY <1>1 DEF HandlerOK, ListTargets, LoadRun, RefuseDecision
<1>3. CASE ListTargets(h)
  BY <1>1, <1>2, <1>3 DEF ListTargets, ReadShape, SameTables, Alone, ProcState
<1>4. CASE LoadRun(h)
  BY <1>1, <1>2, <1>4 DEF LoadRun, ReadShape, SameTables, Alone, ProcState
<1>5. CASE RefuseDecision(h)
  BY <1>1, <1>2, <1>5 DEF RefuseDecision, ReadShape, SameTables, Alone
<1>6. QED  BY <1>3, <1>4, <1>5

DecideShape(h, i) ==
    LET s == proc[h]
        u == proc'[h]
    IN  /\ s.pc = "decide" /\ s.run \in Run /\ i \in s.targets
        /\ UNCHANGED <<runs, dispatched, used>> /\ Alone(h)
        /\ approvals' = [approvals EXCEPT ![i].decision = s.decision]
        /\ u.pc = "decide" /\ u.targets = s.targets \ {i}
        /\ u.run = s.run /\ u.decision = s.decision
        /\ u.snapshot = s.snapshot /\ u.final = s.final

LEMMA DecideShapes ==
    ASSUME ControlInv, NEW h \in Handler, DecideTarget(h)
    PROVE  \E i \in proc[h].targets : DecideShape(h, i)
<1> DEFINE s == proc[h]
<1>1. /\ h \in Proc /\ s \in ProcState /\ HandlerOK(s) /\ proc \in [Proc -> ProcState]
  BY ProcessOK DEF Proc, ControlInv, TypeOK
<1>2. PICK i \in s.targets :
          /\ approvals' = [approvals EXCEPT ![i].decision = s.decision]
          /\ proc' = [proc EXCEPT ![h].targets = @ \ {i}]
  BY DEF DecideTarget
<1>3. s.pc = "decide" /\ s.run \in Run /\ UNCHANGED <<runs, dispatched, used>>
  BY <1>1 DEF DecideTarget, HandlerOK
<1>4. /\ Alone(h) /\ proc'[h].pc = "decide" /\ proc'[h].targets = s.targets \ {i}
      /\ proc'[h].run = s.run /\ proc'[h].decision = s.decision
      /\ proc'[h].snapshot = s.snapshot /\ proc'[h].final = s.final
  BY <1>1, <1>2, <1>3 DEF ProcState, Alone
<1>5. QED  BY <1>2, <1>3, <1>4 DEF DecideShape

\* What remains of a checkout proposal that was accepted.
CheckoutShape(h) ==
    LET s == proc[h] IN
    /\ s.run \in Run /\ UNCHANGED <<dispatched, used>>
    /\ \/ /\ s.pc = "save_checkout" /\ GoesTo(h, "request_checkout")
          /\ UNCHANGED approvals /\ OnlyRow(s.run)
          /\ runs'[s.run].status = "approval_required"
          /\ runs'[s.run].checkpoint.status = "approval_required"
       \/ /\ s.pc = "request_checkout" /\ GoesTo(h, "finish")
          /\ UNCHANGED runs
          /\ approvals' = Append(approvals, [run |-> s.run, decision |-> "none",
                                             action |-> "checkout"])

LEMMA CheckoutShapes ==
    ASSUME ControlInv, NEW h \in Handler, SaveCheckout(h) \/ RequestCheckout(h)
    PROVE  CheckoutShape(h)
<1>1. /\ h \in Proc /\ runs \in [Run -> RunRow]
      /\ proc[h].run \in Run
  BY ProcessOK DEF Proc, ControlInv, TypeOK, HandlerOK, SaveCheckout, RequestCheckout
<1>2. CASE SaveCheckout(h)
  <2>1. GoesTo(h, "request_checkout")  BY <1>1, <1>2, GotoShape DEF SaveCheckout
  <2>2. QED  BY <1>1, <1>2, <2>1 DEF SaveCheckout, CheckoutShape, OnlyRow, SavedRow
<1>3. CASE RequestCheckout(h)
  <2>1. GoesTo(h, "finish")  BY <1>1, <1>3, GotoShape DEF RequestCheckout
  <2>2. QED  BY <1>1, <1>3, <2>1 DEF RequestCheckout, CheckoutShape
<1>4. QED  BY <1>2, <1>3

\* A request that comes in.
RequestShape(h) ==
    LET u == proc'[h] IN
    /\ proc[h].pc = "idle" /\ UNCHANGED <<approvals, dispatched>> /\ Alone(h)
    /\ u.final = NoCheckpoint
    /\ used'["aborts"] = used["aborts"] /\ used'["lapses"] = used["lapses"]
    /\ used'["errors"] = used["errors"]
    /\ \/ /\ "checkout" \in RequestKinds /\ u.pc = "request_checkout" /\ UNCHANGED runs
          /\ u.targets = {} /\ u.snapshot = NoCheckpoint
       \/ /\ "checkout" \in RequestKinds /\ u.pc = "save_checkout"
          /\ u.run \in Run /\ u.targets = {} /\ u.snapshot = NoCheckpoint
          /\ OnlyRow(u.run)
          /\ runs[u.run].status = "absent" /\ runs'[u.run].status = "approval_required"
          /\ runs'[u.run].checkpoint = runs[u.run].checkpoint
       \/ /\ "resume" \in RequestKinds /\ u.pc = "list" /\ UNCHANGED runs
          /\ u.run \in Run /\ u.targets = {} /\ u.snapshot = runs[u.run].checkpoint
          /\ runs[u.run].checkpoint # NoCheckpoint
       \/ /\ u.pc = "load" /\ UNCHANGED runs /\ u.snapshot = NoCheckpoint
          /\ u.run \in Run /\ u.decision \in {"approved", "rejected"}
          /\ \E i \in 1..Len(approvals) :
                Undecided(i) /\ u.targets = {i} /\ u.run = approvals[i].run

LEMMA RequestShapes ==
    ASSUME ControlInv, NEW h \in Handler, Request(h)
    PROVE  RequestShape(h)
<1>1. /\ h \in Proc /\ runs \in [Run -> RunRow] /\ proc \in [Proc -> ProcState]
      /\ approvals \in Seq(ApprovalRow) /\ used \in [Bound -> Nat]
  BY DEF Proc, ControlInv, TypeOK
<1>2. ASSUME NEW b \in {"requests", "checkouts"}, used' = [used EXCEPT ![b] = @ + 1]
      PROVE  /\ used'["aborts"] = used["aborts"] /\ used'["lapses"] = used["lapses"]
             /\ used'["errors"] = used["errors"]
  BY <1>1, <1>2 DEF Bound
<1>3. ASSUME NEW r \in Run, ProposeForRun(h, r) PROVE RequestShape(h)
  <2>1. /\ proc[h].pc = "idle" /\ UNCHANGED <<approvals, dispatched, runs>>
        /\ "checkout" \in RequestKinds /\ used' = [used EXCEPT !["checkouts"] = @ + 1]
        /\ proc' = [proc EXCEPT ![h] = [Idle EXCEPT !.pc = "request_checkout", !.run = r]]
    BY <1>3 DEF ProposeForRun, Propose
  <2>2. /\ Alone(h) /\ proc'[h].pc = "request_checkout" /\ proc'[h].targets = {}
        /\ proc'[h].snapshot = NoCheckpoint /\ proc'[h].final = NoCheckpoint
    BY <1>1, <2>1 DEF Idle, Alone
  <2>3. QED  BY <1>2, <2>1, <2>2 DEF RequestShape
<1>4. ASSUME NEW r \in Run, ProposeAlone(h, r) PROVE RequestShape(h)
  <2>1. /\ proc[h].pc = "idle" /\ UNCHANGED <<approvals, dispatched>>
        /\ "checkout" \in RequestKinds /\ used' = [used EXCEPT !["checkouts"] = @ + 1]
        /\ proc' = [proc EXCEPT ![h] = [Idle EXCEPT !.pc = "save_checkout", !.run = r]]
        /\ runs[r].status = "absent"
        /\ runs' = [runs EXCEPT ![r].status = "approval_required"]
    BY <1>4 DEF ProposeAlone, Propose
  <2>2. /\ Alone(h) /\ proc'[h].pc = "save_checkout" /\ proc'[h].targets = {}
        /\ proc'[h].run = r
        /\ proc'[h].snapshot = NoCheckpoint /\ proc'[h].final = NoCheckpoint
    BY <1>1, <2>1 DEF Idle, Alone
  <2>3. /\ OnlyRow(r) /\ runs'[r].status = "approval_required"
        /\ runs'[r].checkpoint = runs[r].checkpoint
    BY <1>1, <2>1 DEF OnlyRow, RunRow
  <2>4. QED  BY <1>2, <2>1, <2>2, <2>3 DEF RequestShape
<1>5. ASSUME NEW r \in Run, NEW d \in {"approved", "rejected"}, StartResume(h, r, d)
      PROVE  RequestShape(h)
  <2>1. /\ proc[h].pc = "idle" /\ UNCHANGED <<approvals, dispatched, runs>>
        /\ "resume" \in RequestKinds /\ used' = [used EXCEPT !["requests"] = @ + 1]
        /\ runs[r].checkpoint # NoCheckpoint
        /\ proc' = [proc EXCEPT ![h] = [Idle EXCEPT !.pc = "list", !.run = r, !.decision = d,
                                        !.snapshot = runs[r].checkpoint]]
    BY <1>5 DEF StartResume, Receive
  <2>2. /\ Alone(h) /\ proc'[h].pc = "list" /\ proc'[h].targets = {} /\ proc'[h].run = r
        /\ proc'[h].snapshot = runs[r].checkpoint /\ proc'[h].final = NoCheckpoint
    BY <1>1, <2>1 DEF Idle, Alone
  <2>3. QED  BY <1>2, <2>1, <2>2 DEF RequestShape
<1>6. ASSUME NEW i \in 1..Len(approvals), NEW d \in {"approved", "rejected"},
             StartDecide(h, i, d)
      PROVE  RequestShape(h)
  <2>1. /\ proc[h].pc = "idle" /\ UNCHANGED <<approvals, dispatched, runs>>
        /\ used' = [used EXCEPT !["requests"] = @ + 1] /\ Undecided(i)
        /\ proc' = [proc EXCEPT ![h] = [Idle EXCEPT !.pc = "load", !.run = approvals[i].run,
                                        !.decision = d, !.targets = {i}]]
    BY <1>6 DEF StartDecide, Receive
  <2>2. /\ Alone(h) /\ proc'[h].pc = "load" /\ proc'[h].targets = {i}
        /\ proc'[h].run = approvals[i].run /\ proc'[h].decision = d
        /\ proc'[h].snapshot = NoCheckpoint /\ proc'[h].final = NoCheckpoint
    BY <1>1, <2>1 DEF Idle, Alone
  <2>3. approvals[i].run \in Run
    <3>1. approvals[i] \in ApprovalRow  BY <1>1
    <3>2. QED  BY <3>1 DEF ApprovalRow
  <2>4. QED  BY <1>2, <2>1, <2>2, <2>3 DEF RequestShape
<1>7. QED  BY <1>3, <1>4, <1>5, <1>6 DEF Request

-----------------------------------------------------------------------------
\* No process moves: a run is created, or a lease runs out.
TimeShape(r) ==
    /\ UNCHANGED <<proc, approvals, dispatched>> /\ OnlyRow(r)
    /\ runs'[r].checkpoint = runs[r].checkpoint
    /\ \/ /\ runs[r].status = "absent" /\ runs'[r].status = "pending"
          /\ UNCHANGED used
       \/ /\ \A w \in Worker : proc[w].run # r
          /\ runs'[r].status = runs[r].status
          /\ UNCHANGED used
       \/ /\ used'["lapses"] # 0
          /\ runs'[r].status = runs[r].status
          /\ \A b \in Bound \ {"lapses"} : used'[b] = used[b]

LEMMA TimeShapes ==
    ASSUME ControlInv, NEW r \in Run, CreateRun(r) \/ LeaseExpires(r) \/ LeaseLapses(r)
    PROVE  TimeShape(r)
<1>1. /\ runs \in [Run -> RunRow] /\ used \in [Bound -> Nat]
  BY DEF ControlInv, TypeOK
<1>2. CASE CreateRun(r)
  BY <1>1, <1>2 DEF CreateRun, TimeShape, OnlyRow, RunRow
<1>3. CASE LeaseExpires(r)
  BY <1>1, <1>3 DEF LeaseExpires, TimeShape, OnlyRow, RunRow, Executing
<1>4. CASE LeaseLapses(r)
  <2>1. used'["lapses"] # 0 /\ \A b \in Bound \ {"lapses"} : used'[b] = used[b]
    BY <1>1, <1>4 DEF LeaseLapses, Bound
  <2>2. QED  BY <1>1, <1>4, <2>1 DEF LeaseLapses, TimeShape, OnlyRow, RunRow
<1>5. QED  BY <1>2, <1>3, <1>4

\* A worker finds nothing to claim or raises; a process dies.
HaltShape(p) ==
    /\ SameTables
    /\ \/ /\ p \in Worker /\ proc[p].pc = "claim" /\ GoesTo(p, "idle") /\ UNCHANGED used
       \/ /\ p \in Worker /\ GoesTo(p, "except") /\ used'["errors"] # 0
          /\ \A b \in Bound \ {"errors"} : used'[b] = used[b]
       \/ /\ Alone(p) /\ proc'[p] = Idle
          /\ p \in Handler => used'["aborts"] # 0
          /\ used'["errors"] = used["errors"] /\ used'["lapses"] = used["lapses"]
          /\ p \in Worker => used'["aborts"] = used["aborts"] /\ used'["crashes"] # 0

LEMMA HaltShapes ==
    ASSUME ControlInv, NEW p \in Proc,
           \/ p \in Worker /\ (NothingToClaim(p) \/ Crash(p) \/ RaiseError(p))
           \/ p \in Handler /\ Abort(p)
    PROVE  HaltShape(p)
<1>1. /\ proc \in [Proc -> ProcState] /\ used \in [Bound -> Nat]
  BY DEF ControlInv, TypeOK
<1>2. CASE p \in Worker /\ NothingToClaim(p)
  <2>1. GoesTo(p, "idle")  BY <1>2, GotoShape DEF NothingToClaim
  <2>2. QED  BY <1>2, <2>1 DEF NothingToClaim, HaltShape, SameTables
<1>3. CASE p \in Worker /\ Crash(p)
  <2>1. /\ used'["errors"] = used["errors"] /\ used'["lapses"] = used["lapses"]
        /\ used'["aborts"] = used["aborts"] /\ used'["crashes"] # 0
    BY <1>1, <1>3 DEF Crash, Bound
  <2>2. Alone(p) /\ proc'[p] = Idle  BY <1>1, <1>3 DEF Crash, Alone
  <2>3. p \notin Handler  BY <1>3, ProcessOK
  <2>4. QED  BY <1>3, <2>1, <2>2, <2>3 DEF Crash, HaltShape, SameTables
<1>4. CASE p \in Worker /\ RaiseError(p)
  <2>1. GoesTo(p, "except")  BY <1>4, GotoShape DEF RaiseError
  <2>2. used'["errors"] # 0 /\ \A b \in Bound \ {"errors"} : used'[b] = used[b]
    BY <1>1, <1>4 DEF RaiseError, Bound
  <2>3. QED  BY <1>4, <2>1, <2>2 DEF RaiseError, HaltShape, SameTables
<1>5. CASE p \in Handler /\ Abort(p)
  <2>1. /\ used'["errors"] = used["errors"] /\ used'["lapses"] = used["lapses"]
        /\ used'["aborts"] # 0
    BY <1>1, <1>5 DEF Abort, Bound
  <2>2. Alone(p) /\ proc'[p] = Idle  BY <1>1, <1>5 DEF Abort, Alone
  <2>3. p \notin Worker  BY <1>5, ProcessOK
  <2>4. QED  BY <1>5, <2>1, <2>2, <2>3 DEF Abort, HaltShape, SameTables
<1>6. QED  BY <1>2, <1>3, <1>4, <1>5

\* Every step of the control plane has one of these shapes.
LEMMA StepShapes ==
    ASSUME ControlInv, Next
    PROVE  \/ \E r \in Run : TimeShape(r)
           \/ \E p \in Proc : PersistShape(p) \/ HaltShape(p)
           \/ \E w \in Worker :
                 \/ ReleaseShape(w) \/ RenewShape(w) \/ InvokeShape(w) \/ FailShape(w)
                 \/ \E r \in Run : ClaimShape(w, r)
           \/ \E h \in Handler :
                 \/ ReadShape(h) \/ CheckoutShape(h) \/ RequestShape(h) \/ GraphResume(h)
                 \/ \E i \in proc[h].targets : DecideShape(h, i)
<1> DEFINE Goal == \/ \E r \in Run : TimeShape(r)
                   \/ \E p \in Proc : PersistShape(p) \/ HaltShape(p)
                   \/ \E w \in Worker :
                         \/ ReleaseShape(w) \/ RenewShape(w) \/ InvokeShape(w) \/ FailShape(w)
                         \/ \E r \in Run : ClaimShape(w, r)
                   \/ \E h \in Handler :
                         \/ ReadShape(h) \/ CheckoutShape(h) \/ RequestShape(h) \/ GraphResume(h)
                         \/ \E i \in proc[h].targets : DecideShape(h, i)
<1>1. ASSUME NEW r \in Run, CreateRun(r) \/ LeaseExpires(r) PROVE Goal
  BY <1>1, TimeShapes
<1>2. ASSUME NEW w \in Worker, WorkerStep(w) PROVE Goal
  <2>1. w \in Proc  BY DEF Proc
  <2>2. CASE PersistStep(w)  BY <2>1, <2>2, PersistShapes
  <2>3. CASE NothingToClaim(w)  BY <2>1, <2>3, HaltShapes
  <2>4. CASE ReleaseStaleRunning(w)  BY <2>4, ReleaseShapes
  <2>5. ASSUME NEW r \in Run, Claim(w, r) PROVE Goal  BY <2>5, ClaimShapes
  <2>6. CASE RenewLease(w)  BY <2>6, RenewShapes
  <2>7. CASE Invoke(w)  BY <2>7, InvokeShapes
  <2>8. CASE FailRun(w)  BY <2>8, FailShapes
  <2>9. QED  BY <1>2, <2>2, <2>3, <2>4, <2>5, <2>6, <2>7, <2>8 DEF WorkerStep
<1>3. ASSUME NEW h \in Handler, HandlerStep(h) PROVE Goal
  <2>1. h \in Proc  BY DEF Proc
  <2>2. CASE PersistStep(h)  BY <2>1, <2>2, PersistShapes
  <2>3. CASE ListTargets(h) \/ LoadRun(h) \/ RefuseDecision(h)  BY <2>3, ReadShapes
  <2>4. CASE DecideTarget(h)  BY <2>4, DecideShapes
  <2>5. CASE SaveCheckout(h) \/ RequestCheckout(h)  BY <2>5, CheckoutShapes
  <2>6. QED  BY <1>3, <2>2, <2>3, <2>4, <2>5 DEF HandlerStep
<1>4. ASSUME NEW h \in Handler, Request(h) PROVE Goal  BY <1>4, RequestShapes
<1>5. CASE Fault  BY <1>5, HaltShapes, TimeShapes DEF Fault, Proc
<1>6. QED  BY <1>1, <1>2, <1>3, <1>4, <1>5 DEF Next

\* An approval is never removed, nor changed but for its decision.
LEMMA ApprovalsStay ==
    ASSUME ControlInv,
           \/ UNCHANGED approvals
           \/ \E a : approvals' = Append(approvals, a)
           \/ \E i, d : approvals' = [approvals EXCEPT ![i].decision = d]
    PROVE  \A i \in 1..Len(approvals) :
              /\ i \in 1..Len(approvals')
              /\ approvals'[i].run = approvals[i].run
              /\ approvals'[i].action = approvals[i].action
<1>1. approvals \in Seq(ApprovalRow)  BY DEF ControlInv, TypeOK
<1>2. ASSUME NEW i, NEW d, approvals' = [approvals EXCEPT ![i].decision = d]
      PROVE  \A j \in 1..Len(approvals) :
                /\ j \in 1..Len(approvals')
                /\ approvals'[j].run = approvals[j].run
                /\ approvals'[j].action = approvals[j].action
  <2>1. Len(approvals') = Len(approvals)  BY <1>1, <1>2
  <2>2. SUFFICES ASSUME NEW j \in 1..Len(approvals)
                 PROVE  /\ approvals'[j].run = approvals[j].run
                        /\ approvals'[j].action = approvals[j].action
    BY <2>1
  <2>3. approvals[j] \in ApprovalRow  BY <1>1
  <2>4. approvals'[j] = IF j = i THEN [approvals[j] EXCEPT !.decision = d] ELSE approvals[j]
    BY <1>1, <1>2
  <2>5. QED  BY <2>3, <2>4 DEF ApprovalRow
<1>3. ASSUME NEW a, approvals' = Append(approvals, a)
      PROVE  \A j \in 1..Len(approvals) :
                /\ j \in 1..Len(approvals')
                /\ approvals'[j] = approvals[j]
  BY <1>1, <1>3
<1>4. QED  BY <1>2, <1>3

\* Deciding changes the decision of one approval.
LEMMA DecideOne ==
    ASSUME ControlInv, NEW i \in 1..Len(approvals), NEW d,
           approvals' = [approvals EXCEPT ![i].decision = d]
    PROVE  /\ Len(approvals') = Len(approvals)
           /\ approvals'[i].decision = d
           /\ \A j \in 1..Len(approvals) : j # i => approvals'[j] = approvals[j]
<1>1. approvals \in Seq(ApprovalRow)  BY DEF ControlInv, TypeOK
<1>2. approvals[i] \in ApprovalRow  BY <1>1
<1>3. approvals'[i] = [approvals[i] EXCEPT !.decision = d]  BY <1>1
<1>4. approvals'[i].decision = d  BY <1>2, <1>3 DEF ApprovalRow
<1>5. QED  BY <1>1, <1>4

\* What is appended leaves the rest as it is.
LEMMA AskOne ==
    ASSUME ControlInv, NEW a, approvals' = Append(approvals, a)
    PROVE  /\ Len(approvals') = Len(approvals) + 1
           /\ approvals'[Len(approvals) + 1] = a
           /\ \A j \in 1..Len(approvals) : approvals'[j] = approvals[j]
  BY DEF ControlInv, TypeOK

-----------------------------------------------------------------------------
(* Pauses and approvals.                                                   *)

\* What a request decides are approvals of its own run, and what it saves
\* settles the run, so it never asks for an approval as a worker does.
SettlesInv ==
    \A h \in Handler : LET s == proc[h] IN
        /\ s.pc \notin {"inbox", "request"}
        /\ s.pc = "append" => s.final.status \in Terminal
        /\ s.pc \in {"load", "decide"} =>
              \A i \in s.targets : i \in 1..Len(approvals) /\ approvals[i].run = s.run

\* A worker that has yet to ask for an approval of r, or to mark r failed; a
\* request that is about to settle r, or to ask for a checkout.
Minds(p, r) ==
    /\ proc[p].run = r
    /\ \/ p \in Worker /\ proc[p].pc \in {"inbox", "request", "except"}
       \/ p \in Handler
          /\ proc[p].pc \in {"decide", "append", "save_checkout", "request_checkout"}

NobodyDied == used["crashes"] + used["aborts"] = 0

\* Until a process dies, somebody minds each paused run that has no undecided
\* approval.
AskedInv ==
    NobodyDied =>
        \A r \in Run : runs[r].status = "approval_required" =>
            PendingFor(r) # {} \/ \E p \in Proc : Minds(p, r)

LEMMA SettlesNext ==
    ASSUME ControlInv, SettlesInv, Next
    PROVE  SettlesInv'
<1> DEFINE Good(h) ==
        LET s == proc'[h] IN
        /\ s.pc \notin {"inbox", "request"}
        /\ s.pc = "append" => s.final.status \in Terminal
        /\ s.pc \in {"load", "decide"} =>
              \A i \in s.targets : i \in 1..Len(approvals') /\ approvals'[i].run = s.run
<1>1. SUFFICES ASSUME NEW g \in Handler PROVE Good(g)  BY DEF SettlesInv
<1>2. g \in Proc /\ g \notin Worker /\ HandlerOK(proc[g])  BY ProcessOK DEF Proc
<1>3. Idle.pc = "idle"  BY DEF Idle
<1>4. ASSUME \/ UNCHANGED approvals
             \/ \E a : approvals' = Append(approvals, a)
             \/ \E i, d : approvals' = [approvals EXCEPT ![i].decision = d],
             \/ proc'[g] = proc[g]
             \/ proc'[g].pc \notin {"inbox", "request", "append", "load", "decide"}
      PROVE  Good(g)
  BY <1>4, ApprovalsStay DEF SettlesInv
<1>5. ASSUME NEW r \in Run, TimeShape(r) PROVE Good(g)
  BY <1>2, <1>4, <1>5 DEF TimeShape
<1>6. ASSUME NEW p \in Proc, HaltShape(p) PROVE Good(g)
  BY <1>2, <1>3, <1>4, <1>6 DEF HaltShape, GoesTo, Alone, SameTables
<1>7. ASSUME NEW p \in Proc, PersistShape(p) PROVE Good(g)
  <2>1. UNCHANGED approvals \/ \E a : approvals' = Append(approvals, a)
    BY <1>7 DEF PersistShape, SameTables
  <2>2. CASE p # g
    BY <1>2, <1>4, <1>7, <2>1, <2>2 DEF PersistShape, GoesTo, Alone
  <2>3. CASE p = g
    <3>1. proc[g].pc \notin {"inbox", "request"}  BY DEF SettlesInv
    <3>2. proc[g].pc = "append" => proc[g].final.status \in Terminal  BY DEF SettlesInv
    <3>3. CASE proc[g].pc = "append" /\ GoesTo(g, "append")
      BY <3>2, <3>3 DEF GoesTo
    <3>4. CASE proc'[g].pc \in {"finish", "idle"}  BY <1>4, <2>1, <3>4
    <3>5. QED
      BY <1>3, <1>7, <2>3, <3>1, <3>2, <3>3, <3>4 DEF PersistShape, GoesTo, Terminal
  <2>4. QED  BY <2>2, <2>3
<1>8. ASSUME NEW w \in Worker,
             \/ ReleaseShape(w) \/ RenewShape(w) \/ InvokeShape(w) \/ FailShape(w)
             \/ \E r \in Run : ClaimShape(w, r)
      PROVE  Good(g)
  <2>1. UNCHANGED approvals /\ Alone(w)
    BY <1>8 DEF ReleaseShape, RenewShape, InvokeShape, FailShape, ClaimShape, GoesTo, SameTables
  <2>2. QED  BY <1>2, <1>4, <2>1 DEF Alone
<1>9. ASSUME NEW h \in Handler, ReadShape(h) PROVE Good(g)
  <2>1. UNCHANGED approvals /\ Alone(h)  BY <1>9 DEF ReadShape, SameTables
  <2>2. CASE h # g  BY <1>2, <1>4, <2>1, <2>2 DEF Alone
  <2>3. CASE h = g  BY <1>3, <1>9, <2>1, <2>3 DEF ReadShape, SettlesInv, PendingFor
  <2>4. QED  BY <2>2, <2>3
<1>10. ASSUME NEW h \in Handler, CheckoutShape(h) PROVE Good(g)
  BY <1>2, <1>4, <1>10 DEF CheckoutShape, GoesTo, Alone
<1>11. ASSUME NEW h \in Handler, RequestShape(h) PROVE Good(g)
  <2>1. UNCHANGED approvals /\ Alone(h)  BY <1>11 DEF RequestShape
  <2>2. CASE h # g  BY <1>2, <1>4, <2>1, <2>2 DEF Alone
  <2>3. CASE h = g  BY <1>4, <1>11, <2>1, <2>3 DEF RequestShape
  <2>4. QED  BY <2>2, <2>3
<1>12. ASSUME NEW h \in Handler, GraphResume(h) PROVE Good(g)
  <2>1. /\ proc'[h].pc = "append" /\ Saved(proc[h].snapshot)
        /\ \A q \in Proc : q # h => proc'[q] = proc[q]
        /\ \/ proc'[h].final.status \in {"completed", "failed", "cancelled"}
           \/ ~Resumable(proc[h].snapshot) /\ proc'[h].final = proc[h].snapshot
    BY <1>12, ResumeFacts
  <2>2. proc'[h].final.status \in Terminal
    BY <2>1 DEF Saved, Returned, Resumable, Terminal
  <2>3. UNCHANGED approvals  BY <1>12 DEF GraphResume
  <2>4. QED  BY <1>2, <1>4, <2>1, <2>2, <2>3
<1>13. ASSUME NEW h \in Handler, NEW i \in proc[h].targets, DecideShape(h, i) PROVE Good(g)
  <2>1. \E d : approvals' = [approvals EXCEPT ![i].decision = d]  BY <1>13 DEF DecideShape
  <2>2. CASE h # g  BY <1>2, <1>4, <1>13, <2>1, <2>2 DEF DecideShape, Alone
  <2>3. CASE h = g
    BY <1>13, <2>1, <2>3, ApprovalsStay DEF DecideShape, SettlesInv
  <2>4. QED  BY <2>2, <2>3
<1>14. QED
  BY <1>5, <1>6, <1>7, <1>8, <1>9, <1>10, <1>11, <1>12, <1>13, StepShapes

LEMMA SettlesInvHolds == Spec => []SettlesInv
<1>1. Init => SettlesInv  BY DEF Init, SettlesInv, Idle, Proc
<1>2. ControlInv /\ SettlesInv /\ [Next]_vars => SettlesInv'
  <2>1. ASSUME SettlesInv, UNCHANGED vars PROVE SettlesInv'
    BY <2>1 DEF SettlesInv, vars
  <2>2. QED  BY <2>1, SettlesNext
<1>3. QED  BY <1>1, <1>2, ControlInvHolds, PTL DEF Spec

\* What is counted in "used" is never given back.
LEMMA DeathsCount ==
    ASSUME ControlInv, ControlInv', Next, NobodyDied'
    PROVE  NobodyDied
<1>1. used \in [Bound -> Nat] /\ used' \in [Bound -> Nat]  BY DEF ControlInv, TypeOK
<1>2. SUFFICES \A b \in Bound : used'[b] >= used[b]
  BY <1>1 DEF NobodyDied, Bound
<1>3. \/ UNCHANGED used
      \/ \E b \in Bound : used' = [used EXCEPT ![b] = @ + 1]
  BY DEF Next, CreateRun, LeaseExpires, WorkerStep, ReleaseStaleRunning, Claim, NothingToClaim,
         RenewLease, Invoke, PersistStep, AppendStep, SaveCheckpoint, CheckInbox,
         RequestApproval, Finish, FailRun, HandlerStep, ListTargets, LoadRun, RefuseDecision,
         DecideTarget, GraphResume, SaveCheckout, RequestCheckout, Request, ProposeForRun,
         ProposeAlone, Propose, StartResume, StartDecide, Receive, Fault, Crash, RaiseError,
         Abort, LeaseLapses, Bound
<1>4. QED  BY <1>1, <1>3

\* An undecided approval stays one where approvals are only asked for.
LEMMA PendingGrows ==
    ASSUME ControlInv, UNCHANGED approvals \/ \E a : approvals' = Append(approvals, a),
           NEW r
    PROVE  PendingFor(r) # {} => PendingFor(r)' # {}
<1>1. Len(approvals) \in Nat  BY DEF ControlInv, TypeOK
<1>2. \A i \in PendingFor(r) : i \in PendingFor(r)'
  BY <1>1, AskOne DEF PendingFor
<1>3. QED  BY <1>2

\* A run stays asked for if the process that moves goes on minding it.
LEMMA MindedStays ==
    ASSUME ControlInv, NEW r,
           PendingFor(r) # {} \/ \E q \in Proc : Minds(q, r),
           UNCHANGED approvals \/ \E a : approvals' = Append(approvals, a),
           NEW p \in Proc, Alone(p), Minds(p, r) => Minds(p, r)' \/ PendingFor(r)' # {}
    PROVE  PendingFor(r)' # {} \/ \E q \in Proc : Minds(q, r)'
<1>1. CASE PendingFor(r) # {}  BY <1>1, PendingGrows
<1>2. ASSUME NEW q \in Proc, Minds(q, r), q # p
      PROVE  Minds(q, r)'
  BY <1>2 DEF Minds, Alone
<1>3. QED  BY <1>1, <1>2

\* An approval that is asked for is pending.
LEMMA AskedIsPending ==
    ASSUME ControlInv, NEW r, NEW a, a.run = r, a.decision = "none",
           approvals' = Append(approvals, a)
    PROVE  PendingFor(r)' # {}
<1>1. Len(approvals) \in Nat  BY DEF ControlInv, TypeOK
<1>2. Len(approvals) + 1 \in PendingFor(r)'  BY <1>1, AskOne DEF PendingFor
<1>3. QED  BY <1>2

LEMMA AskedNext ==
    ASSUME ControlInv, ControlInv', SettlesInv, AskedInv, Next
    PROVE  AskedInv'
<1> DEFINE Goal(r) == PendingFor(r)' # {} \/ \E q \in Proc : Minds(q, r)'
<1>1. SUFFICES ASSUME NobodyDied', NEW r \in Run, runs'[r].status = "approval_required"
               PROVE  Goal(r)
  BY DEF AskedInv
<1>2. runs[r].status = "approval_required" =>
          PendingFor(r) # {} \/ \E q \in Proc : Minds(q, r)
  BY <1>1, DeathsCount DEF AskedInv
<1>3. /\ \A w \in Worker : w \in Proc /\ w \notin Handler
      /\ \A h \in Handler : h \in Proc /\ h \notin Worker
      /\ \A p \in Proc : p \in Worker \/ p \in Handler
  BY ControlPlaneAssumption DEF Proc
<1>4. used'["crashes"] = 0 /\ used'["aborts"] = 0
  <2>1. used'["crashes"] \in Nat /\ used'["aborts"] \in Nat
    BY DEF ControlInv, TypeOK, Bound
  <2>2. QED  BY <1>1, <2>1 DEF NobodyDied
<1>5. ASSUME NEW p \in Proc, Alone(p), runs[r].status = "approval_required",
             UNCHANGED approvals \/ \E a : approvals' = Append(approvals, a),
             Minds(p, r) => Minds(p, r)' \/ PendingFor(r)' # {}
      PROVE  Goal(r)
  BY <1>2, <1>5, MindedStays
<1>6. ASSUME NEW q \in Run, TimeShape(q) PROVE Goal(r)
  <2>1. runs[r].status = "approval_required"  BY <1>1, <1>6 DEF TimeShape, OnlyRow
  <2>2. UNCHANGED proc /\ UNCHANGED approvals  BY <1>6 DEF TimeShape
  <2>3. \A p \in Proc : Minds(p, r) => Minds(p, r)'  BY <2>2 DEF Minds
  <2>4. PendingFor(r)' = PendingFor(r)  BY <2>2 DEF PendingFor
  <2>5. QED  BY <1>2, <2>1, <2>3, <2>4
<1>7. ASSUME NEW p \in Proc, HaltShape(p) PROVE Goal(r)
  <2>1. runs[r].status = "approval_required" /\ UNCHANGED approvals
    BY <1>1, <1>7 DEF HaltShape, SameTables
  <2>2. Alone(p)  BY <1>7 DEF HaltShape, GoesTo
  <2>3. Minds(p, r) => Minds(p, r)'
    BY <1>3, <1>4, <1>7 DEF HaltShape, GoesTo, Minds
  <2>4. QED  BY <1>5, <2>1, <2>2, <2>3
<1>8. ASSUME NEW p \in Proc, PersistStep(p) PROVE Goal(r)
  <2>1. PersistShape(p)  BY <1>8, PersistShapes
  <2>2. Alone(p)  BY <2>1 DEF PersistShape, GoesTo
  <2>3. UNCHANGED approvals \/ \E a : approvals' = Append(approvals, a)
    BY <2>1 DEF PersistShape, SameTables
  <2>4. p \in Handler => /\ proc[p].pc \notin {"inbox", "request"}
                         /\ proc[p].pc = "append" => proc[p].final.status \in Terminal
    BY DEF SettlesInv
  <2>5. CASE SaveCheckpoint(p) /\ proc[p].run = r
    <3>1. /\ proc[p].pc = "append" /\ runs'[r].status = proc[p].final.status
          /\ GoesTo(p, IF proc[p].final.status = "approval_required" THEN "inbox" ELSE "finish")
      <4>1. proc[p].pc = "append" /\ Goto(p, IF proc[p].final.status = "approval_required"
                                             THEN "inbox" ELSE "finish")
        BY <2>5 DEF SaveCheckpoint
      <4>2. runs'[r].status = proc[p].final.status
        BY <2>5, <4>1 DEF SaveCheckpoint, SavedRow, ControlInv, TypeOK
      <4>3. QED  BY <4>1, <4>2, GotoShape
    <3>2. p \in Worker  BY <1>1, <1>3, <2>4, <3>1 DEF Terminal
    <3>3. Minds(p, r)'  BY <1>1, <2>5, <3>1, <3>2 DEF Minds, GoesTo
    <3>4. QED  BY <3>3
  <2>6. CASE SaveCheckpoint(p) /\ proc[p].run # r
    <3>1. runs'[r] = runs[r] /\ proc[p].run # r /\ UNCHANGED approvals
      BY <2>6 DEF SaveCheckpoint, ControlInv, TypeOK
    <3>2. ~Minds(p, r)  BY <3>1 DEF Minds
    <3>3. QED  BY <1>1, <1>5, <2>2, <3>1, <3>2
  <2>7. CASE AppendStep(p) \/ Finish(p)
    <3>1. UNCHANGED runs /\ proc[p].pc \in {"append", "finish"}
      BY <2>7 DEF AppendStep, Finish
    <3>2. Minds(p, r) => Minds(p, r)'
      <4>1. CASE Finish(p)  BY <4>1 DEF Finish, Minds
      <4>2. CASE AppendStep(p)
        <5>1. proc'[p].pc = "append" /\ proc'[p].run = proc[p].run
          BY <4>2 DEF AppendStep, ControlInv, TypeOK, ProcState
        <5>2. QED  BY <4>2, <5>1 DEF Minds, AppendStep
      <4>3. QED  BY <2>7, <4>1, <4>2
    <3>3. QED  BY <1>1, <1>5, <2>2, <2>3, <3>1, <3>2
  <2>8. CASE CheckInbox(p)
    <3>1. /\ UNCHANGED runs /\ UNCHANGED approvals /\ p \in Worker
          /\ GoesTo(p, IF PendingFor(proc[p].run) = {} THEN "request" ELSE "finish")
      BY <1>3, <2>4, <2>8, GotoShape DEF CheckInbox
    <3>2. PendingFor(r)' = PendingFor(r)  BY <3>1 DEF PendingFor
    <3>3. Minds(p, r) => Minds(p, r)' \/ PendingFor(r)' # {}
      BY <3>1, <3>2 DEF Minds, GoesTo
    <3>4. QED  BY <1>1, <1>5, <2>2, <3>1, <3>3
  <2>9. CASE RequestApproval(p)
    <3>1. UNCHANGED runs  BY <2>9 DEF RequestApproval
    <3>2. proc[p].run = r => PendingFor(r)' # {}
      BY <2>9, AskedIsPending DEF RequestApproval
    <3>3. Minds(p, r) => PendingFor(r)' # {}  BY <3>2 DEF Minds
    <3>4. QED  BY <1>1, <1>5, <2>2, <2>3, <3>1, <3>3
  <2>10. QED  BY <1>8, <2>5, <2>6, <2>7, <2>8, <2>9 DEF PersistStep
<1>9. ASSUME NEW w \in Worker,
             \/ ReleaseShape(w) \/ RenewShape(w) \/ InvokeShape(w)
             \/ proc[w].pc = "claim" /\ \E q \in Run : ClaimShape(w, q)
      PROVE  Goal(r)
  <2>1. UNCHANGED approvals /\ Alone(w)
    BY <1>9 DEF ReleaseShape, RenewShape, InvokeShape, ClaimShape, GoesTo, SameTables
  <2>2. runs[r].status = "approval_required"
    BY <1>1, <1>9 DEF ReleaseShape, RenewShape, InvokeShape, ClaimShape, OnlyRow, SameTables
  <2>3. proc[w].pc \in {"idle", "renew", "invoke", "claim"}
    BY <1>9 DEF ReleaseShape, RenewShape, InvokeShape
  <2>4. ~Minds(w, r)  BY <1>3, <2>3 DEF Minds
  <2>5. QED  BY <1>3, <1>5, <2>1, <2>2, <2>4
<1>10. ASSUME NEW w \in Worker, FailShape(w) PROVE Goal(r)
  <2>1. proc[w].run # r /\ runs[r].status = "approval_required"
    BY <1>1, <1>10 DEF FailShape, OnlyRow
  <2>2. UNCHANGED approvals /\ Alone(w) /\ ~Minds(w, r)  BY <1>10, <2>1 DEF FailShape, Minds
  <2>3. QED  BY <1>3, <1>5, <2>1, <2>2
<1>11. ASSUME NEW h \in Handler, ReadShape(h) PROVE Goal(r)
  <2>1. /\ UNCHANGED approvals /\ Alone(h) /\ runs[r].status = "approval_required"
        /\ proc[h].pc \in {"list", "load"}
    BY <1>1, <1>11 DEF ReadShape, SameTables
  <2>2. ~Minds(h, r)  BY <1>3, <2>1 DEF Minds
  <2>3. QED  BY <1>3, <1>5, <2>1, <2>2
<1>12. ASSUME NEW h \in Handler, CheckoutShape(h) PROVE Goal(r)
  <2>1. CASE proc[h].pc = "save_checkout" /\ proc[h].run = r
    BY <1>3, <1>12, <2>1 DEF CheckoutShape, Minds, GoesTo
  <2>2. CASE proc[h].pc = "save_checkout" /\ proc[h].run # r
    <3>1. UNCHANGED approvals /\ Alone(h) /\ runs[r].status = "approval_required"
      BY <1>1, <1>12, <2>2 DEF CheckoutShape, GoesTo, OnlyRow
    <3>2. ~Minds(h, r)  BY <2>2 DEF Minds
    <3>3. QED  BY <1>3, <1>5, <3>1, <3>2
  <2>3. CASE proc[h].pc = "request_checkout"
    <3>1. /\ UNCHANGED runs /\ Alone(h)
          /\ approvals' = Append(approvals, [run |-> proc[h].run, decision |-> "none",
                                             action |-> "checkout"])
      BY <1>12, <2>3 DEF CheckoutShape, GoesTo
    <3>2. Minds(h, r) => PendingFor(r)' # {}  BY <3>1, AskedIsPending DEF Minds
    <3>3. QED  BY <1>1, <1>3, <1>5, <3>1, <3>2
  <2>4. QED  BY <1>12, <2>1, <2>2, <2>3 DEF CheckoutShape
<1>13. ASSUME NEW h \in Handler, RequestShape(h) PROVE Goal(r)
  <2>1. UNCHANGED approvals /\ Alone(h) /\ ~Minds(h, r)
    BY <1>3, <1>13 DEF RequestShape, Minds
  <2>2. CASE runs'[r] = runs[r]  BY <1>1, <1>3, <1>5, <2>1, <2>2
  <2>3. CASE proc'[h].pc = "save_checkout" /\ proc'[h].run = r
    BY <1>3, <2>3 DEF Minds
  <2>4. QED  BY <1>13, <2>2, <2>3 DEF RequestShape, OnlyRow
<1>14. ASSUME NEW h \in Handler, GraphResume(h) PROVE Goal(r)
  <2>1. /\ proc[h].pc = "decide" /\ proc'[h].pc = "append" /\ proc'[h].run = proc[h].run
        /\ Alone(h)
    BY <1>14, ResumeFacts DEF Alone
  <2>2. Minds(h, r) => Minds(h, r)'  BY <1>3, <2>1 DEF Minds
  <2>3. UNCHANGED <<runs, approvals>>  BY <1>14 DEF GraphResume
  <2>4. QED  BY <1>1, <1>3, <1>5, <2>1, <2>2, <2>3
<1>15. ASSUME NEW h \in Handler, NEW i \in proc[h].targets, DecideShape(h, i) PROVE Goal(r)
  <2>1. /\ proc[h].pc = "decide" /\ proc'[h].pc = "decide" /\ proc'[h].run = proc[h].run
        /\ Alone(h) /\ UNCHANGED runs
    BY <1>15 DEF DecideShape
  <2>2. i \in 1..Len(approvals) /\ approvals[i].run = proc[h].run
    BY <2>1 DEF SettlesInv
  <2>3. CASE proc[h].run = r  BY <1>3, <2>1, <2>3 DEF Minds
  <2>4. CASE proc[h].run # r
    <3>1. \A j \in PendingFor(r) : j \in PendingFor(r)'
      BY <1>15, <2>2, <2>4, DecideOne DEF DecideShape, PendingFor
    <3>2. \A q \in Proc : Minds(q, r) => Minds(q, r)'
      BY <2>1, <2>4 DEF Minds, Alone
    <3>3. QED  BY <1>1, <1>2, <2>1, <3>1, <3>2
  <2>5. QED  BY <2>3, <2>4
<1>16. ASSUME NEW w \in Worker, WorkerStep(w) PROVE Goal(r)
  <2>1. CASE PersistStep(w)  BY <1>3, <1>8, <2>1
  <2>2. CASE NothingToClaim(w)  BY <1>3, <1>7, <2>2, HaltShapes
  <2>3. ASSUME NEW q \in Run, Claim(w, q) PROVE Goal(r)
    BY <1>9, <2>3, ClaimShapes DEF Claim
  <2>4. CASE ReleaseStaleRunning(w) \/ RenewLease(w) \/ Invoke(w)
    BY <1>9, <2>4, ReleaseShapes, RenewShapes, InvokeShapes
  <2>5. CASE FailRun(w)  BY <1>10, <2>5, FailShapes
  <2>6. QED  BY <1>16, <2>1, <2>2, <2>3, <2>4, <2>5 DEF WorkerStep
<1>17. ASSUME NEW h \in Handler, HandlerStep(h) PROVE Goal(r)
  <2>1. CASE PersistStep(h)  BY <1>3, <1>8, <2>1
  <2>2. CASE ListTargets(h) \/ LoadRun(h) \/ RefuseDecision(h)  BY <1>11, <2>2, ReadShapes
  <2>3. CASE DecideTarget(h)  BY <1>15, <2>3, DecideShapes
  <2>4. CASE SaveCheckout(h) \/ RequestCheckout(h)  BY <1>12, <2>4, CheckoutShapes
  <2>5. QED  BY <1>14, <1>17, <2>1, <2>2, <2>3, <2>4 DEF HandlerStep
<1>18. ASSUME NEW q \in Run, CreateRun(q) \/ LeaseExpires(q) \/ LeaseLapses(q) PROVE Goal(r)
  BY <1>6, <1>18, TimeShapes
<1>19. CASE Fault  BY <1>3, <1>7, <1>18, <1>19, HaltShapes DEF Fault
<1>20. ASSUME NEW h \in Handler, Request(h) PROVE Goal(r)  BY <1>13, <1>20, RequestShapes
<1>21. QED  BY <1>16, <1>17, <1>18, <1>19, <1>20 DEF Next

\* However processes overlap, somebody minds a paused run until a process dies:
\* the worker that persist_run_result is to ask for its approval, or a request
\* that has decided one and is about to settle it.
THEOREM AskedInvHolds == Spec => []AskedInv
<1>1. Init => AskedInv  BY DEF Init, AskedInv
<1>2. ControlInv /\ ControlInv' /\ SettlesInv /\ AskedInv /\ [Next]_vars => AskedInv'
  <2>1. ASSUME AskedInv, UNCHANGED vars PROVE AskedInv'
    BY <2>1 DEF AskedInv, NobodyDied, PendingFor, Minds, vars
  <2>2. QED  BY <2>1, AskedNext
<1>3. QED  BY <1>1, <1>2, ControlInvHolds, SettlesInvHolds, PTL DEF Spec

\* However requests and workers overlap, raise or lose leases: until a process
\* dies, a paused run that nobody works on is in the inbox (persist_run_result).
THEOREM PausedIsAskedHolds == Spec => []PausedIsAsked
<1>1. AskedInv => PausedIsAsked
  BY DEF AskedInv, NobodyDied, PausedIsAsked, Quiet, Minds
<1>2. QED  BY <1>1, AskedInvHolds, PTL

-----------------------------------------------------------------------------
(* What takes a settled run back.                                          *)

\* A worker that has yet to save its result holds the run's row.
WorkerTurn(w) ==
    proc[w].pc \in {"renew", "invoke", "append"} =>
        LET row == runs[proc[w].run] IN
        row.status = "running" /\ row.worker = w /\ row.lease = "live"

\* A run that is being made for a checkout waits, without a checkpoint, for the
\* one request that makes it.
Born(h) ==
    LET r == proc[h].run IN
    /\ runs[r].status = "approval_required" /\ runs[r].checkpoint = NoCheckpoint
    /\ \A w \in Worker : proc[w].run # r
    /\ \A g \in Handler : g # h /\ proc[g].pc = "save_checkout" => proc[g].run # r

\* A request resumes a run that was executed, and hands back a snapshot that had
\* settled.
Answers(h) ==
    LET s == proc[h] IN
    /\ s.pc \in {"list", "decide", "append"} => runs[s.run].checkpoint # NoCheckpoint
    /\ s.pc = "append" => Resumable(s.snapshot) \/ s.final.status = s.snapshot.status
    /\ s.pc = "save_checkout" => Born(h)

\* A worker works on a run that was created, which it holds until a lease lapses.
Works(w) ==
    /\ proc[w].run \in Run => runs[proc[w].run].status # "absent"
    /\ used["lapses"] = 0 => WorkerTurn(w)

ReturnInv ==
    /\ \A w \in Worker : Works(w)
    /\ \A h \in Handler : Answers(h)

\* A run that has a checkpoint has been executed.
LEMMA CheckpointSettles ==
    ASSUME ControlInv, CoverInv, NEW r \in Run, runs[r].checkpoint # NoCheckpoint
    PROVE  runs[r].status \in Terminal \cup {"approval_required"}
<1>1. runs[r].status \notin Unsettled  BY DEF CoverInv, RowCovered
<1>2. runs[r].status \in RunStatus  BY RunOK DEF RunRow
<1>3. QED  BY <1>1, <1>2 DEF RunStatus, Unsettled

\* No step makes rows vanish or takes a checkpoint away.
LEMMA RowsRemain ==
    ASSUME ControlInv, Next, NEW r \in Run
    PROVE  /\ runs[r].status # "absent" => runs'[r].status # "absent"
           /\ runs[r].checkpoint # NoCheckpoint => runs'[r].checkpoint # NoCheckpoint
<1>1. NoCheckpoint.status = "none"  BY DEF NoCheckpoint
<1>2. ASSUME NEW p \in Proc, PersistShape(p), proc[p].pc = "append"
      PROVE  proc[p].final.status \in Terminal \cup {"approval_required"}
  BY <1>2, ProcessOK DEF Proc, WorkerOK, HandlerOK, PersistOK, Returned
<1>3. ASSUME NEW p \in Proc, PersistShape(p)
      PROVE  \/ runs'[r] = runs[r]
             \/ /\ runs'[r].status \in Terminal \cup {"approval_required"}
                /\ runs'[r].checkpoint.status \in Terminal \cup {"approval_required"}
  BY <1>2, <1>3 DEF PersistShape, SameTables, OnlyRow
<1>4. ASSUME NEW p \in Proc, PersistShape(p)
      PROVE  /\ runs[r].status # "absent" => runs'[r].status # "absent"
             /\ runs[r].checkpoint # NoCheckpoint => runs'[r].checkpoint # NoCheckpoint
  BY <1>1, <1>3, <1>4 DEF Terminal
<1>5. QED
  BY <1>1, <1>4, StepShapes
     DEF TimeShape, HaltShape, ReleaseShape, RenewShape, InvokeShape, FailShape, ClaimShape,
         ReadShape, CheckoutShape, RequestShape, GraphResume, DecideShape, SameTables, OnlyRow

\* A lapse is not forgotten.
LEMMA LapsesStay ==
    ASSUME ControlInv, Next, used'["lapses"] = 0
    PROVE  used["lapses"] = 0
  BY StepShapes
     DEF TimeShape, PersistShape, HaltShape, ReleaseShape, RenewShape, InvokeShape, FailShape,
         ClaimShape, ReadShape, CheckoutShape, RequestShape, GraphResume, DecideShape, Bound, Proc

\* What the processes of the two kinds are called and hold.
LEMMA Roles ==
    ASSUME ControlInv
    PROVE  /\ \A w \in Worker : w \in Proc /\ w \notin Handler
           /\ \A h \in Handler : h \in Proc /\ h \notin Worker
           /\ \A p \in Proc : p \in Worker \/ p \in Handler
           /\ \A w \in Worker : proc[w].pc \notin {"idle", "claim"} => proc[w].run \in Run
           /\ \A h \in Handler : proc[h].pc # "idle" => proc[h].run \in Run
           /\ Idle.pc = "idle" /\ Idle.run \notin Run
  BY ProcessOK, ControlPlaneAssumption DEF Proc, WorkerOK, HandlerOK, Idle

\* A step of another process leaves the row a worker holds alone.
LEMMA HeldRowStays ==
    ASSUME ControlInv, CoverInv, ReturnInv, Next, used'["lapses"] = 0,
           NEW v \in Worker, proc[v].pc \in {"renew", "invoke", "append"},
           proc'[v] = proc[v]
    PROVE  WorkerTurn(v)'
<1> DEFINE r == proc[v].run
<1>1. used["lapses"] = 0 /\ r \in Run  BY LapsesStay, Roles
<1>2. runs[r].status = "running" /\ runs[r].worker = v /\ runs[r].lease = "live"
  BY <1>1 DEF ReturnInv, Works, WorkerTurn
<1>3. SUFFICES ASSUME runs'[r] # runs[r]
               PROVE  /\ runs'[r].status = "running" /\ runs'[r].worker = v
                      /\ runs'[r].lease = "live"
  BY <1>2 DEF WorkerTurn
<1>4. \A w \in Worker : w # v => proc[w].run # r
  BY <1>1 DEF ControlInv, SoleWorker, Executing
<1>5. \A h \in Handler : proc[h].run = r => proc[h].pc \notin {"append", "save_checkout"}
  BY <1>1, <1>2, CheckpointSettles DEF ReturnInv, Answers, Born, Terminal
<1>6. ~\E p \in Proc : PersistShape(p)
  <2>1. SUFFICES ASSUME NEW p \in Proc, PersistShape(p) PROVE FALSE  OBVIOUS
  <2>2. proc[p].pc = "append" /\ proc[p].run = r /\ proc'[p].pc # "append"
    BY <1>1, <1>3, <2>1 DEF PersistShape, SameTables, OnlyRow, GoesTo
  <2>3. p # v /\ p \in Handler  BY <1>4, <2>2, Roles
  <2>4. QED  BY <1>5, <2>2, <2>3
<1>7. ASSUME NEW q \in Run, TimeShape(q) PROVE FALSE
  BY <1>1, <1>2, <1>3, <1>7 DEF TimeShape, OnlyRow
<1>8. ASSUME NEW h \in Handler, CheckoutShape(h) \/ RequestShape(h) PROVE FALSE
  BY <1>1, <1>2, <1>3, <1>5, <1>8 DEF CheckoutShape, RequestShape, OnlyRow
<1>9. ASSUME NEW w \in Worker,
             \/ ReleaseShape(w) \/ RenewShape(w) \/ FailShape(w)
             \/ \E q \in Run : ClaimShape(w, q)
      PROVE  FALSE
  <2>1. CASE ReleaseShape(w)
    BY <1>1, <1>2, <1>3, <2>1 DEF ReleaseShape, Stale
  <2>2. CASE RenewShape(w)
    <3>1. w # v  BY <2>2 DEF RenewShape, GoesTo
    <3>2. proc[w].run # r  BY <1>4, <3>1
    <3>3. QED  BY <1>1, <1>3, <2>2, <3>2 DEF RenewShape, OnlyRow
  <2>3. CASE FailShape(w)
    <3>1. w # v  BY <2>3 DEF FailShape
    <3>2. proc[w].run # r  BY <1>4, <3>1
    <3>3. QED  BY <1>1, <1>3, <2>3, <3>2 DEF FailShape, OnlyRow
  <2>4. ASSUME NEW q \in Run, ClaimShape(w, q) PROVE FALSE
    BY <1>1, <1>2, <1>3, <2>4 DEF ClaimShape, OnlyRow
  <2>5. QED  BY <1>9, <2>1, <2>2, <2>3, <2>4
<1>10. QED
  BY <1>1, <1>3, <1>6, <1>7, <1>8, <1>9, StepShapes
     DEF HaltShape, InvokeShape, ReadShape, GraphResume, DecideShape, SameTables

LEMMA WorksNext ==
    ASSUME ControlInv, ControlInv', CoverInv, ReturnInv, Next, NEW v \in Worker
    PROVE  Works(v)'
<1>1. v \in Proc /\ v \notin Handler /\ Works(v)  BY Roles DEF ReturnInv
<1>2. ASSUME used'["lapses"] = 0, proc'[v] = proc[v] PROVE WorkerTurn(v)'
  BY <1>2, HeldRowStays DEF WorkerTurn
<1>3. CASE proc'[v] = proc[v]
  BY <1>1, <1>2, <1>3, RowsRemain DEF Works
<1>4. CASE proc'[v].run \notin Run
  BY <1>4, ProcessOK DEF Works, WorkerTurn, Proc, ControlInv, StateInv, WorkerOK
<1>5. ASSUME proc'[v].run = proc[v].run, proc'[v].pc \notin {"renew", "invoke", "append"}
      PROVE  Works(v)'
  BY <1>1, <1>5, RowsRemain DEF Works, WorkerTurn
<1>6. ASSUME proc'[v].run = proc[v].run, proc[v].run \in Run,
             proc[v].pc \in {"renew", "invoke", "append"},
             runs'[proc[v].run].status = runs[proc[v].run].status,
             runs'[proc[v].run].worker = runs[proc[v].run].worker,
             runs'[proc[v].run].lease \in {runs[proc[v].run].lease, "live"}
      PROVE  Works(v)'
  BY <1>1, <1>6, LapsesStay, RowsRemain DEF Works, WorkerTurn
<1>7. ASSUME NEW p \in Proc, PersistShape(p) PROVE Works(v)'
  <2>1. CASE p # v  BY <1>1, <1>3, <1>7, <2>1 DEF PersistShape, GoesTo, Alone
  <2>2. CASE p = v /\ proc'[v] = Idle  BY <1>4, <2>2, Roles
  <2>3. CASE p = v /\ proc[v].pc = "append" /\ SameTables /\ GoesTo(v, "append")
    BY <1>6, <1>7, <2>3 DEF PersistShape, SameTables, GoesTo
  <2>4. CASE p = v /\ proc'[v].run = proc[v].run
             /\ proc'[v].pc \in {"inbox", "request", "finish"}
    BY <1>5, <2>4
  <2>5. QED  BY <1>7, <2>1, <2>2, <2>3, <2>4 DEF PersistShape, GoesTo
<1>8. ASSUME NEW p \in Proc, HaltShape(p) PROVE Works(v)'
  <2>1. CASE p # v  BY <1>1, <1>3, <1>8, <2>1 DEF HaltShape, GoesTo, Alone
  <2>2. CASE p = v /\ proc'[v] = Idle  BY <1>4, <2>2, Roles
  <2>3. CASE p = v /\ (GoesTo(v, "idle") \/ GoesTo(v, "except"))
    BY <1>5, <2>3 DEF GoesTo
  <2>4. QED  BY <1>8, <2>1, <2>2, <2>3 DEF HaltShape
<1>9. ASSUME NEW w \in Worker, ReleaseShape(w) \/ FailShape(w) PROVE Works(v)'
  <2>1. CASE w # v
    BY <1>1, <1>3, <1>9, <2>1 DEF ReleaseShape, FailShape, GoesTo, Alone
  <2>2. CASE w = v
    BY <1>4, <1>5, <1>9, <2>2, Roles DEF ReleaseShape, FailShape, GoesTo
  <2>3. QED  BY <2>1, <2>2
<1>10. ASSUME NEW w \in Worker, RenewShape(w) \/ InvokeShape(w) PROVE Works(v)'
  <2>1. CASE w # v
    BY <1>1, <1>3, <1>10, <2>1 DEF RenewShape, InvokeShape, GoesTo, Alone
  <2>2. CASE w = v
    BY <1>6, <1>10, <2>2 DEF RenewShape, InvokeShape, GoesTo, SameTables
  <2>3. QED  BY <2>1, <2>2
<1>11. ASSUME NEW w \in Worker, NEW q \in Run, ClaimShape(w, q) PROVE Works(v)'
  <2>1. CASE w # v  BY <1>1, <1>3, <1>11, <2>1 DEF ClaimShape, Alone
  <2>2. CASE w = v  BY <1>11, <2>2 DEF ClaimShape, Works, WorkerTurn
  <2>3. QED  BY <2>1, <2>2
<1>12. ASSUME NEW h \in Handler,
              \/ ReadShape(h) \/ CheckoutShape(h) \/ RequestShape(h) \/ GraphResume(h)
              \/ \E i \in proc[h].targets : DecideShape(h, i)
       PROVE  Works(v)'
  <2>1. Alone(h)
    BY <1>12, ResumeFacts
       DEF ReadShape, CheckoutShape, RequestShape, DecideShape, GoesTo, Alone
  <2>2. QED  BY <1>1, <1>3, <2>1 DEF Alone
<1>13. ASSUME NEW r \in Run, TimeShape(r) PROVE Works(v)'
  BY <1>3, <1>13 DEF TimeShape
<1>14. QED
  BY <1>7, <1>8, <1>9, <1>10, <1>11, <1>12, <1>13, StepShapes

\* A step of another process leaves the run alone that a request is making.
LEMMA BirthStays ==
    ASSUME ControlInv, CoverInv, ReturnInv, Next, NEW g \in Handler,
           proc[g].pc = "save_checkout", proc'[g] = proc[g]
    PROVE  Born(g)'
<1> DEFINE r == proc[g].run
<1>1. r \in Run /\ g \in Proc  BY Roles
<1>2. Born(g)  BY DEF ReturnInv, Answers
<1>3. \A h \in Handler : proc[h].run = r => proc[h].pc # "append"
  BY <1>2 DEF ReturnInv, Answers, Born
<1>4. runs'[r].status = runs[r].status /\ runs'[r].checkpoint = runs[r].checkpoint
  <2>1. ASSUME NEW p \in Proc, PersistShape(p) PROVE runs'[r] = runs[r]
    <3>1. proc[p].pc = "append" => proc[p].run # r
      BY <1>2, <1>3, Roles DEF Born
    <3>2. QED  BY <1>1, <2>1, <3>1 DEF PersistShape, SameTables, OnlyRow
  <2>2. ASSUME NEW h \in Handler, CheckoutShape(h) \/ RequestShape(h)
        PROVE  runs'[r] = runs[r]
    <3>1. h # g
      <4>1. CASE CheckoutShape(h)  BY <4>1 DEF CheckoutShape, GoesTo
      <4>2. CASE RequestShape(h)  BY <4>2 DEF RequestShape
      <4>3. QED  BY <2>2, <4>1, <4>2
    <3>2. QED
      BY <1>1, <1>2, <2>2, <3>1 DEF CheckoutShape, RequestShape, OnlyRow, Born
  <2>3. ASSUME NEW w \in Worker,
               \/ ReleaseShape(w) \/ RenewShape(w) \/ FailShape(w)
               \/ \E q \in Run : ClaimShape(w, q)
        PROVE  runs'[r] = runs[r]
    BY <1>1, <1>2, <2>3
       DEF ReleaseShape, Stale, RenewShape, FailShape, ClaimShape, OnlyRow, Born
  <2>4. ASSUME NEW q \in Run, TimeShape(q)
        PROVE  runs'[r].status = runs[r].status /\ runs'[r].checkpoint = runs[r].checkpoint
    BY <1>1, <1>2, <2>4 DEF TimeShape, OnlyRow, Born
  <2>5. QED
    BY <2>1, <2>2, <2>3, <2>4, StepShapes
       DEF HaltShape, InvokeShape, ReadShape, GraphResume, DecideShape, SameTables
<1>5. \A w \in Worker : proc'[w].run \in {proc[w].run, NoRun} \/ runs[proc'[w].run].status = "pending"
  <2>1. SUFFICES ASSUME NEW w \in Worker
                 PROVE  \/ proc'[w].run \in {proc[w].run, NoRun}
                        \/ runs[proc'[w].run].status = "pending"
    OBVIOUS
  <2>2. w \in Proc /\ w \notin Handler /\ Idle.run = NoRun  BY Roles, IdleOK
  <2>3. ASSUME NEW h \in Handler, GraphResume(h) PROVE proc'[w] = proc[w]
    BY <2>2, <2>3, ResumeFacts
  <2>4. QED
    BY <2>2, <2>3, StepShapes
       DEF TimeShape, PersistShape, HaltShape, ReleaseShape, RenewShape, InvokeShape, FailShape,
           ClaimShape, ReadShape, CheckoutShape, RequestShape, DecideShape, GoesTo, Alone
<1>6. \A h \in Handler : proc'[h].pc = "save_checkout" =>
          proc'[h] = proc[h] \/ runs[proc'[h].run].status = "absent"
  <2>1. SUFFICES ASSUME NEW h \in Handler, proc'[h].pc = "save_checkout"
                 PROVE  proc'[h] = proc[h] \/ runs[proc'[h].run].status = "absent"
    OBVIOUS
  <2>2. h \in Proc /\ h \notin Worker /\ Idle.pc = "idle"  BY Roles
  <2>3. ASSUME NEW k \in Handler, GraphResume(k) PROVE proc'[h] = proc[h]
    BY <2>1, <2>2, <2>3, ResumeFacts
  <2>4. ASSUME NEW p \in Proc, PersistShape(p) PROVE proc'[h] = proc[h]
    <3>1. proc'[p].pc \in {"append", "inbox", "request", "finish", "idle"}
      BY <2>2, <2>4 DEF PersistShape, GoesTo
    <3>2. QED  BY <2>1, <2>2, <2>4, <3>1 DEF PersistShape, GoesTo, Alone
  <2>5. QED
    BY <2>1, <2>2, <2>3, <2>4, StepShapes
       DEF TimeShape, HaltShape, ReleaseShape, RenewShape, InvokeShape, FailShape,
           ClaimShape, ReadShape, CheckoutShape, RequestShape, DecideShape, GoesTo, Alone
<1>7. QED
  BY <1>1, <1>2, <1>4, <1>5, <1>6, ControlPlaneAssumption DEF Born

LEMMA AnswersNext ==
    ASSUME ControlInv, ControlInv', CoverInv, ReturnInv, Next, NEW g \in Handler
    PROVE  Answers(g)'
<1> DEFINE s == proc[g]
           u == proc'[g]
<1>1. g \in Proc /\ g \notin Worker /\ Answers(g) /\ Idle.pc = "idle"
  BY Roles DEF ReturnInv
<1>2. s.pc # "idle" => s.run \in Run  BY Roles
<1>3. CASE u = s
  <2>1. s.pc = "save_checkout" => Born(g)'  BY <1>3, BirthStays
  <2>2. QED  BY <1>1, <1>2, <1>3, <2>1, RowsRemain DEF Answers
<1>4. CASE u.pc \in {"idle", "inbox", "request", "finish", "load", "request_checkout"}
  BY <1>4 DEF Answers
<1>5. ASSUME NEW p \in Proc, Alone(p), p # g PROVE Answers(g)'
  BY <1>1, <1>3, <1>5 DEF Alone
<1>6. ASSUME NEW p \in Proc, PersistShape(p) PROVE Answers(g)'
  <2>1. CASE p # g  BY <1>5, <1>6, <2>1 DEF PersistShape, GoesTo
  <2>2. CASE p = g /\ s.pc = "append" /\ GoesTo(g, "append")
    BY <1>1, <1>2, <2>2, RowsRemain DEF Answers, GoesTo
  <2>3. CASE u.pc \in {"idle", "inbox", "request", "finish"}  BY <1>4, <2>3
  <2>4. QED  BY <1>1, <1>6, <2>1, <2>2, <2>3 DEF PersistShape, GoesTo
<1>7. ASSUME NEW p \in Proc, HaltShape(p) PROVE Answers(g)'
  BY <1>1, <1>4, <1>5, <1>7 DEF HaltShape, GoesTo
<1>8. ASSUME NEW w \in Worker,
             \/ ReleaseShape(w) \/ RenewShape(w) \/ InvokeShape(w) \/ FailShape(w)
             \/ \E r \in Run : ClaimShape(w, r)
      PROVE  Answers(g)'
  <2>1. Alone(w) /\ w \in Proc /\ w # g
    BY <1>1, <1>8 DEF ReleaseShape, RenewShape, InvokeShape, FailShape, ClaimShape, GoesTo, Proc
  <2>2. QED  BY <1>5, <2>1
<1>9. ASSUME NEW r \in Run, TimeShape(r) PROVE Answers(g)'
  BY <1>3, <1>9 DEF TimeShape
<1>10. ASSUME NEW h \in Handler, ReadShape(h) PROVE Answers(g)'
  <2>1. CASE h # g  BY <1>5, <1>10, <2>1, Roles DEF ReadShape
  <2>2. CASE h = g /\ u = Idle  BY <1>1, <1>4, <2>2
  <2>3. CASE h = g /\ u.pc = "decide"
    <3>1. runs[s.run].checkpoint # NoCheckpoint /\ u.run = s.run /\ UNCHANGED runs
      BY <1>1, <1>10, <2>3 DEF ReadShape, SameTables, Answers, Idle
    <3>2. QED  BY <2>3, <3>1 DEF Answers
  <2>4. QED  BY <1>10, <2>1, <2>2, <2>3 DEF ReadShape
<1>11. ASSUME NEW h \in Handler, NEW i \in proc[h].targets, DecideShape(h, i)
       PROVE  Answers(g)'
  <2>1. CASE h # g  BY <1>5, <1>11, <2>1, Roles DEF DecideShape
  <2>2. CASE h = g  BY <1>1, <1>11, <2>2 DEF DecideShape, Answers
  <2>3. QED  BY <2>1, <2>2
<1>12. ASSUME NEW h \in Handler, GraphResume(h) PROVE Answers(g)'
  <2>1. CASE h # g  BY <1>1, <1>3, <1>12, <2>1, ResumeFacts
  <2>2. CASE h = g
    <3>1. /\ s.pc = "decide" /\ u.pc = "append" /\ u.run = s.run /\ u.snapshot = s.snapshot
          /\ ~Resumable(s.snapshot) => u.final = s.snapshot
      BY <1>12, <2>2, ResumeFacts
    <3>2. UNCHANGED runs  BY <1>12 DEF GraphResume
    <3>3. QED  BY <1>1, <3>1, <3>2 DEF Answers
  <2>3. QED  BY <2>1, <2>2
<1>13. ASSUME NEW h \in Handler, CheckoutShape(h) PROVE Answers(g)'
  BY <1>4, <1>5, <1>13, Roles DEF CheckoutShape, GoesTo
<1>14. ASSUME NEW h \in Handler, RequestShape(h) PROVE Answers(g)'
  <2>1. CASE h # g  BY <1>5, <1>14, <2>1, Roles DEF RequestShape
  <2>2. CASE h = g /\ u.pc \in {"request_checkout", "load"}  BY <1>4, <2>2
  <2>3. CASE h = g /\ u.pc = "list"  BY <1>14, <2>3 DEF RequestShape, Answers
  <2>4. CASE h = g /\ u.pc = "save_checkout"
    <3>1. /\ u.run \in Run /\ runs[u.run].status = "absent"
          /\ runs'[u.run].status = "approval_required"
          /\ runs'[u.run].checkpoint = runs[u.run].checkpoint /\ Alone(g)
      BY <1>14, <2>4 DEF RequestShape
    <3>2. runs[u.run].checkpoint = NoCheckpoint
      BY <3>1 DEF CoverInv, RowCovered, Unsettled
    <3>3. \A w \in Worker : proc'[w].run # u.run
      BY <1>1, <3>1, Roles DEF ReturnInv, Works, Alone
    <3>4. \A h2 \in Handler : h2 # g /\ proc'[h2].pc = "save_checkout" => proc'[h2].run # u.run
      BY <1>1, <3>1, Roles DEF ReturnInv, Answers, Born, Alone
    <3>5. Born(g)'  BY <3>1, <3>2, <3>3, <3>4 DEF Born
    <3>6. QED  BY <2>4, <3>5 DEF Answers
  <2>5. QED  BY <1>14, <2>1, <2>2, <2>3, <2>4 DEF RequestShape
<1>15. QED
  BY <1>6, <1>7, <1>8, <1>9, <1>10, <1>11, <1>12, <1>13, <1>14, StepShapes

\* Whatever overlaps, dies or lapses: a request only resumes runs that were
\* executed and hands a settled snapshot back as it was, a run that is made for a
\* checkout is nobody else's, and a worker has its row until a lease lapses.
THEOREM ReturnInvHolds == Spec => []ReturnInv
<1>1. Init => ReturnInv
  <2>1. SUFFICES ASSUME Init PROVE ReturnInv  OBVIOUS
  <2>2. \A p \in Proc : proc[p].pc = "idle" /\ proc[p].run \notin Run
    BY <2>1, ControlPlaneAssumption DEF Init, Idle
  <2>3. QED  BY <2>2 DEF ReturnInv, Works, WorkerTurn, Answers, Proc
<1>2. ControlInv /\ ControlInv' /\ CoverInv /\ ReturnInv /\ [Next]_vars => ReturnInv'
  <2>1. ASSUME ReturnInv, UNCHANGED vars PROVE ReturnInv'
    BY <2>1 DEF ReturnInv, Works, WorkerTurn, Answers, Born, vars
  <2>2. ASSUME ControlInv, ControlInv', CoverInv, ReturnInv, Next PROVE ReturnInv'
    BY <2>2, WorksNext, AnswersNext DEF ReturnInv
  <2>3. QED  BY <2>1, <2>2
<1>3. QED  BY <1>1, <1>2, ControlInvHolds, CoverInvHolds, PTL DEF Spec

\* For any number of runs, workers, requests and faults, whatever overlaps: only
\* the except clause, a worker that outlived its lease, or a request whose
\* snapshot the row has left behind takes a settled run back.
THEOREM SettledUnlessHolds == Spec => SettledUnless
<1>1. ControlInv /\ CoverInv /\ ReturnInv /\ [Next]_vars =>
          [\A r \in Run :
              runs[r].status \in Terminal /\ runs'[r].status # runs[r].status =>
                  \E p \in Proc : Unsettles(p, r)]_vars
  <2>1. SUFFICES ASSUME ControlInv, CoverInv, ReturnInv, Next, NEW r \in Run,
                        runs[r].status \in Terminal, runs'[r].status # runs[r].status
                 PROVE  \E p \in Proc : Unsettles(p, r)
    OBVIOUS
  <2>2. ASSUME NEW p \in Proc, PersistShape(p) PROVE Unsettles(p, r)
    <3> DEFINE s == proc[p]
    <3>1. /\ s.pc = "append" /\ s.run = r /\ runs'[r].status = s.final.status
          /\ proc'[p].pc # "append"
      BY <2>1, <2>2 DEF PersistShape, SameTables, OnlyRow, GoesTo
    <3>2. CASE p \in Worker
      <4>1. used["lapses"] # 0
        BY <2>1, <3>1, <3>2 DEF ReturnInv, Works, WorkerTurn, Terminal
      <4>2. used["lapses"] \in Nat  BY <2>1 DEF ControlInv, TypeOK, Bound
      <4>3. QED  BY <3>1, <3>2, <4>1, <4>2 DEF Unsettles
    <3>3. CASE p \in Handler
      <4>1. Answers(p)  BY <2>1, <3>3 DEF ReturnInv
      <4>2. runs[r].checkpoint = s.snapshot /\ runs[r].checkpoint.status = runs[r].status => FALSE
        BY <2>1, <3>1, <4>1 DEF Answers, Resumable, Terminal
      <4>3. QED  BY <3>1, <3>3, <4>2 DEF Unsettles
    <3>4. QED  BY <3>2, <3>3 DEF Proc
  <2>3. ASSUME NEW w \in Worker, FailShape(w) PROVE Unsettles(w, r)
    BY <2>1, <2>3, Roles DEF FailShape, OnlyRow, Unsettles
  <2>4. ASSUME NEW h \in Handler, CheckoutShape(h) \/ RequestShape(h) PROVE FALSE
    <3>1. CASE CheckoutShape(h)
      BY <2>1, <3>1 DEF CheckoutShape, OnlyRow, ReturnInv, Answers, Born, Terminal
    <3>2. CASE RequestShape(h)  BY <2>1, <3>2 DEF RequestShape, OnlyRow, Terminal
    <3>3. QED  BY <2>4, <3>1, <3>2
  <2>5. ASSUME NEW w \in Worker,
               ReleaseShape(w) \/ RenewShape(w) \/ \E q \in Run : ClaimShape(w, q)
        PROVE  FALSE
    BY <2>1, <2>5 DEF ReleaseShape, Stale, RenewShape, ClaimShape, OnlyRow, Terminal
  <2>6. ASSUME NEW q \in Run, TimeShape(q) PROVE FALSE
    BY <2>1, <2>6 DEF TimeShape, OnlyRow, Terminal
  <2>7. QED
    BY <2>1, <2>2, <2>3, <2>4, <2>5, <2>6, Roles, StepShapes
       DEF HaltShape, InvokeShape, ReadShape, GraphResume, DecideShape, SameTables
<1>2. QED
  BY <1>1, ControlInvHolds, CoverInvHolds, ReturnInvHolds, PTL DEF Spec, SettledUnless

=============================================================================
