----------------------------- MODULE SerialProofs -----------------------------
(***************************************************************************)
(* What requests may rely on that do not overlap on a run: the theorems    *)
(* whose condition is OneAtATime, for any number of runs, workers and      *)
(* requests.  With two requests at work on one run ControlPlane breaks     *)
(* them; behind a call that raises or a lease that lapses it breaks those  *)
(* that assume NoFaults, and where requests come other than through the    *)
(* inbox those that assume DecideOnly.                                     *)
(***************************************************************************)
EXTENDS ControlPlaneProofs

\* A request that decides on a run, from the read of its approvals or its row
\* to the write of its checkpoint, or that makes a run for a checkout.
Resuming(h) == proc[h].pc \in {"list", "load", "decide", "append", "save_checkout"}

\* No two requests are at that for the same run: what a lock for each run would
\* see to.  The API has none; one request slot has the same effect.
OneAtATime ==
    \A g, h \in Handler :
        Resuming(g) /\ Resuming(h) /\ proc[g].run = proc[h].run => g = h

LEMMA Apart ==
    ASSUME OneAtATime, NEW h \in Handler, Resuming(h)
    PROVE  \A g \in Handler : g # h /\ Resuming(g) => proc[g].run # proc[h].run
  BY DEF OneAtATime

\* With a single request slot no two requests overlap at all.
LEMMA OneSlotIsOneAtATime ==
    ASSUME \A g, h \in Handler : g = h
    PROVE  OneAtATime
  BY DEF OneAtATime

-----------------------------------------------------------------------------
(* Recorded decisions.                                                     *)

\* The approvals that a request has yet to decide are its run's and undecided:
\* with one request at a time on a run nobody else decides them behind its back.
TargetsInv ==
    \A h \in Handler : \A i \in proc[h].targets :
        /\ proc[h].pc \in {"load", "decide"}
        /\ i \in 1..Len(approvals)
        /\ approvals[i].run = proc[h].run /\ approvals[i].decision = "none"

LEMMA TargetsNext ==
    ASSUME OneAtATime, ControlInv, ControlInv', TargetsInv, Next
    PROVE  TargetsInv'
<1>1. Len(approvals) \in Nat  BY DEF ControlInv, TypeOK
<1>2. \A h \in Handler : h \in Proc /\ h \notin Worker  BY ControlPlaneAssumption DEF Proc
<1>3. Idle.targets = {}  BY DEF Idle
<1>4. ASSUME UNCHANGED approvals \/ \E a : approvals' = Append(approvals, a),
             \A h \in Handler : proc'[h] = proc[h] \/ proc'[h].targets = {}
      PROVE  TargetsInv'
  BY <1>1, <1>4, AskOne DEF TargetsInv
<1>5. ASSUME NEW r \in Run, TimeShape(r) PROVE TargetsInv'
  BY <1>4, <1>5 DEF TimeShape
<1>6. ASSUME NEW p \in Proc, HaltShape(p) PROVE TargetsInv'
  BY <1>2, <1>3, <1>4, <1>6 DEF HaltShape, GoesTo, Alone, SameTables
<1>7. ASSUME NEW p \in Proc, PersistShape(p) PROVE TargetsInv'
  <2>1. p \in Handler => proc[p].targets = {}  BY <1>7 DEF PersistShape, TargetsInv
  <2>2. \A h \in Handler : proc'[h] = proc[h] \/ proc'[h].targets = {}
    BY <1>2, <1>3, <1>7, <2>1 DEF PersistShape, GoesTo, Alone
  <2>3. UNCHANGED approvals \/ \E a : approvals' = Append(approvals, a)
    BY <1>7 DEF PersistShape, SameTables
  <2>4. QED  BY <1>4, <2>2, <2>3
<1>8. ASSUME NEW w \in Worker,
             \/ ReleaseShape(w) \/ RenewShape(w) \/ InvokeShape(w) \/ FailShape(w)
             \/ \E r \in Run : ClaimShape(w, r)
      PROVE  TargetsInv'
  <2>1. UNCHANGED approvals /\ Alone(w)
    BY <1>8 DEF ReleaseShape, RenewShape, InvokeShape, FailShape, ClaimShape, GoesTo, SameTables
  <2>2. QED  BY <1>2, <1>4, <2>1 DEF Alone
<1>9. ASSUME NEW h \in Handler, ReadShape(h) PROVE TargetsInv'
  BY <1>2, <1>3, <1>9 DEF ReadShape, SameTables, Alone, TargetsInv, PendingFor
<1>10. ASSUME NEW h \in Handler, CheckoutShape(h) PROVE TargetsInv'
  <2>1. proc[h].targets = {}  BY <1>10 DEF CheckoutShape, TargetsInv
  <2>2. \A g \in Handler : proc'[g] = proc[g] \/ proc'[g].targets = {}
    BY <1>2, <1>10, <2>1 DEF CheckoutShape, GoesTo, Alone
  <2>3. UNCHANGED approvals \/ \E a : approvals' = Append(approvals, a)
    BY <1>10 DEF CheckoutShape
  <2>4. QED  BY <1>4, <2>2, <2>3
<1>11. ASSUME NEW h \in Handler, RequestShape(h) PROVE TargetsInv'
  BY <1>2, <1>11 DEF RequestShape, Alone, TargetsInv, Undecided
<1>12. ASSUME NEW h \in Handler, GraphResume(h) PROVE TargetsInv'
  <2>1. /\ proc'[h].targets = {} /\ \A q \in Proc : q # h => proc'[q] = proc[q]
    BY <1>12, ResumeFacts
  <2>2. UNCHANGED approvals  BY <1>12 DEF GraphResume
  <2>3. QED  BY <1>2, <1>4, <2>1, <2>2
<1>13. ASSUME NEW h \in Handler, NEW i \in proc[h].targets, DecideShape(h, i) PROVE TargetsInv'
  <2>1. i \in 1..Len(approvals) /\ approvals[i].run = proc[h].run  BY DEF TargetsInv
  <2>2. /\ Len(approvals') = Len(approvals)
        /\ \A j \in 1..Len(approvals) : j # i => approvals'[j] = approvals[j]
    BY <1>13, <2>1, DecideOne DEF DecideShape
  <2>3. ASSUME NEW g \in Handler, g # h, NEW j \in proc[g].targets PROVE j # i
    <3>1. Resuming(h) /\ Resuming(g) /\ approvals[j].run = proc[g].run
      BY <1>13 DEF DecideShape, TargetsInv, Resuming
    <3>2. QED  BY <2>1, <2>3, <3>1, Apart
  <2>4. /\ proc'[h].targets = proc[h].targets \ {i} /\ proc'[h].pc = "decide"
        /\ proc'[h].run = proc[h].run /\ \A g \in Handler : g # h => proc'[g] = proc[g]
    BY <1>2, <1>13 DEF DecideShape, Alone
  <2>5. QED  BY <2>2, <2>3, <2>4 DEF TargetsInv
<1>14. QED
  BY <1>5, <1>6, <1>7, <1>8, <1>9, <1>10, <1>11, <1>12, <1>13, StepShapes

LEMMA TargetsInvHolds ==
    Spec /\ []OneAtATime => []TargetsInv
<1>1. Init => TargetsInv  BY DEF Init, TargetsInv, Idle, Proc
<1>2. OneAtATime /\ ControlInv /\ ControlInv' /\ TargetsInv /\ [Next]_vars => TargetsInv'
  <2>1. ASSUME ControlInv, TargetsInv, UNCHANGED vars PROVE TargetsInv'
    BY <2>1 DEF TargetsInv, vars
  <2>2. QED  BY <2>1, TargetsNext
<1>3. QED  BY <1>1, <1>2, ControlInvHolds, PTL DEF Spec

-----------------------------------------------------------------------------
(* Gated calls.                                                            *)

\* No request died and no lease lapsed.
Calm == used["aborts"] = 0 /\ used["lapses"] = 0

\* A request works on the checkpoint as it is, of a run no worker can save or
\* claim, and what it saves has ended.
HandlerTurn(h) ==
    LET s == proc[h] IN
    /\ s.pc \in {"list", "decide"} => s.snapshot = runs[s.run].checkpoint
    /\ s.pc \in {"append", "save_checkout"} => runs[s.run].status \notin Unsettled
    /\ s.pc = "append" => s.final.status \in Terminal
    /\ s.pc = "save_checkout" => runs[s.run].checkpoint = NoCheckpoint
    /\ s.pc \notin {"inbox", "request"}

At(label, r) == \E h \in Handler : proc[h].pc = label /\ proc[h].run = r

\* The gated call is made once, and then its result is saved or about to be.
CallTurn(r) ==
    /\ Dispatches(r) <= 1
    /\ Dispatches(r) > 0 => runs[r].checkpoint.status \in Terminal \/ At("append", r)

SerialParts ==
    /\ \A w \in Worker : WorkerTurn(w)
    /\ \A h \in Handler : HandlerTurn(h)
    /\ \A r \in Run : CallTurn(r)

SerialInv == Calm => SerialParts

\* Calm does not come back.
LEMMA CalmBefore ==
    ASSUME ControlInv, Next, Calm'
    PROVE  Calm
  BY StepShapes
     DEF Calm, TimeShape, PersistShape, HaltShape, ReleaseShape, RenewShape, InvokeShape, FailShape,
         ClaimShape, ReadShape, CheckoutShape, RequestShape, GraphResume, DecideShape, Bound, Proc

\* A run that has not settled was never called for, and no request works on it.
LEMMA UnsettledIsFresh ==
    ASSUME ControlInv, CoverInv, SerialParts, NEW r \in Run, runs[r].status \in Unsettled
    PROVE  /\ runs[r].checkpoint = NoCheckpoint
           /\ Dispatches(r) = 0
           /\ \A h \in Handler :
                 proc[h].pc \in {"list", "decide", "append", "save_checkout"} => proc[h].run # r
<1>1. runs[r].checkpoint = NoCheckpoint  BY DEF CoverInv, RowCovered
<1>2. NoCheckpoint.status = "none" /\ ~Saved(NoCheckpoint)
  BY DEF NoCheckpoint, Saved, Returned, Terminal
<1>3. ASSUME NEW h \in Handler,
             proc[h].pc \in {"list", "decide", "append", "save_checkout"}
      PROVE  proc[h].run # r
  <2>1. HandlerTurn(h)  BY DEF SerialParts
  <2>2. proc[h].pc \in {"list", "decide"} => Saved(proc[h].snapshot)
    BY ProcessOK DEF HandlerOK, Proc
  <2>3. QED  BY <1>1, <1>2, <1>3, <2>1, <2>2 DEF HandlerTurn
<1>4. CallTurn(r)  BY DEF SerialParts
<1>5. Dispatches(r) \in Nat  BY CountsAreNat
<1>6. QED  BY <1>1, <1>2, <1>3, <1>4, <1>5 DEF CallTurn, At, Terminal

\* The calls stay in order as long as none is made, no result is lost and no
\* handler leaves its result behind.
LEMMA CallsKept ==
    ASSUME SerialParts, UNCHANGED dispatched,
           \A r \in Run : runs[r].checkpoint.status \in Terminal =>
                              runs'[r].checkpoint.status \in Terminal,
           \A h \in Handler : proc[h].pc = "append" =>
              \/ proc'[h].pc = "append" /\ proc'[h].run = proc[h].run
              \/ runs'[proc[h].run].checkpoint.status \in Terminal
    PROVE  \A r \in Run : CallTurn(r)'
<1>1. SUFFICES ASSUME NEW r \in Run PROVE CallTurn(r)'  OBVIOUS
<1>2. CallTurn(r) /\ Dispatches(r)' = Dispatches(r)  BY DEF SerialParts, Dispatches
<1>3. At("append", r) => At("append", r)' \/ runs'[r].checkpoint.status \in Terminal
  BY DEF At
<1>4. QED  BY <1>2, <1>3 DEF CallTurn

\* A worker that writes the row of its run, or of one that nobody works on.
LEMMA WorkerWrites ==
    ASSUME ControlInv, CoverInv, SerialParts, UNCHANGED dispatched,
           NEW w \in Worker, Alone(w),
           WorkerTurn(w)',
           \A r \in Run :
              \/ runs'[r] = runs[r]
              \/ /\ \A v \in Worker : v # w /\ proc[v].pc \in {"renew", "invoke", "append"} =>
                        proc[v].run # r
                 /\ \/ runs[r].status \in Unsettled
                    \/ /\ runs'[r].checkpoint = runs[r].checkpoint
                       /\ runs'[r].status \notin Unsettled
    PROVE  SerialParts'
<1>1. \A q \in Proc : q # w => proc'[q] = proc[q]  BY DEF Alone
<1>2. \A h \in Handler : h \in Proc /\ h # w  BY ControlPlaneAssumption DEF Proc
<1>3. ASSUME NEW v \in Worker PROVE WorkerTurn(v)'
  <2>1. CASE v # w /\ proc[v].pc \in {"renew", "invoke", "append"}
    <3>1. proc'[v] = proc[v] /\ proc[v].run \in Run
      BY <1>1, <2>1, ProcessOK DEF Proc, WorkerOK
    <3>2. WorkerTurn(v)  BY DEF SerialParts
    <3>3. runs'[proc[v].run] = runs[proc[v].run]  BY <2>1, <3>1
    <3>4. QED  BY <3>1, <3>2, <3>3 DEF WorkerTurn
  <2>2. QED  BY <1>1, <2>1 DEF WorkerTurn, Proc
<1>4. ASSUME NEW h \in Handler PROVE HandlerTurn(h)'
  <2>1. proc'[h] = proc[h] /\ HandlerTurn(h)  BY <1>1, <1>2 DEF SerialParts
  <2>2. CASE proc[h].pc \in {"list", "decide", "append", "save_checkout"}
    <3>1. proc[h].run \in Run  BY <2>2, ProcessOK DEF Proc, HandlerOK
    <3>2. runs[proc[h].run].status \notin Unsettled  BY <2>2, <3>1, UnsettledIsFresh
    <3>3. \/ runs'[proc[h].run] = runs[proc[h].run]
          \/ /\ runs'[proc[h].run].checkpoint = runs[proc[h].run].checkpoint
             /\ runs'[proc[h].run].status \notin Unsettled
      BY <3>1, <3>2
    <3>4. QED  BY <2>1, <3>2, <3>3 DEF HandlerTurn
  <2>3. QED  BY <2>1, <2>2 DEF HandlerTurn
<1>5. \A r \in Run : CallTurn(r)'
  <2>1. \A r \in Run : runs[r].checkpoint.status \in Terminal =>
                           runs'[r].checkpoint.status \in Terminal
    BY DEF CoverInv, RowCovered, NoCheckpoint, Terminal
  <2>2. QED  BY <1>1, <1>2, <2>1, CallsKept
<1>6. QED  BY <1>3, <1>4, <1>5 DEF SerialParts

\* A request that writes the row of a run no worker and no other request holds.
LEMMA HandlerWrites ==
    ASSUME ControlInv, SerialParts,
           NEW h \in Handler, Alone(h), HandlerTurn(h)',
           \A r \in Run :
              \/ runs'[r] = runs[r]
              \/ /\ runs[r].status # "running"
                 /\ \A g \in Handler :
                       g # h /\ proc[g].pc \in {"list", "decide", "append", "save_checkout"} =>
                           proc[g].run # r,
           \A r \in Run : CallTurn(r)'
    PROVE  SerialParts'
<1>1. ASSUME NEW w \in Worker PROVE WorkerTurn(w)'
  <2>1. proc'[w] = proc[w] /\ WorkerTurn(w)
    BY ControlPlaneAssumption DEF Alone, Proc, SerialParts
  <2>2. CASE proc[w].pc \in {"renew", "invoke", "append"}
    <3>1. proc[w].run \in Run  BY <2>2, ProcessOK DEF Proc, WorkerOK
    <3>2. runs'[proc[w].run] = runs[proc[w].run]  BY <2>1, <2>2, <3>1 DEF WorkerTurn
    <3>3. QED  BY <2>1, <3>2 DEF WorkerTurn
  <2>3. QED  BY <2>1, <2>2 DEF WorkerTurn
<1>2. ASSUME NEW g \in Handler, g # h PROVE HandlerTurn(g)'
  <2>1. proc'[g] = proc[g] /\ HandlerTurn(g)  BY <1>2 DEF Alone, Proc, SerialParts
  <2>2. CASE proc[g].pc \in {"list", "decide", "append", "save_checkout"}
    <3>1. proc[g].run \in Run  BY <2>2, ProcessOK DEF Proc, HandlerOK
    <3>2. runs'[proc[g].run] = runs[proc[g].run]  BY <1>2, <2>2, <3>1
    <3>3. QED  BY <2>1, <3>2 DEF HandlerTurn
  <2>3. QED  BY <2>1, <2>2 DEF HandlerTurn
<1>3. QED  BY <1>1, <1>2 DEF SerialParts

LEMMA TimeTurn ==
    ASSUME ControlInv, CoverInv, SerialParts, Calm', NEW r \in Run, TimeShape(r)
    PROVE  SerialParts'
<1>1. /\ UNCHANGED <<proc, dispatched>> /\ OnlyRow(r)
      /\ runs'[r].checkpoint = runs[r].checkpoint
      /\ \/ runs[r].status = "absent" /\ runs'[r].status = "pending"
         \/ /\ \A w \in Worker : proc[w].run # r
            /\ runs'[r].status = runs[r].status
  BY DEF TimeShape, Calm
<1>2. ASSUME NEW w \in Worker PROVE WorkerTurn(w)'
  <2>1. WorkerTurn(w)  BY DEF SerialParts
  <2>2. proc[w].pc \in {"renew", "invoke", "append"} => proc[w].run \in Run
    BY ProcessOK DEF Proc, WorkerOK
  <2>3. QED  BY <1>1, <2>1, <2>2 DEF WorkerTurn, OnlyRow
<1>3. ASSUME NEW h \in Handler PROVE HandlerTurn(h)'
  <2>1. HandlerTurn(h)  BY DEF SerialParts
  <2>2. proc[h].pc \in {"list", "decide", "append", "save_checkout"} => proc[h].run \in Run
    BY ProcessOK DEF Proc, HandlerOK
  <2>3. runs'[r].status \in Unsettled => runs[r].status \in Unsettled
    BY <1>1 DEF Unsettled
  <2>4. QED  BY <1>1, <2>1, <2>2, <2>3 DEF HandlerTurn, OnlyRow
<1>4. \A q \in Run : CallTurn(q)'  BY <1>1, CallsKept DEF OnlyRow
<1>5. QED  BY <1>2, <1>3, <1>4 DEF SerialParts

\* A process that writes no row, makes no call and keeps its place.
LEMMA QuietTurn ==
    ASSUME ControlInv, SerialParts, UNCHANGED <<runs, dispatched>>, NEW p \in Proc, Alone(p),
           p \in Worker => WorkerTurn(p)',
           p \in Handler => /\ HandlerTurn(p)'
                            /\ proc[p].pc = "append" =>
                                  proc'[p].pc = "append" /\ proc'[p].run = proc[p].run
    PROVE  SerialParts'
<1>1. \A q \in Proc : q # p => proc'[q] = proc[q]  BY DEF Alone
<1>2. ASSUME NEW w \in Worker PROVE WorkerTurn(w)'
  BY <1>1 DEF SerialParts, WorkerTurn, Proc
<1>3. ASSUME NEW h \in Handler PROVE HandlerTurn(h)'
  BY <1>1 DEF SerialParts, HandlerTurn, Proc
<1>4. \A r \in Run : CallTurn(r)'  BY <1>1, CallsKept DEF Proc
<1>5. QED  BY <1>2, <1>3, <1>4 DEF SerialParts

LEMMA HaltTurn ==
    ASSUME ControlInv, SerialParts, Calm', NEW p \in Proc, HaltShape(p)
    PROVE  SerialParts'
<1>1. Idle.pc = "idle"  BY DEF Idle
<1>2. p \in Worker /\ p \notin Handler /\ Alone(p) /\ UNCHANGED <<runs, dispatched>>
      /\ proc'[p].pc \in {"idle", "except"}
  BY <1>1, ProcessOK DEF HaltShape, GoesTo, SameTables, Calm, Proc
<1>3. QED  BY <1>2, QuietTurn DEF WorkerTurn

LEMMA PersistTurn ==
    ASSUME OneAtATime, ControlInv, CoverInv, SerialParts, NEW p \in Proc, PersistShape(p)
    PROVE  SerialParts'
<1> DEFINE s == proc[p]
           u == proc'[p]
<1>1. /\ p \in Worker => WorkerTurn(p) /\ p \notin Handler
      /\ p \in Handler => HandlerTurn(p) /\ p \notin Worker
      /\ s.run \in Run /\ UNCHANGED dispatched /\ Alone(p) /\ Idle.pc = "idle"
      /\ p \in Worker \/ p \in Handler
  BY ProcessOK DEF SerialParts, PersistShape, GoesTo, Proc, Idle
<1>2. CASE UNCHANGED runs /\ (s.pc = "append" => GoesTo(p, "append"))
  <2>1. p \in Worker => WorkerTurn(p)'
    BY <1>1, <1>2 DEF PersistShape, GoesTo, WorkerTurn
  <2>2. p \in Handler => /\ HandlerTurn(p)'
                         /\ s.pc = "append" => u.pc = "append" /\ u.run = s.run
    <3>1. SUFFICES ASSUME p \in Handler
                   PROVE  /\ HandlerTurn(p)'
                          /\ s.pc = "append" => u.pc = "append" /\ u.run = s.run
      OBVIOUS
    <3>2. s.pc \notin {"inbox", "request"} /\ (s.pc = "append" => s.final.status \in Terminal)
      BY <1>1, <3>1 DEF HandlerTurn
    <3>3. CASE s.pc = "append" /\ GoesTo(p, "append")
      BY <1>1, <1>2, <3>1, <3>3 DEF GoesTo, HandlerTurn
    <3>4. CASE s.pc = "finish" /\ u = Idle
      BY <1>1, <3>4 DEF HandlerTurn
    <3>5. QED  BY <1>2, <3>1, <3>2, <3>3, <3>4 DEF PersistShape
  <2>3. QED  BY <1>1, <1>2, <2>1, <2>2, QuietTurn
<1>3. CASE s.pc = "append" /\ OnlyRow(s.run)
             /\ runs'[s.run].status = s.final.status
             /\ runs'[s.run].checkpoint.status = s.final.status
             /\ GoesTo(p, IF s.final.status = "approval_required" THEN "inbox" ELSE "finish")
  <2>1. CASE p \in Worker
    <3>1. runs[s.run].status = "running" /\ runs[s.run].worker = p
      BY <1>1, <1>3, <2>1 DEF WorkerTurn
    <3>2. \A v \in Worker : v # p /\ proc[v].pc \in {"renew", "invoke", "append"} =>
             proc[v].run # s.run
      BY <3>1 DEF SerialParts, WorkerTurn
    <3>3. WorkerTurn(p)'  BY <1>3 DEF GoesTo, WorkerTurn
    <3>4. runs[s.run].status \in Unsettled  BY <3>1 DEF Unsettled
    <3>5. QED  BY <1>1, <1>3, <2>1, <3>2, <3>3, <3>4, WorkerWrites DEF OnlyRow
  <2>2. CASE p \in Handler
    <3>1. runs[s.run].status \notin Unsettled /\ s.final.status \in Terminal
      BY <1>1, <1>3, <2>2 DEF HandlerTurn
    <3>2. u.pc = "finish"  BY <1>3, <3>1 DEF GoesTo, Terminal
    <3>3. HandlerTurn(p)'  BY <3>2 DEF HandlerTurn
    <3>4. \A r \in Run : CallTurn(r)'
      <4>1. \A h \in Handler : h # p => proc'[h] = proc[h]  BY <1>1 DEF Alone, Proc
      <4>2. QED  BY <1>1, <1>3, <3>1, <4>1, CallsKept DEF OnlyRow, Terminal
    <3>5. \A g \in Handler :
             g # p /\ proc[g].pc \in {"list", "decide", "append", "save_checkout"} =>
                 proc[g].run # s.run
      BY <1>3, <2>2, Apart DEF Resuming
    <3>6. QED
      BY <1>1, <1>3, <2>2, <3>1, <3>3, <3>4, <3>5, HandlerWrites DEF OnlyRow, Unsettled
  <2>3. QED  BY <1>1, <2>1, <2>2
<1>4. QED  BY <1>2, <1>3 DEF PersistShape, SameTables

LEMMA WorkerTurns ==
    ASSUME ControlInv, CoverInv, SerialParts, Calm, NEW w \in Worker,
           \/ ReleaseShape(w) \/ RenewShape(w) \/ InvokeShape(w) \/ FailShape(w)
           \/ \E r \in Run : ClaimShape(w, r)
    PROVE  SerialParts'
<1> DEFINE Early == {"renew", "invoke", "append"}
<1>1. /\ w \in Proc /\ w \notin Handler /\ WorkerTurn(w)
      /\ \A v \in Worker : WorkerTurn(v)
      /\ \A v \in Worker : proc[v].pc \in Early => proc[v].run \in Run
  BY ProcessOK DEF SerialParts, Proc, WorkerOK
<1>2. UNCHANGED dispatched /\ Alone(w)
  BY DEF ReleaseShape, RenewShape, InvokeShape, FailShape, ClaimShape, SameTables, GoesTo
<1>3. CASE ReleaseShape(w)
  <2>1. WorkerTurn(w)'  BY <1>3 DEF ReleaseShape, GoesTo, WorkerTurn
  <2>2. \A r \in Run : Stale(r) =>
           /\ runs[r].status \in Unsettled
           /\ \A v \in Worker : proc[v].pc \in Early => proc[v].run # r
    BY <1>1 DEF Stale, Unsettled, WorkerTurn
  <2>3. QED  BY <1>2, <1>3, <2>1, <2>2, WorkerWrites DEF ReleaseShape
<1>4. CASE RenewShape(w)
  <2>1. WorkerTurn(w)'  BY <1>1, <1>4 DEF RenewShape, GoesTo, WorkerTurn
  <2>2. /\ runs[proc[w].run].status \in Unsettled
        /\ \A v \in Worker : v # w /\ proc[v].pc \in Early => proc[v].run # proc[w].run
    BY <1>1, <1>4 DEF RenewShape, Unsettled, WorkerTurn
  <2>3. QED  BY <1>2, <1>4, <2>1, <2>2, WorkerWrites DEF RenewShape, OnlyRow
<1>5. CASE InvokeShape(w)
  <2>1. WorkerTurn(w)'  BY <1>1, <1>5 DEF InvokeShape, WorkerTurn, SameTables
  <2>2. QED  BY <1>2, <1>5, <2>1, WorkerWrites DEF InvokeShape, SameTables
<1>6. CASE FailShape(w)
  <2>1. WorkerTurn(w)'  BY <1>6 DEF FailShape, WorkerTurn, Idle
  <2>2. \A v \in Worker : v # w => proc[v].run # proc[w].run
    BY <1>6 DEF FailShape, ControlInv, SoleWorker, Calm, Executing
  <2>3. "failed" \notin Unsettled  BY DEF Unsettled
  <2>4. QED  BY <1>2, <1>6, <2>1, <2>2, <2>3, WorkerWrites DEF FailShape, OnlyRow
<1>7. ASSUME NEW r \in Run, ClaimShape(w, r) PROVE SerialParts'
  <2>1. WorkerTurn(w)'  BY <1>7 DEF ClaimShape, WorkerTurn
  <2>2. /\ runs[r].status \in Unsettled
        /\ \A v \in Worker : proc[v].pc \in Early => proc[v].run # r
    BY <1>1, <1>7 DEF ClaimShape, Unsettled, WorkerTurn
  <2>3. QED  BY <1>2, <1>7, <2>1, <2>2, WorkerWrites DEF ClaimShape, OnlyRow
<1>8. QED  BY <1>3, <1>4, <1>5, <1>6, <1>7

LEMMA RequestTurns ==
    ASSUME OneAtATime, ControlInv, CoverInv, SerialParts, NEW h \in Handler,
           \/ ReadShape(h) \/ CheckoutShape(h) \/ RequestShape(h)
           \/ \E i \in proc[h].targets : DecideShape(h, i)
    PROVE  SerialParts'
<1> DEFINE s == proc[h]
           u == proc'[h]
<1>1. h \in Proc /\ h \notin Worker /\ HandlerTurn(h) /\ Idle.pc = "idle"
  BY ProcessOK DEF SerialParts, Proc, Idle
<1>2. UNCHANGED dispatched /\ Alone(h)
  BY DEF ReadShape, CheckoutShape, RequestShape, DecideShape, SameTables, GoesTo
<1>3. \A g \in Handler : g # h => proc'[g] = proc[g]  BY <1>2 DEF Alone, Proc
<1>4. CASE ReadShape(h)
  <2>1. HandlerTurn(h)' /\ UNCHANGED runs /\ s.pc # "append"
    BY <1>1, <1>4 DEF ReadShape, HandlerTurn, SameTables
  <2>2. QED  BY <1>1, <1>2, <2>1, QuietTurn
<1>5. ASSUME NEW i \in s.targets, DecideShape(h, i) PROVE SerialParts'
  <2>1. HandlerTurn(h)' /\ UNCHANGED runs /\ s.pc # "append"
    BY <1>1, <1>5 DEF DecideShape, HandlerTurn
  <2>2. QED  BY <1>1, <1>2, <2>1, QuietTurn
<1>6. CASE CheckoutShape(h) /\ UNCHANGED runs
  <2>1. HandlerTurn(h)' /\ s.pc # "append"
    BY <1>6 DEF CheckoutShape, GoesTo, HandlerTurn
  <2>2. QED  BY <1>1, <1>2, <1>6, <2>1, QuietTurn
<1>7. CASE CheckoutShape(h) /\ s.pc = "save_checkout"
  <2>1. /\ OnlyRow(s.run) /\ u.pc = "request_checkout"
        /\ runs[s.run].status \notin Unsettled /\ runs[s.run].checkpoint = NoCheckpoint
    BY <1>1, <1>7 DEF CheckoutShape, GoesTo, HandlerTurn
  <2>2. HandlerTurn(h)'  BY <2>1 DEF HandlerTurn
  <2>3. \A r \in Run : CallTurn(r)'
    BY <1>2, <1>3, <1>7, <2>1, CallsKept DEF OnlyRow, NoCheckpoint, Terminal
  <2>4. \A g \in Handler :
           g # h /\ proc[g].pc \in {"list", "decide", "append", "save_checkout"} =>
               proc[g].run # s.run
    BY <1>7, Apart DEF Resuming
  <2>5. QED  BY <1>2, <2>1, <2>2, <2>3, <2>4, HandlerWrites DEF OnlyRow, Unsettled
<1>8. CASE RequestShape(h)
  <2>1. \A r \in Run : CallTurn(r)'
    <3>1. \A r \in Run : runs'[r].checkpoint = runs[r].checkpoint
      BY <1>8 DEF RequestShape, OnlyRow
    <3>2. s.pc = "idle"  BY <1>8 DEF RequestShape
    <3>3. QED  BY <1>2, <1>3, <3>1, <3>2, CallsKept
  <2>2. HandlerTurn(h)'
    <3>1. CASE u.pc = "save_checkout"
      <4>1. /\ u.run \in Run /\ runs[u.run].status = "absent"
            /\ runs'[u.run].status = "approval_required"
            /\ runs'[u.run].checkpoint = runs[u.run].checkpoint
        BY <1>8, <3>1 DEF RequestShape
      <4>2. runs[u.run].checkpoint = NoCheckpoint  BY <4>1, UnsettledIsFresh DEF Unsettled
      <4>3. QED  BY <3>1, <4>1, <4>2 DEF HandlerTurn, Unsettled
    <3>2. CASE u.pc \in {"request_checkout", "list", "load"}
      BY <1>8, <3>2 DEF RequestShape, HandlerTurn
    <3>3. QED  BY <1>8, <3>1, <3>2 DEF RequestShape
  <2>3. ASSUME NEW r \in Run
        PROVE  \/ runs'[r] = runs[r]
               \/ /\ runs[r].status # "running"
                  /\ \A g \in Handler :
                        proc[g].pc \in {"list", "decide", "append", "save_checkout"} =>
                            proc[g].run # r
    <3>1. runs'[r] = runs[r] \/ runs[r].status = "absent"
      BY <1>8 DEF RequestShape, OnlyRow
    <3>2. QED  BY <3>1, UnsettledIsFresh DEF Unsettled
  <2>4. QED  BY <1>2, <2>1, <2>2, <2>3, HandlerWrites
<1>9. QED  BY <1>4, <1>5, <1>6, <1>7, <1>8 DEF CheckoutShape

\* Only a paused checkpoint is executed, and no call was made for it yet.
LEMMA FirstCall ==
    ASSUME OneAtATime, ControlInv, CoverInv, SerialParts, NEW h \in Handler, GraphResume(h)
    PROVE  /\ proc[h].snapshot = runs[proc[h].run].checkpoint
           /\ runs[proc[h].run].status \notin Unsettled
           /\ Resumable(proc[h].snapshot) => Dispatches(proc[h].run) = 0
<1> DEFINE s == proc[h]
<1>1. s.pc = "decide" /\ s.run \in Run /\ Saved(s.snapshot)  BY ResumeFacts
<1>2. s.snapshot = runs[s.run].checkpoint  BY <1>1 DEF SerialParts, HandlerTurn
<1>3. runs[s.run].status \notin Unsettled  BY <1>1, UnsettledIsFresh
<1>4. ~At("append", s.run)  BY <1>1, Apart DEF At, Resuming
<1>5. Dispatches(s.run) \in Nat  BY <1>1, CountsAreNat
<1>6. Resumable(s.snapshot) => ~(Dispatches(s.run) > 0)
  BY <1>1, <1>2, <1>4 DEF SerialParts, CallTurn, Resumable, Terminal
<1>7. QED  BY <1>2, <1>3, <1>5, <1>6

LEMMA ResumeTurn ==
    ASSUME OneAtATime, ControlInv, CoverInv, SerialParts, NEW h \in Handler, GraphResume(h)
    PROVE  SerialParts'
<1> DEFINE s == proc[h]
           u == proc'[h]
<1>1. /\ s.pc = "decide" /\ s.run \in Run /\ h \in Proc /\ Alone(h) /\ Saved(s.snapshot)
      /\ u.pc = "append" /\ u.run = s.run
  BY ResumeFacts DEF Alone, Proc
<1>2. UNCHANGED runs  BY DEF GraphResume
<1>3. u.final.status \in Terminal
  <2>1. CASE Executes(h)  BY <2>1, ResumeFacts DEF Terminal
  <2>2. CASE Resumable(s.snapshot) /\ ~Executes(h)  BY <2>2, ResumeFacts DEF Terminal
  <2>3. CASE ~Resumable(s.snapshot)
    <3>1. u.final = s.snapshot  BY <2>3, ResumeFacts
    <3>2. QED  BY <1>1, <2>3, <3>1 DEF Saved, Returned, Resumable
  <2>4. QED  BY <2>1, <2>2, <2>3
<1>4. HandlerTurn(h)'  BY <1>1, <1>2, <1>3, FirstCall DEF HandlerTurn
<1>5. \A r \in Run : CallTurn(r)'
  <2>1. CASE Executes(h)
    <3>1. PICK r0 \in Run : r0 = s.run  BY <1>1
    <3>2. PICK a0 \in Action : a0 = s.snapshot.pending  BY <2>1, ResumeFacts
    <3>3. dispatched' = [dispatched EXCEPT ![r0][a0] = @ + 1]
      BY <2>1, <3>1, <3>2, ResumeFacts
    <3>4. /\ Dispatches(r0)' = Dispatches(r0) + 1
          /\ \A r \in Run : r # r0 => Dispatches(r)' = Dispatches(r)
      BY <3>3, DispatchCounted
    <3>5. Dispatches(r0) = 0  BY <2>1, <3>1, FirstCall DEF Executes
    <3>6. CallTurn(r0)'  BY <1>1, <3>1, <3>4, <3>5 DEF CallTurn, At
    <3>7. ASSUME NEW r \in Run, r # r0 PROVE CallTurn(r)'
      <4>1. \A g \in Handler : g # h => proc'[g] = proc[g]  BY <1>1 DEF Alone, Proc
      <4>2. At("append", r) => At("append", r)'  BY <1>1, <4>1 DEF At
      <4>3. CallTurn(r)  BY DEF SerialParts
      <4>4. QED  BY <1>2, <3>4, <3>7, <4>2, <4>3 DEF CallTurn
    <3>8. QED  BY <3>6, <3>7
  <2>2. CASE ~Executes(h)
    <3>1. UNCHANGED dispatched  BY <2>2, ResumeFacts
    <3>2. \A g \in Handler : g # h => proc'[g] = proc[g]  BY <1>1 DEF Alone, Proc
    <3>3. QED  BY <1>1, <1>2, <3>1, <3>2, CallsKept
  <2>3. QED  BY <2>1, <2>2
<1>6. QED  BY <1>1, <1>2, <1>4, <1>5, HandlerWrites

LEMMA SerialNext ==
    ASSUME OneAtATime, ControlInv, CoverInv, SerialInv, Next
    PROVE  SerialInv'
<1>1. SUFFICES ASSUME Calm' PROVE SerialParts'  BY DEF SerialInv
<1>2. Calm /\ SerialParts  BY <1>1, CalmBefore DEF SerialInv
<1>3. QED
  BY <1>1, <1>2, TimeTurn, HaltTurn, PersistTurn, WorkerTurns, RequestTurns, ResumeTurn, StepShapes

\* The inductive invariant of requests that do not overlap on a run: a worker that
\* has yet to save holds its run, a request works on the checkpoint as it is, and
\* a gated call is made once and then has its result saved.
THEOREM SerialInvHolds ==
    Spec /\ []OneAtATime => []SerialInv
<1>1. Init => SerialInv
  <2>1. SUFFICES ASSUME Init PROVE SerialParts  BY DEF SerialInv
  <2>2. \A p \in Proc : proc[p].pc = "idle"  BY <2>1 DEF Init, Idle
  <2>3. \A r \in Run : Dispatches(r) = 0  BY <2>1 DEF Init, Dispatches, Action
  <2>4. QED
    BY <2>2, <2>3 DEF SerialParts, WorkerTurn, HandlerTurn, CallTurn, Proc
<1>2. OneAtATime /\ ControlInv /\ CoverInv /\ SerialInv /\ [Next]_vars => SerialInv'
  <2>1. ASSUME SerialInv, UNCHANGED vars PROVE SerialInv'
    BY <2>1 DEF vars, SerialInv, SerialParts, Calm, WorkerTurn, HandlerTurn, CallTurn, At,
                Dispatches
  <2>2. QED  BY <2>1, SerialNext
<1>3. QED  BY <1>1, <1>2, ControlInvHolds, CoverInvHolds, PTL DEF Spec

\* When requests do not overlap on a run, its gated tool is called at most once,
\* whatever workers crash, raise and race, and whatever is proposed, until a
\* request dies or a lease lapses (RunGraph.resume behind
\* _resume_run_with_decision).
THEOREM AtMostOnceExecutionHolds ==
    Spec /\ []OneAtATime => [](Calm => AtMostOnceExecution)
<1>1. SerialInv => (Calm => AtMostOnceExecution)
  BY DEF SerialInv, SerialParts, CallTurn, AtMostOnceExecution
<1>2. QED  BY <1>1, SerialInvHolds, PTL

-----------------------------------------------------------------------------
(* Runs that have ended.                                                   *)

\* No exception was raised in a worker either.
Smooth == Calm /\ used["errors"] = 0

\* The status column agrees with the checkpoint.
RowAgrees(r) ==
    LET row == runs[r] IN
    /\ row.status \in Terminal => row.checkpoint.status = row.status
    /\ row.status = "approval_required" =>
          row.checkpoint.status = "approval_required" \/ At("save_checkout", r)

\* What a request is about to save over a run that has ended changes nothing.
FinalAgrees(h) ==
    LET row == runs[proc[h].run] IN
    proc[h].pc = "append" /\ row.status \in Terminal => proc[h].final.status = row.status

SmoothParts ==
    /\ \A w \in Worker : proc[w].pc # "except"
    /\ \A r \in Run : RowAgrees(r)
    /\ \A h \in Handler : FinalAgrees(h)

SmoothInv == Smooth => SmoothParts

LEMMA SmoothBefore ==
    ASSUME ControlInv, Next, Smooth'
    PROVE  Smooth
<1>1. Calm  BY CalmBefore DEF Smooth
<1>2. used["errors"] = 0
  BY StepShapes
     DEF Smooth, TimeShape, PersistShape, HaltShape, ReleaseShape, RenewShape, InvokeShape,
         FailShape, ClaimShape, ReadShape, CheckoutShape, RequestShape, GraphResume, DecideShape,
         Bound, Proc
<1>3. QED  BY <1>1, <1>2 DEF Smooth

\* Where the fields of a run and of a process come from.
LEMMA AtItsRun ==
    ASSUME ControlInv
    PROVE  /\ \A w \in Worker : proc[w].pc \notin {"idle", "claim"} => proc[w].run \in Run
           /\ \A h \in Handler : proc[h].pc # "idle" => proc[h].run \in Run
           /\ \A w \in Worker : w \in Proc /\ w \notin Handler
           /\ \A h \in Handler : h \in Proc /\ h \notin Worker
           /\ Idle.pc = "idle"
  BY ProcessOK DEF Proc, WorkerOK, HandlerOK, Idle

\* A step that keeps the status of every run that is settled, with its
\* checkpoint, and takes no handler out of or into its critical labels.
LEMMA SettledStay ==
    ASSUME ControlInv, SerialParts, SmoothParts,
           \A r \in Run :
              \/ runs'[r].status \notin Terminal \cup {"approval_required"}
              \/ runs'[r].status = runs[r].status /\ runs'[r].checkpoint = runs[r].checkpoint
              \/ runs'[r].status = runs'[r].checkpoint.status /\ runs[r].status \in Unsettled,
           \A h \in Handler : proc'[h] = proc[h],
           \A w \in Worker : proc'[w].pc # "except"
    PROVE  SmoothParts'
<1>1. ASSUME NEW r \in Run PROVE RowAgrees(r)'
  <2>1. RowAgrees(r)  BY DEF SmoothParts
  <2>2. At("save_checkout", r) => At("save_checkout", r)'  BY DEF At
  <2>3. QED  BY <2>1, <2>2 DEF RowAgrees, Terminal
<1>2. ASSUME NEW h \in Handler PROVE FinalAgrees(h)'
  <2>1. FinalAgrees(h) /\ HandlerTurn(h)  BY DEF SmoothParts, SerialParts
  <2>2. proc[h].pc = "append" => proc[h].run \in Run  BY AtItsRun
  <2>3. QED  BY <2>1, <2>2 DEF FinalAgrees, HandlerTurn, Terminal
<1>3. QED  BY <1>1, <1>2 DEF SmoothParts

LEMMA WorkersSmooth ==
    ASSUME ControlInv, CoverInv, SerialParts, SmoothParts, NEW w \in Worker,
           \/ ReleaseShape(w) \/ RenewShape(w) \/ InvokeShape(w) \/ FailShape(w)
           \/ \E r \in Run : ClaimShape(w, r)
    PROVE  SmoothParts'
<1>1. /\ \A h \in Handler : proc'[h] = proc[h]
      /\ \A v \in Worker : v # w => proc'[v] = proc[v]
  BY AtItsRun
     DEF ReleaseShape, RenewShape, InvokeShape, FailShape, ClaimShape, GoesTo, Alone
<1>2. proc'[w].pc # "except" /\ ~FailShape(w)
  BY DEF ReleaseShape, RenewShape, InvokeShape, FailShape, ClaimShape, GoesTo, SmoothParts
<1>3. \A v \in Worker : proc'[v].pc # "except"  BY <1>1, <1>2 DEF SmoothParts
<1>4. \A r \in Run :
         \/ runs'[r].status \notin Terminal \cup {"approval_required"}
         \/ runs'[r].status = runs[r].status /\ runs'[r].checkpoint = runs[r].checkpoint
  BY <1>2 DEF ReleaseShape, RenewShape, InvokeShape, ClaimShape, OnlyRow, SameTables, Terminal
<1>5. QED  BY <1>1, <1>3, <1>4, SettledStay

\* A step of one request, as the others see it.
LEMMA OthersSmooth ==
    ASSUME SmoothParts, NEW h \in Handler, Alone(h), FinalAgrees(h)',
           \A g \in Handler : g # h /\ proc[g].pc = "append" =>
               runs'[proc[g].run] = runs[proc[g].run]
    PROVE  /\ \A g \in Handler : FinalAgrees(g)'
           /\ \A r \in Run :
                 At("save_checkout", r) /\ ~(proc[h].pc = "save_checkout" /\ proc[h].run = r) =>
                     At("save_checkout", r)'
<1>1. \A g \in Handler : g # h => proc'[g] = proc[g]  BY DEF Alone, Proc
<1>2. ASSUME NEW g \in Handler, g # h PROVE FinalAgrees(g)'
  BY <1>1, <1>2 DEF SmoothParts, FinalAgrees
<1>3. QED  BY <1>1, <1>2 DEF At

LEMMA PersistSmooth ==
    ASSUME OneAtATime, ControlInv, CoverInv, SerialParts, SmoothParts, NEW p \in Proc,
           PersistShape(p)
    PROVE  SmoothParts'
<1> DEFINE s == proc[p]
<1>1. \A w \in Worker : proc'[w].pc # "except"
  BY AtItsRun DEF PersistShape, GoesTo, Alone, SmoothParts, Proc
<1>2. s.run \in Run /\ Alone(p)  BY DEF PersistShape, GoesTo
<1>3. CASE p \in Worker
  <2>1. \A h \in Handler : proc'[h] = proc[h]  BY <1>2, <1>3, AtItsRun DEF Alone
  <2>2. s.pc = "append" => runs[s.run].status \in Unsettled
    BY <1>3 DEF SerialParts, WorkerTurn, Unsettled
  <2>3. \A r \in Run :
           \/ runs'[r].status = runs[r].status /\ runs'[r].checkpoint = runs[r].checkpoint
           \/ runs'[r].status = runs'[r].checkpoint.status /\ runs[r].status \in Unsettled
    BY <2>2 DEF PersistShape, OnlyRow, SameTables
  <2>4. QED  BY <1>1, <2>1, <2>3, SettledStay
<1>4. CASE p \in Handler
  <2>1. \A g \in Handler : g # p /\ proc[g].pc = "append" =>
            runs'[proc[g].run] = runs[proc[g].run]
    BY <1>4, Apart, AtItsRun DEF PersistShape, SameTables, OnlyRow, Resuming
  <2>2. s.pc \in {"append", "finish"} /\ (s.pc = "append" => s.final.status \in Terminal)
    BY <1>4 DEF PersistShape, SerialParts, HandlerTurn
  <2>3. FinalAgrees(p)'
    <3>1. CASE s.pc = "append" /\ SameTables /\ GoesTo(p, "append")
      BY <1>4, <3>1 DEF SameTables, GoesTo, SmoothParts, FinalAgrees
    <3>2. CASE proc'[p].pc # "append"  BY <3>2 DEF FinalAgrees
    <3>3. QED  BY <2>2, <3>1, <3>2, AtItsRun DEF PersistShape, GoesTo
  <2>4. /\ \A g \in Handler : FinalAgrees(g)'
        /\ \A r \in Run : At("save_checkout", r) => At("save_checkout", r)'
    BY <1>2, <1>4, <2>1, <2>2, <2>3, OthersSmooth
  <2>5. ASSUME NEW r \in Run PROVE RowAgrees(r)'
    <3>1. RowAgrees(r)  BY DEF SmoothParts
    <3>2. \/ runs'[r] = runs[r]
          \/ runs'[r].status = runs'[r].checkpoint.status /\ runs'[r].status \in Terminal
      BY <2>2 DEF PersistShape, OnlyRow, SameTables
    <3>3. QED  BY <2>4, <3>1, <3>2 DEF RowAgrees, Terminal
  <2>6. QED  BY <1>1, <2>4, <2>5 DEF SmoothParts
<1>5. QED  BY <1>3, <1>4 DEF Proc

LEMMA RequestsSmooth ==
    ASSUME OneAtATime, ControlInv, CoverInv, SerialParts, SmoothParts, NEW h \in Handler,
           \/ ReadShape(h) \/ CheckoutShape(h) \/ RequestShape(h)
           \/ \E i \in proc[h].targets : DecideShape(h, i)
    PROVE  SmoothParts'
<1> DEFINE s == proc[h]
           u == proc'[h]
<1>1. Alone(h)  BY DEF ReadShape, CheckoutShape, RequestShape, DecideShape, GoesTo
<1>2. \A w \in Worker : proc'[w].pc # "except"
  BY AtItsRun DEF ReadShape, CheckoutShape, RequestShape, DecideShape, GoesTo, Alone, SmoothParts
<1>3. u.pc # "append"
  BY AtItsRun DEF ReadShape, CheckoutShape, RequestShape, DecideShape, GoesTo
<1>4. FinalAgrees(h)'  BY <1>3 DEF FinalAgrees
<1>5. ASSUME NEW g \in Handler, g # h, proc[g].pc = "append"
      PROVE  runs'[proc[g].run] = runs[proc[g].run]
  <2>1. proc[g].run \in Run  BY <1>5, AtItsRun
  <2>2. CASE ReadShape(h) \/ \E i \in s.targets : DecideShape(h, i)
    BY <2>2 DEF ReadShape, DecideShape, SameTables
  <2>3. CASE CheckoutShape(h)
    BY <1>5, <2>1, <2>3, Apart DEF CheckoutShape, OnlyRow, Resuming
  <2>4. CASE RequestShape(h)
    <3>1. runs[proc[g].run].status # "absent"
      BY <1>5, <2>1, UnsettledIsFresh DEF Unsettled
    <3>2. QED  BY <2>1, <2>4, <3>1 DEF RequestShape, OnlyRow
  <2>5. QED  BY <2>2, <2>3, <2>4
<1>6. /\ \A g \in Handler : FinalAgrees(g)'
      /\ \A r \in Run : At("save_checkout", r) /\ ~(s.pc = "save_checkout" /\ s.run = r) =>
             At("save_checkout", r)'
  BY <1>1, <1>4, <1>5, OthersSmooth
<1>7. ASSUME NEW r \in Run PROVE RowAgrees(r)'
  <2>1. RowAgrees(r)  BY DEF SmoothParts
  <2>2. CASE ReadShape(h) \/ \E i \in s.targets : DecideShape(h, i)
    <3>1. runs' = runs /\ s.pc # "save_checkout"
      BY <2>2 DEF ReadShape, DecideShape, SameTables
    <3>2. QED  BY <1>6, <2>1, <3>1 DEF RowAgrees
  <2>3. CASE CheckoutShape(h)
    <3>1. CASE runs'[r] = runs[r] /\ ~(s.pc = "save_checkout" /\ s.run = r)
      BY <1>6, <2>1, <3>1 DEF RowAgrees
    <3>2. CASE s.pc = "save_checkout" /\ s.run = r
      BY <2>3, <3>2 DEF CheckoutShape, RowAgrees, Terminal
    <3>3. QED  BY <2>3, <3>1, <3>2 DEF CheckoutShape, OnlyRow
  <2>4. CASE RequestShape(h)
    <3>1. s.pc = "idle"  BY <2>4 DEF RequestShape
    <3>2. \/ runs'[r] = runs[r]
          \/ /\ runs'[r].status = "approval_required"
             /\ u.pc = "save_checkout" /\ u.run = r
      BY <2>4 DEF RequestShape, OnlyRow
    <3>3. CASE runs'[r] = runs[r]  BY <1>6, <2>1, <3>1, <3>3 DEF RowAgrees
    <3>4. QED  BY <3>2, <3>3 DEF RowAgrees, At, Terminal
  <2>5. QED  BY <2>2, <2>3, <2>4
<1>8. QED  BY <1>2, <1>6, <1>7 DEF SmoothParts

\* A resume on a run that has ended hands its state back.
LEMMA EndedIsReturned ==
    ASSUME OneAtATime, ControlInv, CoverInv, SerialParts, SmoothParts, NEW h \in Handler,
           GraphResume(h)
    PROVE  LET row == runs[proc[h].run] IN
           /\ row.status \in Terminal \cup {"approval_required"}
           /\ row.status \in Terminal => ~Resumable(proc[h].snapshot)
           /\ row.status = "approval_required" => Resumable(proc[h].snapshot)
<1> DEFINE s == proc[h]
<1>1. s.pc = "decide" /\ s.run \in Run  BY ResumeFacts
<1>2. s.snapshot = runs[s.run].checkpoint /\ runs[s.run].status \notin Unsettled
  BY FirstCall
<1>3. ~At("save_checkout", s.run)  BY <1>1, Apart DEF At, Resuming
<1>4. RowAgrees(s.run)  BY <1>1 DEF SmoothParts
<1>5. runs[s.run].status \in RunStatus  BY <1>1, RunOK DEF RunRow
<1>6. QED  BY <1>2, <1>3, <1>4, <1>5 DEF RowAgrees, Resumable, RunStatus, Terminal, Unsettled

LEMMA ResumeSmooth ==
    ASSUME OneAtATime, ControlInv, CoverInv, SerialParts, SmoothParts, NEW h \in Handler,
           GraphResume(h)
    PROVE  SmoothParts'
<1> DEFINE s == proc[h]
           u == proc'[h]
<1>1. /\ s.pc = "decide" /\ s.run \in Run
      /\ u.pc = "append" /\ u.run = s.run
      /\ \A q \in Proc : q # h => proc'[q] = proc[q]
      /\ ~Resumable(s.snapshot) => u.final = s.snapshot
  BY ResumeFacts
<1>2. UNCHANGED runs  BY DEF GraphResume
<1>3. Alone(h) /\ \A w \in Worker : proc'[w].pc # "except"
  BY <1>1, AtItsRun DEF SmoothParts, Alone
<1>4. FinalAgrees(h)'
  <2>1. RowAgrees(s.run) /\ s.snapshot = runs[s.run].checkpoint
    BY <1>1, FirstCall DEF SmoothParts
  <2>2. QED  BY <1>1, <1>2, <2>1, EndedIsReturned DEF FinalAgrees, RowAgrees
<1>5. /\ \A g \in Handler : FinalAgrees(g)'
      /\ \A r \in Run : At("save_checkout", r) => At("save_checkout", r)'
  BY <1>1, <1>2, <1>3, <1>4, OthersSmooth
<1>6. \A r \in Run : RowAgrees(r)'  BY <1>2, <1>5 DEF SmoothParts, RowAgrees
<1>7. QED  BY <1>3, <1>5, <1>6 DEF SmoothParts

LEMMA SmoothNext ==
    ASSUME OneAtATime, ControlInv, CoverInv, SerialInv, SmoothInv, Next
    PROVE  SmoothInv'
<1>1. SUFFICES ASSUME Smooth' PROVE SmoothParts'  BY DEF SmoothInv
<1>2. SerialParts /\ SmoothParts
  BY <1>1, SmoothBefore DEF SmoothInv, SerialInv, Smooth
<1>3. ASSUME NEW r \in Run, TimeShape(r) PROVE SmoothParts'
  <2>1. \A q \in Run :
           \/ runs'[q].status \notin Terminal \cup {"approval_required"}
           \/ runs'[q].status = runs[q].status /\ runs'[q].checkpoint = runs[q].checkpoint
    BY <1>3 DEF TimeShape, OnlyRow, Terminal
  <2>2. UNCHANGED proc  BY <1>3 DEF TimeShape
  <2>3. QED  BY <1>2, <2>1, <2>2, SettledStay DEF SmoothParts
<1>4. ASSUME NEW p \in Proc, HaltShape(p) PROVE SmoothParts'
  <2>1. p \in Worker /\ proc'[p].pc = "idle" /\ Alone(p) /\ UNCHANGED runs
    BY <1>1, <1>4, AtItsRun DEF HaltShape, GoesTo, SameTables, Smooth, Calm, Proc
  <2>2. \A h \in Handler : proc'[h] = proc[h]  BY <2>1, AtItsRun DEF Alone
  <2>3. \A w \in Worker : proc'[w].pc # "except"  BY <1>2, <2>1, AtItsRun DEF Alone, SmoothParts
  <2>4. QED  BY <1>2, <2>1, <2>2, <2>3, SettledStay
<1>5. QED
  BY <1>2, <1>3, <1>4, PersistSmooth, WorkersSmooth, RequestsSmooth, ResumeSmooth, StepShapes

LEMMA SmoothInvHolds ==
    Spec /\ []OneAtATime => []SmoothInv
<1>1. Init => SmoothInv
  <2>1. SUFFICES ASSUME Init PROVE SmoothParts  BY DEF SmoothInv
  <2>2. \A p \in Proc : proc[p].pc = "idle"  BY <2>1 DEF Init, Idle
  <2>3. \A r \in Run : runs[r].status = "absent"  BY <2>1 DEF Init
  <2>4. QED
    BY <2>2, <2>3 DEF SmoothParts, RowAgrees, FinalAgrees, Proc, Terminal
<1>2. OneAtATime /\ ControlInv /\ CoverInv /\ SerialInv /\ SmoothInv /\ [Next]_vars =>
          SmoothInv'
  <2>1. ASSUME SmoothInv, UNCHANGED vars PROVE SmoothInv'
    BY <2>1 DEF vars, SmoothInv, SmoothParts, Smooth, Calm, RowAgrees, FinalAgrees, At
  <2>2. QED  BY <2>1, SmoothNext
<1>3. QED  BY <1>1, <1>2, ControlInvHolds, CoverInvHolds, SerialInvHolds, PTL DEF Spec

\* The bounds that rule out what Smooth rules out.
NoFaults == MaxErrors = 0 /\ MaxAborts = 0 /\ MaxLapses = 0

LEMMA NoFaultsIsSmooth ==
    ASSUME NoFaults
    PROVE  Spec => []Smooth
<1>1. Init => Smooth  BY DEF Init, Smooth, Calm, Bound
<1>2. ControlInv /\ Smooth /\ [Next]_vars => Smooth'
  <2>1. SUFFICES ASSUME ControlInv, Smooth, Next PROVE Smooth'  BY DEF vars, Smooth, Calm
  <2>2. \A b \in {"errors", "aborts", "lapses"} : used[b] = 0
    BY <2>1 DEF Smooth, Calm
  <2>3. used \in [Bound -> Nat]  BY <2>1 DEF ControlInv, TypeOK
  <2>4. ASSUME NEW w \in Worker, RaiseError(w) PROVE FALSE
    BY <2>2, <2>4 DEF RaiseError, NoFaults
  <2>5. ASSUME NEW h \in Handler, Abort(h) PROVE FALSE
    BY <2>2, <2>5 DEF Abort, NoFaults
  <2>6. ASSUME NEW r \in Run, LeaseLapses(r) PROVE FALSE
    BY <2>2, <2>6 DEF LeaseLapses, NoFaults
  <2>7. ASSUME NEW w \in Worker, Crash(w) PROVE Smooth'
    <3>1. used' = [used EXCEPT !["crashes"] = @ + 1]  BY <2>7 DEF Crash
    <3>2. QED  BY <2>1, <2>3, <3>1 DEF Smooth, Calm, Bound
  <2>8. CASE Fault  BY <2>4, <2>5, <2>6, <2>7, <2>8 DEF Fault
  <2>9. ASSUME NEW h \in Handler, Request(h) PROVE Smooth'
    BY <2>1, <2>9, RequestShapes DEF RequestShape, Smooth, Calm
  <2>10. ASSUME UNCHANGED used PROVE Smooth'  BY <2>1, <2>10 DEF Smooth, Calm
  <2>11. ASSUME NEW p \in Proc, PersistStep(p) PROVE UNCHANGED used
    BY <2>1, <2>11, PersistShapes DEF PersistShape
  <2>12. ASSUME NEW w \in Worker, WorkerStep(w) PROVE UNCHANGED used
    BY <2>11, <2>12 DEF WorkerStep, ReleaseStaleRunning, Claim, NothingToClaim, RenewLease, Invoke,
                       FailRun, Proc
  <2>13. ASSUME NEW h \in Handler, HandlerStep(h) PROVE UNCHANGED used
    BY <2>11, <2>13 DEF HandlerStep, ListTargets, LoadRun, RefuseDecision, DecideTarget,
                       GraphResume, SaveCheckout, RequestCheckout, Proc
  <2>14. ASSUME NEW r \in Run, CreateRun(r) \/ LeaseExpires(r) PROVE UNCHANGED used
    BY <2>14 DEF CreateRun, LeaseExpires
  <2>15. QED  BY <2>1, <2>8, <2>9, <2>10, <2>12, <2>13, <2>14 DEF Next
<1>3. QED  BY <1>1, <1>2, ControlInvHolds, PTL DEF Spec

\* What a save, a checkout and a proposal do to the rows they write.
LEMMA SavesOver ==
    ASSUME ControlInv, CoverInv, SerialParts, SmoothParts, NEW p \in Proc, PersistShape(p),
           ~UNCHANGED runs
    PROVE  LET s == proc[p]
               r == s.run
           IN  /\ r \in Run /\ OnlyRow(r) /\ runs'[r].status = s.final.status
               /\ s.final.status \in Terminal \cup {"approval_required"}
               /\ \/ runs[r].status \in Unsettled
                  \/ /\ runs[r].status \in Terminal \cup {"approval_required"}
                     /\ s.final.status \in Terminal
                     /\ runs[r].status \in Terminal => s.final.status = runs[r].status
<1> DEFINE s == proc[p]
<1>1. /\ s.pc = "append" /\ s.run \in Run /\ OnlyRow(s.run)
      /\ runs'[s.run].status = s.final.status
  BY DEF PersistShape, SameTables
<1>2. s.final.status \in Terminal \cup {"approval_required"}
  BY <1>1, ProcessOK DEF Proc, WorkerOK, HandlerOK, PersistOK, Returned
<1>3. CASE p \in Worker
  <2>1. runs[s.run].status \in Unsettled
    BY <1>1, <1>3 DEF SerialParts, WorkerTurn, Unsettled
  <2>2. QED  BY <1>1, <1>2, <2>1
<1>4. CASE p \in Handler
  <2>1. FinalAgrees(p) /\ HandlerTurn(p)  BY <1>4 DEF SerialParts, SmoothParts
  <2>2. runs[s.run].status \in RunStatus  BY <1>1, RunOK DEF RunRow
  <2>3. QED
    BY <1>1, <1>2, <2>1, <2>2 DEF FinalAgrees, HandlerTurn, RunStatus, Unsettled, Terminal
<1>5. QED  BY <1>3, <1>4 DEF Proc

LEMMA CheckoutOver ==
    ASSUME ControlInv, SerialParts, SmoothParts, NEW h \in Handler, CheckoutShape(h),
           ~UNCHANGED runs
    PROVE  /\ proc[h].run \in Run /\ OnlyRow(proc[h].run)
           /\ runs[proc[h].run].status = "approval_required"
           /\ runs'[proc[h].run].status = "approval_required"
<1> DEFINE r == proc[h].run
<1>1. /\ proc[h].pc = "save_checkout" /\ r \in Run /\ OnlyRow(r)
      /\ runs'[r].status = "approval_required"
  BY DEF CheckoutShape
<1>2. RowAgrees(r) /\ HandlerTurn(h)  BY <1>1 DEF SmoothParts, SerialParts
<1>3. runs[r].status \in RunStatus  BY <1>1, RunOK DEF RunRow
<1>4. QED
  BY <1>1, <1>2, <1>3 DEF RowAgrees, HandlerTurn, RunStatus, Unsettled, Terminal, NoCheckpoint

\* How the status of a run may change in a step.
Advances(r) ==
    LET old == runs[r].status
        new == runs'[r].status
    IN  \/ new = old
        \/ old = "absent" /\ new \in {"pending", "approval_required"}
        \/ {old, new} = {"pending", "running"}
        \/ old = "running" /\ new \in Terminal \cup {"approval_required"}
        \/ old = "approval_required" /\ new \in Terminal

\* All runs but one keep their status, or are claimed or requeued.
StatusStep ==
    \E r0 \in Run :
        /\ Advances(r0)
        /\ \A r \in Run \ {r0} :
              \/ runs'[r].status = runs[r].status
              \/ {runs[r].status, runs'[r].status} = {"pending", "running"}

LEMMA StatusSteps ==
    ASSUME ControlInv, CoverInv, SerialParts, SmoothParts, Next
    PROVE  (\A r \in Run : runs'[r].status = runs[r].status) \/ StatusStep
<1> DEFINE Goal == (\A r \in Run : runs'[r].status = runs[r].status) \/ StatusStep
<1>1. ASSUME NEW r \in Run, TimeShape(r) PROVE Goal
  BY <1>1 DEF TimeShape, OnlyRow, StatusStep, Advances
<1>2. ASSUME NEW p \in Proc, PersistShape(p) PROVE Goal
  <2>1. CASE UNCHANGED runs  BY <2>1
  <2>2. CASE ~UNCHANGED runs
    <3> DEFINE r == proc[p].run
               s == proc[p]
    <3>1. /\ r \in Run /\ OnlyRow(r) /\ runs'[r].status = s.final.status
          /\ s.final.status \in Terminal \cup {"approval_required"}
          /\ \/ runs[r].status \in Unsettled
             \/ /\ runs[r].status \in Terminal \cup {"approval_required"}
                /\ s.final.status \in Terminal
                /\ runs[r].status \in Terminal => s.final.status = runs[r].status
      BY <1>2, <2>2, SavesOver
    <3>2. runs[r].status \in Unsettled => runs[r].status = "running"
      <4>1. s.pc = "append"  BY <1>2, <2>2 DEF PersistShape, SameTables
      <4>2. CASE p \in Worker  BY <4>1, <4>2 DEF SerialParts, WorkerTurn
      <4>3. CASE p \in Handler  BY <4>1, <4>3 DEF SerialParts, HandlerTurn
      <4>4. QED  BY <4>2, <4>3 DEF Proc
    <3>3. Advances(r)  BY <3>1, <3>2 DEF Advances
    <3>4. QED  BY <3>1, <3>3 DEF StatusStep, OnlyRow
  <2>3. QED  BY <2>1, <2>2
<1>3. ASSUME NEW p \in Proc, HaltShape(p) PROVE Goal  BY <1>3 DEF HaltShape, SameTables
<1>4. ASSUME NEW w \in Worker, ReleaseShape(w) PROVE Goal
  <2>1. \A r \in Run : \/ runs'[r].status = runs[r].status
                       \/ {runs[r].status, runs'[r].status} = {"pending", "running"}
    BY <1>4 DEF ReleaseShape, Stale
  <2>2. QED  BY <2>1 DEF StatusStep, Advances
<1>5. ASSUME NEW w \in Worker,
             RenewShape(w) \/ InvokeShape(w) \/ FailShape(w) \/ \E r \in Run : ClaimShape(w, r)
      PROVE  Goal
  BY <1>5 DEF RenewShape, InvokeShape, FailShape, ClaimShape, SameTables, OnlyRow, SmoothParts,
              StatusStep, Advances
<1>6. ASSUME NEW h \in Handler, CheckoutShape(h) PROVE Goal
  BY <1>6, CheckoutOver DEF OnlyRow
<1>7. ASSUME NEW h \in Handler, RequestShape(h) PROVE Goal
  BY <1>7 DEF RequestShape, OnlyRow, StatusStep, Advances
<1>8. ASSUME NEW h \in Handler,
             ReadShape(h) \/ GraphResume(h) \/ \E i \in proc[h].targets : DecideShape(h, i)
      PROVE  Goal
  BY <1>8 DEF ReadShape, SameTables, DecideShape, GraphResume
<1>9. QED  BY <1>1, <1>2, <1>3, <1>4, <1>5, <1>6, <1>7, <1>8, StepShapes

-----------------------------------------------------------------------------
(* The refinement of GovernedService, step by step.                        *)

\* The stage of a run that no call was made for is its status; after a call it
\* is closed.
LEMMA Stages ==
    ASSUME NEW calls \in Nat, NEW status \in RunStatus
    PROVE  /\ calls > 0 \/ status \in Terminal => StageOf(calls, status) = "closed"
           /\ calls = 0 /\ status \in {"pending", "running"} => StageOf(calls, status) = "queued"
           /\ calls = 0 /\ status = "approval_required" => StageOf(calls, status) = "awaiting"
           /\ calls = 0 /\ status = "absent" => StageOf(calls, status) = "absent"
<1>1. CASE calls > 0 \/ status \in Terminal  BY <1>1 DEF StageOf, Terminal
<1>2. CASE calls = 0 /\ status \in {"pending", "running"}  BY <1>2 DEF StageOf, Terminal
<1>3. CASE calls = 0 /\ status = "approval_required"  BY <1>3 DEF StageOf, Terminal
<1>4. CASE calls = 0 /\ status = "absent"  BY <1>4 DEF StageOf, Terminal
<1>5. QED  BY <1>1, <1>2, <1>3, <1>4 DEF RunStatus, Terminal

LEMMA StageBarIs ==
    ASSUME NEW r \in Run
    PROVE  /\ StageBar[r] = StageOf(Dispatches(r), runs[r].status)
           /\ StageBar'[r] = StageOf(Dispatches(r)', runs'[r].status)
  BY DEF StageBar

\* A run that is called for or advances without a call makes one legal move.
LegalMove(r) ==
    \/ StageBar'[r] = StageBar[r]
    \/ <<StageBar[r], StageBar'[r]>> \in Service!Moves

LEMMA AdvanceIsLegal ==
    ASSUME ControlInv, ControlInv', CoverInv, SerialParts, NEW r \in Run,
           UNCHANGED dispatched, Advances(r)
    PROVE  /\ LegalMove(r)
           /\ \/ runs'[r].status = runs[r].status
              \/ {runs[r].status, runs'[r].status} = {"pending", "running"}
              => StageBar'[r] = StageBar[r]
<1> DEFINE n == Dispatches(r)
           old == runs[r].status
           new == runs'[r].status
<1>1. n \in Nat /\ Dispatches(r)' = n  BY CountsAreNat DEF Dispatches
<1>2. old \in RunStatus /\ new \in RunStatus  BY DEF ControlInv, TypeOK, RunRow
<1>3. StageBar[r] = StageOf(n, old) /\ StageBar'[r] = StageOf(n, new)  BY <1>1, StageBarIs
<1>4. old \in Unsettled => n = 0  BY UnsettledIsFresh
<1>5. /\ {old, new} = {"pending", "running"} =>
           old \in Unsettled /\ StageOf(n, old) = "queued" /\ StageOf(n, new) = "queued"
  BY <1>1, <1>2, <1>4, Stages DEF Unsettled
<1>6. StageOf(n, old) = StageOf(n, new) \/ <<StageOf(n, old), StageOf(n, new)>> \in Service!Moves
  <2> HIDE DEF n, old, new
  <2>1. CASE n > 0
    <3>1. StageOf(n, old) = "closed" /\ StageOf(n, new) = "closed"  BY <1>1, <1>2, <2>1, Stages
    <3>2. QED  BY <3>1
  <2>2. CASE n = 0
    <3>1. CASE old = "absent" /\ new \in {"pending", "approval_required"}
      BY <1>1, <1>2, <2>2, <3>1, Stages DEF Service!Moves
    <3>2. CASE old = "running" /\ new \in Terminal \cup {"approval_required"}
      BY <1>1, <1>2, <2>2, <3>2, Stages DEF Service!Moves
    <3>3. CASE old = "approval_required" /\ new \in Terminal
      BY <1>1, <1>2, <2>2, <3>3, Stages DEF Service!Moves
    <3>4. QED  BY <1>5, <3>1, <3>2, <3>3 DEF Advances, n, old, new
  <2>3. QED  BY <1>1, <2>1, <2>2
<1>7. QED  BY <1>3, <1>5, <1>6 DEF LegalMove

\* A step that counts an approving request: what it reads of the run first.
Consents ==
    /\ UNCHANGED <<runs, dispatched>>
    /\ \E r \in Run : /\ runs[r].checkpoint # NoCheckpoint
                      /\ consents' = [consents EXCEPT ![r] = @ + 1]

\* Only a request that reads its run's checkpoint is counted, and nothing else
\* that the promise is about moves with it.
LEMMA ConsentSteps ==
    ASSUME ControlInv, Next
    PROVE  UNCHANGED consents \/ Consents
<1>1. \A h \in Handler : proc[h].pc = "load" => proc[h].run \in Run
  BY AtItsRun
<1>2. ASSUME NEW r \in Run, NEW d, Accept(r, d), runs[r].checkpoint # NoCheckpoint,
             UNCHANGED <<runs, dispatched>>
      PROVE  UNCHANGED consents \/ Consents
  <2>1. consents = [consents EXCEPT ![r] = @]  BY DEF ControlInv, TypeOK
  <2>2. CASE d = "approved"  BY <1>2, <2>2 DEF Accept, Consents
  <2>3. CASE d # "approved"  BY <1>2, <2>1, <2>3 DEF Accept
  <2>4. QED  BY <2>2, <2>3
<1>3. ASSUME NEW h \in Handler, LoadRun(h) PROVE UNCHANGED consents \/ Consents
  BY <1>1, <1>2, <1>3 DEF LoadRun
<1>4. ASSUME NEW h \in Handler, NEW r \in Run, NEW d, StartResume(h, r, d)
      PROVE  UNCHANGED consents \/ Consents
  BY <1>2, <1>4 DEF StartResume
<1>5. ASSUME NEW p, PersistStep(p) PROVE UNCHANGED consents
  BY <1>5 DEF PersistStep, AppendStep, SaveCheckpoint, CheckInbox, RequestApproval, Finish
<1>6. ASSUME NEW w \in Worker, WorkerStep(w) PROVE UNCHANGED consents
  BY <1>5, <1>6 DEF WorkerStep, ReleaseStaleRunning, Claim, NothingToClaim, RenewLease, Invoke,
                    FailRun
<1>7. ASSUME NEW h \in Handler, HandlerStep(h) PROVE UNCHANGED consents \/ Consents
  BY <1>3, <1>5, <1>7 DEF HandlerStep, ListTargets, RefuseDecision, DecideTarget, GraphResume,
                          SaveCheckout, RequestCheckout
<1>8. ASSUME NEW h \in Handler, Request(h) PROVE UNCHANGED consents \/ Consents
  BY <1>4, <1>8 DEF Request, ProposeForRun, ProposeAlone, StartDecide
<1>9. CASE Fault  BY <1>9 DEF Fault, Crash, RaiseError, Abort, LeaseLapses
<1>10. ASSUME NEW r \in Run, CreateRun(r) \/ LeaseExpires(r) PROVE UNCHANGED consents
  BY <1>10 DEF CreateRun, LeaseExpires
<1>11. QED  BY <1>6, <1>7, <1>8, <1>9, <1>10 DEF Next

\* A request that approves is heard by a run that has come to wait.
LEMMA ConsentRefines ==
    ASSUME ControlInv, CoverInv, SerialParts, Consents
    PROVE  Service!Next
<1>1. PICK r0 \in Run : /\ runs[r0].checkpoint # NoCheckpoint
                        /\ consents' = [consents EXCEPT ![r0] = @ + 1]
  BY DEF Consents
<1>2. runs[r0].status \in Terminal \cup {"approval_required"}
  <2>1. runs[r0].status \notin Unsettled  BY <1>1, UnsettledIsFresh
  <2>2. runs[r0].status \in RunStatus  BY RunOK DEF RunRow
  <2>3. QED  BY <2>1, <2>2 DEF RunStatus, Unsettled
<1>3. StageBar[r0] \in {"awaiting", "closed"}
  <2>1. Dispatches(r0) \in Nat  BY CountsAreNat
  <2>2. Dispatches(r0) = 0 \/ Dispatches(r0) > 0  BY <2>1
  <2>3. runs[r0].status \in RunStatus  BY RunOK DEF RunRow
  <2> HIDE DEF Dispatches
  <2>4. StageOf(Dispatches(r0), runs[r0].status) \in {"awaiting", "closed"}
    BY <1>2, <2>1, <2>2, <2>3, Stages
  <2>5. QED  BY <2>4, StageBarIs
<1>4. Consented' = Consented \cup {r0}
  <2>1. \A r \in Run : consents[r] \in Nat  BY DEF ControlInv, TypeOK
  <2>2. \A r \in Run : consents'[r] = IF r = r0 THEN consents[r] + 1 ELSE consents[r]
    BY <1>1 DEF ControlInv, TypeOK
  <2>3. QED  BY <2>1, <2>2 DEF Consented
<1>5. StageBar' = StageBar /\ [r \in Run |-> Dispatches(r)]' = [r \in Run |-> Dispatches(r)]
  BY DEF Consents, StageBar, StageOf, Dispatches
<1> HIDE DEF StageBar, Dispatches, Consented
<1>6. Service!Consent(r0)  BY <1>3, <1>4, <1>5 DEF Service!Consent
<1>7. QED  BY <1>6 DEF Service!Next

LEMMA UncalledRefines ==
    ASSUME ControlInv, ControlInv', CoverInv, SerialParts, SmoothParts, Next,
           UNCHANGED <<dispatched, consents>>
    PROVE  [Service!Next]_(Service!vars)
<1>1. /\ [r \in Run |-> Dispatches(r)]' = [r \in Run |-> Dispatches(r)]
      /\ Consented' = Consented
  BY DEF Dispatches, Consented
<1>2. DOMAIN StageBar = Run /\ DOMAIN StageBar' = Run
      /\ StageBar = [r \in Run |-> StageBar[r]] /\ StageBar' = [r \in Run |-> StageBar'[r]]
  BY DEF StageBar
<1>3. CASE \A r \in Run : runs'[r].status = runs[r].status
  <2>1. \A r \in Run : StageBar'[r] = StageBar[r]  BY <1>3, AdvanceIsLegal DEF Advances
  <2> HIDE DEF StageBar, Dispatches, Consented
  <2>2. StageBar' = StageBar  BY <1>2, <2>1
  <2>3. QED  BY <1>1, <2>2 DEF Service!vars
<1>4. CASE StatusStep
  <2>1. PICK r0 \in Run :
            /\ Advances(r0)
            /\ \A r \in Run \ {r0} :
                  \/ runs'[r].status = runs[r].status
                  \/ {runs[r].status, runs'[r].status} = {"pending", "running"}
    BY <1>4 DEF StatusStep
  <2>2. \A r \in Run \ {r0} : StageBar'[r] = StageBar[r]
    BY <2>1, AdvanceIsLegal DEF Advances
  <2>3. LegalMove(r0)  BY <2>1, AdvanceIsLegal
  <2> HIDE DEF StageBar, Dispatches, Consented
  <2>4. StageBar' = [StageBar EXCEPT ![r0] = StageBar'[r0]]  BY <1>2, <2>2
  <2>5. CASE StageBar'[r0] = StageBar[r0]
    <3>1. StageBar' = StageBar  BY <1>2, <2>2, <2>5
    <3>2. QED  BY <1>1, <3>1 DEF Service!vars
  <2>6. CASE <<StageBar[r0], StageBar'[r0]>> \in Service!Moves
    <3>1. StageBar'[r0] \in {"queued", "awaiting", "closed"}  BY <2>6 DEF Service!Moves
    <3>2. Service!Move(r0)  BY <1>1, <2>4, <2>6, <3>1 DEF Service!Move
    <3>3. QED  BY <3>2 DEF Service!Next
  <2>7. QED  BY <2>3, <2>5, <2>6 DEF LegalMove
<1>5. QED  BY <1>3, <1>4, StatusSteps

LEMMA CallRefines ==
    ASSUME OneAtATime, ControlInv, ControlInv', CoverInv, SerialParts, SmoothParts,
           NEW h \in Handler, GraphResume(h), Executes(h)
    PROVE  Service!Next
<1>1. PICK r0 \in Run : r0 = proc[h].run  BY ResumeFacts
<1>2. PICK a0 \in Action : a0 = proc[h].snapshot.pending  BY ResumeFacts
<1>3. dispatched' = [dispatched EXCEPT ![r0][a0] = @ + 1]  BY <1>1, <1>2, ResumeFacts
<1>4. /\ Dispatches(r0)' = Dispatches(r0) + 1
      /\ \A r \in Run : r # r0 => Dispatches(r)' = Dispatches(r)
  BY <1>3, DispatchCounted
<1>5. UNCHANGED runs  BY DEF GraphResume
<1>6. Dispatches(r0) = 0 /\ runs[r0].status = "approval_required"
  BY <1>1, FirstCall, EndedIsReturned DEF Executes
<1>7. StageBar[r0] = "awaiting" /\ StageBar'[r0] = "closed"
  <2>1. /\ StageBar[r0] = StageOf(0, "approval_required")
        /\ StageBar'[r0] = StageOf(1, "approval_required")
    BY <1>4, <1>5, <1>6, StageBarIs
  <2>2. QED  BY <2>1, Stages DEF RunStatus
<1>8. \A r \in Run : r # r0 => StageBar'[r] = StageBar[r]
  <2>1. SUFFICES ASSUME NEW r \in Run, r # r0 PROVE StageBar'[r] = StageBar[r]  OBVIOUS
  <2>2. Dispatches(r)' = Dispatches(r) /\ runs'[r] = runs[r]  BY <1>4, <1>5, <2>1
  <2>3. QED  BY <2>2, StageBarIs
<1> DEFINE P == [r \in Run |-> Dispatches(r)]
<1>9. P' = [P EXCEPT ![r0] = @ + 1]
  <2> HIDE DEF Dispatches
  <2>1. \A r \in Run : P'[r] = [P EXCEPT ![r0] = @ + 1][r]  BY <1>4
  <2>2. QED  BY <2>1
<1>10. StageBar' = [StageBar EXCEPT ![r0] = "closed"]
  <2>1. StageBar = [r \in Run |-> StageBar[r]] /\ StageBar' = [r \in Run |-> StageBar'[r]]
    BY DEF StageBar
  <2> HIDE DEF StageBar
  <2>2. QED  BY <1>7, <1>8, <2>1
<1>11. Consented' = Consented  BY DEF GraphResume, Consented
<1>12. r0 \in Consented
  <2>1. h \in Asking(r0)
    BY <1>1, ResumeFacts DEF Asking, Asks, Executes, Approves
  <2>2. IsFiniteSet(Asking(r0))
    BY ControlPlaneAssumption, FS_Subset DEF Asking
  <2>3. Cardinality(Asking(r0)) \in Nat /\ Cardinality(Asking(r0)) # 0
    BY <2>1, <2>2, FS_CardinalityType, FS_EmptySet
  <2>4. Dispatches(r0) + Cardinality(Asking(r0)) <= consents[r0]
    BY DEF ControlInv, ConsentInv
  <2>5. Dispatches(r0) \in Nat /\ consents[r0] \in Nat
    BY CountsAreNat DEF ControlInv, TypeOK
  <2> HIDE DEF Dispatches, Asking
  <2>6. consents[r0] > 0  BY <2>3, <2>4, <2>5
  <2>7. QED  BY <2>6 DEF Consented
<1> HIDE DEF StageBar, Dispatches, Consented
<1>13. Service!Perform(r0)  BY <1>7, <1>9, <1>10, <1>11, <1>12 DEF Service!Perform
<1>14. QED  BY <1>13 DEF Service!Next

\* When requests do not overlap on a run and nothing dies behind a call, the
\* control plane implements GovernedService across every crash of a worker: what
\* is queued, paused or closed never goes back, and a gated tool is called for a
\* run once at most, while it awaits its human and only after an approving
\* request for that run; which tool that is, the promise does not say.
THEOREM KeepsServiceHolds ==
    ASSUME NoFaults
    PROVE  Spec /\ []OneAtATime => KeepsService
<1>1. Init => Service!Init
  <2>1. SUFFICES ASSUME Init PROVE Service!Init  OBVIOUS
  <2>2. \A r \in Run : Dispatches(r) = 0 /\ runs[r].status = "absent"
    BY <2>1 DEF Init, Dispatches, Action
  <2>3. \A r \in Run : StageBar[r] = "absent"  BY <2>2, StageBarIs, Stages DEF RunStatus
  <2>4. StageBar = [r \in Run |-> StageBar[r]]  BY DEF StageBar
  <2>5. Consented = {}  BY <2>1 DEF Init, Consented
  <2> HIDE DEF StageBar, Dispatches, Consented
  <2>6. QED  BY <2>2, <2>3, <2>4, <2>5 DEF Service!Init
<1>2. /\ OneAtATime /\ ControlInv /\ ControlInv' /\ CoverInv
      /\ SerialInv /\ SmoothInv /\ Smooth /\ [Next]_vars
      => [Service!Next]_(Service!vars)
  <2>1. SUFFICES ASSUME OneAtATime, ControlInv, ControlInv', CoverInv, SerialInv, SmoothInv,
                        Smooth, [Next]_vars
                 PROVE  [Service!Next]_(Service!vars)
    OBVIOUS
  <2>2. SerialParts /\ SmoothParts  BY <2>1 DEF SerialInv, SmoothInv, Smooth
  <2>3. CASE UNCHANGED vars
    BY <2>3 DEF vars, Service!vars, StageBar, StageOf, Dispatches, Consented
  <2>4. CASE Next /\ UNCHANGED dispatched
    BY <2>1, <2>2, <2>4, ConsentSteps, ConsentRefines, UncalledRefines
  <2>5. ASSUME NEW h \in Handler, GraphResume(h), ~UNCHANGED dispatched PROVE Service!Next
    BY <2>1, <2>2, <2>5, ResumeFacts, CallRefines
  <2>6. CASE Next /\ ~UNCHANGED dispatched
    <3>1. \E h \in Handler : GraphResume(h)
      BY <2>1, <2>6, StepShapes
         DEF TimeShape, PersistShape, HaltShape, ReleaseShape, RenewShape, InvokeShape, FailShape,
             ClaimShape, ReadShape, CheckoutShape, RequestShape, DecideShape, SameTables
    <3>2. QED  BY <2>5, <2>6, <3>1
  <2>7. QED  BY <2>1, <2>3, <2>4, <2>6
<1>3. QED
  BY <1>1, <1>2, ControlInvHolds, CoverInvHolds, SerialInvHolds, SmoothInvHolds, NoFaultsIsSmooth,
     PTL DEF Spec, KeepsService, Service!Spec

-----------------------------------------------------------------------------
(* Decisions that are sent through the inbox.                              *)

\* Humans use POST /approvals/{id}/decision, and nobody proposes a checkout.
DecideOnly == RequestKinds \subseteq {"decide"}

\* An approval of that run and that tool with that decision is on record.
OnRecord(r, a, d) ==
    \E i \in 1..Len(approvals) : approvals[i] = [run |-> r, action |-> a, decision |-> d]

\* The tool pending in a state, if any, is the one the run's skill stopped at.
OwnPending(state) == state.pending # "checkout"

\* A request has its approval ahead of it or its decision on record.
RecordTurn(h) ==
    LET s == proc[h] IN
    /\ s.pc \notin {"list", "save_checkout", "request_checkout"}
    /\ s.pc \in {"load", "decide"} =>
          /\ s.decision \in {"approved", "rejected"}
          /\ \/ \E i \in 1..Len(approvals) : s.targets = {i} /\ approvals[i].run = s.run
             \/ s.pc = "decide" /\ s.targets = {} /\ OnRecord(s.run, "own", s.decision)

RecordInv ==
    /\ \A i \in 1..Len(approvals) : approvals[i].action = "own"
    /\ \A r \in Run : OwnPending(runs[r].checkpoint)
    /\ \A p \in Proc : OwnPending(proc[p].snapshot) /\ OwnPending(proc[p].final)
    /\ \A h \in Handler : RecordTurn(h)
    /\ ConsentOnRecord

\* What is on record with a decision stays there.
RecordsStay ==
    \A r \in Run, a \in Action, d \in {"approved", "rejected"} :
        OnRecord(r, a, d) => OnRecord(r, a, d)'

LEMMA RecordsKept ==
    ASSUME ControlInv,
           \/ UNCHANGED approvals
           \/ \E a : approvals' = Append(approvals, a)
           \/ \E i \in 1..Len(approvals) : \E d :
                 approvals[i].decision = "none" /\ approvals' = [approvals EXCEPT ![i].decision = d]
    PROVE  RecordsStay
<1>1. SUFFICES ASSUME NEW r \in Run, NEW a \in Action, NEW d \in {"approved", "rejected"},
                      NEW i \in 1..Len(approvals),
                      approvals[i] = [run |-> r, action |-> a, decision |-> d]
               PROVE  i \in 1..Len(approvals') /\ approvals'[i] = approvals[i]
  BY DEF RecordsStay, OnRecord
<1>2. approvals[i].decision # "none"  BY <1>1
<1>3. CASE \E b : approvals' = Append(approvals, b)  BY <1>3, AskOne DEF ControlInv, TypeOK
<1>4. ASSUME NEW j \in 1..Len(approvals), NEW e, approvals[j].decision = "none",
             approvals' = [approvals EXCEPT ![j].decision = e]
      PROVE  i \in 1..Len(approvals') /\ approvals'[i] = approvals[i]
  BY <1>2, <1>4, DecideOne
<1>5. QED  BY <1>3, <1>4

\* Approvals are written in three ways.
LEMMA ApprovalWrites ==
    ASSUME ControlInv, TargetsInv, Next
    PROVE  \/ UNCHANGED approvals
           \/ \E p \in Proc : PersistShape(p) /\ proc[p].pc = "request"
           \/ \E h \in Handler : CheckoutShape(h)
           \/ \E h \in Handler : \E i \in proc[h].targets :
                 /\ i \in 1..Len(approvals) /\ approvals[i].decision = "none"
                 /\ DecideShape(h, i)
  BY StepShapes
     DEF TargetsInv, TimeShape, PersistShape, HaltShape, ReleaseShape, RenewShape, InvokeShape,
         FailShape, ClaimShape, ReadShape, RequestShape, GraphResume, SameTables

LEMMA RecordsStayNext ==
    ASSUME ControlInv, TargetsInv, Next
    PROVE  /\ RecordsStay
           /\ \A i \in 1..Len(approvals) :
                 /\ i \in 1..Len(approvals')
                 /\ approvals'[i].run = approvals[i].run
                 /\ approvals'[i].action = approvals[i].action
<1>1. \/ UNCHANGED approvals
      \/ \E a : approvals' = Append(approvals, a)
      \/ \E i \in 1..Len(approvals) : \E d :
            approvals[i].decision = "none" /\ approvals' = [approvals EXCEPT ![i].decision = d]
  BY ApprovalWrites DEF PersistShape, CheckoutShape, DecideShape
<1>2. RecordsStay  BY <1>1, RecordsKept
<1> DEFINE Kept == \A i \in 1..Len(approvals) :
                      /\ i \in 1..Len(approvals')
                      /\ approvals'[i].run = approvals[i].run
                      /\ approvals'[i].action = approvals[i].action
<1>3. Kept
  <2>1. CASE UNCHANGED approvals  BY <2>1, ApprovalsStay
  <2>2. ASSUME NEW a, approvals' = Append(approvals, a) PROVE Kept  BY <2>2, ApprovalsStay
  <2>3. ASSUME NEW i \in 1..Len(approvals), NEW d, approvals' = [approvals EXCEPT ![i].decision = d]
        PROVE  Kept
    BY <2>3, ApprovalsStay
  <2>4. QED  BY <1>1, <2>1, <2>2, <2>3
<1>4. QED  BY <1>2, <1>3

\* A step that makes no call keeps the calls on record.
LEMMA ConsentKept ==
    ASSUME ConsentOnRecord, RecordsStay, UNCHANGED dispatched
    PROVE  ConsentOnRecord'
<1>1. \A r \in Run, a \in Action : dispatched[r][a] > 0 => OnRecord(r, a, "approved")
  BY DEF ConsentOnRecord, OnRecord
<1>2. \A r \in Run, a \in Action : dispatched'[r][a] > 0 => OnRecord(r, a, "approved")'
  BY <1>1 DEF RecordsStay
<1>3. QED  BY <1>2 DEF ConsentOnRecord, OnRecord

\* What is asked for is the tool the run's skill stopped at.
LEMMA OwnApprovals ==
    ASSUME ControlInv, TargetsInv, RecordInv, Next
    PROVE  \A i \in 1..Len(approvals') : approvals'[i].action = "own"
<1>1. \A i \in 1..Len(approvals) : approvals[i].action = "own"  BY DEF RecordInv
<1>2. Len(approvals) \in Nat  BY DEF ControlInv, TypeOK
<1>3. ASSUME NEW p \in Proc, PersistShape(p), proc[p].pc = "request"
      PROVE  \A i \in 1..Len(approvals') : approvals'[i].action = "own"
  <2> DEFINE f == proc[p].final
  <2>1. f.pending \in Action \cup {"none"}  BY ProcessOK DEF ProcState, Checkpoint
  <2>2. Returned(f) /\ f.status = "approval_required"
    BY <1>3, ProcessOK DEF Proc, WorkerOK, HandlerOK, PersistOK
  <2>3. OwnPending(f)  BY DEF RecordInv
  <2>4. f.pending = "own"  BY <2>1, <2>2, <2>3 DEF Returned, OwnPending, Action
  <2>5. approvals' = Append(approvals, [run |-> proc[p].run, decision |-> "none",
                                        action |-> f.pending])
    BY <1>3 DEF PersistShape
  <2>6. QED  BY <1>1, <1>2, <2>4, <2>5, AskOne
<1>4. ASSUME NEW h \in Handler, CheckoutShape(h) PROVE FALSE
  BY <1>4 DEF CheckoutShape, RecordInv, RecordTurn
<1>5. ASSUME NEW h \in Handler, NEW i \in proc[h].targets, i \in 1..Len(approvals),
             DecideShape(h, i)
      PROVE  \A j \in 1..Len(approvals') : approvals'[j].action = "own"
  <2>1. approvals' = [approvals EXCEPT ![i].decision = proc[h].decision]
    BY <1>5 DEF DecideShape
  <2>2. Len(approvals') = Len(approvals)  BY <1>5, <2>1, DecideOne
  <2>3. \A j \in 1..Len(approvals) : approvals'[j].action = approvals[j].action
    BY <2>1, ApprovalsStay
  <2>4. QED  BY <1>1, <2>2, <2>3
<1>6. QED  BY <1>1, <1>3, <1>4, <1>5, ApprovalWrites

\* No checkpoint and no process has a checkout pending.
LEMMA OwnStates ==
    ASSUME DecideOnly, ControlInv, RecordInv, Next
    PROVE  /\ \A r \in Run : OwnPending(runs'[r].checkpoint)
           /\ \A p \in Proc : OwnPending(proc'[p].snapshot) /\ OwnPending(proc'[p].final)
<1> DEFINE Goal == /\ \A r \in Run : OwnPending(runs'[r].checkpoint)
                   /\ \A p \in Proc : OwnPending(proc'[p].snapshot) /\ OwnPending(proc'[p].final)
<1>1. /\ \A r \in Run : OwnPending(runs[r].checkpoint)
      /\ \A p \in Proc : OwnPending(proc[p].snapshot) /\ OwnPending(proc[p].final)
  BY DEF RecordInv
<1>2. OwnPending(NoCheckpoint) /\ Idle.snapshot = NoCheckpoint /\ Idle.final = NoCheckpoint
  BY DEF OwnPending, NoCheckpoint, Idle
<1>3. ASSUME NEW r \in Run, TimeShape(r) PROVE Goal
  BY <1>1, <1>3 DEF TimeShape, OnlyRow
<1>4. ASSUME NEW p \in Proc, HaltShape(p) PROVE Goal
  BY <1>1, <1>2, <1>4 DEF HaltShape, SameTables, GoesTo, Alone
<1>5. ASSUME NEW p \in Proc, PersistShape(p) PROVE Goal
  <2>1. \A r \in Run : OwnPending(runs'[r].checkpoint)
    BY <1>1, <1>5 DEF PersistShape, OnlyRow, SameTables, OwnPending
  <2>2. \A q \in Proc : OwnPending(proc'[q].snapshot) /\ OwnPending(proc'[q].final)
    BY <1>1, <1>2, <1>5 DEF PersistShape, GoesTo, Alone
  <2>3. QED  BY <2>1, <2>2
<1>6. ASSUME NEW w \in Worker,
             \/ ReleaseShape(w) \/ RenewShape(w) \/ InvokeShape(w) \/ FailShape(w)
             \/ \E r \in Run : ClaimShape(w, r)
      PROVE  Goal
  <2>1. \A r \in Run : runs'[r].checkpoint = runs[r].checkpoint
    BY <1>6 DEF ReleaseShape, RenewShape, InvokeShape, FailShape, ClaimShape, OnlyRow, SameTables
  <2>2. OwnPending(proc'[w].snapshot) /\ OwnPending(proc'[w].final) /\ Alone(w)
    BY <1>1, <1>2, <1>6, AtItsRun
       DEF ReleaseShape, RenewShape, InvokeShape, FailShape, ClaimShape, GoesTo, OwnPending
  <2>3. QED  BY <1>1, <2>1, <2>2 DEF Alone
<1>7. ASSUME NEW h \in Handler,
             \/ ReadShape(h) \/ RequestShape(h) \/ GraphResume(h)
             \/ \E i \in proc[h].targets : DecideShape(h, i)
      PROVE  Goal
  <2>0. h \in Proc  BY AtItsRun
  <2>1. CASE GraphResume(h)
    <3>1. /\ \A q \in Proc : q # h => proc'[q] = proc[q]
          /\ proc'[h].snapshot = proc[h].snapshot
          /\ proc'[h].final.pending = "none" \/ proc'[h].final = proc[h].snapshot
      BY <2>1, ResumeFacts
    <3>2. UNCHANGED runs  BY <2>1 DEF GraphResume
    <3>3. QED  BY <1>1, <2>0, <3>1, <3>2 DEF OwnPending
  <2>2. CASE RequestShape(h)
    BY <1>1, <1>2, <2>2 DEF RequestShape, Alone, OnlyRow, DecideOnly
  <2>3. CASE ReadShape(h)
    BY <1>1, <1>2, <2>0, <2>3 DEF ReadShape, Alone, SameTables
  <2>4. CASE \E i \in proc[h].targets : DecideShape(h, i)
    BY <1>1, <2>0, <2>4 DEF DecideShape, Alone
  <2>5. QED  BY <1>7, <2>1, <2>2, <2>3, <2>4
<1>8. ASSUME NEW h \in Handler, CheckoutShape(h) PROVE FALSE
  BY <1>8 DEF CheckoutShape, RecordInv, RecordTurn
<1>9. QED  BY <1>3, <1>4, <1>5, <1>6, <1>7, <1>8, StepShapes

\* A request that comes in has one undecided target; the decision it writes is
\* on record from then on.
LEMMA RecordTurns ==
    ASSUME DecideOnly, ControlInv, ControlInv', TargetsInv, RecordInv, Next, NEW h \in Handler
    PROVE  RecordTurn(h)'
<1> DEFINE s == proc[h]
           u == proc'[h]
<1>1. RecordTurn(h) /\ h \in Proc /\ h \notin Worker /\ Idle.pc = "idle"
  BY AtItsRun DEF RecordInv
<1>2. approvals \in Seq(ApprovalRow) /\ approvals' \in Seq(ApprovalRow)
  BY DEF ControlInv, TypeOK
<1>3. CASE u.pc \notin {"list", "load", "decide", "save_checkout", "request_checkout"}
  BY <1>3 DEF RecordTurn
<1>4. ASSUME u.pc \in {"load", "decide"}, u.decision = s.decision, u.targets = s.targets,
             u.run = s.run, s.pc \in {"load", "decide"}, s.pc = "decide" => u.pc = "decide",
             RecordsStay,
             \A i \in 1..Len(approvals) :
                 i \in 1..Len(approvals') /\ approvals'[i].run = approvals[i].run
      PROVE  RecordTurn(h)'
  <2>1. s.run \in Run  BY <1>4, AtItsRun
  <2>2. OnRecord(s.run, "own", s.decision) => OnRecord(s.run, "own", s.decision)'
    BY <1>1, <1>4, <2>1 DEF RecordTurn, RecordsStay, Action
  <2>3. QED  BY <1>1, <1>4, <2>2 DEF RecordTurn, OnRecord
<1>5. RecordsStay  BY RecordsStayNext
<1>6. CASE u = s
  <2>1. \A i \in 1..Len(approvals) :
                 i \in 1..Len(approvals') /\ approvals'[i].run = approvals[i].run
    BY RecordsStayNext
  <2>2. CASE s.pc \in {"load", "decide"}  BY <1>4, <1>5, <1>6, <2>1, <2>2
  <2>3. QED  BY <1>1, <1>6, <2>2 DEF RecordTurn
<1>7. ASSUME NEW i \in s.targets, DecideShape(h, i) PROVE RecordTurn(h)'
  <2>1. i \in 1..Len(approvals)  BY DEF TargetsInv
  <2>2. s.targets = {i} /\ approvals[i].run = s.run /\ s.pc = "decide"
        /\ s.decision \in {"approved", "rejected"}
    BY <1>1, <1>7 DEF RecordTurn, DecideShape
  <2>3. /\ approvals' = [approvals EXCEPT ![i].decision = s.decision]
        /\ u.pc = "decide" /\ u.targets = {} /\ u.run = s.run /\ u.decision = s.decision
    BY <1>7, <2>2 DEF DecideShape
  <2>4. /\ Len(approvals') = Len(approvals) /\ approvals'[i].decision = s.decision
    BY <2>1, <2>3, DecideOne
  <2>5. /\ approvals'[i].run = s.run /\ approvals'[i].action = "own"
    BY <2>1, <2>2, <2>3, ApprovalsStay DEF RecordInv
  <2>6. approvals'[i] \in ApprovalRow  BY <2>1, <2>4, <1>2
  <2>7. approvals'[i] = [run |-> u.run, action |-> "own", decision |-> u.decision]
    BY <2>3, <2>4, <2>5, <2>6 DEF ApprovalRow
  <2>8. i \in 1..Len(approvals')  BY <2>1, <2>4
  <2>9. QED  BY <2>2, <2>3, <2>7, <2>8 DEF RecordTurn, OnRecord
<1>8. CASE ReadShape(h)
  BY <1>1, <1>4, <1>5, <1>8 DEF ReadShape, SameTables, RecordTurn
<1>9. CASE RequestShape(h)
  BY <1>9 DEF RequestShape, DecideOnly, RecordTurn
<1>10. CASE GraphResume(h)
  BY <1>3, <1>10, ResumeFacts
<1>11. ASSUME NEW p \in Proc, PersistShape(p) \/ HaltShape(p), ~(u = s) PROVE RecordTurn(h)'
  <2>1. p = h  BY <1>1, <1>11 DEF PersistShape, HaltShape, GoesTo, Alone
  <2>2. u.pc \notin {"list", "load", "decide", "save_checkout", "request_checkout"}
    BY <1>1, <1>11, <2>1 DEF PersistShape, HaltShape, GoesTo
  <2>3. QED  BY <1>3, <2>2
<1>12. CASE \/ \E r \in Run : TimeShape(r)
            \/ \E w \in Worker :
                 \/ ReleaseShape(w) \/ RenewShape(w) \/ InvokeShape(w) \/ FailShape(w)
                 \/ \E r \in Run : ClaimShape(w, r)
  <2>1. u = s
    BY <1>1, <1>12 DEF TimeShape, ReleaseShape, RenewShape, InvokeShape, FailShape, ClaimShape, GoesTo,
          Alone
  <2>2. UNCHANGED approvals
    BY <1>12 DEF TimeShape, ReleaseShape, RenewShape, InvokeShape, FailShape, ClaimShape, SameTables
  <2>3. CASE s.pc \in {"load", "decide"}  BY <1>4, <1>5, <2>1, <2>2, <2>3
  <2>4. QED  BY <1>1, <2>1, <2>3 DEF RecordTurn
<1>13. ASSUME NEW g \in Handler, g # h,
              \/ ReadShape(g) \/ CheckoutShape(g) \/ RequestShape(g) \/ GraphResume(g)
              \/ \E i \in proc[g].targets : DecideShape(g, i)
       PROVE  u = s
  BY <1>1, <1>13, ResumeFacts
     DEF ReadShape, CheckoutShape, RequestShape, DecideShape, GoesTo, Alone
<1>14. ~CheckoutShape(h)  BY <1>1 DEF CheckoutShape, RecordTurn
<1>15. QED
  BY <1>6, <1>7, <1>8, <1>9, <1>10, <1>11, <1>12, <1>13, <1>14, StepShapes

LEMMA RecordNext ==
    ASSUME DecideOnly, ControlInv, ControlInv', TargetsInv, RecordInv, Next
    PROVE  RecordInv'
<1>1. RecordsStay  BY RecordsStayNext
<1>2. ConsentOnRecord'
  <2>1. CASE UNCHANGED dispatched  BY <1>1, <2>1, ConsentKept DEF RecordInv
  <2>2. ASSUME NEW h \in Handler, GraphResume(h), Executes(h) PROVE ConsentOnRecord'
    <3> DEFINE s == proc[h]
    <3>1. /\ s.pc = "decide" /\ s.targets = {} /\ s.run \in Run
          /\ s.snapshot.pending \in Action
          /\ dispatched' = [dispatched EXCEPT ![s.run][s.snapshot.pending] = @ + 1]
      BY <2>2, ResumeFacts
    <3>2. OwnPending(s.snapshot) /\ RecordTurn(h)  BY AtItsRun DEF RecordInv
    <3>3. s.snapshot.pending = "own"  BY <3>1, <3>2 DEF OwnPending, Action
    <3>4. s.decision = "approved"  BY <2>2 DEF Executes, Approves
    <3>5. OnRecord(s.run, "own", "approved")  BY <3>1, <3>2, <3>4 DEF RecordTurn
    <3>6. UNCHANGED approvals  BY <2>2 DEF GraphResume
    <3>7. PICK r0 \in Run : r0 = s.run  BY <3>1
    <3>8. dispatched' = [dispatched EXCEPT ![r0]["own"] = @ + 1]  BY <3>1, <3>3, <3>7
    <3>9. \A r \in Run, a \in Action :
             dispatched'[r][a] > 0 => dispatched[r][a] > 0 \/ (r = r0 /\ a = "own")
      BY <3>8, DispatchCounted DEF Action
    <3>10. \A r \in Run, a \in Action : dispatched'[r][a] > 0 => OnRecord(r, a, "approved")
      BY <3>5, <3>7, <3>9 DEF RecordInv, ConsentOnRecord, OnRecord
    <3>11. QED  BY <3>6, <3>10 DEF ConsentOnRecord, OnRecord
  <2>3. ASSUME NEW h \in Handler, GraphResume(h), ~Executes(h) PROVE UNCHANGED dispatched
    BY <2>3, ResumeFacts
  <2>4. UNCHANGED dispatched \/ \E h \in Handler : GraphResume(h)
    BY StepShapes
       DEF TimeShape, PersistShape, HaltShape, ReleaseShape, RenewShape, InvokeShape, FailShape,
           ClaimShape, ReadShape, CheckoutShape, RequestShape, DecideShape, SameTables
  <2>5. QED  BY <2>1, <2>2, <2>3, <2>4
<1>3. QED  BY <1>2, OwnApprovals, OwnStates, RecordTurns DEF RecordInv, OwnPending

\* The inductive invariant of the inbox: a decision is on record before the
\* graph is resumed with it.
THEOREM RecordInvHolds ==
    ASSUME DecideOnly
    PROVE  Spec /\ []OneAtATime => []RecordInv
<1>1. Init => RecordInv
  BY DEF Init, RecordInv, RecordTurn, ConsentOnRecord, OwnPending, Idle, NoCheckpoint, Proc, Action
<1>2. ControlInv /\ ControlInv' /\ TargetsInv /\ RecordInv /\ [Next]_vars => RecordInv'
  <2>1. ASSUME RecordInv, UNCHANGED vars PROVE RecordInv'
    BY <2>1 DEF vars, RecordInv, RecordTurn, ConsentOnRecord, OwnPending, OnRecord
  <2>2. QED  BY <2>1, RecordNext
<1>3. QED  BY <1>1, <1>2, ControlInvHolds, TargetsInvHolds, PTL DEF Spec

\* When the decisions on a run come one at a time through the inbox, a gated tool
\* is called only when an approval of that run and that tool is on record, whatever
\* dies, raises or lapses (decide_approval_persisted before RunGraph.resume).
THEOREM ConsentOnRecordHolds ==
    ASSUME DecideOnly
    PROVE  Spec /\ []OneAtATime => []ConsentOnRecord
<1>1. RecordInv => ConsentOnRecord  BY DEF RecordInv
<1>2. QED  BY <1>1, RecordInvHolds, PTL

-----------------------------------------------------------------------------
(* What becomes of a decision.                                             *)

\* What DecisionMatchesOutcome says of an approval.
Outcome(r, d, status) ==
    CASE d = "approved" -> Dispatches(r) > 0 /\ status \in {"completed", "failed"}
      [] d = "rejected" -> Dispatches(r) = 0 /\ status = "cancelled"
      [] OTHER -> Dispatches(r) = 0 /\ status = "approval_required"

Paused(r) == Dispatches(r) = 0 /\ runs[r].status = "approval_required"

Unasked(r) == \A i \in 1..Len(approvals) : approvals[i].run # r

\* A request has decided and has yet to save.
Closes(h, r) ==
    /\ proc[h].run = r
    /\ proc[h].pc = "append" \/ (proc[h].pc = "decide" /\ proc[h].targets = {})

Closing(r) == \E h \in Handler : Closes(h, r)

\* A worker asks once, while the run it paused waits.
AskTurn(w) == proc[w].pc \in {"inbox", "request"} => Paused(proc[w].run) /\ Unasked(proc[w].run)

\* A request finds the run paused, and will save what its decision says.
CloseTurn(h) ==
    LET s == proc[h] IN
    /\ s.pc \in {"load", "decide"} => Paused(s.run)
    /\ s.pc = "append" =>
          \E i \in 1..Len(approvals) :
              approvals[i].run = s.run /\ Outcome(s.run, approvals[i].decision, s.final.status)

ApprovalTurn(i) ==
    LET a == approvals[i] IN
    /\ runs[a.run].status \notin Unsettled
    /\ Outcome(a.run, a.decision, runs[a.run].status) \/ Closing(a.run)

OutcomeParts ==
    /\ \A i, j \in 1..Len(approvals) : approvals[i].run = approvals[j].run => i = j
    /\ \A w \in Worker : AskTurn(w)
    /\ \A h \in Handler : CloseTurn(h)
    /\ \A i \in 1..Len(approvals) : ApprovalTurn(i)

OutcomeInv == Smooth => OutcomeParts

\* A worker, or time, that leaves alone what is settled and asks for nothing.
LEMMA OthersOutcome ==
    ASSUME ControlInv, OutcomeParts, UNCHANGED <<approvals, dispatched>>,
           \A r \in Run : runs[r].status \notin Unsettled => runs'[r].status = runs[r].status,
           \A h \in Handler : proc'[h] = proc[h],
           \A w \in Worker : AskTurn(w)'
    PROVE  OutcomeParts'
<1>1. \A r \in Run : Dispatches(r)' = Dispatches(r)  BY DEF Dispatches
<1>2. "approval_required" \notin Unsettled  BY DEF Unsettled
<1>3. ASSUME NEW h \in Handler PROVE CloseTurn(h)'
  <2>1. CloseTurn(h) /\ (proc[h].pc # "idle" => proc[h].run \in Run)
    BY AtItsRun DEF OutcomeParts
  <2>2. QED  BY <1>1, <1>2, <2>1 DEF CloseTurn, Paused, Outcome
<1>4. ASSUME NEW i \in 1..Len(approvals) PROVE ApprovalTurn(i)'
  <2>1. approvals[i].run \in Run
    <3>1. approvals[i] \in ApprovalRow  BY DEF ControlInv, TypeOK
    <3>2. QED  BY <3>1 DEF ApprovalRow
  <2>2. ApprovalTurn(i)  BY DEF OutcomeParts
  <2>3. Closing(approvals[i].run) => Closing(approvals[i].run)'  BY DEF Closing, Closes
  <2>4. QED  BY <1>1, <2>1, <2>2, <2>3 DEF ApprovalTurn, Outcome
<1>5. QED  BY <1>3, <1>4 DEF OutcomeParts

\* A worker that persists: it pauses a run nobody has asked for, and asks.
LEMMA WorkerPersistOutcome ==
    ASSUME ControlInv, CoverInv, SerialParts, OutcomeParts, Calm, NEW w \in Worker,
           PersistShape(w)
    PROVE  OutcomeParts'
<1> DEFINE s == proc[w]
<1>1. /\ w \in Proc /\ w \notin Handler /\ s.run \in Run /\ UNCHANGED dispatched /\ Alone(w)
      /\ Idle.pc = "idle"
  BY AtItsRun DEF PersistShape, GoesTo
<1>2. /\ \A h \in Handler : proc'[h] = proc[h]
      /\ \A v \in Worker : v # w => proc'[v] = proc[v]
  BY <1>1, AtItsRun DEF Alone
<1>3. \A r \in Run : Dispatches(r)' = Dispatches(r)  BY <1>1 DEF Dispatches
<1>4. \A v \in Worker : AskTurn(v)  BY DEF OutcomeParts
<1>5. \A v \in Worker : proc[v].pc \in {"inbox", "request"} => proc[v].run \in Run
  BY AtItsRun
<1>6. CASE SameTables /\ (s.pc = "append" => proc'[w].pc = "append")
  <2>1. \A v \in Worker : AskTurn(v)'
    <3>1. proc'[w].pc \in {"inbox", "request"} =>
             s.pc \in {"inbox", "request"} /\ proc'[w].run = s.run
      BY <1>1, <1>6 DEF PersistShape, GoesTo
    <3>2. QED  BY <1>2, <1>3, <1>4, <1>5, <1>6, <3>1 DEF AskTurn, SameTables, Paused, Unasked
  <2>2. QED  BY <1>2, <1>6, <2>1, OthersOutcome DEF SameTables
<1>7. CASE /\ s.pc = "append" /\ UNCHANGED approvals /\ OnlyRow(s.run)
           /\ runs'[s.run].status = s.final.status
           /\ GoesTo(w, IF s.final.status = "approval_required" THEN "inbox" ELSE "finish")
  <2>1. /\ UNCHANGED approvals /\ OnlyRow(s.run) /\ runs'[s.run].status = s.final.status
        /\ GoesTo(w, IF s.final.status = "approval_required" THEN "inbox" ELSE "finish")
    BY <1>7
  <2>2. runs[s.run].status = "running" /\ runs[s.run].status \in Unsettled
    BY <1>7 DEF SerialParts, WorkerTurn, Unsettled
  <2>3. Dispatches(s.run) = 0  BY <1>1, <2>2, UnsettledIsFresh
  <2>4. Unasked(s.run)  BY <2>2 DEF OutcomeParts, ApprovalTurn, Unasked
  <2>5. AskTurn(w)'
    <3>1. proc'[w].run = s.run /\ (proc'[w].pc # "finish" => s.final.status = "approval_required")
      BY <2>1 DEF GoesTo
    <3>2. QED  BY <1>1, <1>3, <2>1, <2>3, <2>4, <3>1 DEF AskTurn, Paused, Unasked
  <2>6. ASSUME NEW v \in Worker, v # w PROVE AskTurn(v)'
    <3>1. CASE proc[v].pc \in {"inbox", "request"}
      <4>1. Paused(proc[v].run) /\ Unasked(proc[v].run)  BY <1>4, <3>1 DEF AskTurn
      <4>2. proc[v].run # s.run  BY <2>2, <4>1 DEF Paused
      <4>3. QED  BY <1>2, <1>3, <1>5, <2>1, <2>6, <3>1, <4>1, <4>2
                 DEF AskTurn, Paused, Unasked, OnlyRow
    <3>2. QED  BY <1>2, <2>6, <3>1 DEF AskTurn
  <2>7. \A r \in Run : runs[r].status \notin Unsettled => runs'[r].status = runs[r].status
    BY <2>1, <2>2 DEF OnlyRow
  <2>8. QED  BY <1>1, <1>2, <2>1, <2>5, <2>6, <2>7, OthersOutcome
<1>8. CASE s.pc = "request"
  <2> DEFINE n == Len(approvals) + 1
             a == [run |-> s.run, decision |-> "none", action |-> s.final.pending]
  <2>1. /\ UNCHANGED runs /\ approvals' = Append(approvals, a) /\ GoesTo(w, "finish")
    BY <1>8 DEF PersistShape
  <2>2. /\ Len(approvals') = n /\ approvals'[n] = a
        /\ \A i \in 1..Len(approvals) : approvals'[i] = approvals[i]
    BY <2>1, AskOne
  <2>3. Paused(s.run) /\ Unasked(s.run)  BY <1>4, <1>8 DEF AskTurn
  <2>4. Len(approvals) \in Nat /\ a.run = s.run /\ a.decision = "none"
    BY DEF ControlInv, TypeOK
  <2> HIDE DEF a
  <2>5. \A i \in 1..n : i # n => i \in 1..Len(approvals)  BY <2>4
  <2>6. \A i, j \in 1..Len(approvals') : approvals'[i].run = approvals'[j].run => i = j
    BY <2>2, <2>3, <2>4, <2>5 DEF OutcomeParts, Unasked
  <2>7. ASSUME NEW v \in Worker PROVE AskTurn(v)'
    <3>1. CASE v = w  BY <2>1, <3>1 DEF GoesTo, AskTurn
    <3>2. CASE v # w /\ proc[v].pc \in {"inbox", "request"}
      <4>1. proc[v].run # s.run
        BY <1>1, <3>2 DEF Calm, ControlInv, SoleWorker, Executing
      <4>2. Paused(proc[v].run) /\ Unasked(proc[v].run)  BY <1>4, <3>2 DEF AskTurn
      <4>3. Unasked(proc[v].run)'
        BY <1>2, <2>2, <2>4, <2>5, <3>2, <4>1, <4>2 DEF Unasked
      <4>4. QED  BY <1>2, <1>3, <1>5, <2>1, <3>2, <4>2, <4>3 DEF AskTurn, Paused
    <3>3. QED  BY <1>2, <3>1, <3>2 DEF AskTurn
  <2>8. ASSUME NEW h \in Handler PROVE CloseTurn(h)'
    <3>1. CloseTurn(h) /\ (proc[h].pc # "idle" => proc[h].run \in Run)
      BY AtItsRun DEF OutcomeParts
    <3>2. 1..Len(approvals) \subseteq 1..Len(approvals')  BY <2>2, <2>4
    <3>3. QED  BY <1>2, <1>3, <2>1, <2>2, <3>1, <3>2 DEF CloseTurn, Paused, Outcome
  <2>9. ASSUME NEW i \in 1..n PROVE ApprovalTurn(i)'
    <3>1. CASE i = n
      BY <1>1, <1>3, <2>1, <2>2, <2>3, <2>4, <3>1 DEF ApprovalTurn, Outcome, Paused, Unsettled
    <3>2. CASE i \in 1..Len(approvals)
      <4>1. approvals[i].run \in Run
        <5>1. approvals[i] \in ApprovalRow  BY <3>2 DEF ControlInv, TypeOK
        <5>2. QED  BY <5>1 DEF ApprovalRow
      <4>2. ApprovalTurn(i) /\ approvals'[i] = approvals[i]  BY <2>2, <3>2 DEF OutcomeParts
      <4>3. PICK r0 \in Run : r0 = approvals[i].run  BY <4>1
      <4>4. Closing(r0) => Closing(r0)'  BY <1>2 DEF Closing, Closes
      <4>5. QED  BY <1>3, <2>1, <4>2, <4>3, <4>4 DEF ApprovalTurn, Outcome
    <3>3. QED  BY <2>5, <3>1, <3>2
  <2>10. QED  BY <2>2, <2>6, <2>7, <2>8, <2>9 DEF OutcomeParts
<1>9. QED  BY <1>6, <1>7, <1>8 DEF PersistShape, GoesTo

\* The other steps of a worker.
LEMMA WorkerOutcome ==
    ASSUME ControlInv, CoverInv, SerialParts, SmoothParts, OutcomeParts, NEW w \in Worker,
           \/ ReleaseShape(w) \/ RenewShape(w) \/ InvokeShape(w) \/ FailShape(w)
           \/ \E r \in Run : ClaimShape(w, r)
    PROVE  OutcomeParts'
<1>1. /\ \A h \in Handler : proc'[h] = proc[h]
      /\ \A v \in Worker : v # w => proc'[v] = proc[v]
  BY AtItsRun
     DEF ReleaseShape, RenewShape, InvokeShape, FailShape, ClaimShape, GoesTo, Alone
<1>2. ~FailShape(w) /\ proc'[w].pc \notin {"inbox", "request"}
  BY DEF ReleaseShape, RenewShape, InvokeShape, FailShape, ClaimShape, GoesTo, SmoothParts
<1>3. UNCHANGED <<approvals, dispatched>>
  BY <1>2 DEF ReleaseShape, RenewShape, InvokeShape, ClaimShape, SameTables
<1>4. \A r \in Run : runs[r].status \notin Unsettled => runs'[r].status = runs[r].status
  BY <1>2 DEF ReleaseShape, RenewShape, InvokeShape, ClaimShape, SameTables, OnlyRow, Stale, Unsettled
<1>5. ASSUME NEW v \in Worker PROVE AskTurn(v)'
  <2>1. AskTurn(v)  BY DEF OutcomeParts
  <2>2. proc[v].pc \in {"inbox", "request"} => proc[v].run \in Run  BY AtItsRun
  <2>3. \A r \in Run : Dispatches(r)' = Dispatches(r)  BY <1>3 DEF Dispatches
  <2>4. \A r \in Run : Paused(r) => Paused(r)'  BY <1>4, <2>3 DEF Paused, Unsettled
  <2>5. \A r \in Run : Unasked(r) => Unasked(r)'  BY <1>3 DEF Unasked
  <2>6. QED  BY <1>1, <1>2, <2>1, <2>2, <2>4, <2>5 DEF AskTurn
<1>6. QED  BY <1>1, <1>3, <1>4, <1>5, OthersOutcome

\* Where an approval's run comes from.
LEMMA ApprovalsRun ==
    ASSUME ControlInv, NEW i \in 1..Len(approvals)
    PROVE  approvals[i].run \in Run /\ approvals[i].decision \in Decision
<1>1. approvals[i] \in ApprovalRow  BY DEF ControlInv, TypeOK
<1>2. QED  BY <1>1 DEF ApprovalRow

\* A request that takes no row away from a worker that asks.
LEMMA WorkersAsk ==
    ASSUME ControlInv, OutcomeParts, \A w \in Worker : proc'[w] = proc[w],
           \A i \in 1..Len(approvals') :
               i \in 1..Len(approvals) /\ approvals'[i].run = approvals[i].run,
           \A r \in Run : Paused(r) /\ Unasked(r) => Paused(r)'
    PROVE  \A w \in Worker : AskTurn(w)'
<1>1. SUFFICES ASSUME NEW w \in Worker, proc[w].pc \in {"inbox", "request"} PROVE AskTurn(w)'
  BY DEF AskTurn
<1>2. PICK r0 \in Run : r0 = proc[w].run  BY <1>1, AtItsRun
<1>3. Paused(r0) /\ Unasked(r0)  BY <1>1, <1>2 DEF OutcomeParts, AskTurn
<1>4. Paused(r0)'  BY <1>3
<1>5. Unasked(r0)'  BY <1>3 DEF Unasked
<1>6. QED  BY <1>2, <1>4, <1>5 DEF AskTurn

\* A step of one request, as those on other runs see it.
LEMMA OthersClose ==
    ASSUME OneAtATime, ControlInv, OutcomeParts, NEW h \in Handler, Alone(h),
           \/ UNCHANGED <<runs, approvals, dispatched>>
           \/ /\ Resuming(h)
              /\ \A r \in Run : r # proc[h].run =>
                    runs'[r] = runs[r] /\ Dispatches(r)' = Dispatches(r)
              /\ \A i \in 1..Len(approvals) :
                    /\ i \in 1..Len(approvals')
                    /\ approvals[i].run # proc[h].run => approvals'[i] = approvals[i]
    PROVE  /\ \A g \in Handler : g # h => CloseTurn(g)'
           /\ \A r \in Run : Closing(r) => Closing(r)' \/ Closes(h, r)
<1>1. \A g \in Handler : g # h => proc'[g] = proc[g]  BY DEF Alone, Proc
<1>2. ASSUME NEW g \in Handler, g # h PROVE CloseTurn(g)'
  <2>1. SUFFICES ASSUME proc[g].pc \in {"load", "decide", "append"} PROVE CloseTurn(g)'
    BY <1>1, <1>2 DEF CloseTurn
  <2>2. PICK r0 \in Run : r0 = proc[g].run  BY <2>1, AtItsRun
  <2>3. /\ runs'[r0] = runs[r0] /\ Dispatches(r0)' = Dispatches(r0)
        /\ \A i \in 1..Len(approvals) :
              i \in 1..Len(approvals') /\ (approvals[i].run = r0 => approvals'[i] = approvals[i])
    <3>1. CASE UNCHANGED <<runs, approvals, dispatched>>  BY <3>1 DEF Dispatches
    <3>2. CASE Resuming(h)
      <4>1. r0 # proc[h].run  BY <1>2, <2>1, <2>2, <3>2, Apart DEF Resuming
      <4>2. QED  BY <3>1, <4>1
    <3>3. QED  BY <3>1, <3>2
  <2>4. CloseTurn(g)  BY DEF OutcomeParts
  <2>5. CASE proc[g].pc \in {"load", "decide"}
    BY <1>1, <1>2, <2>2, <2>3, <2>4, <2>5 DEF CloseTurn, Paused
  <2>6. CASE proc[g].pc = "append"
    <3>1. PICK i \in 1..Len(approvals) :
              approvals[i].run = r0 /\ Outcome(r0, approvals[i].decision, proc[g].final.status)
      BY <2>2, <2>4, <2>6 DEF CloseTurn
    <3>2. i \in 1..Len(approvals') /\ approvals'[i] = approvals[i]  BY <2>3, <3>1
    <3>3. QED  BY <1>1, <1>2, <2>2, <2>3, <2>6, <3>1, <3>2 DEF CloseTurn, Outcome
  <2>7. QED  BY <2>1, <2>5, <2>6
<1>3. QED  BY <1>1, <1>2 DEF Closing, Closes

\* A request that saves what its decision says.
LEMMA HandlerPersistOutcome ==
    ASSUME OneAtATime, ControlInv, SerialParts, OutcomeParts, NEW h \in Handler, PersistShape(h)
    PROVE  OutcomeParts'
<1> DEFINE s == proc[h]
<1>1. /\ h \in Proc /\ h \notin Worker /\ s.run \in Run /\ UNCHANGED dispatched /\ Alone(h)
      /\ Idle.pc = "idle"
  BY AtItsRun DEF PersistShape, GoesTo
<1>2. ASSUME \/ UNCHANGED <<runs, approvals>>
             \/ s.pc = "append" /\ OnlyRow(s.run) /\ UNCHANGED approvals
      PROVE  /\ \A g \in Handler : g # h => CloseTurn(g)'
             /\ \A r \in Run : Closing(r) => Closing(r)' \/ Closes(h, r)
  BY <1>1, <1>2, OthersClose DEF OnlyRow, Resuming, Dispatches
<1>3. \A w \in Worker : proc'[w] = proc[w]  BY <1>1, AtItsRun DEF Alone
<1>4. \A r \in Run : Dispatches(r)' = Dispatches(r)  BY <1>1 DEF Dispatches
<1>5. s.pc \in {"append", "finish"} /\ (s.pc = "append" => s.final.status \in Terminal)
  BY DEF PersistShape, SerialParts, HandlerTurn
<1>6. CASE s.pc = "append" /\ SameTables /\ GoesTo(h, "append")
  <2>1. /\ UNCHANGED <<runs, approvals>>
        /\ proc'[h].pc = "append" /\ proc'[h].run = s.run /\ proc'[h].final = s.final
    BY <1>6 DEF SameTables, GoesTo
  <2>2. \A w \in Worker : AskTurn(w)'
    BY <1>3, <1>4, <2>1, WorkersAsk DEF Paused
  <2>3. CloseTurn(h)'
    BY <1>1, <1>4, <1>6, <2>1 DEF OutcomeParts, CloseTurn, Outcome
  <2>4. ASSUME NEW i \in 1..Len(approvals) PROVE ApprovalTurn(i)'
    <3>1. ApprovalTurn(i) /\ approvals[i].run \in Run  BY ApprovalsRun DEF OutcomeParts
    <3>2. Closing(approvals[i].run) => Closing(approvals[i].run)'
      BY <1>2, <1>6, <2>1, <3>1 DEF Closing, Closes
    <3>3. QED  BY <1>4, <2>1, <3>1, <3>2 DEF ApprovalTurn, Outcome
  <2>5. QED  BY <1>2, <2>1, <2>2, <2>3, <2>4 DEF OutcomeParts
<1>7. CASE /\ s.pc = "append" /\ UNCHANGED approvals /\ OnlyRow(s.run)
           /\ runs'[s.run].status = s.final.status
           /\ proc'[h].pc = "finish"
  <2>1. PICK i0 \in 1..Len(approvals) :
            approvals[i0].run = s.run /\ Outcome(s.run, approvals[i0].decision, s.final.status)
    BY <1>7 DEF OutcomeParts, CloseTurn
  <2>2. \A w \in Worker : AskTurn(w)'
    <3>1. \A r \in Run : Unasked(r) => runs'[r] = runs[r]
      BY <1>7, <2>1 DEF Unasked, OnlyRow
    <3>2. QED  BY <1>3, <1>4, <1>7, <3>1, WorkersAsk DEF Paused
  <2>3. CloseTurn(h)'  BY <1>7 DEF CloseTurn
  <2>4. ASSUME NEW i \in 1..Len(approvals) PROVE ApprovalTurn(i)'
    <3>1. ApprovalTurn(i) /\ approvals[i].run \in Run  BY ApprovalsRun DEF OutcomeParts
    <3>2. CASE i = i0
      <4>1. s.final.status \notin Unsettled  BY <1>5, <1>7 DEF Unsettled, Terminal
      <4>2. QED  BY <1>1, <1>4, <1>7, <2>1, <3>2, <4>1 DEF ApprovalTurn, Outcome
    <3>3. CASE i # i0
      <4>1. approvals[i].run # s.run  BY <2>1, <3>3 DEF OutcomeParts
      <4>2. Closing(approvals[i].run) => Closing(approvals[i].run)'
        BY <1>2, <1>7, <3>1, <4>1 DEF Closes
      <4>3. QED  BY <1>4, <1>7, <3>1, <4>1, <4>2 DEF ApprovalTurn, Outcome, OnlyRow
    <3>4. QED  BY <3>2, <3>3
  <2>5. QED  BY <1>2, <1>7, <2>2, <2>3, <2>4 DEF OutcomeParts
<1>8. CASE s.pc = "finish" /\ SameTables /\ proc'[h].pc = "idle"
  <2>1. \A w \in Worker : AskTurn(w)'
    BY <1>3, <1>4, <1>8, WorkersAsk DEF SameTables, Paused
  <2>2. CloseTurn(h)'  BY <1>8 DEF CloseTurn
  <2>3. ASSUME NEW i \in 1..Len(approvals) PROVE ApprovalTurn(i)'
    <3>1. ApprovalTurn(i) /\ approvals[i].run \in Run  BY ApprovalsRun DEF OutcomeParts
    <3>2. Closing(approvals[i].run) => Closing(approvals[i].run)'
      BY <1>2, <1>8, <3>1 DEF Closes, SameTables
    <3>3. QED  BY <1>4, <1>8, <3>1, <3>2 DEF ApprovalTurn, Outcome, SameTables
  <2>4. QED  BY <1>2, <1>8, <2>1, <2>2, <2>3 DEF OutcomeParts, SameTables
<1>9. QED  BY <1>1, <1>5, <1>6, <1>7, <1>8 DEF PersistShape, GoesTo, Terminal

\* A request that comes in, reads and decides: it finds the run paused.
LEMMA DecideOutcome ==
    ASSUME OneAtATime, OneAtATime', DecideOnly, ControlInv, TargetsInv, RecordInv, OutcomeParts,
           NEW h \in Handler,
           \/ ReadShape(h) \/ RequestShape(h)
           \/ \E i \in proc[h].targets : DecideShape(h, i)
    PROVE  OutcomeParts'
<1> DEFINE s == proc[h]
           u == proc'[h]
<1>1. h \in Proc /\ h \notin Worker /\ RecordTurn(h) /\ Idle.pc = "idle"
  BY AtItsRun DEF RecordInv
<1>2. \A g \in Handler : g # h => proc'[g] = proc[g]
  BY DEF ReadShape, RequestShape, DecideShape, Alone, Proc
<1>3. UNCHANGED <<runs, dispatched>> /\ Alone(h)
  BY DEF ReadShape, RequestShape, DecideShape, SameTables, DecideOnly
<1>4. \A w \in Worker : proc'[w] = proc[w]  BY <1>1, <1>3, AtItsRun DEF Alone
<1>5. \A r \in Run : Dispatches(r)' = Dispatches(r) /\ (Paused(r) => Paused(r)')
  BY <1>3 DEF Dispatches, Paused
<1>6. ASSUME UNCHANGED approvals, u.pc \in {"load", "decide", "idle"},
             u.pc # "idle" => u.run \in Run /\ Paused(u.run),
             s.pc # "append", ~(s.pc = "decide" /\ s.targets = {})
      PROVE  OutcomeParts'
  <2>1. \A w \in Worker : AskTurn(w)'  BY <1>4, <1>5, <1>6, WorkersAsk
  <2>2. CloseTurn(h)'
    <3>1. CASE u.pc # "idle"
      <4>1. PICK r0 \in Run : r0 = u.run  BY <1>6, <3>1
      <4>2. Paused(r0)'  BY <1>5, <1>6, <3>1, <4>1
      <4>3. QED  BY <1>6, <4>1, <4>2 DEF CloseTurn
    <3>2. QED  BY <1>6, <3>1 DEF CloseTurn
  <2>3. ASSUME NEW i \in 1..Len(approvals) PROVE ApprovalTurn(i)'
    <3>1. ApprovalTurn(i) /\ approvals[i].run \in Run  BY ApprovalsRun DEF OutcomeParts
    <3>2. Closing(approvals[i].run) => Closing(approvals[i].run)'
      BY <1>2, <1>6 DEF Closing, Closes
    <3>3. QED  BY <1>3, <1>5, <1>6, <3>1, <3>2 DEF ApprovalTurn, Outcome
  <2>4. \A g \in Handler : g # h => CloseTurn(g)'  BY <1>3, <1>6, OthersClose
  <2>5. QED  BY <1>6, <2>1, <2>2, <2>3, <2>4 DEF OutcomeParts
<1>7. CASE ReadShape(h)
  <2>1. s.pc = "load" /\ s.run \in Run  BY <1>1, <1>7 DEF ReadShape, RecordTurn
  <2>2. Paused(s.run)  BY <2>1 DEF OutcomeParts, CloseTurn
  <2>3. QED  BY <1>1, <1>6, <1>7, <2>1, <2>2 DEF ReadShape, SameTables
<1>8. CASE RequestShape(h)
  <2>1. /\ s.pc = "idle" /\ u.pc = "load" /\ u.run \in Run /\ UNCHANGED approvals
        /\ \E i \in 1..Len(approvals) : Undecided(i) /\ u.run = approvals[i].run
    BY <1>8 DEF RequestShape, DecideOnly
  <2>2. PICK i \in 1..Len(approvals) : Undecided(i) /\ u.run = approvals[i].run
    BY <2>1
  <2>3. ApprovalTurn(i) /\ ~Closing(u.run)
    <3>1. Resuming(h)'  BY <2>1 DEF Resuming
    <3>2. \A g \in Handler : Closes(g, u.run) => g # h /\ Resuming(g)' /\ proc'[g].run = u.run
      BY <1>2, <2>1 DEF Closes, Resuming
    <3>3. QED  BY <3>1, <3>2 DEF OneAtATime, Closing, OutcomeParts
  <2>4. Paused(u.run)  BY <2>2, <2>3 DEF ApprovalTurn, Outcome, Undecided, Paused
  <2>5. QED  BY <1>6, <2>1, <2>4
<1>9. ASSUME NEW i \in s.targets, DecideShape(h, i) PROVE OutcomeParts'
  <2>1. i \in 1..Len(approvals)  BY DEF TargetsInv
  <2>2. s.targets = {i} /\ approvals[i].run = s.run /\ s.run \in Run /\ Paused(s.run)
    BY <1>1, <1>9 DEF RecordTurn, DecideShape, OutcomeParts, CloseTurn
  <2>3. /\ approvals' = [approvals EXCEPT ![i].decision = s.decision]
        /\ s.pc = "decide" /\ u.pc = "decide" /\ u.targets = {} /\ u.run = s.run
    BY <1>9, <2>2 DEF DecideShape
  <2>4. /\ Len(approvals') = Len(approvals)
        /\ \A j \in 1..Len(approvals) : j # i => approvals'[j] = approvals[j]
        /\ \A j \in 1..Len(approvals) : approvals'[j].run = approvals[j].run
    BY <2>1, <2>3, DecideOne, ApprovalsStay
  <2>5. \A w \in Worker : AskTurn(w)'  BY <1>4, <1>5, <2>4, WorkersAsk
  <2>6. PICK r0 \in Run : r0 = s.run  BY <2>2
  <2>7. Paused(r0)' /\ Closing(r0)'  BY <1>5, <2>2, <2>3, <2>6 DEF Closing, Closes
  <2>8. CloseTurn(h)'  BY <2>3, <2>6, <2>7 DEF CloseTurn
  <2>9. ASSUME NEW j \in 1..Len(approvals) PROVE ApprovalTurn(j)'
    <3>1. CASE j = i
      <4>1. approvals'[i].run = r0  BY <2>1, <2>2, <2>4, <2>6
      <4>2. runs'[r0].status = "approval_required"  BY <2>7 DEF Paused
      <4>3. QED  BY <2>7, <3>1, <4>1, <4>2 DEF ApprovalTurn, Unsettled
    <3>2. CASE j # i
      <4>1. ApprovalTurn(j) /\ approvals[j].run \in Run  BY ApprovalsRun DEF OutcomeParts
      <4>2. approvals[j].run # s.run  BY <2>1, <2>2, <3>2 DEF OutcomeParts
      <4>3. Closing(approvals[j].run) => Closing(approvals[j].run)'
        BY <1>2, <2>4, <4>2 DEF Closing, Closes
      <4>4. QED  BY <1>3, <1>5, <2>4, <3>2, <4>1, <4>3 DEF ApprovalTurn, Outcome
    <3>3. QED  BY <3>1, <3>2
  <2>10. \A g \in Handler : g # h => CloseTurn(g)'
    <3>1. Resuming(h)  BY <2>3 DEF Resuming
    <3>2. \A j \in 1..Len(approvals) :
             /\ j \in 1..Len(approvals')
             /\ approvals[j].run # s.run => approvals'[j] = approvals[j]
      BY <2>2, <2>4
    <3>3. QED  BY <1>3, <1>5, <3>1, <3>2, OthersClose
  <2>11. QED  BY <2>4, <2>5, <2>8, <2>9, <2>10 DEF OutcomeParts
<1>10. QED  BY <1>7, <1>8, <1>9

\* The graph is resumed with the decision that is on record for the run.
LEMMA ResumeOutcome ==
    ASSUME OneAtATime, ControlInv, CoverInv, SerialParts, SmoothParts, RecordInv, OutcomeParts,
           NEW h \in Handler, GraphResume(h)
    PROVE  OutcomeParts'
<1> DEFINE s == proc[h]
           u == proc'[h]
<1>1. /\ s.pc = "decide" /\ s.targets = {} /\ u.pc = "append" /\ u.run = s.run
      /\ \A q \in Proc : q # h => proc'[q] = proc[q]
      /\ UNCHANGED <<runs, approvals>>
  BY ResumeFacts DEF GraphResume
<1>2. PICK r0 \in Run : r0 = s.run  BY ResumeFacts
<1>3. \A g \in Handler : g # h => proc'[g] = proc[g]  BY <1>1, AtItsRun
<1>4. \A w \in Worker : proc'[w] = proc[w]  BY <1>1, AtItsRun
<1>5. s.decision \in {"approved", "rejected"} /\ OnRecord(r0, "own", s.decision)
  BY <1>1, <1>2 DEF RecordInv, RecordTurn
<1>6. PICK i0 \in 1..Len(approvals) :
          approvals[i0] = [run |-> r0, action |-> "own", decision |-> s.decision]
  BY <1>5 DEF OnRecord
<1>7. approvals[i0].run = r0 /\ approvals[i0].decision = s.decision  BY <1>6
<1>8. Dispatches(r0) = 0 /\ runs[r0].status = "approval_required"
  BY <1>1, <1>2 DEF OutcomeParts, CloseTurn, Paused
<1>9. Resumable(s.snapshot)  BY <1>2, <1>8, EndedIsReturned
<1>10. PICK d0 \in {"approved", "rejected"} : d0 = s.decision  BY <1>5
<1>11. PICK t0 \in RunStatus \cup {"none"} : t0 = u.final.status  BY ResumeFacts DEF Checkpoint
<1>12. /\ Outcome(r0, d0, t0)'
       /\ \A r \in Run : r # r0 => Dispatches(r)' = Dispatches(r)
  <2>1. CASE Executes(h)
    <3>1. PICK a0 \in Action : a0 = s.snapshot.pending  BY <2>1, ResumeFacts
    <3>2. dispatched' = [dispatched EXCEPT ![r0][a0] = @ + 1]
      BY <2>1, <3>1, <1>2, ResumeFacts
    <3>3. /\ Dispatches(r0)' = Dispatches(r0) + 1
          /\ \A r \in Run : r # r0 => Dispatches(r)' = Dispatches(r)
      BY <3>2, DispatchCounted
    <3>4. d0 = "approved" /\ t0 \in {"completed", "failed"}
      BY <1>10, <1>11, <2>1, ResumeFacts DEF Executes, Approves
    <3>5. Dispatches(r0)' > 0  BY <3>3, <1>8
    <3>6. QED  BY <3>3, <3>4, <3>5 DEF Outcome
  <2>2. CASE ~Executes(h)
    <3>1. d0 = "rejected"  BY <1>9, <1>10, <2>2 DEF Executes, Approves
    <3>2. t0 = "cancelled" /\ UNCHANGED dispatched  BY <1>9, <1>11, <2>2, ResumeFacts
    <3>3. \A r \in Run : Dispatches(r)' = Dispatches(r)  BY <3>2 DEF Dispatches
    <3>4. QED  BY <1>8, <3>1, <3>2, <3>3 DEF Outcome
  <2>3. QED  BY <2>1, <2>2
<1>13. ASSUME NEW w \in Worker PROVE AskTurn(w)'
  <2>1. CASE proc[w].pc \in {"inbox", "request"}
    <3>1. PICK r1 \in Run : r1 = proc[w].run  BY <2>1, AtItsRun
    <3>2. Paused(r1) /\ Unasked(r1)  BY <2>1, <3>1 DEF OutcomeParts, AskTurn
    <3>3. r1 # r0  BY <1>7, <3>2 DEF Unasked
    <3>4. Paused(r1)' /\ Unasked(r1)'  BY <1>1, <1>12, <3>2, <3>3 DEF Paused, Unasked
    <3>5. QED  BY <1>4, <3>1, <3>4 DEF AskTurn
  <2>2. QED  BY <1>4, <2>1 DEF AskTurn
<1>14. CloseTurn(h)'
  <2>1. /\ u.pc = "append" /\ u.run = r0 /\ u.final.status = t0
        /\ approvals'[i0].run = r0 /\ approvals'[i0].decision = d0
    BY <1>1, <1>2, <1>7, <1>10, <1>11
  <2>2. i0 \in 1..Len(approvals')  BY <1>1
  <2>3. QED  BY <1>12, <2>1, <2>2 DEF CloseTurn
<1>15. ASSUME NEW i \in 1..Len(approvals) PROVE ApprovalTurn(i)'
  <2>1. ApprovalTurn(i) /\ approvals[i].run \in Run  BY ApprovalsRun DEF OutcomeParts
  <2>2. CASE approvals[i].run = r0  BY <1>1, <1>2, <2>1, <2>2 DEF ApprovalTurn, Closing, Closes
  <2>3. CASE approvals[i].run # r0
    <3>1. Closing(approvals[i].run) => Closing(approvals[i].run)'
      BY <1>1, <1>2, <1>3, <2>3 DEF Closing, Closes
    <3>2. QED  BY <1>1, <1>12, <2>1, <2>3, <3>1 DEF ApprovalTurn, Outcome
  <2>4. QED  BY <2>2, <2>3
<1>16. \A g \in Handler : g # h => CloseTurn(g)'
  <2>1. Resuming(h) /\ Alone(h)  BY <1>1 DEF Resuming, Alone
  <2>2. QED  BY <1>1, <1>2, <1>12, <2>1, OthersClose
<1>17. QED  BY <1>1, <1>13, <1>14, <1>15, <1>16 DEF OutcomeParts

LEMMA OutcomeNext ==
    ASSUME OneAtATime, OneAtATime', DecideOnly, ControlInv, CoverInv, SerialInv, SmoothInv,
           TargetsInv, RecordInv, OutcomeInv, Next
    PROVE  OutcomeInv'
<1>1. SUFFICES ASSUME Smooth' PROVE OutcomeParts'  BY DEF OutcomeInv
<1>2. Smooth /\ Calm /\ SerialParts /\ SmoothParts /\ OutcomeParts
  BY <1>1, SmoothBefore DEF SmoothInv, SerialInv, Smooth, OutcomeInv
<1>3. ASSUME NEW r \in Run, TimeShape(r) PROVE OutcomeParts'
  <2>1. /\ UNCHANGED <<proc, approvals, dispatched>>
        /\ \A q \in Run : runs[q].status \notin Unsettled => runs'[q].status = runs[q].status
    BY <1>3 DEF TimeShape, OnlyRow, Unsettled
  <2>2. ASSUME NEW w \in Worker PROVE AskTurn(w)'
    <3>1. AskTurn(w) /\ (proc[w].pc \in {"inbox", "request"} => proc[w].run \in Run)
      BY <1>2, AtItsRun DEF OutcomeParts
    <3>2. QED  BY <2>1, <3>1 DEF AskTurn, Paused, Unasked, Unsettled, Dispatches
  <2>3. QED  BY <1>2, <2>1, <2>2, OthersOutcome
<1>4. ASSUME NEW p \in Proc, HaltShape(p) PROVE OutcomeParts'
  <2>1. p \in Worker /\ proc'[p].pc = "idle" /\ Alone(p) /\ SameTables
    BY <1>1, <1>4, AtItsRun DEF HaltShape, GoesTo, Smooth, Calm, Proc
  <2>2. \A h \in Handler : proc'[h] = proc[h]  BY <2>1, AtItsRun DEF Alone
  <2>3. ASSUME NEW w \in Worker PROVE AskTurn(w)'
    <3>1. AskTurn(w)  BY <1>2 DEF OutcomeParts
    <3>2. QED  BY <2>1, <3>1, AtItsRun
               DEF Alone, AskTurn, Paused, Unasked, Dispatches, SameTables
  <2>4. QED  BY <1>2, <2>1, <2>2, <2>3, OthersOutcome DEF SameTables
<1>5. ASSUME NEW p \in Proc, PersistShape(p) PROVE OutcomeParts'
  BY <1>2, <1>5, WorkerPersistOutcome, HandlerPersistOutcome DEF Proc
<1>6. ASSUME NEW h \in Handler, CheckoutShape(h) PROVE FALSE
  BY <1>6 DEF CheckoutShape, RecordInv, RecordTurn
<1>7. QED
  BY <1>2, <1>3, <1>4, <1>5, <1>6, WorkerOutcome, DecideOutcome, ResumeOutcome, StepShapes

\* The inductive invariant of a run's one approval: a worker asks once, while
\* the run waits, and a request that has decided is about to save the outcome.
THEOREM OutcomeInvHolds ==
    ASSUME DecideOnly
    PROVE  Spec /\ []OneAtATime => []OutcomeInv
<1>1. Init => OutcomeInv
  <2>1. SUFFICES ASSUME Init PROVE OutcomeParts  BY DEF OutcomeInv
  <2>2. approvals = <<>> /\ \A p \in Proc : proc[p].pc = "idle"  BY <2>1 DEF Init, Idle
  <2>3. Len(approvals) = 0  BY <2>2
  <2>4. QED  BY <2>2, <2>3 DEF OutcomeParts, AskTurn, CloseTurn, Proc
<1>2. /\ OneAtATime /\ OneAtATime' /\ ControlInv /\ CoverInv /\ SerialInv /\ SmoothInv
      /\ TargetsInv /\ RecordInv /\ OutcomeInv /\ [Next]_vars
      => OutcomeInv'
  <2>1. ASSUME OutcomeInv, UNCHANGED vars PROVE OutcomeInv'
    <3>1. UNCHANGED <<runs, approvals, proc, dispatched, used>>  BY <2>1 DEF vars
    <3>2. \A w \in Worker : AskTurn(w) => AskTurn(w)'
      BY <3>1 DEF AskTurn, Paused, Unasked, Dispatches
    <3>3. \A h \in Handler : CloseTurn(h) => CloseTurn(h)'
      BY <3>1 DEF CloseTurn, Paused, Outcome, Dispatches
    <3>4. \A i \in 1..Len(approvals) : ApprovalTurn(i) => ApprovalTurn(i)'
      BY <3>1 DEF ApprovalTurn, Closing, Closes, Outcome, Dispatches
    <3>5. QED  BY <2>1, <3>1, <3>2, <3>3, <3>4 DEF OutcomeInv, OutcomeParts, Smooth, Calm
  <2>2. QED  BY <2>1, OutcomeNext
<1>3. QED
  BY <1>1, <1>2, ControlInvHolds, CoverInvHolds, SerialInvHolds, SmoothInvHolds, TargetsInvHolds,
     RecordInvHolds, PTL DEF Spec

\* When the decisions on a run come one at a time through the inbox: until a
\* request dies, an error is raised or a lease lapses, what the approvals say is
\* what became of their runs once nobody works on them, across every crash of a
\* worker.
THEOREM DecisionMatchesOutcomeHolds ==
    ASSUME DecideOnly
    PROVE  Spec /\ []OneAtATime => []DecisionMatchesOutcome
<1>1. ControlInv /\ OutcomeInv => DecisionMatchesOutcome
  <2>1. SUFFICES ASSUME ControlInv, OutcomeInv, Smooth, NEW i \in 1..Len(approvals),
                        Quiet(approvals[i].run)
                 PROVE  LET a == approvals[i] IN
                        Outcome(a.run, a.decision, runs[a.run].status)
    BY DEF DecisionMatchesOutcome, Outcome, Smooth, Calm
  <2>2. ApprovalTurn(i)  BY <2>1 DEF OutcomeInv, OutcomeParts
  <2>3. ~Closing(approvals[i].run)  BY <2>1 DEF Closing, Closes, Quiet, Proc
  <2>4. QED  BY <2>2, <2>3 DEF ApprovalTurn
<1>2. QED  BY <1>1, ControlInvHolds, OutcomeInvHolds, PTL

=============================================================================
