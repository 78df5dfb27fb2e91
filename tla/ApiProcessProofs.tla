--------------------------- MODULE ApiProcessProofs -------------------------
(***************************************************************************)
(* One API process without a database, for any runs, threads and bounds:   *)
(* the first answer decides what happens to a paused run, the dictionaries *)
(* keep the promise of GovernedService, and the lock of the evals keeps    *)
(* summaries in order where no GET computes beside it.                     *)
(***************************************************************************)
EXTENDS ApiProcess, TLAPS

\* Where a run stands when its status is s and the recorded decision is d.
Follows(r, s, d) ==
    /\ dispatched[r] = (IF first[r] = "approved" THEN 1 ELSE 0)
    /\ first[r] = "rejected" <=> s = "cancelled"
    /\ first[r] = "approved" => s \in {"completed", "failed"}
    /\ answers[r] = 1 /\ first[r] # "none" => d = first[r]

\* What is known of a run whose graph has never raised and whose entries were
\* never lost: while a resume is on its way, the loop holds what will be
\* recorded of it.
SoundRun(r) ==
    /\ answers[r] = 0 => first[r] = "none"
    /\ RUN_STATES[r] \in {"none", RUNS[r].status}
    /\ RUNS[r].status = "none" =>
          /\ first[r] = "none" /\ dispatched[r] = 0 /\ answers[r] = 0
          /\ loop.run = r => loop.call = "create"
    /\ RUNS[r].status # "none" /\ loop.run # r => Follows(r, RUNS[r].status, RUNS[r].decision)
    /\ loop.run = r => loop.call \in {"create", "resume", "record"}
    /\ loop.run = r /\ loop.call = "create" => RUNS[r].status = "none"
    /\ loop.run = r /\ loop.call = "resume" =>
          /\ loop.decision # "none" /\ loop.result = RUN_STATES[r] /\ loop.result # "none"
          /\ IF loop.result = "approval_required"
             THEN first[r] = loop.decision /\ dispatched[r] = 0
             ELSE Follows(r, loop.result, loop.decision)
    /\ loop.run = r /\ loop.call = "record" =>
          loop.result # "none" /\ Follows(r, loop.result, loop.decision)

LocalInv ==
    /\ Local!TypeOK
    /\ loop.call = "free" => loop = Local!Free
    /\ loop.call # "free" => loop.run \in Run
    /\ \A r \in Run : r \notin lost /\ raised[r] = 0 => SoundRun(r)

\* The thread with the lock is the only one that posts, and a post without a
\* get beside it is newer than what is stored until its own summary is.
SoundThread(t) ==
    /\ thread[t].pc = "idle" => thread[t] = Evals!Idle
    /\ thread[t].pc # "idle" /\ thread[t].call # "get" => _RUN_LOCK = t /\ thread[t].call = "post"
    /\ thread[t].made <= moment
    /\ thread[t].alone =>
          /\ thread[t].call = "post" /\ \A u \in Thread : thread[u].call # "get"
          /\ thread[t].pc = "store" => thread[t].made > _LATEST_SUMMARY
          /\ thread[t].pc = "answer" => thread[t].made = _LATEST_SUMMARY

EvalsInv ==
    /\ Evals!TypeOK
    /\ _LATEST_SUMMARY <= moment
    /\ \A t \in Thread : SoundThread(t)

-----------------------------------------------------------------------------
LEMMA EvalsInit == Evals!Init => EvalsInv
<1> SUFFICES ASSUME Evals!Init PROVE EvalsInv
  OBVIOUS
<1>1. MaxMoment \in Nat  BY ApiProcessAssumption DEF Evals!EvalApiAssumption
<1>2. Evals!Idle \in [pc : {"idle", "compute", "store", "answer"},
                      call : {"none", "get", "post"}, made : Evals!Moment, alone : BOOLEAN]
  BY <1>1 DEF Evals!Idle, Evals!Moment
<1>3. Evals!TypeOK  BY <1>1, <1>2 DEF Evals!Init, Evals!TypeOK, Evals!Moment
<1>4. QED  BY <1>3 DEF EvalsInv, SoundThread, Evals!Init, Evals!Idle

LEMMA LocalInit == Local!Init => LocalInv
<1> SUFFICES ASSUME Local!Init PROVE LocalInv
  OBVIOUS
<1> USE DEF Local!Init
<1>1. NoRun \notin Run  BY ApiProcessAssumption DEF Local!LocalApiAssumption
<1>2. Local!TypeOK
  BY DEF Local!TypeOK, Local!Free, Local!Unknown, Local!Status, Local!Decision
<1>3. \A r \in Run : SoundRun(r)  BY <1>1 DEF SoundRun, Local!Unknown, Local!Free
<1>4. QED  BY <1>2, <1>3 DEF LocalInv, Local!Free

\* A thread keeps what it knows while another one moves on.
LEMMA OtherThread ==
    ASSUME EvalsInv, NEW u \in Thread, SoundThread(u), thread'[u] = thread[u],
           moment' \in Nat, moment' >= moment,
           thread[u].pc # "idle" /\ thread[u].call # "get" => _RUN_LOCK' = _RUN_LOCK,
           thread[u].alone =>
               /\ _LATEST_SUMMARY' = _LATEST_SUMMARY
               /\ \A v \in Thread : thread'[v].call # "get"
    PROVE  SoundThread(u)'
<1>1. thread[u].made \in Nat /\ moment \in Nat
  BY ApiProcessAssumption DEF EvalsInv, Evals!TypeOK, Evals!Moment, Evals!EvalApiAssumption
<1>2. QED  BY <1>1 DEF SoundThread

\* The steps of a request that is being served.
LEMMA ThreadMoves ==
    ASSUME EvalsInv, NEW t \in Thread, Evals!PostRun(t) \/ Evals!Progress(t)
    PROVE  EvalsInv'
<1> USE DEF Evals!Moment
<1>1. /\ MaxMoment \in Nat /\ NoThread \notin Thread
      /\ moment \in Nat /\ moment <= MaxMoment
      /\ _LATEST_SUMMARY \in Nat /\ _LATEST_SUMMARY <= moment
      /\ _RUN_LOCK \in Thread \cup {NoThread}
      /\ \A u \in Thread : SoundThread(u)
  BY ApiProcessAssumption DEF EvalsInv, Evals!TypeOK, Evals!EvalApiAssumption
<1> DEFINE State == [pc : {"idle", "compute", "store", "answer"},
                     call : {"none", "get", "post"}, made : 0..MaxMoment, alone : BOOLEAN]
<1>2. thread \in [Thread -> State]  BY DEF EvalsInv, Evals!TypeOK
<1>3. PICK old \in State : old = thread[t]  BY <1>2
<1>4. ASSUME thread' \in [Thread -> State],
             \A u \in Thread \ {t} : thread'[u] = thread[u],
             _RUN_LOCK' \in Thread \cup {NoThread},
             moment' \in 0..MaxMoment, moment' >= moment,
             _LATEST_SUMMARY' \in Nat, _LATEST_SUMMARY' <= moment',
             thread'[t].call # "get" \/ old.call = "get",
             \A u \in Thread \ {t} :
                /\ thread[u].pc # "idle" /\ thread[u].call # "get" => _RUN_LOCK' = _RUN_LOCK
                /\ thread[u].alone => _LATEST_SUMMARY' = _LATEST_SUMMARY,
             SoundThread(t)'
      PROVE  EvalsInv'
  <2>2. Evals!TypeOK'  BY <1>1, <1>2, <1>4 DEF Evals!TypeOK
  <2>3. ASSUME NEW u \in Thread, u # t PROVE SoundThread(u)'
    <3>1. ASSUME thread[u].alone PROVE \A v \in Thread : thread'[v].call # "get"
      <4>1. \A v \in Thread : thread[v].call # "get"  BY <1>1, <3>1 DEF SoundThread
      <4>2. QED  BY <1>3, <1>4, <4>1
    <3>2. thread'[u] = thread[u] /\ SoundThread(u) /\ moment' \in Nat  BY <1>1, <1>4, <2>3
    <3>3. QED  BY <1>4, <2>3, <3>1, <3>2, OtherThread
  <2>4. QED  BY <1>4, <2>2, <2>3 DEF EvalsInv
<1>5. SoundThread(t)  BY <1>1
<1>6. ASSUME NEW u \in Thread \ {t}, old.pc # "idle" /\ old.call # "get"
      PROVE  ~(thread[u].pc # "idle" /\ thread[u].call # "get")
  BY <1>1, <1>3, <1>5, <1>6 DEF SoundThread
<1>7. ASSUME NEW u \in Thread, thread[u].alone
      PROVE  thread[u].pc # "idle" /\ thread[u].call # "get"
             /\ \A v \in Thread : thread[v].call # "get"
  BY <1>1, <1>7 DEF SoundThread, Evals!Idle
<1>8. CASE Evals!PostRun(t)
  <2> USE DEF Evals!PostRun, Evals!Acquires
  <2> DEFINE new == [pc |-> "compute", call |-> "post", made |-> 0,
                     alone |-> Evals!Getting = {}]
  <2>1. /\ thread' = [thread EXCEPT ![t] = new]
        /\ _RUN_LOCK' = t /\ _RUN_LOCK = NoThread /\ UNCHANGED <<_LATEST_SUMMARY, moment>>
    BY <1>8
  <2>2. PICK s \in State : s = new
    <3>1. new \in State  BY <1>1
    <3> HIDE DEF new, State
    <3>2. QED  BY <3>1
  <2>3. \A u \in Thread : ~(thread[u].pc # "idle" /\ thread[u].call # "get")
    BY <1>1, <2>1 DEF SoundThread
  <2>4. /\ thread'[t] = s /\ \A u \in Thread \ {t} : thread'[u] = thread[u]
        /\ s.pc = "compute" /\ s.call = "post" /\ s.made = 0
    BY <1>2, <2>1, <2>2
  <2>5. s.alone => \A u \in Thread : thread'[u].call # "get"
    <3>1. new.alone => Evals!Getting = {}  OBVIOUS
    <3> HIDE DEF new
    <3>2. QED  BY <2>2, <2>4, <3>1 DEF Evals!Getting
  <2>6. SoundThread(t)'  BY <1>1, <2>1, <2>4, <2>5 DEF SoundThread
  <2>7. thread'[t].call = "post"  BY <2>4
  <2>8. thread' \in [Thread -> State]  BY <1>2, <2>1, <2>2
  <2>9. /\ _RUN_LOCK' \in Thread \cup {NoThread}
        /\ moment' \in 0..MaxMoment /\ moment' >= moment
        /\ _LATEST_SUMMARY' = _LATEST_SUMMARY /\ _LATEST_SUMMARY' <= moment'
    BY <1>1, <2>1
  <2> HIDE DEF State, new, Evals!PostRun
  <2>10. QED  BY <1>1, <1>4, <2>3, <2>4, <2>6, <2>7, <2>8, <2>9
<1>9. CASE Evals!Compute(t)
  <2>1. /\ old.pc = "compute" /\ moment < MaxMoment /\ moment' = moment + 1
        /\ UNCHANGED <<_RUN_LOCK, _LATEST_SUMMARY>>
        /\ thread' = [thread EXCEPT ![t] = [old EXCEPT !.pc = "store", !.made = moment + 1]]
    BY <1>2, <1>3, <1>9 DEF Evals!Compute
  <2>2. PICK s \in State : s = [old EXCEPT !.pc = "store", !.made = moment + 1]
    <3>1. moment + 1 \in 0..MaxMoment  BY <1>1, <2>1
    <3>2. QED  BY <3>1
  <2>3. s.pc = "store" /\ s.call = old.call /\ s.made = moment + 1 /\ s.alone = old.alone
    BY <2>2
  <2>4. thread'[t] = s /\ \A u \in Thread \ {t} : thread'[u] = thread[u]
    BY <1>2, <2>1, <2>2
  <2>5. SoundThread(t)'
    <3>1. old.call # "get" => _RUN_LOCK = t /\ old.call = "post"
      BY <1>3, <1>5, <2>1 DEF SoundThread
    <3>2. old.alone => old.call = "post" /\ \A u \in Thread : thread'[u].call # "get"
      BY <1>3, <1>5, <2>3, <2>4 DEF SoundThread
    <3>3. QED  BY <1>1, <2>1, <2>3, <2>4, <3>1, <3>2 DEF SoundThread
  <2>6. thread' \in [Thread -> State]  BY <1>2, <2>1, <2>2
  <2>7. moment' \in 0..MaxMoment /\ moment' >= moment /\ _LATEST_SUMMARY' <= moment'
    BY <1>1, <2>1
  <2> HIDE DEF State
  <2>8. QED  BY <1>1, <1>4, <2>1, <2>3, <2>4, <2>5, <2>6, <2>7
<1>10. CASE Evals!Store(t)
  <2>1. /\ old.pc = "store" /\ _LATEST_SUMMARY' = old.made /\ UNCHANGED <<_RUN_LOCK, moment>>
        /\ thread' = [thread EXCEPT ![t] = [old EXCEPT !.pc = "answer"]]
    BY <1>2, <1>3, <1>10 DEF Evals!Store
  <2>2. PICK s \in State : s = [old EXCEPT !.pc = "answer"]  BY <2>1
  <2>3. s.pc = "answer" /\ s.call = old.call /\ s.made = old.made /\ s.alone = old.alone
    BY <2>2
  <2>4. thread'[t] = s /\ \A u \in Thread \ {t} : thread'[u] = thread[u]
    BY <1>2, <2>1, <2>2
  <2>5. SoundThread(t)'
    <3>1. old.call # "get" => _RUN_LOCK = t /\ old.call = "post"
      BY <1>3, <1>5, <2>1 DEF SoundThread
    <3>2. old.alone => old.call = "post" /\ \A u \in Thread : thread'[u].call # "get"
      BY <1>3, <1>5, <2>3, <2>4 DEF SoundThread
    <3>3. old.made <= moment  BY <1>3, <1>5 DEF SoundThread
    <3>4. QED  BY <1>1, <2>1, <2>3, <2>4, <3>1, <3>2, <3>3 DEF SoundThread
  <2>6. \A u \in Thread \ {t} : ~thread[u].alone
    <3>1. SUFFICES ASSUME NEW u \in Thread \ {t}, thread[u].alone PROVE FALSE
      OBVIOUS
    <3>2. old.pc # "idle" /\ old.call # "get"  BY <1>3, <1>7, <2>1, <3>1
    <3>3. QED  BY <1>6, <1>7, <3>1, <3>2
  <2>7. old.made \in Nat /\ old.made <= moment  BY <1>3, <1>5 DEF SoundThread
  <2>8. thread' \in [Thread -> State]  BY <1>2, <2>1, <2>2
  <2>9. moment' \in 0..MaxMoment /\ moment' >= moment  BY <1>1, <2>1
  <2> HIDE DEF State
  <2>10. QED  BY <1>1, <1>4, <2>1, <2>3, <2>4, <2>5, <2>6, <2>7, <2>8, <2>9
<1>11. CASE Evals!Answer(t) \/ Evals!EvalRaises(t)
  <2>1. /\ old.pc # "idle" /\ _RUN_LOCK' = IF old.call = "post" THEN NoThread ELSE _RUN_LOCK
        /\ UNCHANGED <<_LATEST_SUMMARY, moment>>
        /\ thread' = [thread EXCEPT ![t] = Evals!Idle]
    BY <1>3, <1>11 DEF Evals!Answer, Evals!EvalRaises, Evals!Leave, Evals!AfterCall
  <2>2. Evals!Idle \in State /\ Evals!Idle.call = "none"  BY <1>1 DEF Evals!Idle
  <2>3. thread'[t] = Evals!Idle  BY <1>2, <2>1
  <2>4. SoundThread(t)'  BY <1>1, <2>1, <2>3 DEF SoundThread, Evals!Idle
  <2>5. \A u \in Thread \ {t} :
           thread[u].pc # "idle" /\ thread[u].call # "get" => _RUN_LOCK' = _RUN_LOCK
    BY <1>6, <2>1
  <2>6. thread' \in [Thread -> State]  BY <1>2, <2>1, <2>2
  <2>7. /\ \A u \in Thread \ {t} : thread'[u] = thread[u]
        /\ _RUN_LOCK' \in Thread \cup {NoThread}
        /\ moment' \in 0..MaxMoment /\ moment' >= moment
    BY <1>1, <1>2, <2>1
  <2> HIDE DEF State
  <2>8. QED  BY <1>1, <1>4, <2>1, <2>2, <2>3, <2>4, <2>5, <2>6, <2>7
<1>12. QED  BY <1>8, <1>9, <1>10, <1>11 DEF Evals!Progress

\* A GET that computes is beside every other request from here on.
LEMMA GetKeeps ==
    ASSUME EvalsInv, NEW t \in Thread, Evals!GetSummary(t)
    PROVE  EvalsInv'
<1>1. MaxMoment \in Nat  BY ApiProcessAssumption DEF Evals!EvalApiAssumption
<1> DEFINE State == [pc : {"idle", "compute", "store", "answer"},
                     call : {"none", "get", "post"}, made : 0..MaxMoment, alone : BOOLEAN]
<1>2. thread \in [Thread -> State] /\ moment \in Nat
  BY <1>1 DEF EvalsInv, Evals!TypeOK, Evals!Moment
<1>3. /\ thread'[t] = [Evals!Idle EXCEPT !.pc = "compute", !.call = "get"]
      /\ \A u \in Thread \ {t} : thread'[u] = [thread[u] EXCEPT !.alone = FALSE]
      /\ DOMAIN thread' = Thread /\ thread' = [u \in Thread |-> thread'[u]]
      /\ UNCHANGED <<_RUN_LOCK, _LATEST_SUMMARY, moment>>
  BY DEF Evals!GetSummary
<1>4. ASSUME NEW u \in Thread, u # t PROVE thread'[u] \in State /\ SoundThread(u)'
  <2>1. PICK old \in State : old = thread[u]  BY <1>2
  <2>2. PICK s \in State : s = [old EXCEPT !.alone = FALSE]  BY <2>1
  <2>3. /\ thread'[u] = s /\ s.pc = old.pc /\ s.call = old.call
        /\ s.made = old.made /\ s.alone = FALSE
    BY <1>3, <1>4, <2>1, <2>2
  <2>4. old.pc = "idle" => s = Evals!Idle
    BY <2>1, <2>2 DEF EvalsInv, SoundThread, Evals!Idle
  <2>5. QED  BY <1>3, <2>1, <2>3, <2>4 DEF EvalsInv, SoundThread
<1>5. thread'[t] \in State /\ SoundThread(t)'
  <2>1. thread'[t] = [pc |-> "compute", call |-> "get", made |-> 0, alone |-> FALSE]
    BY <1>3 DEF Evals!Idle
  <2>2. thread'[t] \in State  BY <1>1, <2>1
  <2>3. /\ thread'[t].pc = "compute" /\ thread'[t].call = "get"
        /\ thread'[t].made = 0 /\ ~thread'[t].alone
    BY <2>1
  <2>4. QED  BY <1>2, <1>3, <2>2, <2>3 DEF SoundThread
<1>6. Evals!TypeOK'
  <2>1. thread' \in [Thread -> State]  BY <1>3, <1>4, <1>5
  <2>2. QED  BY <1>3, <2>1 DEF EvalsInv, Evals!TypeOK, Evals!Moment
<1>7. QED  BY <1>3, <1>4, <1>5, <1>6 DEF EvalsInv

LEMMA EvalsForgotten == EvalsInv /\ Evals!Forget => EvalsInv'
<1> SUFFICES ASSUME EvalsInv, Evals!Forget PROVE EvalsInv'
  OBVIOUS
<1>1. MaxMoment \in Nat  BY ApiProcessAssumption DEF Evals!EvalApiAssumption
<1>2. Evals!Idle \in [pc : {"idle", "compute", "store", "answer"},
                      call : {"none", "get", "post"}, made : Evals!Moment, alone : BOOLEAN]
  BY <1>1 DEF Evals!Idle, Evals!Moment
<1>3. Evals!TypeOK' /\ moment' \in Nat
  BY <1>1, <1>2 DEF EvalsInv, Evals!Forget, Evals!TypeOK, Evals!Moment
<1>4. QED  BY <1>3 DEF EvalsInv, SoundThread, Evals!Forget, Evals!Idle

-----------------------------------------------------------------------------
LEMMA EvalsStep == EvalsInv /\ [Next]_vars => EvalsInv'
<1> SUFFICES ASSUME EvalsInv, [Next]_vars PROVE EvalsInv'
  OBVIOUS
<1>1. ASSUME UNCHANGED evalVars PROVE EvalsInv'
  <2>1. UNCHANGED <<_RUN_LOCK, _LATEST_SUMMARY, thread, moment>>  BY <1>1 DEF evalVars
  <2>2. Evals!TypeOK' /\ _LATEST_SUMMARY' <= moment'  BY <2>1 DEF EvalsInv, Evals!TypeOK
  <2>3. \A t \in Thread : SoundThread(t)'  BY <2>1 DEF EvalsInv, SoundThread
  <2>4. QED  BY <2>2, <2>3 DEF EvalsInv
<1>2. CASE OnLoop  BY <1>1, <1>2 DEF OnLoop
<1>3. CASE InThread  BY <1>3, ThreadMoves, GetKeeps DEF InThread, Evals!Serve
<1>4. CASE Restart  BY <1>4, EvalsForgotten DEF Restart
<1>5. CASE UNCHANGED vars  BY <1>1, <1>5 DEF vars, evalVars
<1>6. QED  BY <1>2, <1>3, <1>4, <1>5 DEF Next

\* The lock and the summaries stay as EvalsInv says, in any process.
THEOREM EvalsInvHolds == Spec => []EvalsInv
<1>1. Init => EvalsInv  BY EvalsInit DEF Init
<1>2. QED  BY <1>1, EvalsStep, PTL DEF Spec

\* NewerOnly, for any number of threads: a POST that no GET ran beside replaces
\* the summary by a newer one and answers with its own.
THEOREM NewerOnlyHolds == Spec => NewerOnly
<1> DEFINE Newer == \A t \in Thread : thread[t].alone =>
                       /\ Evals!Store(t) => thread[t].made > _LATEST_SUMMARY
                       /\ Evals!Answer(t) => _LATEST_SUMMARY = thread[t].made
<1>1. EvalsInv => Newer
  BY DEF EvalsInv, SoundThread, Evals!Store, Evals!Answer
<1>2. EvalsInv /\ [Next]_vars => [Newer]_(Evals!vars)
  BY <1>1
<1>3. QED
  <2>1. Spec => [][Newer]_(Evals!vars)
    BY <1>2, EvalsInvHolds, PTL DEF Spec
  <2>2. QED  BY <2>1 DEF NewerOnly, Evals!NewerOnly

-----------------------------------------------------------------------------
\* A handler touches one run, and what is known of the others stays.
LEMMA OneRun ==
    ASSUME LocalInv, Local!TypeOK', NEW q \in Run,
           loop'.call = "free" => loop' = Local!Free,
           loop'.call # "free" => loop'.run = q,
           loop.call = "free" \/ loop.run = q,
           lost \subseteq lost',
           \A r \in Run \ {q} :
               /\ RUNS'[r] = RUNS[r] /\ RUN_STATES'[r] = RUN_STATES[r]
               /\ dispatched'[r] = dispatched[r] /\ answers'[r] = answers[r]
               /\ first'[r] = first[r] /\ raised'[r] = raised[r],
           q \notin lost' /\ raised'[q] = 0 => SoundRun(q)'
    PROVE  LocalInv'
<1>1. NoRun \notin Run  BY ApiProcessAssumption DEF Local!LocalApiAssumption
<1>2. \A r \in Run \ {q} : loop.run # r /\ loop'.run # r
  BY <1>1 DEF LocalInv, Local!Free
<1>3. ASSUME NEW r \in Run \ {q}, r \notin lost', raised'[r] = 0 PROVE SoundRun(r)'
  <2>1. SoundRun(r)  BY <1>3 DEF LocalInv
  <2>2. QED  BY <1>2, <1>3, <2>1 DEF SoundRun, Follows
<1>4. QED  BY <1>3 DEF LocalInv

\* The handlers that start: they find the loop free.
LEMMA StartKeeps ==
    ASSUME LocalInv, NEW q \in Run, loop = Local!Free,
           \/ Local!CreateRun(q) \/ Local!ProposeCheckout(q) \/ Local!DecideApproval(q)
           \/ \E d \in {"approved", "rejected"} : Local!Resume(q, d)
    PROVE  LocalInv'
<1> USE DEF Local!Free, Local!Known
<1>1. /\ NoRun \notin Run /\ Local!TypeOK
      /\ q \notin lost /\ raised[q] = 0 => SoundRun(q)
  BY ApiProcessAssumption DEF LocalInv, Local!LocalApiAssumption
<1>2. CASE Local!CreateRun(q)
  <2>1. /\ loop' = [call |-> "create", run |-> q, decision |-> "none", result |-> "none"]
        /\ RUNS[q].status = "none"
        /\ UNCHANGED <<RUNS, RUN_STATES, DEMO_APPROVALS, DEMO_AUDIT_EVENTS,
                       dispatched, answers, first, raised, lost>>
    BY <1>2 DEF Local!CreateRun
  <2>2. Local!TypeOK'
    BY <1>1, <2>1 DEF Local!TypeOK, Local!Status, Local!Decision
  <2>3. q \notin lost' /\ raised'[q] = 0 => SoundRun(q)'
    BY <1>1, <2>1 DEF SoundRun
  <2>4. loop'.call = "create" /\ loop'.run = q  BY <2>1
  <2>5. QED  BY <2>1, <2>2, <2>3, <2>4, OneRun
<1>3. CASE Local!ProposeCheckout(q)
  <2> USE DEF Local!ProposeCheckout
  <2>1. /\ UNCHANGED <<RUN_STATES, DEMO_AUDIT_EVENTS, loop, dispatched, answers, first, raised, lost>>
        /\ DEMO_APPROVALS' \in [Run -> Nat]
    BY <1>1, <1>3 DEF Local!TypeOK
  <2>2. /\ RUNS' \in [Run -> [status : Local!Status, decision : Local!Decision]]
        /\ \A r \in Run \ {q} : RUNS'[r] = RUNS[r]
        /\ RUNS[q].status # "none" => RUNS'[q] = RUNS[q]
        /\ RUNS[q].status = "none" =>
              RUNS'[q].status = "approval_required" /\ RUNS'[q].decision = "none"
    BY <1>1, <1>3 DEF Local!TypeOK, Local!Status, Local!Decision
  <2>3. Local!TypeOK'  BY <1>1, <2>1, <2>2 DEF Local!TypeOK
  <2>4. q \notin lost' /\ raised'[q] = 0 => SoundRun(q)'
    <3>1. SUFFICES ASSUME SoundRun(q) PROVE SoundRun(q)'
      BY <1>1, <2>1
    <3>2. CASE RUNS[q].status # "none"  BY <1>1, <2>1, <2>2, <3>1, <3>2 DEF SoundRun, Follows
    <3>3. CASE RUNS[q].status = "none"  BY <1>1, <2>1, <2>2, <3>1, <3>3 DEF SoundRun, Follows
    <3>4. QED  BY <3>2, <3>3
  <2> HIDE DEF Local!ProposeCheckout
  <2>5. QED  BY <2>1, <2>2, <2>3, <2>4, OneRun
<1>4. CASE Local!DecideApproval(q)
  <2>1. /\ UNCHANGED <<RUNS, RUN_STATES, DEMO_APPROVALS, loop, dispatched, answers, first, raised, lost>>
        /\ DEMO_AUDIT_EVENTS' \in [Run -> Nat]
    BY <1>1, <1>4 DEF Local!TypeOK, Local!DecideApproval
  <2>2. Local!TypeOK'  BY <1>1, <2>1 DEF Local!TypeOK
  <2>3. q \notin lost' /\ raised'[q] = 0 => SoundRun(q)'
    BY <1>1, <2>1 DEF SoundRun, Follows
  <2>4. QED  BY <2>1, <2>2, <2>3, OneRun
<1>5. ASSUME NEW d \in {"approved", "rejected"}, Local!Resume(q, d) PROVE LocalInv'
  <2> USE DEF Local!Resume
  <2>1. /\ RUN_STATES[q] # "none"
        /\ loop' = [call |-> "resume", run |-> q, decision |-> d, result |-> RUN_STATES[q]]
        /\ UNCHANGED <<RUNS, RUN_STATES, DEMO_APPROVALS, DEMO_AUDIT_EVENTS, dispatched, raised, lost>>
    BY <1>5
  <2>2. /\ answers' \in [Run -> Nat] /\ answers'[q] = answers[q] + 1
        /\ \A r \in Run \ {q} : answers'[r] = answers[r]
    BY <1>1, <1>5 DEF Local!TypeOK
  <2>3. /\ first' \in [Run -> Local!Decision]
        /\ \A r \in Run \ {q} : first'[r] = first[r]
        /\ first'[q] = IF first[q] = "none" /\ RUN_STATES[q] = "approval_required" THEN d ELSE first[q]
    BY <1>1, <1>5 DEF Local!TypeOK, Local!Decision
  <2> HIDE DEF Local!Resume
  <2>4. Local!TypeOK'
    <3>1. RUN_STATES[q] \in Local!Status  BY <1>1 DEF Local!TypeOK
    <3>2. loop' \in [call : {"free", "create", "resume", "record"}, run : Run \cup {NoRun},
                     decision : Local!Decision, result : Local!Status]
      BY <2>1, <3>1 DEF Local!Decision
    <3>3. QED  BY <1>1, <2>1, <2>2, <2>3, <3>2 DEF Local!TypeOK
  <2>5. /\ loop'.call = "resume" /\ loop'.run = q /\ loop'.decision = d
        /\ loop'.result = RUN_STATES[q]
    BY <2>1
  <2>6. q \notin lost' /\ raised'[q] = 0 => SoundRun(q)'
    <3>1. SUFFICES ASSUME SoundRun(q) PROVE SoundRun(q)'
      BY <1>1, <2>1
    <3>2. Follows(q, RUNS[q].status, RUNS[q].decision) /\ RUNS[q].status = RUN_STATES[q]
      BY <1>1, <2>1, <3>1 DEF SoundRun
    <3>3. answers[q] \in Nat /\ (answers[q] = 0 => first[q] = "none")
      BY <1>1, <3>1 DEF Local!TypeOK, SoundRun
    <3>4. CASE RUN_STATES[q] = "approval_required"
      <4>1. first[q] = "none" /\ dispatched[q] = 0
        BY <1>1, <3>2, <3>4 DEF Follows, Local!TypeOK, Local!Decision
      <4>2. QED  BY <2>1, <2>2, <2>3, <2>5, <3>1, <3>2, <3>3, <3>4, <4>1 DEF SoundRun
    <3>5. CASE RUN_STATES[q] # "approval_required"
      <4>1. first'[q] = first[q]  BY <2>3, <3>5
      <4>2. answers'[q] = 1 => first[q] = "none"  BY <2>2, <3>3
      <4>3. Follows(q, RUN_STATES[q], d)'
        BY <2>1, <3>2, <4>1, <4>2 DEF Follows
      <4>4. QED  BY <2>1, <2>2, <2>5, <3>1, <3>2, <3>3, <3>5, <4>1, <4>3 DEF SoundRun, Follows
    <3>6. QED  BY <3>4, <3>5
  <2>7. QED  BY <2>1, <2>2, <2>3, <2>4, <2>5, <2>6, OneRun
<1>6. QED  BY <1>2, <1>3, <1>4, <1>5

\* The steps of the handler that holds the loop.
LEMMA GoOnKeeps ==
    ASSUME LocalInv,
           \/ Local!InvokeAndKeep \/ Local!CreateRaises
           \/ Local!GraphResume \/ Local!RecordResume \/ Local!ResumeRaises
    PROVE  LocalInv'
<1> USE DEF Local!Free
<1>1. /\ NoRun \notin Run /\ Local!TypeOK
      /\ loop.call # "free"
  BY ApiProcessAssumption
  DEF LocalInv, Local!LocalApiAssumption, Local!InvokeAndKeep, Local!CreateRaises,
      Local!GraphResume, Local!RecordResume, Local!ResumeRaises
<1>2. PICK q \in Run : q = loop.run  BY <1>1 DEF LocalInv
<1>3. q \notin lost /\ raised[q] = 0 => SoundRun(q)  BY DEF LocalInv
<1>4. /\ RUNS \in [Run -> [status : Local!Status, decision : Local!Decision]]
      /\ RUN_STATES \in [Run -> Local!Status] /\ dispatched \in [Run -> Nat]
      /\ raised \in [Run -> Nat] /\ lost \subseteq Run
      /\ loop \in [call : {"free", "create", "resume", "record"}, run : Run \cup {NoRun},
                   decision : Local!Decision, result : Local!Status]
  BY <1>1 DEF Local!TypeOK
<1>5. Local!Free \in [call : {"free", "create", "resume", "record"}, run : Run \cup {NoRun},
                      decision : Local!Decision, result : Local!Status]
  BY DEF Local!Decision, Local!Status
<1>6. CASE Local!InvokeAndKeep
  <2>1. PICK s \in {"completed", "failed", "approval_required"} :
           /\ RUNS' = [RUNS EXCEPT ![loop.run] = [status |-> s, decision |-> "none"]]
           /\ RUN_STATES' = [RUN_STATES EXCEPT ![loop.run] = s]
    BY <1>6 DEF Local!InvokeAndKeep
  <2>2. /\ loop.call = "create" /\ loop' = Local!Free
        /\ UNCHANGED <<DEMO_APPROVALS, DEMO_AUDIT_EVENTS, dispatched, answers, first, raised, lost>>
    BY <1>6 DEF Local!InvokeAndKeep
  <2>3. s \in Local!Status /\ [status |-> s, decision |-> "none"]
                              \in [status : Local!Status, decision : Local!Decision]
    BY DEF Local!Status, Local!Terminal, Local!Decision
  <2>4. /\ RUNS' \in [Run -> [status : Local!Status, decision : Local!Decision]]
        /\ RUN_STATES' \in [Run -> Local!Status]
        /\ RUNS'[q].status = s /\ RUNS'[q].decision = "none" /\ RUN_STATES'[q] = s
        /\ \A r \in Run \ {q} : RUNS'[r] = RUNS[r] /\ RUN_STATES'[r] = RUN_STATES[r]
    BY <1>2, <1>4, <2>1, <2>3
  <2>5. Local!TypeOK'  BY <1>1, <1>5, <2>2, <2>4 DEF Local!TypeOK
  <2>6. q \notin lost' /\ raised'[q] = 0 => SoundRun(q)'
    BY <1>1, <1>2, <1>3, <2>2, <2>4 DEF SoundRun, Follows
  <2>7. QED  BY <1>2, <2>2, <2>4, <2>5, <2>6, OneRun
<1>7. CASE Local!CreateRaises \/ Local!ResumeRaises
  <2>1. /\ loop' = Local!Free /\ raised' = [raised EXCEPT ![q] = @ + 1]
        /\ lost \subseteq lost' /\ lost' \subseteq Run
        /\ UNCHANGED <<RUNS, RUN_STATES, DEMO_APPROVALS, DEMO_AUDIT_EVENTS, dispatched, answers, first>>
    BY <1>2, <1>4, <1>7 DEF Local!CreateRaises, Local!ResumeRaises, Local!Raises
  <2>2. /\ raised' \in [Run -> Nat] /\ raised'[q] = raised[q] + 1 /\ raised[q] \in Nat
        /\ \A r \in Run \ {q} : raised'[r] = raised[r]
    BY <1>4, <2>1
  <2>3. Local!TypeOK'  BY <1>1, <1>5, <2>1, <2>2 DEF Local!TypeOK
  <2>4. raised'[q] # 0  BY <2>2
  <2>5. QED  BY <1>2, <2>1, <2>2, <2>3, <2>4, OneRun
<1>8. CASE Local!GraphResume
  <2>1. PICK end \in Local!Resumed(loop.result, loop.decision) :
           /\ loop' = [loop EXCEPT !.call = "record", !.result = end[1]]
           /\ dispatched' = [dispatched EXCEPT ![loop.run] = @ + end[2]]
    BY <1>8 DEF Local!GraphResume
  <2>2. /\ loop.call = "resume"
        /\ UNCHANGED <<RUNS, RUN_STATES, DEMO_APPROVALS, DEMO_AUDIT_EVENTS, answers, first, raised, lost>>
    BY <1>8 DEF Local!GraphResume
  <2>3. /\ end[1] \in Local!Status /\ end[2] \in Nat
        /\ loop.result # "approval_required" => end[1] = loop.result /\ end[2] = 0
        /\ loop.result = "approval_required" =>
              IF loop.decision = "rejected" THEN end[1] = "cancelled" /\ end[2] = 0
              ELSE end[1] \in {"completed", "failed"} /\ end[2] = 1
    BY <1>4 DEF Local!Resumed, Local!Status, Local!Terminal
  <2>4. /\ loop' \in [call : {"free", "create", "resume", "record"}, run : Run \cup {NoRun},
                      decision : Local!Decision, result : Local!Status]
        /\ loop'.call = "record" /\ loop'.run = q /\ loop'.decision = loop.decision
        /\ loop'.result = end[1]
    BY <1>2, <1>4, <2>1, <2>3
  <2>5. /\ dispatched' \in [Run -> Nat] /\ dispatched'[q] = dispatched[q] + end[2]
        /\ \A r \in Run \ {q} : dispatched'[r] = dispatched[r]
    BY <1>2, <1>4, <2>1, <2>3
  <2>6. Local!TypeOK'  BY <1>1, <2>2, <2>4, <2>5 DEF Local!TypeOK
  <2>7. q \notin lost' /\ raised'[q] = 0 => SoundRun(q)'
    <3>1. SUFFICES ASSUME SoundRun(q) PROVE SoundRun(q)'
      BY <1>3, <2>2
    <3>2. /\ loop.decision \in {"approved", "rejected"}
          /\ loop.result = RUN_STATES[q] /\ loop.result # "none"
          /\ IF loop.result = "approval_required"
             THEN first[q] = loop.decision /\ dispatched[q] = 0
             ELSE Follows(q, loop.result, loop.decision)
      BY <1>2, <1>4, <2>2, <3>1 DEF SoundRun, Local!Decision
    <3>3. dispatched[q] \in Nat  BY <1>4
    <3>4. CASE loop.result = "approval_required"
      <4>1. Follows(q, end[1], loop.decision)'
        BY <2>2, <2>3, <2>4, <2>5, <3>2, <3>3, <3>4 DEF Follows
      <4>2. QED  BY <2>2, <2>3, <2>4, <3>1, <3>2, <3>4, <4>1 DEF SoundRun, Follows
    <3>5. CASE loop.result # "approval_required"
      <4>1. dispatched'[q] = dispatched[q]  BY <2>3, <2>5, <3>3, <3>5
      <4>2. QED  BY <2>2, <2>3, <2>4, <3>1, <3>2, <3>5, <4>1 DEF SoundRun, Follows
    <3>6. QED  BY <3>4, <3>5
  <2>8. QED  BY <1>2, <2>2, <2>4, <2>5, <2>6, <2>7, OneRun
<1>9. CASE Local!RecordResume
  <2>1. /\ RUNS' = [RUNS EXCEPT ![q] = [status |-> loop.result, decision |-> loop.decision]]
        /\ RUN_STATES' = [RUN_STATES EXCEPT ![q] = loop.result]
        /\ loop.call = "record" /\ loop' = Local!Free
        /\ UNCHANGED <<DEMO_APPROVALS, DEMO_AUDIT_EVENTS, dispatched, answers, first, raised, lost>>
    BY <1>2, <1>9 DEF Local!RecordResume, Local!Kept
  <2>2. /\ RUNS' \in [Run -> [status : Local!Status, decision : Local!Decision]]
        /\ RUN_STATES' \in [Run -> Local!Status]
        /\ RUNS'[q].status = loop.result /\ RUNS'[q].decision = loop.decision
        /\ RUN_STATES'[q] = loop.result
        /\ \A r \in Run \ {q} : RUNS'[r] = RUNS[r] /\ RUN_STATES'[r] = RUN_STATES[r]
    BY <1>4, <2>1
  <2>3. Local!TypeOK'  BY <1>1, <1>5, <2>1, <2>2 DEF Local!TypeOK
  <2>4. q \notin lost' /\ raised'[q] = 0 => SoundRun(q)'
    <3>1. SUFFICES ASSUME SoundRun(q) PROVE SoundRun(q)'
      BY <1>3, <2>1
    <3>2. loop'.run # q /\ loop.result # "none"  BY <1>1, <1>2, <2>1, <3>1 DEF SoundRun
    <3>3. Follows(q, loop.result, loop.decision)  BY <1>2, <2>1, <3>1 DEF SoundRun
    <3>4. QED  BY <2>1, <2>2, <3>1, <3>2, <3>3 DEF SoundRun, Follows
  <2>5. QED  BY <1>2, <2>1, <2>2, <2>3, <2>4, OneRun
<1>10. QED  BY <1>6, <1>7, <1>8, <1>9

\* What a restart forgets is fresh again or known to be lost.
LEMMA LocalForgotten ==
    ASSUME LocalInv, Local!Forget
    PROVE  LocalInv'
<1> USE DEF Local!Forget, Local!Free, Local!Unknown
<1>1. Local!TypeOK'
  BY DEF LocalInv, Local!TypeOK, Local!Status, Local!Decision
<1>2. ASSUME NEW r \in Run, r \notin lost', raised'[r] = 0 PROVE SoundRun(r)'
  <2>1. SoundRun(r) /\ RUNS[r].status = "none" /\ r # NoRun
    BY <1>2, ApiProcessAssumption DEF LocalInv, Local!Known, Local!LocalApiAssumption
  <2>2. QED  BY <2>1 DEF SoundRun
<1>3. QED  BY <1>1, <1>2 DEF LocalInv

LEMMA LocalStep == LocalInv /\ [Next]_vars => LocalInv'
<1> SUFFICES ASSUME LocalInv, [Next]_vars PROVE LocalInv'
  OBVIOUS
<1>1. ASSUME UNCHANGED localVars PROVE LocalInv'
  <2>1. UNCHANGED <<RUNS, RUN_STATES, DEMO_APPROVALS, DEMO_AUDIT_EVENTS, loop,
                    dispatched, answers, first, raised, lost>>
    BY <1>1 DEF localVars
  <2>2. Local!TypeOK'  BY <2>1 DEF LocalInv, Local!TypeOK
  <2>3. ASSUME NEW r \in Run, r \notin lost, raised[r] = 0 PROVE SoundRun(r)'
    <3>1. SoundRun(r)  BY <2>3 DEF LocalInv
    <3>2. QED  BY <2>1, <3>1 DEF SoundRun, Follows
  <2>4. QED  BY <2>1, <2>2, <2>3 DEF LocalInv
<1>2. CASE OnLoop
  <2> HIDE DEF LocalInv
  <2>1. ASSUME NEW r \in Run,
               \/ Local!CreateRun(r) \/ Local!ProposeCheckout(r) \/ Local!DecideApproval(r)
               \/ \E d \in {"approved", "rejected"} : Local!Resume(r, d)
        PROVE  LocalInv'
    <3>1. loop = Local!Free
      BY <2>1 DEF Local!CreateRun, Local!ProposeCheckout, Local!DecideApproval, Local!Resume
    <3>2. QED  BY <2>1, <3>1, StartKeeps
  <2>2. QED  BY <1>2, <2>1, GoOnKeeps DEF OnLoop, Local!Handle
<1>3. CASE InThread  BY <1>1, <1>3 DEF InThread
<1>4. CASE Restart  BY <1>4, LocalForgotten DEF Restart
<1>5. CASE UNCHANGED vars  BY <1>1, <1>5 DEF vars, localVars
<1>6. QED  BY <1>2, <1>3, <1>4, <1>5 DEF Next

\* What the loop and the dictionaries say of a run stays as LocalInv has it.
THEOREM LocalInvHolds == Spec => []LocalInv
<1>1. Init => LocalInv  BY LocalInit DEF Init
<1>2. QED  BY <1>1, LocalStep, PTL DEF Spec

\* FirstAnswerDecides, for any runs, answers and proposals: however often a
\* paused run is answered, the first answer is the one that was carried out.
THEOREM FirstAnswerDecidesHolds == Spec => []FirstAnswerDecides
<1>1. LocalInv => FirstAnswerDecides
  BY DEF LocalInv, SoundRun, Follows, FirstAnswerDecides, Local!FirstAnswerDecides, Local!Known
<1>2. QED  BY <1>1, LocalInvHolds, PTL

-----------------------------------------------------------------------------
(* The refinement of GovernedService.                                      *)

\* What the refinement needs besides: an id that outlived its entries has no
\* graph state to resume, and a resume that is recorded has settled its run.
KeptRun(r) ==
    raised[r] = 0 =>
        /\ r \in lost => RUN_STATES[r] = "none" /\ loop.run # r
        /\ r \notin lost /\ loop.run = r /\ loop.call = "record" => loop.result \in Local!Terminal

KeptInv == \A r \in Run : KeptRun(r)

\* A handler leaves the runs it does not hold as they were.
LEMMA OthersKept ==
    ASSUME LocalInv, KeptInv, NEW q \in Run,
           loop.run \in {q, NoRun}, loop'.run \in {q, NoRun},
           \A r \in Run \ {q} : /\ r \in lost' <=> r \in lost
                                /\ RUN_STATES'[r] = RUN_STATES[r] /\ raised'[r] = raised[r],
           KeptRun(q)'
    PROVE  KeptInv'
<1>1. NoRun \notin Run  BY ApiProcessAssumption DEF Local!LocalApiAssumption
<1>2. QED  BY <1>1 DEF KeptInv, KeptRun

\* The run of the handler that holds the loop, or none.
LEMMA HeldRun ==
    ASSUME LocalInv
    PROVE  /\ loop.call = "free" => loop.run = NoRun
           /\ loop.call # "free" => loop.run \in Run
           /\ NoRun \notin Run
           /\ Local!Free.run = NoRun /\ Local!Free.call = "free"
  BY ApiProcessAssumption DEF LocalInv, Local!Free, Local!LocalApiAssumption

LEMMA KeptStep == LocalInv /\ KeptInv /\ [Next]_vars => KeptInv'
<1> SUFFICES ASSUME LocalInv, KeptInv, [Next]_vars PROVE KeptInv'
  OBVIOUS
<1>1. ASSUME UNCHANGED localVars PROVE KeptInv'
  BY <1>1 DEF localVars, KeptInv, KeptRun
<1>2. ASSUME NEW q \in Run, Local!CreateRun(q) PROVE KeptInv'
  <2>1. /\ loop = Local!Free /\ q \notin lost
        /\ loop' = [Local!Free EXCEPT !.call = "create", !.run = q]
        /\ UNCHANGED <<RUN_STATES, raised, lost>>
    BY <1>2 DEF Local!CreateRun
  <2>2. loop'.run = q /\ loop'.call = "create"  BY <2>1 DEF Local!Free
  <2>3. QED  BY <2>1, <2>2, HeldRun, OthersKept DEF KeptRun
<1>3. ASSUME NEW q \in Run, Local!ProposeCheckout(q) \/ Local!DecideApproval(q) PROVE KeptInv'
  BY <1>3 DEF Local!ProposeCheckout, Local!DecideApproval, KeptInv, KeptRun
<1>4. ASSUME NEW q \in Run, NEW d \in {"approved", "rejected"}, Local!Resume(q, d) PROVE KeptInv'
  <2>1. /\ loop = Local!Free /\ RUN_STATES[q] # "none"
        /\ loop' = [call |-> "resume", run |-> q, decision |-> d, result |-> RUN_STATES[q]]
        /\ UNCHANGED <<RUN_STATES, raised, lost>>
    BY <1>4 DEF Local!Resume
  <2>2. KeptRun(q)'  BY <2>1 DEF KeptInv, KeptRun
  <2>3. loop'.run = q  BY <2>1
  <2>4. QED  BY <2>1, <2>2, <2>3, HeldRun, OthersKept
<1>5. ASSUME Local!InvokeAndKeep \/ Local!RecordResume PROVE KeptInv'
  <2>1. PICK q \in Run : q = loop.run
    BY <1>5, HeldRun DEF Local!InvokeAndKeep, Local!RecordResume
  <2>2. /\ loop' = Local!Free /\ UNCHANGED <<raised, lost>>
        /\ \A r \in Run \ {q} : RUN_STATES'[r] = RUN_STATES[r]
    BY <1>5, <2>1 DEF Local!InvokeAndKeep, Local!RecordResume, LocalInv, Local!TypeOK
  <2>3. raised[q] = 0 => q \notin lost  BY <2>1 DEF KeptInv, KeptRun
  <2>4. QED  BY <2>1, <2>2, <2>3, HeldRun, OthersKept DEF KeptRun
<1>6. ASSUME Local!CreateRaises \/ Local!ResumeRaises PROVE KeptInv'
  <2>1. PICK q \in Run : q = loop.run
    BY <1>6, HeldRun DEF Local!CreateRaises, Local!ResumeRaises
  <2>2. /\ loop' = Local!Free /\ raised' = [raised EXCEPT ![q] = @ + 1]
        /\ RUN_STATES' = RUN_STATES /\ lost' \in {lost, lost \cup {q}}
        /\ raised \in [Run -> Nat]
    BY <1>6, <2>1 DEF Local!CreateRaises, Local!ResumeRaises, Local!Raises, LocalInv, Local!TypeOK
  <2>3. raised'[q] # 0 /\ \A r \in Run \ {q} : raised'[r] = raised[r]  BY <2>2
  <2>4. QED  BY <2>1, <2>2, <2>3, HeldRun, OthersKept DEF KeptRun
<1>7. ASSUME Local!GraphResume PROVE KeptInv'
  <2>1. PICK q \in Run : q = loop.run
    BY <1>7, HeldRun DEF Local!GraphResume
  <2>2. PICK end \in Local!Resumed(loop.result, loop.decision) :
           loop' = [loop EXCEPT !.call = "record", !.result = end[1]]
    BY <1>7 DEF Local!GraphResume
  <2>3. loop.call = "resume" /\ UNCHANGED <<RUN_STATES, raised, lost>>
    BY <1>7 DEF Local!GraphResume
  <2>4. loop'.run = q /\ loop'.result = end[1]
    BY <2>1, <2>2 DEF LocalInv, Local!TypeOK
  <2>5. KeptRun(q)'
    <3>1. SUFFICES ASSUME raised[q] = 0 PROVE q \notin lost /\ end[1] \in Local!Terminal
      BY <2>3, <2>4 DEF KeptRun
    <3>2. q \notin lost  BY <2>1, <3>1 DEF KeptInv, KeptRun
    <3>3. loop.result \in Local!Status \ {"none"}
      BY <2>1, <2>3, <3>1, <3>2 DEF LocalInv, SoundRun, Local!TypeOK
    <3>4. QED  BY <3>2, <3>3 DEF Local!Resumed, Local!Status, Local!Terminal
  <2>6. QED  BY <2>1, <2>3, <2>4, <2>5, OthersKept
<1>8. ASSUME Local!Forget PROVE KeptInv'
  BY <1>8, HeldRun DEF Local!Forget, KeptInv, KeptRun
<1>9. QED
  BY <1>1, <1>2, <1>3, <1>4, <1>5, <1>6, <1>7, <1>8
  DEF Next, OnLoop, InThread, Restart, Local!Handle, vars, localVars

-----------------------------------------------------------------------------
\* Where one run stands.
Stage(r) ==
    IF dispatched[r] > 0 \/ r \in lost \/ RUNS[r].status \in Local!Terminal THEN "closed"
    ELSE IF RUNS[r].status # "none" THEN "awaiting"
    ELSE IF loop.run = r THEN "queued" ELSE "absent"

LEMMA StageIs == \A r \in Run : Local!StageBar[r] = Stage(r)
  BY DEF Local!StageBar, Stage, Local!Known

\* A step of one run that performs nothing, records that a human approved, or
\* carries out the proposal is a step of the service or none.
Consented == Local!Consented

Maps(q) ==
    \/ /\ dispatched' = dispatched /\ Consented' = Consented
       /\ Stage(q)' = Stage(q) \/ <<Stage(q), Stage(q)'>> \in Local!Service!Moves
    \/ /\ dispatched' = dispatched /\ Consented' = Consented \cup {q}
       /\ Stage(q)' = Stage(q) /\ Stage(q) \in {"awaiting", "closed"}
    \/ /\ dispatched' = [dispatched EXCEPT ![q] = @ + 1] /\ Consented' = Consented
       /\ Stage(q) = "awaiting" /\ Stage(q)' = "closed" /\ q \in Consented

Step ==
    \/ Local!Service!Next \/ Local!Closes \/ \E r \in Run : raised[r] > 0 /\ Local!Only(r)
    \/ UNCHANGED <<Local!StageBar, Consented, dispatched>>

LEMMA OneRunMaps ==
    ASSUME LocalInv, NEW q \in Run, \A r \in Run \ {q} : Stage(r)' = Stage(r), Maps(q)
    PROVE  Step
<1> DEFINE bar == Local!StageBar
<1>1. /\ bar = [r \in Run |-> Stage(r)] /\ bar' = [r \in Run |-> Stage(r)']
  BY DEF Local!StageBar, Stage, Local!Known
<1>2. bar' = [bar EXCEPT ![q] = Stage(q)'] /\ bar[q] = Stage(q)
  BY <1>1
<1>3. CASE UNCHANGED <<dispatched, Consented>> /\ Stage(q)' = Stage(q)
  <2>1. bar' = bar  BY <1>1, <1>3
  <2>2. QED  BY <1>3, <2>1 DEF Step
<1>4. CASE UNCHANGED <<dispatched, Consented>> /\ <<Stage(q), Stage(q)'>> \in Local!Service!Moves
  <2>1. Stage(q)' \in {"queued", "awaiting", "closed"}
    BY <1>4 DEF Local!Service!Moves
  <2>2. Local!Service!Move(q)
    BY <1>2, <1>4, <2>1 DEF Local!Service!Move, Consented
  <2>3. QED  BY <2>2 DEF Step, Local!Service!Next
<1>5. CASE /\ dispatched' = dispatched /\ Consented' = Consented \cup {q}
           /\ Stage(q)' = Stage(q) /\ Stage(q) \in {"awaiting", "closed"}
  <2>1. bar' = bar  BY <1>1, <1>5
  <2>2. Local!Service!Consent(q)
    BY <1>2, <1>5, <2>1 DEF Local!Service!Consent, Consented
  <2>3. QED  BY <2>2 DEF Step, Local!Service!Next
<1>6. CASE /\ dispatched' = [dispatched EXCEPT ![q] = @ + 1] /\ Consented' = Consented
           /\ Stage(q) = "awaiting" /\ Stage(q)' = "closed" /\ q \in Consented
  <2>1. Local!Service!Perform(q)
    BY <1>2, <1>6 DEF Local!Service!Perform, Consented
  <2>2. QED  BY <2>1 DEF Step, Local!Service!Next
<1>7. QED  BY <1>3, <1>4, <1>5, <1>6 DEF Maps

\* What is recorded of one run's answers says nothing of the others.
LEMMA ConsentIs ==
    ASSUME NEW q \in Run, \A r \in Run \ {q} : first'[r] = first[r]
    PROVE  /\ \A r \in Run \ {q} : r \in Consented' <=> r \in Consented
           /\ first'[q] = first[q] => Consented' = Consented
           /\ first'[q] = "approved" => Consented' = Consented \cup {q}
           /\ first[q] # "approved" /\ first'[q] # "approved" => Consented' = Consented
  BY DEF Consented, Local!Consented

\* Behind an exception only the run it was raised for is free to do otherwise.
LEMMA RaisedMaps ==
    ASSUME NEW q \in Run, raised[q] > 0,
           \A r \in Run \ {q} : /\ Stage(r)' = Stage(r) /\ dispatched'[r] = dispatched[r]
                                /\ first'[r] = first[r]
    PROVE  Step
<1>1. \A r \in Run \ {q} : Local!StageBar'[r] = Local!StageBar[r]
  BY DEF Local!StageBar, Stage, Local!Known
<1>2. QED  BY <1>1, ConsentIs DEF Step, Local!Only, Consented

LEMMA HandleMaps ==
    ASSUME LocalInv, KeptInv, NEW q \in Run, loop.run \in {q, NoRun},
           Local!Handle,
           loop'.run \in {q, NoRun},
           \A r \in Run \ {q} : /\ r \in lost' <=> r \in lost
                                /\ RUNS'[r] = RUNS[r] /\ dispatched'[r] = dispatched[r]
                                /\ first'[r] = first[r],
           raised[q] = 0 => Maps(q)
    PROVE  Step
<1>1. \A r \in Run \ {q} : Stage(r)' = Stage(r)
  BY HeldRun DEF Stage
<1>2. raised[q] \in Nat  BY DEF LocalInv, Local!TypeOK
<1>3. CASE raised[q] = 0  BY <1>1, <1>3, OneRunMaps
<1>4. CASE raised[q] # 0  BY <1>1, <1>2, <1>4, RaisedMaps
<1>5. QED  BY <1>3, <1>4

\* A run whose graph has not raised and whose entries are here.
LEMMA Here ==
    ASSUME LocalInv, KeptInv, NEW q \in Run, raised[q] = 0
    PROVE  /\ loop.run = q \/ RUN_STATES[q] # "none" => q \notin lost
           /\ q \notin lost => SoundRun(q)
           /\ dispatched[q] \in Nat /\ RUNS[q].status \in Local!Status
  BY DEF LocalInv, KeptInv, KeptRun, Local!TypeOK

LEMMA LoopMaps == LocalInv /\ KeptInv /\ OnLoop => Step
<1> SUFFICES ASSUME LocalInv, KeptInv, OnLoop PROVE Step
  OBVIOUS
<1>0. Local!Handle  BY DEF OnLoop
<1>1. ASSUME NEW q \in Run, Local!CreateRun(q) PROVE Step
  <2>1. /\ loop = Local!Free /\ RUNS[q].status = "none" /\ q \notin lost
        /\ loop' = [Local!Free EXCEPT !.call = "create", !.run = q]
        /\ UNCHANGED <<RUNS, dispatched, first, lost>>
    BY <1>1 DEF Local!CreateRun, Local!Known
  <2>2. loop.run = NoRun /\ loop'.run = q  BY <2>1 DEF Local!Free
  <2>3. ASSUME raised[q] = 0 PROVE Maps(q)
    <3>1. dispatched[q] = 0  BY <2>1, <2>3, Here DEF SoundRun
    <3>2. Stage(q) = "absent" /\ Stage(q)' = "queued"
      BY <2>1, <2>2, <3>1, HeldRun DEF Stage, Local!Terminal
    <3>3. QED  BY <2>1, <3>2 DEF Maps, Consented, Local!Consented, Local!Service!Moves
  <2>4. QED  BY <1>0, <2>1, <2>2, <2>3, HandleMaps
<1>2. ASSUME NEW q \in Run, Local!ProposeCheckout(q) PROVE Step
  <2>1. /\ loop = Local!Free /\ UNCHANGED <<loop, dispatched, first, lost>>
        /\ \A r \in Run \ {q} : RUNS'[r] = RUNS[r]
        /\ RUNS[q].status # "none" => RUNS'[q] = RUNS[q]
        /\ RUNS[q].status = "none" => RUNS'[q].status = "approval_required"
    BY <1>2 DEF Local!ProposeCheckout, Local!Known, LocalInv, Local!TypeOK
  <2>2. loop.run = NoRun /\ loop'.run = NoRun  BY <2>1 DEF Local!Free
  <2>3. ASSUME raised[q] = 0 PROVE Maps(q)
    <3>1. CASE RUNS[q].status # "none" \/ q \in lost
      <4>1. Stage(q)' = Stage(q)  BY <2>1, <2>2, <3>1 DEF Stage
      <4>2. QED  BY <2>1, <4>1 DEF Maps, Consented, Local!Consented
    <3>2. CASE RUNS[q].status = "none" /\ q \notin lost
      <4>1. dispatched[q] = 0  BY <2>3, <3>2, Here DEF SoundRun
      <4>2. Stage(q) = "absent" /\ Stage(q)' = "awaiting"
        BY <2>1, <2>2, <3>2, <4>1, HeldRun DEF Stage, Local!Terminal
      <4>3. QED  BY <2>1, <4>2 DEF Maps, Consented, Local!Consented, Local!Service!Moves
    <3>3. QED  BY <3>1, <3>2
  <2>4. QED  BY <1>0, <2>1, <2>2, <2>3, HandleMaps
<1>3. ASSUME NEW q \in Run, Local!DecideApproval(q) PROVE Step
  BY <1>3 DEF Local!DecideApproval, Step, Local!StageBar, Local!Known, Consented, Local!Consented
<1>4. ASSUME NEW q \in Run, NEW d \in {"approved", "rejected"}, Local!Resume(q, d) PROVE Step
  <2>1. /\ loop = Local!Free /\ RUN_STATES[q] # "none"
        /\ loop' = [call |-> "resume", run |-> q, decision |-> d, result |-> RUN_STATES[q]]
        /\ UNCHANGED <<RUNS, dispatched, lost>>
    BY <1>4 DEF Local!Resume
  <2>2. loop.run = NoRun /\ loop'.run = q
    <3>1. loop'.run = q  BY <2>1
    <3>2. QED  BY <2>1, <3>1 DEF Local!Free
  <2>4. /\ first'[q] \in {first[q], d}
        /\ first'[q] # first[q] => first[q] = "none"
        /\ \A r \in Run \ {q} : first'[r] = first[r]
    BY <1>4 DEF Local!Resume, LocalInv, Local!TypeOK
  <2>3. ASSUME raised[q] = 0 PROVE Maps(q)
    <3>1. RUNS[q].status # "none"  BY <2>1, <2>3, Here DEF SoundRun
    <3>2. Stage(q)' = Stage(q) /\ Stage(q) \in {"awaiting", "closed"}
      BY <2>1, <3>1 DEF Stage
    <3>3. Consented' = Consented \/ Consented' = Consented \cup {q}
      BY <2>4, ConsentIs
    <3>4. QED  BY <2>1, <3>2, <3>3 DEF Maps
  <2>5. QED  BY <1>0, <2>1, <2>2, <2>3, <2>4, HandleMaps
<1>5. ASSUME Local!InvokeAndKeep PROVE Step
  <2>1. PICK q \in Run : q = loop.run  BY <1>5, HeldRun DEF Local!InvokeAndKeep
  <2>2. PICK s \in {"completed", "failed", "approval_required"} :
            RUNS' = [RUNS EXCEPT ![loop.run] = [status |-> s, decision |-> "none"]]
    BY <1>5 DEF Local!InvokeAndKeep
  <2>3. /\ loop.call = "create" /\ loop' = Local!Free /\ UNCHANGED <<dispatched, first, lost>>
        /\ RUNS'[q].status = s /\ \A r \in Run \ {q} : RUNS'[r] = RUNS[r]
    BY <1>5, <2>1, <2>2 DEF Local!InvokeAndKeep, LocalInv, Local!TypeOK
  <2>4. ASSUME raised[q] = 0 PROVE Maps(q)
    <3>1. q \notin lost /\ RUNS[q].status = "none" /\ dispatched[q] = 0
      BY <2>1, <2>3, <2>4, Here DEF SoundRun
    <3>2. Stage(q) = "queued" /\ Stage(q)' \in {"awaiting", "closed"}
      BY <2>1, <2>3, <3>1 DEF Stage, Local!Terminal
    <3>3. QED  BY <2>3, <3>2 DEF Maps, Consented, Local!Consented, Local!Service!Moves
  <2>5. QED  BY <1>0, <2>1, <2>3, <2>4, HeldRun, HandleMaps
<1>6. ASSUME Local!CreateRaises PROVE Step
  <2>1. PICK q \in Run : q = loop.run  BY <1>6, HeldRun DEF Local!CreateRaises
  <2>2. /\ loop.call = "create" /\ loop' = Local!Free /\ UNCHANGED <<RUNS, dispatched, first>>
        /\ lost' = lost \cup {q}
    BY <1>6, <2>1 DEF Local!CreateRaises, Local!Raises
  <2>3. ASSUME raised[q] = 0 PROVE Maps(q)
    <3>1. q \notin lost /\ RUNS[q].status = "none" /\ dispatched[q] = 0
      BY <2>1, <2>2, <2>3, Here DEF SoundRun
    <3>2. Stage(q) = "queued" /\ Stage(q)' = "closed"
      BY <2>1, <2>2, <3>1 DEF Stage, Local!Terminal
    <3>3. QED  BY <2>2, <3>2 DEF Maps, Consented, Local!Consented, Local!Service!Moves
  <2>4. QED  BY <1>0, <2>1, <2>2, <2>3, HeldRun, HandleMaps
<1>7. ASSUME Local!ResumeRaises PROVE Step
  <2>1. PICK q \in Run : q = loop.run  BY <1>7, HeldRun DEF Local!ResumeRaises
  <2>2. /\ loop.call \in {"resume", "record"} /\ loop' = Local!Free
        /\ UNCHANGED <<RUNS, dispatched, first, lost>>
    BY <1>7 DEF Local!ResumeRaises, Local!Raises
  <2>3. ASSUME raised[q] = 0 PROVE Maps(q)
    <3>1. RUNS[q].status # "none"  BY <2>1, <2>2, <2>3, Here DEF SoundRun
    <3>2. Stage(q)' = Stage(q)  BY <2>2, <3>1 DEF Stage
    <3>3. QED  BY <2>2, <3>2 DEF Maps, Consented, Local!Consented
  <2>4. QED  BY <1>0, <2>1, <2>2, <2>3, HeldRun, HandleMaps
<1>8. ASSUME Local!GraphResume PROVE Step
  <2>1. PICK q \in Run : q = loop.run  BY <1>8, HeldRun DEF Local!GraphResume
  <2>2. PICK end \in Local!Resumed(loop.result, loop.decision) :
            /\ loop' = [loop EXCEPT !.call = "record", !.result = end[1]]
            /\ dispatched' = [dispatched EXCEPT ![loop.run] = @ + end[2]]
    BY <1>8 DEF Local!GraphResume
  <2>3. /\ loop.call = "resume" /\ loop'.run = q /\ UNCHANGED <<RUNS, first, lost>>
        /\ dispatched' = [dispatched EXCEPT ![q] = @ + end[2]] /\ dispatched \in [Run -> Nat]
        /\ end[2] \in {0, 1}
    <3>1. loop.call = "resume" /\ UNCHANGED <<RUNS, first, lost>>  BY <1>8 DEF Local!GraphResume
    <3>2. dispatched \in [Run -> Nat] /\ loop'.run = loop.run
      BY <2>2 DEF LocalInv, Local!TypeOK
    <3>3. end[2] \in {0, 1}  BY <2>2 DEF Local!Resumed
    <3>4. QED  BY <2>1, <2>2, <3>1, <3>2, <3>3
  <2>4. ASSUME raised[q] = 0 PROVE Maps(q)
    <3>1. /\ q \notin lost /\ RUNS[q].status # "none" /\ loop.result = RUNS[q].status
          /\ loop.result = "approval_required" => dispatched[q] = 0
      BY <2>1, <2>3, <2>4, Here DEF SoundRun
    <3>2. CASE end[2] = 0
      <4>1. dispatched' = dispatched  BY <2>3, <3>2
      <4>2. Stage(q)' = Stage(q)  BY <2>3, <3>1, <4>1 DEF Stage
      <4>3. Consented' = Consented  BY <2>3 DEF Consented, Local!Consented
      <4>4. QED  BY <4>1, <4>2, <4>3 DEF Maps
    <3>3. CASE end[2] = 1
      <4>1. loop.result = "approval_required"  BY <3>3 DEF Local!Resumed
      <4>2. Stage(q) = "awaiting" /\ q \in Consented
        <5>1. Stage(q) = "awaiting"  BY <3>1, <4>1 DEF Stage, Local!Terminal
        <5>2. first[q] = loop.decision /\ loop.decision \in {"approved", "rejected"}
          BY <2>1, <2>3, <2>4, <3>1, <4>1, Here DEF SoundRun, LocalInv, Local!TypeOK, Local!Decision
        <5>3. loop.decision # "rejected"  BY <3>3, <4>1 DEF Local!Resumed
        <5>4. QED  BY <5>1, <5>2, <5>3 DEF Consented, Local!Consented
      <4>3. dispatched'[q] > 0  BY <2>3, <3>3
      <4>4. Stage(q)' = "closed"  BY <4>3 DEF Stage
      <4>5. QED  BY <2>3, <3>3, <4>2, <4>4 DEF Maps, Consented, Local!Consented
    <3>4. QED  BY <2>3, <3>2, <3>3
  <2>5. QED  BY <1>0, <2>1, <2>3, <2>4, HandleMaps
<1>9. ASSUME Local!RecordResume PROVE Step
  <2>1. PICK q \in Run : q = loop.run  BY <1>9, HeldRun DEF Local!RecordResume
  <2>2. /\ loop.call = "record" /\ loop' = Local!Free /\ UNCHANGED <<dispatched, first, lost>>
        /\ RUNS'[q].status = loop.result /\ \A r \in Run \ {q} : RUNS'[r] = RUNS[r]
    BY <1>9, <2>1 DEF Local!RecordResume, LocalInv, Local!TypeOK
  <2>3. ASSUME raised[q] = 0 PROVE Maps(q)
    <3>1. q \notin lost /\ RUNS[q].status # "none"
      BY <2>1, <2>2, <2>3, Here DEF SoundRun
    <3>2. loop.result \in Local!Terminal
      BY <2>1, <2>2, <2>3, <3>1 DEF KeptInv, KeptRun
    <3>3. Stage(q) \in {"awaiting", "closed"} /\ Stage(q)' = "closed"
      BY <2>2, <3>1, <3>2 DEF Stage
    <3>4. QED  BY <2>2, <3>3 DEF Maps, Consented, Local!Consented, Local!Service!Moves
  <2>4. QED  BY <1>0, <2>1, <2>2, <2>3, HeldRun, HandleMaps
<1>10. QED
  BY <1>0, <1>1, <1>2, <1>3, <1>4, <1>5, <1>6, <1>7, <1>8, <1>9 DEF Local!Handle

\* The end of the process closes the runs it held and leaves no others.
LEMMA ForgetMaps ==
    ASSUME LocalInv, Local!Forget
    PROVE  Local!Closes
<1>1. \A r \in Run : RUNS'[r].status = "none" /\ loop'.run # r /\ dispatched' = dispatched
  BY HeldRun DEF Local!Forget, Local!Unknown
<1>2. \A r \in Run : /\ r \in lost => r \in lost'
                     /\ r \notin lost' => RUNS[r].status = "none" /\ loop.run # r
  BY DEF Local!Forget, Local!Known
<1>3. \A r \in Run : Stage(r)' = IF r \in lost' THEN "closed" ELSE Stage(r)
  BY <1>1, <1>2 DEF Stage, Local!Terminal
<1>4. Local!StageBar' = [r \in Run |-> Stage(r)']
  BY DEF Local!StageBar, Stage, Local!Known
<1>5. dispatched' = dispatched /\ Local!Consented' = Local!Consented
  BY DEF Local!Forget, Local!Consented
<1>6. QED  BY <1>3, <1>4, <1>5, StageIs DEF Local!Closes

\* The in-memory API implements GovernedService for any runs, answers,
\* proposals and restarts: only a run behind whose graph an exception was
\* raised may have its tool called again (main.py, resume_run).
THEOREM ServiceKeptHolds == Spec => ServiceKept
<1>1. Init => KeptInv
  BY DEF Init, Local!Init, KeptInv, KeptRun, Local!Free
<1>2. Spec => []KeptInv
  BY <1>1, LocalInvHolds, KeptStep, PTL DEF Spec
<1>3. Init => Local!Service!Init
  <2>1. SUFFICES ASSUME Init PROVE Local!Service!Init  OBVIOUS
  <2>2. NoRun \notin Run  BY ApiProcessAssumption DEF Local!LocalApiAssumption
  <2>3. Local!StageBar = [r \in Run |-> "absent"]
    BY <2>1, <2>2
    DEF Init, Local!Init, Local!StageBar, Local!Known, Local!Unknown, Local!Free, Local!Terminal
  <2>4. QED  BY <2>1, <2>3 DEF Init, Local!Init, Local!Consented, Local!Service!Init
<1>4. LocalInv /\ KeptInv /\ [Next]_vars => Step
  <2>1. SUFFICES ASSUME LocalInv, KeptInv, [Next]_vars PROVE Step  OBVIOUS
  <2>2. CASE OnLoop  BY <2>1, <2>2, LoopMaps
  <2>3. CASE Restart  BY <2>1, <2>3, ForgetMaps DEF Restart, Step
  <2>4. CASE InThread \/ UNCHANGED vars
    BY <2>4 DEF InThread, vars, localVars, Step, Local!StageBar, Local!Known,
               Consented, Local!Consented
  <2>5. QED  BY <2>1, <2>2, <2>3, <2>4 DEF Next
<1>5. LocalInv /\ KeptInv /\ [Next]_vars
      => [Local!Service!Next \/ Local!Closes \/ \E r \in Run : raised[r] > 0 /\ Local!Only(r)]_<<Local!StageBar, Local!Consented, dispatched>>
  BY <1>4 DEF Step, Consented
<1>6. QED  BY <1>2, <1>3, <1>5, LocalInvHolds, PTL DEF Spec, ServiceKept, Local!ServiceKept

=============================================================================
