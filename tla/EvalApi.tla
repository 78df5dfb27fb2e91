------------------------------- MODULE EvalApi ------------------------------
(***************************************************************************)
(* /api/evals (evals.py): synchronous handlers, so each request has a      *)
(* thread, with one summary in a global and a lock that POST /run takes    *)
(* and GET /demo does not.  A summary stands for the moment it was made:   *)
(* _run_live_evals stamps it when the evals are through.                   *)
(***************************************************************************)
EXTENDS Naturals, FiniteSets

CONSTANTS
    Thread,      \* requests that are served at once
    NoThread,
    MaxMoment    \* bound on the summaries that are made

EvalApiAssumption ==
    /\ NoThread \notin Thread /\ IsFiniteSet(Thread)
    /\ MaxMoment \in Nat

VARIABLES
    _RUN_LOCK,         \* the thread that holds it
    _LATEST_SUMMARY,   \* the moment it was made, 0 for None
    thread,            \* what each thread is at, the summary it has made, and
                       \* as history whether no GET ran the evals beside it
    moment             \* the clock, advanced by each summary

vars == <<_RUN_LOCK, _LATEST_SUMMARY, thread, moment>>

Idle == [pc |-> "idle", call |-> "none", made |-> 0, alone |-> FALSE]

Init ==
    /\ _RUN_LOCK = NoThread
    /\ _LATEST_SUMMARY = 0
    /\ thread = [t \in Thread |-> Idle]
    /\ moment = 0

Getting == {t \in Thread : thread[t].call = "get"}

\* GET /demo runs the evals when there is no summary yet; otherwise it returns
\* the global and changes nothing.
Warm == _LATEST_SUMMARY # 0

GetSummary(t) ==
    /\ thread[t].pc = "idle"
    /\ ~Warm
    /\ thread' = [u \in Thread |->
           IF u = t THEN [Idle EXCEPT !.pc = "compute", !.call = "get"]
                    ELSE [thread[u] EXCEPT !.alone = FALSE]]
    /\ UNCHANGED <<_RUN_LOCK, _LATEST_SUMMARY, moment>>

\* POST /run takes the lock, or it is 409.
Acquires_Mutant == TRUE
Acquires == _RUN_LOCK = NoThread

PostRun(t) ==
    /\ thread[t].pc = "idle"
    /\ Acquires
    /\ _RUN_LOCK' = t
    /\ thread' = [thread EXCEPT ![t] = [pc |-> "compute", call |-> "post", made |-> 0,
                                           alone |-> Getting = {}]]
    /\ UNCHANGED <<_LATEST_SUMMARY, moment>>

\* run_all_evals ends and the summary is stamped.
Compute(t) ==
    /\ thread[t].pc = "compute"
    /\ moment < MaxMoment
    /\ moment' = moment + 1
    /\ thread' = [thread EXCEPT ![t].pc = "store", ![t].made = moment + 1]
    /\ UNCHANGED <<_RUN_LOCK, _LATEST_SUMMARY>>

Store(t) ==
    /\ thread[t].pc = "store"
    /\ _LATEST_SUMMARY' = thread[t].made
    /\ thread' = [thread EXCEPT ![t].pc = "answer"]
    /\ UNCHANGED <<_RUN_LOCK, moment>>

\* The answer is the global once more.  finally: the lock is free again.
AfterCall_Mutant(t) == IF thread[t].pc = "answer" THEN NoThread ELSE _RUN_LOCK
AfterCall(t) == NoThread

Leave(t) ==
    /\ _RUN_LOCK' = IF thread[t].call = "post" THEN AfterCall(t) ELSE _RUN_LOCK
    /\ thread' = [thread EXCEPT ![t] = Idle]
    /\ UNCHANGED <<_LATEST_SUMMARY, moment>>

Answer(t) == thread[t].pc = "answer" /\ Leave(t)

\* An eval raises: a dataset that does not parse, a graph that fails.  At the
\* bound of the clock every one does.
EvalRaises(t) == thread[t].pc = "compute" /\ Leave(t)

\* The process ends.
Forget ==
    /\ _RUN_LOCK' = NoThread
    /\ _LATEST_SUMMARY' = 0
    /\ thread' = [t \in Thread |-> Idle]
    /\ UNCHANGED moment

Progress(t) == Compute(t) \/ Store(t) \/ Answer(t) \/ EvalRaises(t)

Serve == \E t \in Thread : GetSummary(t) \/ PostRun(t) \/ Progress(t)

Next == Serve \/ Forget

Spec == Init /\ [][Next]_vars /\ \A t \in Thread : WF_vars(Progress(t))

-----------------------------------------------------------------------------
Moment == 0..MaxMoment

TypeOK ==
    /\ _RUN_LOCK \in Thread \cup {NoThread}
    /\ _LATEST_SUMMARY \in Moment
    /\ thread \in [Thread -> [pc : {"idle", "compute", "store", "answer"},
                              call : {"none", "get", "post"}, made : Moment, alone : BOOLEAN]]
    /\ moment \in Moment

\* POSTs that no GET ran the evals beside replace the summary by a newer one
\* and answer with their own, whatever else is posted (run_eval_summary).
NewerOnly ==
    [][\A t \in Thread : thread[t].alone =>
           /\ Store(t) => thread[t].made > _LATEST_SUMMARY
           /\ Answer(t) => _LATEST_SUMMARY = thread[t].made]_vars

\* The lock is not kept, although evals raise: a POST can be accepted again.
LockIsReleased == []<>(_RUN_LOCK = NoThread)

=============================================================================
