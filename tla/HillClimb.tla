------------------------------ MODULE HillClimb -----------------------------
(***************************************************************************)
(* propose_skill_improvements (evals/hill_climb.py): a corpus of traces is *)
(* grouped by skill, one trace per step, and each skill, in the order of   *)
(* its name, gets a proposal or none.  A report is the triple of the three *)
(* metrics that decide, in tenths, a missing one being 0.                  *)
(***************************************************************************)
EXTENDS Naturals, SequencesExt

CONSTANTS
    Skills,        \* the skills are 1..Skills, by name
    Trace,         \* [skill, status, pending, report]
    NoReport, NoProposal,
    MinRepeated, Thresholds,   \* HillClimbConfig
    MaxTraces      \* bound on the corpus

Reports == {t.report : t \in Trace} \cup {NoReport}

Actions == {"gated tool", "none"} \cup UNION {Range(t.pending) : t \in Trace}

\* SkillImprovementProposal.
Proposals ==
    [trigger : {"approval_required", "failed"}, action : Actions,
     status : {"draft", "ready_for_review", "rejected"}, report : Reports, size : Nat]

HillClimbAssumption ==
    /\ Skills \in Nat /\ MaxTraces \in Nat /\ MinRepeated \in Nat \ {0}
    /\ \A t \in Trace : t.skill \in 1..Skills /\ t.pending \in Seq(Range(t.pending))
    /\ NoProposal \notin Proposals

VARIABLES
    corpus,       \* the traces, as load_trace_corpus returned them
    grouped,      \* how many of them are in by_skill
    by_skill,     \* the traces of each skill, in their order
    turn,         \* the skill whose turn it is
    proposals     \* by skill, NoProposal for none

vars == <<corpus, grouped, by_skill, turn, proposals>>

\* An empty corpus raises ValueError, and nothing is proposed.
Init ==
    /\ corpus \in SeqOf(Trace, MaxTraces) \ {<<>>}
    /\ grouped = 0
    /\ by_skill = [s \in 1..Skills |-> <<>>]
    /\ turn = 1
    /\ proposals = [s \in 1..Skills |-> NoProposal]

Group(t) == [by_skill EXCEPT ![t.skill] = Append(@, t)]

GroupTrace ==
    /\ grouped < Len(corpus)
    /\ by_skill' = Group(corpus[grouped + 1])
    /\ grouped' = grouped + 1
    /\ UNCHANGED <<corpus, turn, proposals>>

-----------------------------------------------------------------------------
WithStatus(traces, status) == {i \in DOMAIN traces : traces[i].status = status}

\* The pending gated steps, each as <<trace, step>>, that name the tool.
Pending(traces, gated) == UNION {{i} \X DOMAIN traces[i].pending : i \in gated}

ToolOf(traces, w) == traces[w[1]].pending[w[2]]

CountOf(traces, gated, tool) ==
    Cardinality({w \in Pending(traces, gated) : ToolOf(traces, w) = tool})

Before(v, w) == v[1] < w[1] \/ (v[1] = w[1] /\ v[2] <= w[2])

\* Counter.most_common(1): the tool seen first among those seen most often.
MostCommonPendingTool(traces, gated) ==
    LET seen == Pending(traces, gated)
        count(w) == CountOf(traces, gated, ToolOf(traces, w))
        most == {w \in seen : \A v \in seen : count(w) >= count(v)}
    IN  IF seen = {} THEN "gated tool"
        ELSE ToolOf(traces, CHOOSE w \in most : \A v \in most : Before(w, v))

\* _best_eval_report: the last of them.
BestEvalReport_Mutant(traces) ==
    LET at == {i \in DOMAIN traces : traces[i].report # NoReport}
    IN  IF at = {} THEN NoReport ELSE traces[Min(at)].report
BestEvalReport(traces) ==
    LET at == {i \in DOMAIN traces : traces[i].report # NoReport}
    IN  IF at = {} THEN NoReport ELSE traces[Max(at)].report

Meets(report) == \A i \in DOMAIN Thresholds : report[i] >= Thresholds[i]

StatusFromEval(report) ==
    IF report = NoReport THEN "draft"
    ELSE IF Meets(report) THEN "ready_for_review" ELSE "rejected"

\* _proposal_for_skill: repeated approvals come before repeated failures.
Proposal(traces) ==
    LET gated  == WithStatus(traces, "approval_required")
        failed == WithStatus(traces, "failed")
        made(trigger, action) ==
            [trigger |-> trigger, action |-> action,
             status |-> StatusFromEval(BestEvalReport(traces)),
             report |-> BestEvalReport(traces), size |-> Len(traces)]
    IN  IF Cardinality(gated) >= MinRepeated
        THEN made("approval_required", MostCommonPendingTool(traces, gated))
        ELSE IF Cardinality(failed) >= MinRepeated THEN made("failed", "none")
        ELSE NoProposal

Propose ==
    /\ grouped = Len(corpus)
    /\ turn <= Skills
    /\ proposals' = [proposals EXCEPT ![turn] = Proposal(by_skill[turn])]
    /\ turn' = turn + 1
    /\ UNCHANGED <<corpus, grouped, by_skill>>

Next == GroupTrace \/ Propose

Spec == Init /\ [][Next]_vars

-----------------------------------------------------------------------------
\* Where the traces of a skill are in the corpus.
Places(s, status) == {i \in DOMAIN corpus : corpus[i].skill = s /\ corpus[i].status = status}

Reported(s) == {i \in DOMAIN corpus : corpus[i].skill = s /\ corpus[i].report # NoReport}

\* A skill has a proposal just when the corpus repeats an approval or a failure
\* of that skill, whatever other skills' traces lie between; it names the tool
\* that most pending steps of the skill's paused runs wait for, and is ready for
\* review just when the last report on the skill meets all thresholds.
ProposalsAreFounded ==
    \A s \in 1..(turn - 1) :
        LET p     == proposals[s]
            gated == Places(s, "approval_required")
            waits(tool) == CountOf(corpus, gated, tool)
        IN  /\ p # NoProposal <=> \/ Cardinality(gated) >= MinRepeated
                                  \/ Cardinality(Places(s, "failed")) >= MinRepeated
            /\ p # NoProposal =>
                  /\ p.status = "draft" <=> Reported(s) = {}
                  /\ p.status = "ready_for_review" <=>
                        Reported(s) # {} /\ Meets(corpus[Max(Reported(s))].report)
                  /\ p.trigger = "approval_required" =>
                        \A i \in gated : \A tool \in Range(corpus[i].pending) :
                            waits(p.action) >= waits(tool)

\* What makes it inductive: the traces of a skill are those of the corpus seen
\* so far, in the order they had there.
Grouped(s) ==
    \E at \in [DOMAIN by_skill[s] -> 1..grouped] :
        /\ \A i, j \in DOMAIN at : i < j => at[i] < at[j]
        /\ Range(at) = {i \in 1..grouped : corpus[i].skill = s}
        /\ \A k \in DOMAIN at : by_skill[s][k] = corpus[at[k]]

ScanInv ==
    /\ corpus \in Seq(Trace)
    /\ grouped \in 0..Len(corpus)
    /\ turn \in 1..(Skills + 1)
    /\ turn > 1 => grouped = Len(corpus)
    /\ by_skill \in [1..Skills -> Seq(Trace)]
    /\ \A s \in 1..Skills : Grouped(s)
    /\ proposals \in [1..Skills -> Proposals \cup {NoProposal}]
    /\ \A s \in 1..(turn - 1) : proposals[s] = Proposal(by_skill[s])

=============================================================================
