------------------------------- MODULE EvalRun ------------------------------
(***************************************************************************)
(* EvalRunner (evals/runner.py) runs the golden cases of each dataset, one *)
(* case per step, and CLEARReport (metrics.py) scores them.  Rates are in  *)
(* thousandths, as the summaries round them; means of equal kinds (success,*)
(* grounding, approval) differ in the field they read.                     *)
(***************************************************************************)
EXTENDS Naturals, SequencesExt

CONSTANTS
    Verticals,    \* the datasets are 1..Verticals, in the order of "mapping"
    Golden,       \* cases: [tools, approval_required]
    Final,        \* what a graph call ends with: [status, tools, cited, latency]
    MaxCases      \* bound on the cases of all datasets together

EvalRunAssumption ==
    /\ Verticals \in Nat /\ MaxCases \in Nat
    /\ \A g \in Golden : /\ g.tools \in Seq(Range(g.tools)) /\ g.tools # <<>>
                         /\ g.approval_required \in BOOLEAN
    /\ \A f \in Final : /\ f.status \in {"completed", "approval_required", "failed"}
                        /\ f.tools \in Seq(Range(f.tools))
                        /\ f.cited \in BOOLEAN /\ f.latency \in Nat

VARIABLES
    vertical,    \* the dataset at hand
    results,     \* the CaseResults of it so far
    reports,     \* the reports of the datasets that are done
    cases        \* how many cases were run

vars == <<vertical, results, reports, cases>>

Init ==
    /\ vertical = 1
    /\ results = <<>>
    /\ reports = <<>>
    /\ cases = 0

-----------------------------------------------------------------------------
(* TrajectoryScore.                                                        *)

\* Where the tools of one list are that the other names too.
Hits(list, other) == {i \in DOMAIN list : list[i] \in Range(other)}

Rounded(num, den) == (2 * num + den) \div (2 * den)

\* num/den in thousandths.
Rate(num, den) == Rounded(1000 * num, den)

\* 2pr/(p + r) with the shares p of the actual tools and r of the expected ones
\* that are hits; no actual tool is precision 0, no expected one is recall 1.
F1(expected, actual) ==
    LET p == Cardinality(Hits(actual, expected))
        r == IF expected = <<>> THEN 1 ELSE Cardinality(Hits(expected, actual))
        a == Len(actual)
        e == IF expected = <<>> THEN 1 ELSE Len(expected)
    IN  IF p = 0 \/ r = 0 THEN <<0, 1>> ELSE <<2 * p * r, p * e + r * a>>

Rank(places, i) == Cardinality({j \in places : j <= i})

\* The hits of either list, read in order, are the same tools.
OrderCorrect(expected, actual) ==
    LET E == Hits(expected, actual)
        A == Hits(actual, expected)
    IN  /\ Cardinality(E) = Cardinality(A)
        /\ \A i \in E, j \in A : Rank(E, i) = Rank(A, j) => expected[i] = actual[j]

-----------------------------------------------------------------------------
\* run_case: the graph runs and its final state is compared with the case.  A
\* paused run is a success; its outcome asks for approval, others' do not.
CaseResult(case, final) ==
    [success |-> final.status \in {"completed", "approval_required"},
     approval_correct |-> (final.status = "approval_required") = case.approval_required,
     policy_cited |-> final.cited,
     expected |-> case.tools, actual |-> final.tools,
     latency |-> final.latency]

RunCase ==
    /\ vertical <= Verticals
    /\ cases < MaxCases
    /\ \E case \in Golden, final \in Final :
          results' = Append(results, CaseResult(case, final))
    /\ cases' = cases + 1
    /\ UNCHANGED <<vertical, reports>>

\* CLEARReport.summary; an empty report has zeros all over.
Share(good) == IF results = <<>> THEN 0 ELSE Rate(Cardinality(good), Len(results))

Where(field) == {i \in DOMAIN results : results[i][field]}

\* The sum of the F1 scores, as a fraction.
SumF1 ==
    LET sum[n \in 0..Len(results)] ==
            IF n = 0 THEN <<0, 1>>
            ELSE LET f == F1(results[n].expected, results[n].actual)
                 IN  <<sum[n - 1][1] * f[2] + f[1] * sum[n - 1][2], sum[n - 1][2] * f[2]>>
    IN  sum[Len(results)]

MeanF1 == IF results = <<>> THEN 0 ELSE Rate(SumF1[1], SumF1[2] * Len(results))

\* The latencies from the least to the greatest.
Sorted ==
    LET D == DOMAIN results
        order == CHOOSE p \in Bijection(D, D) :
                    \A i, j \in D : i < j => results[p[i]].latency <= results[p[j]].latency
    IN  [i \in D |-> results[order[i]].latency]

\* max(0, int(n * 0.95) - 1), counted from 1.
P95Index_Mutant(n) == n - (n * 95) \div 100
P95Index(n) == IF (n * 95) \div 100 <= 1 THEN 1 ELSE (n * 95) \div 100

P95 == IF results = <<>> THEN 0 ELSE Sorted[P95Index(Len(results))]

Summary ==
    [vertical |-> vertical, cases |-> Len(results),
     task_success_rate |-> Share(Where("success")),
     grounding_score |-> Share(Where("policy_cited")),
     approval_precision |-> Share(Where("approval_correct")),
     trajectory_f1 |-> MeanF1,
     p95_latency_ms |-> P95]

\* The dataset is through; one whose file is missing has no report, and one
\* without cases raises, so that no job ends with it (validate_dataset).
EndDataset ==
    /\ vertical <= Verticals
    /\ reports' = IF results = <<>> THEN reports ELSE Append(reports, Summary)
    /\ vertical' = vertical + 1
    /\ results' = <<>>
    /\ UNCHANGED cases

-----------------------------------------------------------------------------
\* _totals (evals.py): each vertical weighs the same, however many cases it has.
Divisor == Len(reports)

Sum(rows, field) ==
    LET sum[n \in 0..Len(rows)] == IF n = 0 THEN 0 ELSE sum[n - 1] + rows[n][field]
    IN  sum[Len(rows)]

Mean(field) == Rounded(Sum(reports, field), Divisor)

RateFields == {"task_success_rate", "grounding_score", "trajectory_f1"}

Totals ==
    IF reports = <<>> THEN [cases |-> 0, rates |-> [f \in RateFields |-> 0], p95_latency_ms |-> 0]
    ELSE [cases |-> Sum(reports, "cases"),
          rates |-> [f \in RateFields |-> Mean(f)],
          p95_latency_ms |-> Max({m.p95_latency_ms : m \in Range(reports)})]

Done == vertical > Verticals

Next == RunCase \/ EndDataset

Spec == Init /\ [][Next]_vars

-----------------------------------------------------------------------------
CaseResults ==
    [success : BOOLEAN, approval_correct : BOOLEAN, policy_cited : BOOLEAN,
     expected : {g.tools : g \in Golden}, actual : {f.tools : f \in Final}, latency : Nat]

Summaries ==
    [vertical : Nat, cases : Nat, task_success_rate : Nat, grounding_score : Nat,
     approval_precision : Nat, trajectory_f1 : Nat, p95_latency_ms : Nat]

TypeOK ==
    /\ vertical \in 1..(Verticals + 1)
    /\ cases \in 0..MaxCases
    /\ results \in Seq(CaseResults)
    /\ reports \in Seq(Summaries)

\* A full score and the right order say that the run called the expected
\* tools, in their order and none twice more than expected; a full score alone
\* says it called the same tools, since the order does not enter F1.
ScoresAreSound ==
    \A i \in DOMAIN results :
        LET r == results[i]
            f == F1(r.expected, r.actual)
        IN  /\ f[1] <= f[2]
            /\ f[1] = f[2] => Range(r.actual) = Range(r.expected)
            /\ f[1] = f[2] /\ OrderCorrect(r.expected, r.actual) <=>
                   r.actual = r.expected /\ r.expected # <<>>

\* p95_latency_ms is the least latency that 95 of 100 cases stay within, their
\* number rounded down but not to none: in a small dataset the slowest does
\* not count.
P95IsRank ==
    results # <<>> =>
        LET Within(ms) == Cardinality({i \in DOMAIN results : results[i].latency <= ms})
            wanted == Max({1, (95 * Len(results)) \div 100})
        IN  P95 = Min({ms \in {r.latency : r \in Range(results)} : Within(ms) >= wanted})

\* The totals lie between the best vertical and the worst, whichever datasets
\* are missing, and count every case that was run.
TotalsAreSound ==
    Done /\ reports # <<>> =>
        /\ Totals.cases = cases
        /\ \A f \in RateFields :
              LET rates == {m[f] : m \in Range(reports)}
              IN  Min(rates) <= Totals.rates[f] /\ Totals.rates[f] <= Max(rates)

\* What makes it inductive: every case run is in a report or at hand.
LiveInv ==
    /\ TypeOK
    /\ Done => results = <<>>
    /\ cases = Sum(reports, "cases") + Len(results)

=============================================================================
