--------------------------- MODULE EvalJobsProofs ---------------------------
(***************************************************************************)
(* Proofs about EvalJobs: what the scan proposes and what the golden runs  *)
(* are scored, for any number of skills, traces, datasets and cases.       *)
(***************************************************************************)
EXTENDS EvalJobs, FiniteSetTheorems, WellFoundedInduction, TLAPS

-----------------------------------------------------------------------------
(* Naturals and finite sets.                                               *)

\* A nonempty set of naturals has a least element.
LEMMA LeastNat ==
    ASSUME NEW S \in SUBSET Nat, S # {}
    PROVE  \E m \in S : \A x \in S : m <= x
<1> DEFINE R == OpToRel(<, Nat)
<1>1. IsWellFoundedOn(R, Nat)  BY NatLessThanWellFounded
<1>2. \A i, j \in Nat : <<i, j>> \in R <=> i < j  BY DEF OpToRel
<1> HIDE DEF R
<1>3. PICK m \in S : \A y \in S : ~(<<y, m>> \in R)  BY <1>1, WFMin
<1>4. ASSUME NEW x \in S PROVE m <= x
  <2>1. x \in Nat /\ m \in Nat  OBVIOUS
  <2>2. ~(x < m)  BY <1>2, <1>3, <2>1
  <2>3. QED  BY <2>1, <2>2
<1>5. QED  BY <1>4

\* Induction, for a property given as the set of the naturals that have it.
LEMMA Induct ==
    ASSUME NEW S, 0 \in S, \A n \in Nat : n \in S => n + 1 \in S
    PROVE  Nat \subseteq S
<1>1. SUFFICES ASSUME Nat \ S # {} PROVE FALSE  OBVIOUS
<1>2. PICK m \in Nat \ S : \A x \in Nat \ S : m <= x  BY <1>1, LeastNat
<1>3. m # 0 /\ m - 1 \in Nat /\ ~(m <= m - 1)  BY <1>2
<1>4. m - 1 \in S  BY <1>2, <1>3
<1>5. (m - 1) + 1 \in S  BY <1>3, <1>4
<1>6. QED  BY <1>2, <1>3, <1>5

\* A bounded measure has a greatest value.
LEMMA MostOf ==
    ASSUME NEW S, S # {}, NEW b \in Nat, NEW f \in [S -> 0..b]
    PROVE  \E w \in S : \A v \in S : f[w] >= f[v]
<1> DEFINE short == {b - f[w] : w \in S}
<1>1. short \in SUBSET Nat /\ short # {}  OBVIOUS
<1>2. PICK m \in short : \A x \in short : m <= x  BY <1>1, LeastNat
<1>3. PICK w \in S : m = b - f[w]  BY <1>2
<1>4. ASSUME NEW v \in S PROVE f[w] >= f[v]
  <2>1. m <= b - f[v]  BY <1>2
  <2>2. QED  BY <1>3, <2>1
<1>5. QED  BY <1>4

\* One-to-one sets have the same size.
LEMMA SameSize ==
    ASSUME NEW S, NEW T, IsFiniteSet(S), NEW f \in [S -> T],
           \A x, y \in S : f[x] = f[y] => x = y,
           \A t \in T : \E x \in S : f[x] = t
    PROVE  Cardinality(S) = Cardinality(T)
<1>1. f \in Bijection(S, T)  BY DEF Bijection, Injection, Surjection, IsInjective
<1>2. QED  BY <1>1, FS_Bijection DEF ExistsBijection

\* A set of positions is finite, and no larger than the list.
LEMMA PlacesFinite ==
    ASSUME NEW n \in Nat, NEW S \in SUBSET (1..n)
    PROVE  IsFiniteSet(S) /\ Cardinality(S) \in Nat /\ Cardinality(S) <= n
<1>1. IsFiniteSet(1..n) /\ Cardinality(1..n) = n  BY FS_Interval
<1>2. QED  BY <1>1, FS_Subset, FS_CardinalityType

LEMMA IntervalSize ==
    ASSUME NEW n \in Nat
    PROVE  IsFiniteSet(1..n) /\ Cardinality(1..n) = n
BY FS_Interval

\* Cardinality is the same seen through either module.
LEMMA ScanCounts ==
    ASSUME NEW S
    PROVE  Scan!Cardinality(S) = Cardinality(S)
BY DEF Scan!Cardinality, Cardinality

LEMMA LiveCounts ==
    ASSUME NEW S
    PROVE  Live!Cardinality(S) = Cardinality(S)
BY DEF Live!Cardinality, Cardinality

-----------------------------------------------------------------------------
(* The scan: what _proposal_for_skill makes of the traces of a skill.      *)

ScanInv == job = "scan" => Scan!ScanInv

\* The last position of a set of them.
LEMMA LastPlace ==
    ASSUME NEW n \in Nat, NEW S \in SUBSET (1..n), S # {}
    PROVE  Scan!Max(S) \in S /\ \A i \in S : i <= Scan!Max(S)
<1> DEFINE f == [i \in S |-> i]
<1>1. f \in [S -> 0..n]  OBVIOUS
<1>2. \E w \in S : \A v \in S : f[w] >= f[v]  BY <1>1, MostOf
<1>3. \E w \in S : \A v \in S : w >= v  BY <1>2
<1>4. QED  BY <1>3 DEF Scan!Max

\* _best_eval_report is the report of the last trace that has one.
LEMMA LastReport ==
    ASSUME NEW traces \in Seq(Trace),
           NEW at, at = {i \in DOMAIN traces : traces[i].report # NoReport}
    PROVE  /\ at = {} => Scan!BestEvalReport(traces) = NoReport
           /\ at # {} => \E m \in at : /\ \A i \in at : i <= m
                                       /\ Scan!BestEvalReport(traces) = traces[m].report
<1>1. Len(traces) \in Nat /\ at \in SUBSET (1..Len(traces))  OBVIOUS
<1>2. at # {} => Scan!Max(at) \in at /\ \A i \in at : i <= Scan!Max(at)  BY <1>1, LastPlace
<1>3. QED  BY <1>2 DEF Scan!BestEvalReport

\* Each pending step is a trace and a place in it; there are finitely many.
LEMMA PendingFinite ==
    ASSUME NEW traces \in Seq(Trace), NEW gated \in SUBSET (DOMAIN traces)
    PROVE  /\ IsFiniteSet(Scan!Pending(traces, gated))
           /\ \A w \in Scan!Pending(traces, gated) :
                 /\ w[1] \in gated /\ w[2] \in DOMAIN traces[w[1]].pending
                 /\ w = <<w[1], w[2]>> /\ w[1] \in Nat /\ w[2] \in Nat
           /\ \A i \in gated, k \in Nat : k \in DOMAIN traces[i].pending =>
                 <<i, k>> \in Scan!Pending(traces, gated)
<1> DEFINE Of(i) == {i} \X DOMAIN traces[i].pending
<1> DEFINE all == {Of(i) : i \in gated}
<1>1. Scan!Pending(traces, gated) = UNION all  BY DEF Scan!Pending
<1>2. ASSUME NEW i \in gated
      PROVE  /\ traces[i].pending \in Seq(Scan!Range(traces[i].pending))
             /\ DOMAIN traces[i].pending = 1..Len(traces[i].pending)
             /\ Len(traces[i].pending) \in Nat
  <2>1. traces[i] \in Trace  OBVIOUS
  <2>2. traces[i].pending \in Seq(Scan!Range(traces[i].pending))
    BY <2>1, EvalJobsAssumption DEF Scan!HillClimbAssumption
  <2>3. QED  BY <2>2
<1>3. IsFiniteSet(gated)  BY PlacesFinite
<1>4. IsFiniteSet(all)
  <2> DEFINE f == [i \in gated |-> Of(i)]
  <2>1. f \in Surjection(gated, all)  BY DEF Surjection
  <2>2. QED  BY <1>3, <2>1, FS_Surjection
<1>5. ASSUME NEW i \in gated PROVE IsFiniteSet(Of(i))
  <2>1. IsFiniteSet({i})  BY FS_Singleton
  <2>2. IsFiniteSet(DOMAIN traces[i].pending)  BY <1>2, PlacesFinite
  <2>3. QED  BY <2>1, <2>2, FS_Product
<1>6. IsFiniteSet(UNION all)  BY <1>4, <1>5, FS_UNION
<1>7. ASSUME NEW w \in UNION all
      PROVE  /\ w[1] \in gated /\ w[2] \in DOMAIN traces[w[1]].pending
             /\ w = <<w[1], w[2]>> /\ w[1] \in Nat /\ w[2] \in Nat
  <2>1. PICK i \in gated : w \in Of(i)  OBVIOUS
  <2>2. w[1] = i /\ w[2] \in DOMAIN traces[i].pending /\ w = <<w[1], w[2]>>  BY <2>1
  <2>3. w[2] \in Nat /\ i \in Nat  BY <1>2, <2>2
  <2>4. QED  BY <2>2, <2>3
<1>8. ASSUME NEW i \in gated, NEW k \in Nat, k \in DOMAIN traces[i].pending
      PROVE  <<i, k>> \in UNION all
  BY <1>8
<1>9. QED  BY <1>1, <1>6, <1>7, <1>8

\* _most_common_pending_tool names a pending tool, and one that no other has
\* more pending steps than.
LEMMA MostCommon ==
    ASSUME NEW traces \in Seq(Trace), NEW gated \in SUBSET (DOMAIN traces),
           NEW seen, seen = Scan!Pending(traces, gated), seen # {}
    PROVE  \E w \in seen :
              /\ Scan!MostCommonPendingTool(traces, gated) = Scan!ToolOf(traces, w)
              /\ \A v \in seen : Scan!CountOf(traces, gated, Scan!ToolOf(traces, w))
                                    >= Scan!CountOf(traces, gated, Scan!ToolOf(traces, v))
<1> DEFINE count(w) == Scan!CountOf(traces, gated, Scan!ToolOf(traces, w))
           most == {w \in seen : \A v \in seen : count(w) >= count(v)}
           f == [w \in seen |-> count(w)]
           b == Cardinality(seen)
<1>1. IsFiniteSet(seen)  BY PendingFinite
<1>2. \A w \in seen : w = <<w[1], w[2]>> /\ w[1] \in Nat /\ w[2] \in Nat  BY PendingFinite
<1>3. b \in Nat  BY <1>1, FS_CardinalityType
<1>4. ASSUME NEW w \in seen PROVE count(w) \in 0..b
  <2> DEFINE same == {v \in seen : Scan!ToolOf(traces, v) = Scan!ToolOf(traces, w)}
  <2>1. count(w) = Cardinality(same)  BY ScanCounts DEF Scan!CountOf
  <2>2. same \subseteq seen  OBVIOUS
  <2> HIDE DEF same, count
  <2>3. IsFiniteSet(same) /\ Cardinality(same) <= b  BY <1>1, <2>2, FS_Subset
  <2>4. Cardinality(same) \in Nat  BY <2>3, FS_CardinalityType
  <2>5. QED  BY <1>3, <2>1, <2>3, <2>4
<1> HIDE DEF count, b
<1>5. f \in [seen -> 0..b]  BY <1>4
<1>6. \E w \in seen : \A v \in seen : f[w] >= f[v]  BY <1>3, <1>5, MostOf
<1>7. most # {}  BY <1>6
<1> HIDE DEF f
<1>8. PICK i \in {w[1] : w \in most} : \A x \in {w[1] : w \in most} : i <= x
  <2>1. {w[1] : w \in most} \in SUBSET Nat /\ {w[1] : w \in most} # {}  BY <1>2, <1>7
  <2>2. QED  BY <2>1, LeastNat
<1> DEFINE here == {w \in most : w[1] = i}
<1>9. PICK k \in {w[2] : w \in here} : \A x \in {w[2] : w \in here} : k <= x
  <2>1. here # {}  BY <1>8
  <2>2. {w[2] : w \in here} \in SUBSET Nat /\ {w[2] : w \in here} # {}  BY <1>2, <2>1
  <2>3. QED  BY <2>2, LeastNat
<1>10. PICK u \in here : u[2] = k  BY <1>9
<1>11. ASSUME NEW v \in most PROVE Scan!Before(u, v)
  <2>1. u[1] = i /\ u[2] = k /\ i \in Nat /\ v[1] \in Nat  BY <1>2, <1>10
  <2>2. i <= v[1]  BY <1>8
  <2>3. v[1] = i => k <= v[2]  BY <1>9
  <2>4. QED  BY <2>1, <2>2, <2>3 DEF Scan!Before
<1> DEFINE first == CHOOSE w \in most : \A v \in most : Scan!Before(w, v)
<1>12. u \in most /\ \A v \in most : Scan!Before(u, v)  BY <1>10, <1>11
<1>13. first \in most  BY <1>12
<1>14. Scan!MostCommonPendingTool(traces, gated) = Scan!ToolOf(traces, first)
  BY DEF Scan!MostCommonPendingTool, count
<1> HIDE DEF first
<1>15. first \in seen /\ \A v \in seen : count(first) >= count(v)  BY <1>13
<1>16. QED  BY <1>14, <1>15 DEF count

\* What _proposal_for_skill returns, by how often the traces repeat a status.
LEMMA ProposalCases ==
    ASSUME NEW traces \in Seq(Trace),
           NEW p, p = Scan!Proposal(traces),
           NEW gated, gated = Scan!WithStatus(traces, "approval_required"),
           NEW failed, failed = Scan!WithStatus(traces, "failed")
    PROVE  /\ p \in Scan!Proposals \cup {NoProposal}
           /\ p # NoProposal <=> Cardinality(gated) >= MinRepeated \/ Cardinality(failed) >= MinRepeated
           /\ p # NoProposal =>
                 p.status = Scan!StatusFromEval(Scan!BestEvalReport(traces))
           /\ p # NoProposal /\ p.trigger = "approval_required" =>
                 p.action = Scan!MostCommonPendingTool(traces, gated)
<1> DEFINE report == Scan!BestEvalReport(traces)
           status == Scan!StatusFromEval(report)
           common == Scan!MostCommonPendingTool(traces, gated)
           made(trigger, action) ==
               [trigger |-> trigger, action |-> action, status |-> status,
                report |-> report, size |-> Len(traces)]
<1>1. p = IF Cardinality(gated) >= MinRepeated THEN made("approval_required", common)
          ELSE IF Cardinality(failed) >= MinRepeated THEN made("failed", "none")
          ELSE NoProposal
  BY ScanCounts DEF Scan!Proposal
<1>2. report \in Scan!Reports
  <2>1. \A i \in DOMAIN traces : traces[i].report \in Scan!Reports  BY DEF Scan!Reports
  <2>2. NoReport \in Scan!Reports  BY DEF Scan!Reports
  <2>3. QED  BY LastReport, <2>1, <2>2
<1>3. common \in Scan!Actions
  <2>1. gated \in SUBSET (DOMAIN traces)  BY DEF Scan!WithStatus
  <2>2. CASE Scan!Pending(traces, gated) = {}
    BY <2>2 DEF Scan!MostCommonPendingTool, Scan!Actions
  <2>3. CASE Scan!Pending(traces, gated) # {}
    <3>1. PICK w \in Scan!Pending(traces, gated) : common = Scan!ToolOf(traces, w)
      BY <2>1, <2>3, MostCommon
    <3>2. w[1] \in DOMAIN traces /\ w[2] \in DOMAIN traces[w[1]].pending
      BY <2>1, PendingFinite
    <3>3. traces[w[1]] \in Trace  BY <3>2
    <3>4. common \in Scan!Range(traces[w[1]].pending)
      BY <3>1, <3>2 DEF Scan!ToolOf, Scan!Range
    <3>5. QED  BY <3>3, <3>4 DEF Scan!Actions
  <2>4. QED  BY <2>2, <2>3
<1>4. status \in {"draft", "ready_for_review", "rejected"}  BY DEF Scan!StatusFromEval
<1>5. "none" \in Scan!Actions  BY DEF Scan!Actions
<1>6. Len(traces) \in Nat  OBVIOUS
<1> HIDE DEF report, status, common
<1>7. /\ made("approval_required", common) \in Scan!Proposals
      /\ made("failed", "none") \in Scan!Proposals
  BY <1>2, <1>3, <1>4, <1>5, <1>6 DEF Scan!Proposals
<1>8. NoProposal \notin Scan!Proposals
  BY EvalJobsAssumption DEF Scan!HillClimbAssumption
<1>9. p # NoProposal => p.status = status  BY <1>1
<1>10. p # NoProposal /\ p.trigger = "approval_required" => p.action = common  BY <1>1
<1>11. QED  BY <1>1, <1>7, <1>8, <1>9, <1>10 DEF report, status, common

-----------------------------------------------------------------------------
(* The scan: each step keeps ScanInv.                                      *)

LEMMA ScanInit ==
    ASSUME Scan!Init
    PROVE  Scan!ScanInv
<1>1. Skills \in Nat /\ MaxTraces \in Nat
  BY EvalJobsAssumption DEF Scan!HillClimbAssumption
<1>2. corpus \in Seq(Trace)  BY <1>1 DEF Scan!Init, Scan!SeqOf
<1>3. ASSUME NEW s \in 1..Skills PROVE Scan!Grouped(s)
  <2>1. by_skill[s] = <<>> /\ grouped = 0  BY DEF Scan!Init
  <2> DEFINE at == [k \in {} |-> 0]
  <2>2. at \in [DOMAIN by_skill[s] -> 1..grouped]  BY <2>1
  <2>3. Scan!Range(at) = {i \in 1..grouped : corpus[i].skill = s}  BY <2>1 DEF Scan!Range
  <2>4. QED  BY <2>2, <2>3 DEF Scan!Grouped
<1>4. QED  BY <1>1, <1>2, <1>3 DEF Scan!Init, Scan!ScanInv

LEMMA ScanGroups ==
    ASSUME Scan!ScanInv, Scan!GroupTrace
    PROVE  Scan!ScanInv'
<1> DEFINE n == grouped + 1
           t == corpus[n]
<1>1. /\ grouped \in Nat /\ n \in 1..Len(corpus) /\ Len(corpus) \in Nat
      /\ t \in Trace /\ t.skill \in 1..Skills
      /\ by_skill \in [1..Skills -> Seq(Trace)]
      /\ by_skill' = [by_skill EXCEPT ![t.skill] = Append(@, t)]
      /\ grouped' = n /\ corpus' = corpus /\ turn' = turn /\ proposals' = proposals
  BY EvalJobsAssumption
  DEF Scan!HillClimbAssumption, Scan!ScanInv, Scan!GroupTrace, Scan!Group
<1>2. turn = 1  BY <1>1 DEF Scan!ScanInv
<1>3. by_skill' \in [1..Skills -> Seq(Trace)]  BY <1>1
<1>4. ASSUME NEW s \in 1..Skills PROVE Scan!Grouped(s)'
  <2>1. PICK at \in [DOMAIN by_skill[s] -> 1..grouped] :
           /\ \A i, j \in DOMAIN at : i < j => at[i] < at[j]
           /\ Scan!Range(at) = {i \in 1..grouped : corpus[i].skill = s}
           /\ \A k \in DOMAIN at : by_skill[s][k] = corpus[at[k]]
    BY DEF Scan!ScanInv, Scan!Grouped
  <2>2. by_skill[s] \in Seq(Trace) /\ DOMAIN at = 1..Len(by_skill[s])  BY <1>1
  <2>3. CASE s # t.skill
    <3>1. by_skill'[s] = by_skill[s]  BY <1>1, <2>3
    <3>2. at \in [DOMAIN by_skill'[s] -> 1..grouped']  BY <1>1, <3>1
    <3>3. {i \in 1..grouped' : corpus'[i].skill = s} = {i \in 1..grouped : corpus[i].skill = s}
      BY <1>1, <2>3
    <3>4. QED  BY <1>1, <2>1, <3>1, <3>2, <3>3 DEF Scan!Grouped
  <2>4. CASE s = t.skill
    <3> DEFINE m == Len(by_skill[s])
               more == [k \in 1..(m + 1) |-> IF k = m + 1 THEN n ELSE at[k]]
    <3>1. by_skill'[s] = Append(by_skill[s], t) /\ m \in Nat  BY <1>1, <2>2, <2>4
    <3>2. DOMAIN by_skill'[s] = 1..(m + 1)  BY <2>2, <3>1
    <3>3. \A k \in 1..m : at[k] \in 1..grouped  BY <2>2
    <3>4. more \in [DOMAIN by_skill'[s] -> 1..grouped']  BY <1>1, <3>1, <3>2, <3>3
    <3>5. \A i, j \in 1..(m + 1) : i < j => more[i] < more[j]
      <4> SUFFICES ASSUME NEW i \in 1..(m + 1), NEW j \in 1..(m + 1), i < j
                   PROVE  more[i] < more[j]
        OBVIOUS
      <4>1. i \in 1..m /\ more[i] = at[i] /\ at[i] < n  BY <1>1, <3>1, <3>3
      <4>2. CASE j = m + 1  BY <3>1, <4>1, <4>2
      <4>3. CASE j # m + 1
        <5>1. j \in 1..m /\ more[j] = at[j]  BY <3>1, <4>3
        <5>2. QED  BY <2>1, <2>2, <4>1, <5>1
      <4>4. QED  BY <4>2, <4>3
    <3>6. Scan!Range(more) = {i \in 1..grouped' : corpus'[i].skill = s}
      <4>1. ASSUME NEW k \in 1..(m + 1)
            PROVE  more[k] \in 1..grouped' /\ corpus[more[k]].skill = s
        <5>1. CASE k = m + 1  BY <1>1, <2>4, <3>1, <5>1
        <5>2. CASE k # m + 1
          <6>1. k \in 1..m /\ more[k] = at[k]  BY <3>1, <5>2
          <6>2. at[k] \in Scan!Range(at)  BY <2>2, <6>1 DEF Scan!Range
          <6>3. QED  BY <1>1, <2>1, <6>1, <6>2
        <5>3. QED  BY <5>1, <5>2
      <4>2. ASSUME NEW i \in 1..grouped', corpus[i].skill = s
            PROVE  \E k \in 1..(m + 1) : more[k] = i
        <5>1. CASE i = n  BY <3>1, <5>1
        <5>2. CASE i # n
          <6>1. i \in Scan!Range(at)  BY <1>1, <2>1, <4>2, <5>2
          <6>2. PICK k \in 1..m : at[k] = i  BY <2>2, <6>1 DEF Scan!Range
          <6>3. k \in 1..(m + 1) /\ more[k] = i  BY <3>1, <6>2
          <6>4. QED  BY <6>3
        <5>3. QED  BY <5>1, <5>2
      <4>3. Scan!Range(more) = {more[k] : k \in 1..(m + 1)}  BY DEF Scan!Range
      <4>4. \A x \in Scan!Range(more) : x \in 1..grouped' /\ corpus'[x].skill = s
        BY <1>1, <4>1, <4>3
      <4>5. \A x \in 1..grouped' : corpus'[x].skill = s => x \in Scan!Range(more)
        BY <1>1, <4>2, <4>3
      <4>6. QED  BY <4>4, <4>5
    <3>7. \A k \in 1..(m + 1) : by_skill'[s][k] = corpus'[more[k]]
      <4> SUFFICES ASSUME NEW k \in 1..(m + 1)
                   PROVE  by_skill'[s][k] = corpus'[more[k]]
        OBVIOUS
      <4>1. CASE k = m + 1  BY <1>1, <2>2, <3>1, <4>1
      <4>2. CASE k # m + 1
        <5>1. k \in 1..m /\ more[k] = at[k]  BY <3>1, <4>2
        <5>2. by_skill'[s][k] = by_skill[s][k]  BY <2>2, <3>1, <5>1
        <5>3. QED  BY <1>1, <2>1, <2>2, <5>1, <5>2
      <4>3. QED  BY <4>1, <4>2
    <3> HIDE DEF more
    <3>8. DOMAIN more = 1..(m + 1)  BY <3>2, <3>4
    <3>9. QED  BY <3>4, <3>5, <3>6, <3>7, <3>8 DEF Scan!Grouped
  <2>5. QED  BY <2>3, <2>4
<1>5. QED  BY <1>1, <1>2, <1>3, <1>4 DEF Scan!ScanInv

LEMMA ScanProposes ==
    ASSUME Scan!ScanInv, Scan!Propose
    PROVE  Scan!ScanInv'
<1>1. /\ turn \in 1..Skills /\ Skills \in Nat /\ grouped = Len(corpus)
      /\ proposals' = [proposals EXCEPT ![turn] = Scan!Proposal(by_skill[turn])]
      /\ turn' = turn + 1
      /\ corpus' = corpus /\ grouped' = grouped /\ by_skill' = by_skill
  BY EvalJobsAssumption DEF Scan!HillClimbAssumption, Scan!ScanInv, Scan!Propose
<1>2. by_skill[turn] \in Seq(Trace)  BY <1>1 DEF Scan!ScanInv
<1>3. Scan!Proposal(by_skill[turn]) \in Scan!Proposals \cup {NoProposal}
  BY <1>2, ProposalCases
<1>4. proposals' \in [1..Skills -> Scan!Proposals \cup {NoProposal}]
  BY <1>1, <1>3 DEF Scan!ScanInv
<1>5. ASSUME NEW s \in 1..(turn' - 1) PROVE proposals'[s] = Scan!Proposal(by_skill'[s])
  <2>1. s \in 1..turn  BY <1>1
  <2>2. CASE s = turn  BY <1>1, <2>2 DEF Scan!ScanInv
  <2>3. CASE s # turn
    <3>1. s \in 1..(turn - 1) /\ s \in 1..Skills  BY <1>1, <2>1, <2>3
    <3>2. proposals'[s] = proposals[s]  BY <1>1, <2>3, <3>1 DEF Scan!ScanInv
    <3>3. QED  BY <1>1, <3>1, <3>2 DEF Scan!ScanInv
  <2>4. QED  BY <2>2, <2>3
<1>6. \A s \in 1..Skills : Scan!Grouped(s)'  BY <1>1 DEF Scan!ScanInv, Scan!Grouped
<1>7. /\ corpus' \in Seq(Trace) /\ grouped' \in 0..Len(corpus')
      /\ turn' \in 1..(Skills + 1) /\ (turn' > 1 => grouped' = Len(corpus'))
      /\ by_skill' \in [1..Skills -> Seq(Trace)]
  BY <1>1 DEF Scan!ScanInv
<1>8. QED  BY <1>4, <1>5, <1>6, <1>7 DEF Scan!ScanInv

-----------------------------------------------------------------------------
(* The scan: the traces of a skill tell what the corpus tells of it.       *)

\* The places of the corpus that the traces of a skill come from.
ComeFrom(s, at) ==
    /\ at \in [DOMAIN by_skill[s] -> DOMAIN corpus]
    /\ \A i, j \in DOMAIN at : i < j => at[i] < at[j]
    /\ \A i \in DOMAIN corpus : corpus[i].skill = s <=> \E k \in DOMAIN at : at[k] = i
    /\ \A k \in DOMAIN at : by_skill[s][k] = corpus[at[k]]

LEMMA AllGrouped ==
    ASSUME Scan!ScanInv, NEW s \in 1..(turn - 1)
    PROVE  /\ by_skill[s] \in Seq(Trace) /\ corpus \in Seq(Trace)
           /\ proposals[s] = Scan!Proposal(by_skill[s])
           /\ \E at : ComeFrom(s, at)
<1>1. /\ s \in 1..Skills /\ turn > 1 /\ grouped = Len(corpus)
      /\ corpus \in Seq(Trace) /\ by_skill[s] \in Seq(Trace)
      /\ proposals[s] = Scan!Proposal(by_skill[s])
  BY EvalJobsAssumption DEF Scan!HillClimbAssumption, Scan!ScanInv
<1>2. PICK at \in [DOMAIN by_skill[s] -> 1..grouped] :
         /\ \A i, j \in DOMAIN at : i < j => at[i] < at[j]
         /\ Scan!Range(at) = {i \in 1..grouped : corpus[i].skill = s}
         /\ \A k \in DOMAIN at : by_skill[s][k] = corpus[at[k]]
  BY <1>1 DEF Scan!ScanInv, Scan!Grouped
<1>3. DOMAIN corpus = 1..grouped  BY <1>1
<1>4. \A i \in DOMAIN corpus : corpus[i].skill = s <=> \E k \in DOMAIN at : at[k] = i
  BY <1>2, <1>3 DEF Scan!Range
<1>5. ComeFrom(s, at)  BY <1>2, <1>3, <1>4 DEF ComeFrom
<1>6. QED  BY <1>1, <1>5

\* Different traces come from different places.
LEMMA OnePlaceEach ==
    ASSUME NEW s, by_skill[s] \in Seq(Trace), corpus \in Seq(Trace),
           NEW at, ComeFrom(s, at),
           NEW i \in DOMAIN by_skill[s], NEW j \in DOMAIN by_skill[s], at[i] = at[j]
    PROVE  i = j
<1>1. DOMAIN at = DOMAIN by_skill[s] /\ i \in Nat /\ j \in Nat  BY DEF ComeFrom
<1>2. at[i] \in Nat /\ at[j] \in Nat
  <2>1. DOMAIN corpus = 1..Len(corpus) /\ Len(corpus) \in Nat  OBVIOUS
  <2>2. at[i] \in DOMAIN corpus /\ at[j] \in DOMAIN corpus  BY <1>1 DEF ComeFrom
  <2>3. QED  BY <2>1, <2>2
<1>3. \A k, m \in DOMAIN at : k < m => at[k] < at[m]  BY DEF ComeFrom
<1>4. i < j => at[i] < at[j]  BY <1>1, <1>3
<1>5. j < i => at[j] < at[i]  BY <1>1, <1>3
<1>6. QED  BY <1>1, <1>2, <1>4, <1>5

LEMMA SamePlaces ==
    ASSUME NEW s, by_skill[s] \in Seq(Trace), corpus \in Seq(Trace),
           NEW at, ComeFrom(s, at), NEW status
    PROVE  /\ \A k \in Scan!WithStatus(by_skill[s], status) : at[k] \in Scan!Places(s, status)
           /\ \A i \in Scan!Places(s, status) :
                 \E k \in Scan!WithStatus(by_skill[s], status) : at[k] = i
           /\ Cardinality(Scan!WithStatus(by_skill[s], status))
                 = Cardinality(Scan!Places(s, status))
<1> DEFINE S == Scan!WithStatus(by_skill[s], status)
           T == Scan!Places(s, status)
           f == [k \in S |-> at[k]]
<1>1. S \in SUBSET (1..Len(by_skill[s])) /\ Len(by_skill[s]) \in Nat
  BY DEF Scan!WithStatus
<1>2. DOMAIN at = DOMAIN by_skill[s]  BY DEF ComeFrom
<1>3. IsFiniteSet(S)  BY <1>1, PlacesFinite
<1>4. ASSUME NEW k \in S PROVE at[k] \in T
  <2>1. k \in DOMAIN by_skill[s] /\ by_skill[s][k].status = status  BY DEF Scan!WithStatus
  <2>2. at[k] \in DOMAIN corpus /\ corpus[at[k]].skill = s  BY <1>2, <2>1 DEF ComeFrom
  <2>3. corpus[at[k]].status = status  BY <1>2, <2>1 DEF ComeFrom
  <2>4. QED  BY <2>2, <2>3 DEF Scan!Places
<1>5. ASSUME NEW i \in T PROVE \E k \in S : at[k] = i
  <2>1. i \in DOMAIN corpus /\ corpus[i].skill = s /\ corpus[i].status = status
    BY DEF Scan!Places
  <2>2. PICK k \in DOMAIN at : at[k] = i  BY <2>1 DEF ComeFrom
  <2>3. k \in S  BY <1>2, <2>1, <2>2 DEF ComeFrom, Scan!WithStatus
  <2>4. QED  BY <2>2, <2>3
<1>6. \A x, y \in S : at[x] = at[y] => x = y  BY <1>1, OnePlaceEach DEF Scan!WithStatus
<1> HIDE DEF S, T
<1>7. /\ f \in [S -> T]
      /\ \A x, y \in S : f[x] = f[y] => x = y
      /\ \A i \in T : \E k \in S : f[k] = i
  BY <1>4, <1>5, <1>6
<1> HIDE DEF f
<1>8. Cardinality(S) = Cardinality(T)  BY <1>3, <1>7, SameSize
<1>9. QED  BY <1>4, <1>5, <1>8 DEF S, T

\* As many pending steps name a tool in the traces as in their places.
LEMMA SameCount ==
    ASSUME NEW s, by_skill[s] \in Seq(Trace), corpus \in Seq(Trace),
           NEW at, ComeFrom(s, at), NEW status, NEW tool
    PROVE  Scan!CountOf(by_skill[s], Scan!WithStatus(by_skill[s], status), tool)
              = Scan!CountOf(corpus, Scan!Places(s, status), tool)
<1> DEFINE traces == by_skill[s]
           G == Scan!WithStatus(traces, status)
           H == Scan!Places(s, status)
           S == {w \in Scan!Pending(traces, G) : Scan!ToolOf(traces, w) = tool}
           T == {w \in Scan!Pending(corpus, H) : Scan!ToolOf(corpus, w) = tool}
           f == [w \in S |-> <<at[w[1]], w[2]>>]
<1>1. G \in SUBSET (DOMAIN traces) /\ H \in SUBSET (DOMAIN corpus)
  BY DEF Scan!WithStatus, Scan!Places
<1>2. \A k \in G : at[k] \in H /\ traces[k] = corpus[at[k]]
  BY <1>1, SamePlaces DEF ComeFrom
<1>3. \A i \in H : \E k \in G : at[k] = i  BY SamePlaces
<1>4. \A x, y \in G : at[x] = at[y] => x = y  BY <1>1, OnePlaceEach
<1>5. Scan!CountOf(traces, G, tool) = Cardinality(S)  BY ScanCounts DEF Scan!CountOf
<1>6. Scan!CountOf(corpus, H, tool) = Cardinality(T)  BY ScanCounts DEF Scan!CountOf
<1> HIDE DEF G, H
<1>7. IsFiniteSet(S)
  <2>1. IsFiniteSet(Scan!Pending(traces, G))  BY <1>1, PendingFinite
  <2>2. S \subseteq Scan!Pending(traces, G)  OBVIOUS
  <2>3. QED  BY <2>1, <2>2, FS_Subset
<1>8. ASSUME NEW w \in S
      PROVE  /\ w = <<w[1], w[2]>> /\ w[1] \in G
             /\ <<at[w[1]], w[2]>> \in T
  <2>1. /\ w[1] \in G /\ w[2] \in DOMAIN traces[w[1]].pending
        /\ w = <<w[1], w[2]>> /\ w[2] \in Nat
    BY <1>1, PendingFinite
  <2> DEFINE v == <<at[w[1]], w[2]>>
  <2>2. at[w[1]] \in H /\ w[2] \in DOMAIN corpus[at[w[1]]].pending  BY <1>2, <2>1
  <2>3. v \in Scan!Pending(corpus, H)  BY <1>1, <2>1, <2>2, PendingFinite
  <2>4. Scan!ToolOf(corpus, v) = Scan!ToolOf(traces, w)  BY <1>2, <2>1 DEF Scan!ToolOf
  <2>5. QED  BY <2>1, <2>3, <2>4
<1>9. ASSUME NEW v \in T PROVE \E w \in S : f[w] = v
  <2>1. /\ v[1] \in H /\ v[2] \in DOMAIN corpus[v[1]].pending
        /\ v = <<v[1], v[2]>> /\ v[2] \in Nat
    BY <1>1, PendingFinite
  <2>2. PICK k \in G : at[k] = v[1]  BY <1>3, <2>1
  <2> DEFINE w == <<k, v[2]>>
  <2>3. w \in Scan!Pending(traces, G)  BY <1>1, <1>2, <2>1, <2>2, PendingFinite
  <2>4. Scan!ToolOf(traces, w) = Scan!ToolOf(corpus, v)  BY <1>2, <2>1, <2>2 DEF Scan!ToolOf
  <2>5. w \in S  BY <2>3, <2>4
  <2>6. f[w] = v  BY <2>1, <2>2, <2>5
  <2>7. QED  BY <2>5, <2>6
<1>10. ASSUME NEW w \in S, NEW v \in S, f[w] = f[v] PROVE w = v
  <2>1. at[w[1]] = at[v[1]] /\ w[2] = v[2]  BY <1>10
  <2>2. w[1] = v[1]  BY <1>4, <1>8, <2>1
  <2>3. QED  BY <1>8, <2>1, <2>2
<1>11. f \in [S -> T]  BY <1>8
<1> HIDE DEF S, T, f
<1>12. Cardinality(S) = Cardinality(T)  BY <1>7, <1>9, <1>10, <1>11, SameSize
<1>13. QED  BY <1>5, <1>6, <1>12 DEF G, H

\* The last report of the traces is the last of their places.
LEMMA SameReport ==
    ASSUME NEW s, by_skill[s] \in Seq(Trace), corpus \in Seq(Trace),
           NEW at, ComeFrom(s, at)
    PROVE  Scan!BestEvalReport(by_skill[s]) =
              IF Scan!Reported(s) = {} THEN NoReport ELSE corpus[Scan!Max(Scan!Reported(s))].report
<1> DEFINE traces == by_skill[s]
           S == {k \in DOMAIN traces : traces[k].report # NoReport}
           T == Scan!Reported(s)
<1>1. DOMAIN at = DOMAIN traces /\ \A k \in DOMAIN at : traces[k] = corpus[at[k]]
  BY DEF ComeFrom
<1>2. ASSUME NEW k \in S PROVE at[k] \in T
  BY <1>1 DEF ComeFrom, Scan!Reported
<1>3. ASSUME NEW i \in T PROVE \E k \in S : at[k] = i
  <2>1. i \in DOMAIN corpus /\ corpus[i].skill = s /\ corpus[i].report # NoReport
    BY DEF Scan!Reported
  <2>2. PICK k \in DOMAIN at : at[k] = i  BY <2>1 DEF ComeFrom
  <2>3. k \in S  BY <1>1, <2>1, <2>2
  <2>4. QED  BY <2>2, <2>3
<1>4. T \in SUBSET (1..Len(corpus)) /\ Len(corpus) \in Nat  BY DEF Scan!Reported
<1>5. CASE T = {}
  <2>1. S = {}  BY <1>2, <1>5
  <2>2. QED  BY <1>5, <2>1, LastReport
<1>6. CASE T # {}
  <2>1. S # {}  BY <1>3, <1>6
  <2>2. PICK m \in S : /\ \A i \in S : i <= m
                       /\ Scan!BestEvalReport(traces) = traces[m].report
    BY <2>1, LastReport
  <2>3. Scan!Max(T) \in T /\ \A i \in T : i <= Scan!Max(T)  BY <1>4, <1>6, LastPlace
  <2>4. PICK k \in S : at[k] = Scan!Max(T)  BY <1>3, <2>3
  <2>5. k \in DOMAIN at /\ m \in DOMAIN at /\ k \in Nat /\ m \in Nat  BY <1>1
  <2>6. at[m] \in Nat /\ at[k] \in Nat /\ at[m] <= at[k]
    BY <1>2, <1>4, <2>3, <2>4
  <2>7. ~(k < m)  BY <2>5, <2>6 DEF ComeFrom
  <2>8. k = m  BY <2>2, <2>5, <2>7
  <2>9. QED  BY <1>1, <1>6, <2>2, <2>4, <2>5, <2>8
<1>7. QED  BY <1>5, <1>6

\* ProposalsAreFounded follows.
LEMMA ScanFounded ==
    ASSUME Scan!ScanInv
    PROVE  Scan!ProposalsAreFounded
<1> SUFFICES ASSUME NEW s \in 1..(turn - 1),
                    NEW p, p = proposals[s],
                    NEW gated, gated = Scan!Places(s, "approval_required")
             PROVE  /\ p # NoProposal <=> \/ Cardinality(gated) >= MinRepeated
                                          \/ Cardinality(Scan!Places(s, "failed")) >= MinRepeated
                    /\ p # NoProposal =>
                          /\ p.status = "draft" <=> Scan!Reported(s) = {}
                          /\ p.status = "ready_for_review" <=>
                                /\ Scan!Reported(s) # {}
                                /\ Scan!Meets(corpus[Scan!Max(Scan!Reported(s))].report)
                          /\ p.trigger = "approval_required" =>
                                \A i \in gated : \A tool \in Scan!Range(corpus[i].pending) :
                                    Scan!CountOf(corpus, gated, p.action)
                                       >= Scan!CountOf(corpus, gated, tool)
  BY ScanCounts DEF Scan!ProposalsAreFounded
<1> DEFINE traces == by_skill[s]
           mine == Scan!WithStatus(traces, "approval_required")
           report == Scan!BestEvalReport(traces)
<1>1. traces \in Seq(Trace) /\ corpus \in Seq(Trace) /\ p = Scan!Proposal(traces)
  BY AllGrouped
<1>2. PICK at : ComeFrom(s, at)  BY AllGrouped
<1>3. p # NoProposal <=> \/ Cardinality(gated) >= MinRepeated
                         \/ Cardinality(Scan!Places(s, "failed")) >= MinRepeated
  BY <1>1, <1>2, ProposalCases, SamePlaces
<1>4. report = IF Scan!Reported(s) = {} THEN NoReport
               ELSE corpus[Scan!Max(Scan!Reported(s))].report
  BY <1>1, <1>2, SameReport
<1>5. Scan!Reported(s) # {} => report # NoReport
  <2>1. Scan!Reported(s) \in SUBSET (1..Len(corpus)) /\ Len(corpus) \in Nat
    BY <1>1 DEF Scan!Reported
  <2>2. Scan!Reported(s) # {} => Scan!Max(Scan!Reported(s)) \in Scan!Reported(s)
    BY <2>1, LastPlace
  <2>3. QED  BY <1>4, <2>2 DEF Scan!Reported
<1>6. ASSUME p # NoProposal
      PROVE  /\ p.status = "draft" <=> Scan!Reported(s) = {}
             /\ p.status = "ready_for_review" <=>
                   /\ Scan!Reported(s) # {}
                   /\ Scan!Meets(corpus[Scan!Max(Scan!Reported(s))].report)
  <2>1. p.status = Scan!StatusFromEval(report)  BY <1>1, <1>6, ProposalCases
  <2>2. QED  BY <1>4, <1>5, <2>1 DEF Scan!StatusFromEval
<1>7. ASSUME p # NoProposal, p.trigger = "approval_required",
             NEW i \in gated, NEW tool \in Scan!Range(corpus[i].pending)
      PROVE  Scan!CountOf(corpus, gated, p.action) >= Scan!CountOf(corpus, gated, tool)
  <2>1. mine \in SUBSET (DOMAIN traces)  BY DEF Scan!WithStatus
  <2>2. PICK k \in mine : at[k] = i  BY <1>1, <1>2, SamePlaces
  <2>3. traces[k].pending = corpus[i].pending  BY <1>2, <2>1, <2>2 DEF ComeFrom
  <2>4. PICK n \in DOMAIN traces[k].pending : traces[k].pending[n] = tool
    BY <2>3 DEF Scan!Range
  <2>5. n \in Nat
    <3>1. traces[k] \in Trace  BY <1>1, <2>1
    <3>2. traces[k].pending \in Seq(Scan!Range(traces[k].pending))
      BY <3>1, EvalJobsAssumption DEF Scan!HillClimbAssumption
    <3>3. QED  BY <3>2
  <2> DEFINE v == <<k, n>>
  <2>6. v \in Scan!Pending(traces, mine)  BY <1>1, <2>1, <2>4, <2>5, PendingFinite
  <2>7. Scan!ToolOf(traces, v) = tool  BY <2>4 DEF Scan!ToolOf
  <2>8. p.action = Scan!MostCommonPendingTool(traces, mine)  BY <1>1, <1>7, ProposalCases
  <2> HIDE DEF mine, v
  <2>9. Scan!CountOf(traces, mine, p.action) >= Scan!CountOf(traces, mine, tool)
    <3>1. Scan!Pending(traces, mine) # {}  BY <2>6
    <3>2. PICK w \in Scan!Pending(traces, mine) :
             /\ Scan!MostCommonPendingTool(traces, mine) = Scan!ToolOf(traces, w)
             /\ \A u \in Scan!Pending(traces, mine) :
                   Scan!CountOf(traces, mine, Scan!ToolOf(traces, w))
                      >= Scan!CountOf(traces, mine, Scan!ToolOf(traces, u))
      BY <1>1, <2>1, <3>1, MostCommon
    <3>3. QED  BY <2>6, <2>7, <2>8, <3>2
  <2>10. /\ Scan!CountOf(traces, mine, p.action) = Scan!CountOf(corpus, gated, p.action)
         /\ Scan!CountOf(traces, mine, tool) = Scan!CountOf(corpus, gated, tool)
    BY <1>1, <1>2, SameCount DEF mine
  <2>11. QED  BY <2>9, <2>10
<1>8. QED  BY <1>3, <1>6, <1>7

\* The inductive invariant of the scan: however the traces of the skills are
\* mixed in the corpus, each skill has its own, in their order, and what it
\* got is what _proposal_for_skill makes of them (propose_skill_improvements).
THEOREM ScanInvHolds == Spec => []ScanInv
<1>1. Init => ScanInv  BY ScanInit DEF Init, ScanInv
<1>2. ScanInv /\ [Next]_vars => ScanInv'
  <2> SUFFICES ASSUME ScanInv, [Next]_vars, job' = "scan" PROVE Scan!ScanInv'
    BY DEF ScanInv
  <2>1. job = "scan"  BY DEF Next, vars
  <2>2. Scan!ScanInv  BY <2>1 DEF ScanInv
  <2>3. CASE Scan!Next
    BY <2>2, <2>3, ScanGroups, ScanProposes DEF Scan!Next
  <2>4. CASE UNCHANGED scanVars
    BY <2>2, <2>4 DEF scanVars, Scan!ScanInv, Scan!Grouped
  <2>5. QED  BY <2>1, <2>3, <2>4 DEF Next, vars, scanVars
<1>3. QED  BY <1>1, <1>2, PTL DEF Spec

\* The proposals follow from the corpus: a skill has one just when its own
\* traces repeat an approval or a failure, with the tool most of its pending
\* steps wait for, ready for review just when its last report meets all
\* thresholds (hill_climb.py), for any corpus.
THEOREM ProposalsAreFoundedHolds == Spec => []ProposalsAreFounded
<1>1. ScanInv => ProposalsAreFounded  BY ScanFounded DEF ScanInv, ProposalsAreFounded
<1>2. QED  BY <1>1, ScanInvHolds, PTL

-----------------------------------------------------------------------------
(* The golden runs: sums over lists.                                       *)

\* The running sum that Sum reads.
Running(h, rows, field) ==
    h = [n \in 0..Len(rows) |-> IF n = 0 THEN 0 ELSE h[n - 1] + rows[n][field]]

LEMMA RunningSteps ==
    ASSUME NEW rows, Len(rows) \in Nat, NEW field, NEW h, Running(h, rows, field)
    PROVE  /\ h[0] = 0
           /\ \A n \in Nat : n + 1 <= Len(rows) => h[n + 1] = h[n] + rows[n + 1][field]
<1>1. h = [n \in 0..Len(rows) |-> IF n = 0 THEN 0 ELSE h[n - 1] + rows[n][field]]
  BY DEF Running
<1>2. h[0] = 0  BY <1>1
<1>3. ASSUME NEW n \in Nat, n + 1 <= Len(rows)
      PROVE  h[n + 1] = h[n] + rows[n + 1][field]
  <2>1. n + 1 \in 0..Len(rows) /\ n + 1 # 0 /\ (n + 1) - 1 = n  BY <1>3
  <2>2. h[n + 1] = h[(n + 1) - 1] + rows[n + 1][field]  BY <1>1, <2>1
  <2>3. QED  BY <2>1, <2>2
<1>4. QED  BY <1>2, <1>3

LEMMA RunningExists ==
    ASSUME NEW rows, Len(rows) \in Nat, NEW field
    PROVE  \E h : Running(h, rows, field)
<1> DEFINE N == Len(rows)
           Upto(n, h) == h = [i \in 0..n |-> IF i = 0 THEN 0 ELSE h[i - 1] + rows[i][field]]
           S == {n \in Nat : \E h : Upto(n, h)}
<1>1. 0 \in S
  <2> DEFINE h == [i \in 0..0 |-> 0]
  <2>1. Upto(0, h)  OBVIOUS
  <2>2. QED  BY <2>1
<1>2. ASSUME NEW n \in Nat, n \in S PROVE n + 1 \in S
  <2>1. PICK h : Upto(n, h)  BY <1>2
  <2> DEFINE k == [i \in 0..(n + 1) |-> IF i = n + 1 THEN h[n] + rows[n + 1][field] ELSE h[i]]
  <2>2. ASSUME NEW i \in 0..(n + 1)
        PROVE  k[i] = IF i = 0 THEN 0 ELSE k[i - 1] + rows[i][field]
    <3>1. CASE i = n + 1
      <4>1. k[i] = h[n] + rows[n + 1][field] /\ i # 0 /\ i - 1 = n /\ k[n] = h[n]  BY <3>1
      <4>2. QED  BY <3>1, <4>1
    <3>2. CASE i # n + 1
      <4>1. i \in 0..n /\ k[i] = h[i]  BY <3>2
      <4>2. h[i] = IF i = 0 THEN 0 ELSE h[i - 1] + rows[i][field]  BY <2>1, <4>1
      <4>3. i # 0 => k[i - 1] = h[i - 1]  BY <4>1
      <4>4. QED  BY <4>1, <4>2, <4>3
    <3>3. QED  BY <3>1, <3>2
  <2>3. DOMAIN k = 0..(n + 1)  OBVIOUS
  <2>4. k = [i \in 0..(n + 1) |-> k[i]]  OBVIOUS
  <2> HIDE DEF k
  <2>5. Upto(n + 1, k)  BY <2>2, <2>4
  <2>6. QED  BY <2>5
<1> HIDE DEF S
<1>3. Nat \subseteq S  BY <1>1, <1>2, Induct
<1>4. N \in S  BY <1>3
<1>5. QED  BY <1>4 DEF S, Running

LEMMA SumRuns ==
    ASSUME NEW rows, Len(rows) \in Nat, NEW field
    PROVE  \E h : Running(h, rows, field) /\ Live!Sum(rows, field) = h[Len(rows)]
<1> DEFINE h == CHOOSE h : Running(h, rows, field)
<1>1. Running(h, rows, field)  BY RunningExists
<1>2. Live!Sum(rows, field) = h[Len(rows)]  BY DEF Live!Sum, Running
<1>3. QED  BY <1>1, <1>2

\* A sum lies between so many times the least and so many times the greatest.
LEMMA SumBounds ==
    ASSUME NEW rows, Len(rows) \in Nat, NEW field, NEW lo \in Nat, NEW hi \in Nat,
           \A i \in 1..Len(rows) :
              rows[i][field] \in Nat /\ lo <= rows[i][field] /\ rows[i][field] <= hi
    PROVE  /\ Live!Sum(rows, field) \in Nat
           /\ Len(rows) * lo <= Live!Sum(rows, field)
           /\ Live!Sum(rows, field) <= Len(rows) * hi
<1>1. PICK h : Running(h, rows, field) /\ Live!Sum(rows, field) = h[Len(rows)]  BY SumRuns
<1> DEFINE N == Len(rows)
           S == {n \in Nat : n <= N => h[n] \in Nat /\ n * lo <= h[n] /\ h[n] <= n * hi}
<1>2. 0 \in S  BY <1>1, RunningSteps
<1>3. ASSUME NEW n \in Nat, n \in S PROVE n + 1 \in S
  <2> SUFFICES ASSUME n + 1 <= N
               PROVE  h[n + 1] \in Nat /\ (n + 1) * lo <= h[n + 1] /\ h[n + 1] <= (n + 1) * hi
    OBVIOUS
  <2>1. h[n] \in Nat /\ n * lo <= h[n] /\ h[n] <= n * hi  BY <1>3
  <2> DEFINE x == rows[n + 1][field]
  <2>2. h[n + 1] = h[n] + x  BY <1>1, RunningSteps
  <2>3. x \in Nat /\ lo <= x /\ x <= hi  OBVIOUS
  <2>4. (n + 1) * lo = n * lo + lo /\ (n + 1) * hi = n * hi + hi  OBVIOUS
  <2>5. n * lo \in Nat /\ n * hi \in Nat  OBVIOUS
  <2> HIDE DEF x
  <2>6. QED  BY <2>1, <2>2, <2>3, <2>4, <2>5
<1> HIDE DEF S
<1>4. Nat \subseteq S  BY <1>2, <1>3, Induct
<1>5. N \in S  BY <1>4
<1>6. QED  BY <1>1, <1>5 DEF S

\* One more row adds what it has in the field.
LEMMA SumAppends ==
    ASSUME NEW R, NEW rows \in Seq(R), NEW row \in R, NEW field
    PROVE  Live!Sum(Append(rows, row), field) = Live!Sum(rows, field) + row[field]
<1> DEFINE N == Len(rows)
           more == Append(rows, row)
<1>1. N \in Nat /\ Len(more) = N + 1 /\ more[N + 1] = row /\ \A i \in 1..N : more[i] = rows[i]
  OBVIOUS
<1> HIDE DEF more
<1>2. PICK h : Running(h, rows, field) /\ Live!Sum(rows, field) = h[N]  BY SumRuns
<1>3. PICK k : Running(k, more, field) /\ Live!Sum(more, field) = k[N + 1]
  BY <1>1, SumRuns
<1> DEFINE S == {n \in Nat : n <= N => k[n] = h[n]}
<1>4. 0 \in S  BY <1>1, <1>2, <1>3, RunningSteps
<1>5. ASSUME NEW n \in Nat, n \in S PROVE n + 1 \in S
  <2> SUFFICES ASSUME n + 1 <= N PROVE k[n + 1] = h[n + 1]  OBVIOUS
  <2>1. k[n] = h[n]  BY <1>5
  <2>2. h[n + 1] = h[n] + rows[n + 1][field]  BY <1>1, <1>2, RunningSteps
  <2>3. k[n + 1] = k[n] + more[n + 1][field]  BY <1>1, <1>3, RunningSteps
  <2>4. QED  BY <1>1, <2>1, <2>2, <2>3
<1> HIDE DEF S
<1>6. Nat \subseteq S  BY <1>4, <1>5, Induct
<1>7. N \in S  BY <1>1, <1>6
<1>8. k[N] = h[N]  BY <1>1, <1>7 DEF S
<1>9. k[N + 1] = k[N] + row[field]  BY <1>1, <1>3, RunningSteps
<1>10. QED  BY <1>2, <1>3, <1>8, <1>9 DEF more

LEMMA Divided ==
    ASSUME NEW d \in Nat \ {0}, NEW a \in Nat
    PROVE  a \div d \in Nat /\ d * (a \div d) <= a /\ a < d * ((a \div d) + 1)
<1>1. a \div d \in Int /\ a % d \in 0..(d - 1)  OBVIOUS
<1>2. a = d * (a \div d) + (a % d)  OBVIOUS
<1>3. a \div d \in Nat  OBVIOUS
<1>4. QED  BY <1>1, <1>2, <1>3

\* The cases of the reports add up to a natural.
LEMMA SumNat ==
    ASSUME NEW rows \in Seq(Live!Summaries)
    PROVE  Live!Sum(rows, "cases") \in Nat
<1>1. PICK h : Running(h, rows, "cases") /\ Live!Sum(rows, "cases") = h[Len(rows)]
  BY SumRuns
<1> DEFINE S == {n \in Nat : n <= Len(rows) => h[n] \in Nat}
<1>2. 0 \in S  BY <1>1, RunningSteps
<1>3. ASSUME NEW n \in Nat, n \in S PROVE n + 1 \in S
  <2> SUFFICES ASSUME n + 1 <= Len(rows) PROVE h[n + 1] \in Nat  OBVIOUS
  <2>1. h[n] \in Nat  BY <1>3
  <2>2. rows[n + 1] \in Live!Summaries  OBVIOUS
  <2>3. rows[n + 1]["cases"] \in Nat  BY <2>2 DEF Live!Summaries
  <2>4. h[n + 1] = h[n] + rows[n + 1]["cases"]  BY <1>1, RunningSteps
  <2>5. QED  BY <2>1, <2>3, <2>4
<1> HIDE DEF S
<1>4. Nat \subseteq S  BY <1>2, <1>3, Induct
<1>5. Len(rows) \in S  BY <1>4
<1>6. QED  BY <1>1, <1>5 DEF S

\* A mean, rounded to the nearest, lies between the least and the greatest.
LEMMA MeanBetween ==
    ASSUME NEW n \in Nat \ {0}, NEW sum \in Nat, NEW lo \in Nat, NEW hi \in Nat,
           n * lo <= sum, sum <= n * hi
    PROVE  Live!Rounded(sum, n) \in Nat /\ lo <= Live!Rounded(sum, n) /\ Live!Rounded(sum, n) <= hi
<1> DEFINE d == 2 * n
           a == 2 * sum + n
           q == a \div d
<1>1. q = Live!Rounded(sum, n)  BY DEF Live!Rounded
<1>2. d \in Nat \ {0} /\ a \in Nat  OBVIOUS
<1>3. q \in Nat /\ d * q <= a /\ a < d * (q + 1)
  <2> HIDE DEF d, a
  <2>1. QED  BY <1>2, Divided
<1>4. d * lo <= a
  <2>1. d * lo = 2 * (n * lo) /\ n * lo \in Nat  OBVIOUS
  <2>2. QED  BY <2>1
<1>5. a < d * (hi + 1)
  <2>1. d * (hi + 1) = 2 * (n * hi) + 2 * n /\ n * hi \in Nat  OBVIOUS
  <2>2. QED  BY <2>1
<1> HIDE DEF q, d, a
<1>6. d * lo < d * (q + 1) /\ d * q < d * (hi + 1)  
  <2>1. d * lo \in Nat /\ d * (q + 1) \in Nat /\ d * q \in Nat /\ d * (hi + 1) \in Nat
    BY <1>2, <1>3
  <2>2. QED  BY <1>2, <1>3, <1>4, <1>5, <2>1
<1>7. \A x, y \in Nat : d * x < d * y => x < y
  <2> SUFFICES ASSUME NEW x \in Nat, NEW y \in Nat, y <= x PROVE d * y <= d * x
    BY <1>2
  <2>1. x = y + (x - y) /\ x - y \in Nat  OBVIOUS
  <2>2. d * x = d * y + d * (x - y) /\ d * (x - y) \in Nat /\ d * y \in Nat  BY <1>2, <2>1
  <2>3. QED  BY <2>2
<1>8. lo < q + 1 /\ q < hi + 1  BY <1>3, <1>6, <1>7
<1>9. QED  BY <1>1, <1>3, <1>8

-----------------------------------------------------------------------------
(* The golden runs: the score of a trajectory.                             *)

LEMMA Products ==
    ASSUME NEW x \in Nat, NEW y \in Nat, NEW z \in Nat, y <= z
    PROVE  /\ x * y \in Nat /\ x * z \in Nat /\ x * y <= x * z
           /\ x # 0 /\ x * y = x * z => y = z
<1>1. z = y + (z - y) /\ z - y \in Nat  OBVIOUS
<1>2. x * z = x * y + x * (z - y)  BY <1>1
<1>3. x * y \in Nat /\ x * z \in Nat /\ x * (z - y) \in Nat  BY <1>1
<1>4. x # 0 /\ z - y # 0 => x * (z - y) # 0  BY <1>1
<1>5. QED  BY <1>1, <1>2, <1>3, <1>4

\* How many places of a list are hits.
LEMMA HitCount ==
    ASSUME NEW X, NEW list \in Seq(X), NEW other,
           NEW n, n = Live!Cardinality(Live!Hits(list, other))
    PROVE  /\ n \in Nat /\ n <= Len(list) /\ Len(list) \in Nat
           /\ n = Len(list) <=> Live!Hits(list, other) = 1..Len(list)
<1> DEFINE H == Live!Hits(list, other)
           D == 1..Len(list)
<1>1. H \in SUBSET D /\ Len(list) \in Nat  BY DEF Live!Hits
<1>2. n = Cardinality(H)  BY LiveCounts
<1> HIDE DEF H
<1>3. n \in Nat /\ n <= Len(list)  BY <1>1, <1>2, PlacesFinite
<1>4. IsFiniteSet(D) /\ Cardinality(D) = Len(list)  BY <1>1, FS_Interval
<1> HIDE DEF D
<1>5. Cardinality(H) = Cardinality(D) => H = D  BY <1>1, <1>4, FS_Subset
<1>6. QED  BY <1>1, <1>2, <1>3, <1>4, <1>5 DEF H, D

\* f1 is a share of one, and full just when there are tools and all are hits.
LEMMA F1Full ==
    ASSUME NEW X, NEW expected \in Seq(X), expected # <<>>,
           NEW Y, NEW actual \in Seq(Y),
           NEW f, f = Live!F1(expected, actual)
    PROVE  /\ f[1] \in Nat /\ f[2] \in Nat \ {0} /\ f[1] <= f[2]
           /\ f[1] = f[2] <=> /\ actual # <<>>
                              /\ Live!Hits(actual, expected) = 1..Len(actual)
                              /\ Live!Hits(expected, actual) = 1..Len(expected)
<1> DEFINE p == Live!Cardinality(Live!Hits(actual, expected))
           r == Live!Cardinality(Live!Hits(expected, actual))
           a == Len(actual)
           e == Len(expected)
<1>1. /\ p \in Nat /\ p <= a /\ a \in Nat
      /\ p = a <=> Live!Hits(actual, expected) = 1..a
  BY HitCount
<1>2. /\ r \in Nat /\ r <= e /\ e \in Nat
      /\ r = e <=> Live!Hits(expected, actual) = 1..e
  BY HitCount
<1>3. e # 0 /\ (a = 0 <=> actual = <<>>)  OBVIOUS
<1>4. f = IF p = 0 \/ r = 0 THEN <<0, 1>> ELSE <<2 * p * r, p * e + r * a>>
  BY DEF Live!F1
<1> HIDE DEF p, r, a, e
<1>5. CASE p = 0 \/ r = 0
  <2>1. f = <<0, 1>>  BY <1>4, <1>5
  <2>2. ~(p = a /\ r = e /\ a # 0)  BY <1>3, <1>5
  <2>3. QED  BY <1>1, <1>2, <1>3, <2>1, <2>2 DEF a, e
<1>6. CASE p # 0 /\ r # 0
  <2>1. f[1] = 2 * p * r /\ f[2] = p * e + r * a  BY <1>4, <1>6
  <2>2. /\ p * r \in Nat /\ p * e \in Nat /\ p * r <= p * e
        /\ p * r = p * e => r = e
    BY <1>1, <1>2, <1>6, Products
  <2>3. /\ r * p \in Nat /\ r * a \in Nat /\ r * p <= r * a
        /\ r * p = r * a => p = a
    BY <1>1, <1>2, <1>6, Products
  <2>4. r * p = p * r /\ 2 * p * r = p * r + r * p  BY <1>1, <1>2
  <2>5. p * r # 0  BY <1>1, <1>2, <1>6
  <2>6. f[1] \in Nat /\ f[2] \in Nat \ {0} /\ f[1] <= f[2]
    BY <2>1, <2>2, <2>3, <2>4, <2>5
  <2>7. f[1] = f[2] => r = e /\ p = a
    BY <2>1, <2>2, <2>3, <2>4
  <2>8. r = e /\ p = a => f[1] = f[2]  BY <2>1, <2>4
  <2>9. p = a => a # 0  BY <1>6
  <2>10. QED  BY <1>1, <1>2, <1>3, <2>6, <2>7, <2>8, <2>9 DEF a, e
<1>7. QED  BY <1>5, <1>6

\* The rank of a place among all.
LEMMA FullRank ==
    ASSUME NEW n \in Nat, NEW i \in 1..n
    PROVE  Live!Rank(1..n, i) = i
<1>1. {j \in 1..n : j <= i} = 1..i  OBVIOUS
<1>2. Cardinality(1..i) = i  BY FS_Interval
<1>3. QED  BY <1>1, <1>2, LiveCounts DEF Live!Rank

\* ScoresAreSound, of one trajectory.
LEMMA ScoreSound ==
    ASSUME NEW X, NEW expected \in Seq(X), expected # <<>>,
           NEW Y, NEW actual \in Seq(Y),
           NEW f, f = Live!F1(expected, actual)
    PROVE  /\ f[1] <= f[2]
           /\ f[1] = f[2] => Live!Range(actual) = Live!Range(expected)
           /\ f[1] = f[2] /\ Live!OrderCorrect(expected, actual) <=>
                 actual = expected /\ expected # <<>>
<1> DEFINE a == Len(actual)
           e == Len(expected)
           E == Live!Hits(expected, actual)
           A == Live!Hits(actual, expected)
<1>1. a \in Nat /\ e \in Nat /\ DOMAIN actual = 1..a /\ DOMAIN expected = 1..e  OBVIOUS
<1>2. f[1] <= f[2] /\ (f[1] = f[2] <=> actual # <<>> /\ A = 1..a /\ E = 1..e)
  BY F1Full
<1>3. ASSUME A = 1..a, E = 1..e PROVE Live!Range(actual) = Live!Range(expected)
  <2>1. \A i \in DOMAIN actual : actual[i] \in Live!Range(expected)
    BY <1>1, <1>3 DEF Live!Hits
  <2>2. \A i \in DOMAIN expected : expected[i] \in Live!Range(actual)
    BY <1>1, <1>3 DEF Live!Hits
  <2>3. QED  BY <2>1, <2>2 DEF Live!Range
<1>4. ASSUME A = 1..a, E = 1..e
      PROVE  Live!OrderCorrect(expected, actual) <=> actual = expected
  <2>1. Live!Cardinality(A) = a /\ Live!Cardinality(E) = e
    <3>1. Cardinality(1..a) = a /\ Cardinality(1..e) = e  BY <1>1, IntervalSize
    <3>2. QED  BY <1>4, <3>1, LiveCounts
  <2>2. \A i \in E : Live!Rank(E, i) = i  BY <1>1, <1>4, FullRank
  <2>3. \A j \in A : Live!Rank(A, j) = j  BY <1>1, <1>4, FullRank
  <2>4. Live!OrderCorrect(expected, actual) <=>
           e = a /\ \A i \in E, j \in A : i = j => expected[i] = actual[j]
    BY <2>1, <2>2, <2>3 DEF Live!OrderCorrect
  <2>5. ASSUME e = a, \A i \in E, j \in A : i = j => expected[i] = actual[j]
        PROVE  actual = expected
    <3>1. DOMAIN actual = DOMAIN expected /\ \A i \in 1..a : actual[i] = expected[i]
      BY <1>1, <1>4, <2>5
    <3>2. QED  BY <1>1, <3>1
  <2>6. QED  BY <2>4, <2>5
<1>5. ASSUME actual = expected PROVE actual # <<>> /\ A = 1..a /\ E = 1..e
  BY <1>1, <1>5 DEF Live!Hits, Live!Range
<1> HIDE DEF A, E, a, e
<1>6. QED  BY <1>2, <1>3, <1>4, <1>5

-----------------------------------------------------------------------------
(* The golden runs: the latencies in order.                                *)

\* The places 1..m in an order that sorts the values there.
Sorts(m, v, p) ==
    /\ p \in [1..m -> 1..m]
    /\ \A i, j \in 1..m : p[i] = p[j] => i = j
    /\ \A t \in 1..m : \E i \in 1..m : p[i] = t
    /\ \A i, j \in 1..m : i < j => v[p[i]] <= v[p[j]]

\* One more value goes in front of the first that is greater.
LEMMA SortInserts ==
    ASSUME NEW m \in Nat, NEW v, \A i \in 1..(m + 1) : v[i] \in Nat,
           NEW p, Sorts(m, v, p)
    PROVE  \E q : Sorts(m + 1, v, q)
<1> DEFINE n == m + 1
           x == v[n]
           behind == {i \in 1..n : i = n \/ v[p[i]] > x}
<1>1. n \in Nat /\ x \in Nat /\ n \in 1..n  OBVIOUS
<1>2. PICK k \in behind : \A i \in behind : k <= i
  <2>1. behind \in SUBSET Nat /\ behind # {}  BY <1>1
  <2>2. QED  BY <2>1, LeastNat
<1>3. k \in 1..n /\ (k = n \/ v[p[k]] > x)  BY <1>2
<1>4. \A i \in 1..m : p[i] \in 1..m /\ p[i] \in 1..n /\ v[p[i]] \in Nat /\ p[i] # n
  <2> SUFFICES ASSUME NEW i \in 1..m PROVE p[i] \in 1..m  OBVIOUS
  <2>1. QED  BY DEF Sorts
<1>5. \A i \in 1..m : i < k => v[p[i]] <= x
  <2> SUFFICES ASSUME NEW i \in 1..m, i < k PROVE v[p[i]] <= x  OBVIOUS
  <2>1. i \in 1..n /\ i # n  OBVIOUS
  <2>2. ~(v[p[i]] > x)  BY <1>2, <1>3, <2>1
  <2>3. QED  BY <1>1, <1>4, <2>2
<1>6. \A i \in 1..m : i >= k => x <= v[p[i]]
  <2> SUFFICES ASSUME NEW i \in 1..m, i >= k PROVE x <= v[p[i]]  OBVIOUS
  <2>1. k \in 1..m /\ v[p[k]] > x  BY <1>3
  <2>2. v[p[k]] <= v[p[i]]
    <3>1. CASE i = k  BY <1>4, <2>1, <3>1
    <3>2. CASE i # k
      <4>1. k < i  BY <2>1, <3>2
      <4>2. QED  BY <2>1, <4>1 DEF Sorts
    <3>3. QED  BY <3>1, <3>2
  <2>3. QED  BY <1>1, <1>4, <2>1, <2>2
<1> DEFINE q == [i \in 1..n |-> IF i < k THEN p[i] ELSE IF i = k THEN n ELSE p[i - 1]]
<1>7. ASSUME NEW i \in 1..n
      PROVE  /\ i < k => i \in 1..m /\ q[i] = p[i]
             /\ i = k => q[i] = n
             /\ i > k => i - 1 \in 1..m /\ i - 1 >= k /\ q[i] = p[i - 1]
             /\ i < k \/ i = k \/ i > k
  BY <1>3
<1>8. q \in [1..n -> 1..n]  BY <1>1, <1>3, <1>4, <1>7
<1> HIDE DEF q
<1>9. ASSUME NEW i \in 1..n, NEW j \in 1..n, q[i] = q[j] PROVE i = j
  <2>1. \A s, t \in 1..m : p[s] = p[t] => s = t  BY DEF Sorts
  <2>2. CASE i = k  BY <1>4, <1>7, <1>9, <2>2
  <2>3. CASE i < k
    <3>1. CASE j < k  BY <1>7, <1>9, <2>1, <2>3, <3>1
    <3>2. CASE j = k  BY <1>4, <1>7, <1>9, <2>3, <3>2
    <3>3. CASE j > k
      <4>1. i = j - 1  BY <1>7, <1>9, <2>1, <2>3, <3>3
      <4>2. QED  BY <1>3, <1>7, <2>3, <3>3, <4>1
    <3>4. QED  BY <1>7, <3>1, <3>2, <3>3
  <2>4. CASE i > k
    <3>1. CASE j < k
      <4>1. j = i - 1  BY <1>7, <1>9, <2>1, <2>4, <3>1
      <4>2. QED  BY <1>3, <1>7, <2>4, <3>1, <4>1
    <3>2. CASE j = k  BY <1>4, <1>7, <1>9, <2>4, <3>2
    <3>3. CASE j > k
      <4>1. i - 1 = j - 1  BY <1>7, <1>9, <2>1, <2>4, <3>3
      <4>2. QED  BY <4>1
    <3>4. QED  BY <1>7, <3>1, <3>2, <3>3
  <2>5. QED  BY <1>7, <2>2, <2>3, <2>4
<1>10. ASSUME NEW t \in 1..n PROVE \E i \in 1..n : q[i] = t
  <2>1. CASE t = n  BY <1>3, <1>7, <2>1
  <2>2. CASE t # n
    <3>1. PICK i \in 1..m : p[i] = t
      <4>1. t \in 1..m  BY <2>2
      <4>2. QED  BY <4>1 DEF Sorts
    <3>2. CASE i < k
      <4>1. i \in 1..n  OBVIOUS
      <4>2. QED  BY <1>7, <3>1, <3>2, <4>1
    <3>3. CASE i >= k
      <4>1. i + 1 \in 1..n /\ i + 1 > k /\ (i + 1) - 1 = i  BY <1>3, <3>3
      <4>2. q[i + 1] = t  BY <1>7, <3>1, <4>1
      <4>3. QED  BY <4>1, <4>2
    <3>4. QED  BY <1>3, <3>2, <3>3
  <2>3. QED  BY <2>1, <2>2
<1>11. ASSUME NEW i \in 1..n, NEW j \in 1..n, i < j PROVE v[q[i]] <= v[q[j]]
  <2>1. \A s, t \in 1..m : s < t => v[p[s]] <= v[p[t]]  BY DEF Sorts
  <2>2. CASE i < k /\ j < k  BY <1>7, <1>11, <2>1, <2>2
  <2>3. CASE i < k /\ j = k  BY <1>5, <1>7, <2>3
  <2>4. CASE i < k /\ j > k
    <3>1. i < j - 1  BY <1>3, <2>4
    <3>2. QED  BY <1>7, <2>1, <2>4, <3>1
  <2>5. CASE i = k /\ j > k
    <3>1. q[i] = n /\ q[j] = p[j - 1] /\ j - 1 \in 1..m /\ j - 1 >= k  BY <1>7, <2>5
    <3>2. QED  BY <1>6, <3>1
  <2>6. CASE i > k
    <3>1. j > k /\ i - 1 < j - 1  BY <1>3, <1>11, <2>6
    <3>2. QED  BY <1>7, <2>1, <2>6, <3>1
  <2>7. QED  BY <1>3, <1>11, <2>2, <2>3, <2>4, <2>5, <2>6
<1>12. Sorts(n, v, q)  BY <1>8, <1>9, <1>10, <1>11 DEF Sorts
<1>13. QED  BY <1>12

LEMMA SortExists ==
    ASSUME NEW n \in Nat, NEW v, \A i \in 1..n : v[i] \in Nat
    PROVE  \E p : Sorts(n, v, p)
<1> DEFINE S == {m \in Nat : m <= n => \E p : Sorts(m, v, p)}
<1>1. 0 \in S
  <2> DEFINE p == [i \in 1..0 |-> 0]
  <2>1. Sorts(0, v, p)  BY DEF Sorts
  <2>2. QED  BY <2>1
<1>2. ASSUME NEW m \in Nat, m \in S PROVE m + 1 \in S
  <2> SUFFICES ASSUME m + 1 <= n PROVE \E p : Sorts(m + 1, v, p)  OBVIOUS
  <2>1. PICK p : Sorts(m, v, p)  BY <1>2
  <2>2. \A i \in 1..(m + 1) : v[i] \in Nat  OBVIOUS
  <2>3. QED  BY <2>1, <2>2, SortInserts
<1> HIDE DEF S
<1>3. Nat \subseteq S  BY <1>1, <1>2, Induct
<1>4. n \in S  BY <1>3
<1>5. QED  BY <1>4 DEF S

LEMMA SortedIs ==
    ASSUME NEW n \in Nat, results \in Seq(Live!CaseResults), n = Len(results),
           NEW v, v = [i \in 1..n |-> results[i].latency]
    PROVE  /\ \A i \in 1..n : v[i] \in Nat
           /\ \E p : Sorts(n, v, p) /\ Live!Sorted = [i \in 1..n |-> v[p[i]]]
<1> DEFINE D == DOMAIN results
           Good(p) == \A i, j \in D : i < j => results[p[i]].latency <= results[p[j]].latency
           order == CHOOSE p \in Live!Bijection(D, D) : Good(p)
<1>1. D = 1..n  OBVIOUS
<1>2. ASSUME NEW i \in 1..n PROVE v[i] \in Nat
  <2>1. results[i] \in Live!CaseResults  BY <1>1
  <2>2. QED  BY <2>1 DEF Live!CaseResults
<1>3. ASSUME NEW p
      PROVE  Sorts(n, v, p) <=> p \in Live!Bijection(D, D) /\ Good(p)
  <2>1. p \in Live!Bijection(D, D) <=>
           /\ p \in [1..n -> 1..n]
           /\ \A i, j \in 1..n : p[i] = p[j] => i = j
           /\ \A t \in 1..n : \E i \in 1..n : p[i] = t
    BY <1>1 DEF Live!Bijection, Live!Injection, Live!Surjection, Live!IsInjective
  <2>2. ASSUME p \in [1..n -> 1..n]
        PROVE  Good(p) <=> \A i, j \in 1..n : i < j => v[p[i]] <= v[p[j]]
    BY <1>1, <2>2
  <2>3. QED  BY <2>1, <2>2 DEF Sorts
<1>4. \E p \in Live!Bijection(D, D) : Good(p)  BY <1>2, <1>3, SortExists
<1>5. Sorts(n, v, order)  BY <1>3, <1>4
<1>6. Live!Sorted = [i \in D |-> results[order[i]].latency]  BY DEF Live!Sorted
<1> HIDE DEF order
<1>7. \A i \in 1..n : order[i] \in 1..n  BY <1>5 DEF Sorts
<1>8. Live!Sorted = [i \in 1..n |-> v[order[i]]]  BY <1>1, <1>6, <1>7
<1>9. QED  BY <1>2, <1>5, <1>8

\* Just the first of the sorted values lie below a later one.
LEMMA SortedRank ==
    ASSUME NEW n \in Nat, NEW v, \A i \in 1..n : v[i] \in Nat,
           NEW p, Sorts(n, v, p), NEW k \in 1..n
    PROVE  /\ Cardinality({i \in 1..n : v[i] <= v[p[k]]}) >= k
           /\ \A ms \in Nat : ms < v[p[k]] => Cardinality({i \in 1..n : v[i] <= ms}) < k
<1>1. \A i \in 1..n : p[i] \in 1..n /\ v[p[i]] \in Nat
  <2> SUFFICES ASSUME NEW i \in 1..n PROVE p[i] \in 1..n  OBVIOUS
  <2>1. QED  BY DEF Sorts
<1>2. ASSUME NEW ms \in Nat,
             NEW I, I = {i \in 1..n : v[p[i]] <= ms},
             NEW C, C = {i \in 1..n : v[i] <= ms}
      PROVE  Cardinality(C) = Cardinality(I)
  <2> DEFINE f == [i \in I |-> p[i]]
  <2>1. IsFiniteSet(I)  BY <1>2, PlacesFinite
  <2>2. f \in [I -> C]  BY <1>1, <1>2
  <2>3. \A x, y \in I : f[x] = f[y] => x = y  BY <1>2 DEF Sorts
  <2>4. \A t \in C : \E x \in I : f[x] = t
    <3> SUFFICES ASSUME NEW t \in C PROVE \E x \in I : f[x] = t  OBVIOUS
    <3>1. t \in 1..n /\ v[t] <= ms  BY <1>2
    <3>2. PICK x \in 1..n : p[x] = t  BY <3>1 DEF Sorts
    <3>3. x \in I  BY <1>2, <3>1, <3>2
    <3>4. QED  BY <3>2, <3>3
  <2> HIDE DEF f
  <2>5. QED  BY <2>1, <2>2, <2>3, <2>4, SameSize
<1>3. Cardinality({i \in 1..n : v[i] <= v[p[k]]}) >= k
  <2> DEFINE I == {i \in 1..n : v[p[i]] <= v[p[k]]}
             C == {i \in 1..n : v[i] <= v[p[k]]}
  <2>1. Cardinality(C) = Cardinality(I)  BY <1>1, <1>2
  <2>2. ASSUME NEW i \in 1..k PROVE i \in I
    <3>1. i \in 1..n  OBVIOUS
    <3>2. CASE i = k  BY <1>1, <3>1, <3>2
    <3>3. CASE i # k  
      <4>1. i < k  BY <3>3
      <4>2. v[p[i]] <= v[p[k]]  BY <3>1, <4>1 DEF Sorts
      <4>3. QED  BY <3>1, <4>2
    <3>4. QED  BY <3>2, <3>3
  <2>3. I \in SUBSET (1..n)  OBVIOUS
  <2> HIDE DEF I, C
  <2>4. IsFiniteSet(I) /\ Cardinality(I) \in Nat  BY <2>3, PlacesFinite
  <2>5. k \in Nat /\ Cardinality(1..k) = k  BY IntervalSize
  <2>6. Cardinality(1..k) <= Cardinality(I)  BY <2>2, <2>4, FS_Subset
  <2>7. QED  BY <2>1, <2>4, <2>5, <2>6 DEF C
<1>4. ASSUME NEW ms \in Nat, ms < v[p[k]]
      PROVE  Cardinality({i \in 1..n : v[i] <= ms}) < k
  <2> DEFINE I == {i \in 1..n : v[p[i]] <= ms}
             C == {i \in 1..n : v[i] <= ms}
  <2>1. Cardinality(C) = Cardinality(I)  BY <1>2
  <2>2. ASSUME NEW i \in I PROVE i \in 1..(k - 1)
    <3>1. i \in 1..n /\ v[p[i]] <= ms  OBVIOUS
    <3>2. CASE i >= k
      <4>1. v[p[k]] <= v[p[i]]
        <5>1. CASE i = k  BY <1>1, <5>1
        <5>2. CASE i # k
          <6>1. k < i  BY <3>2, <5>2
          <6>2. QED  BY <6>1 DEF Sorts
        <5>3. QED  BY <5>1, <5>2
      <4>2. QED  BY <1>1, <1>4, <3>1, <4>1
    <3>3. CASE ~(i >= k)  BY <3>1, <3>3
    <3>4. QED  BY <3>2, <3>3
  <2>3. k - 1 \in Nat  OBVIOUS
  <2>4. I \in SUBSET (1..(k - 1))  BY <2>2
  <2> HIDE DEF I, C
  <2>5. Cardinality(I) \in Nat /\ Cardinality(I) <= k - 1  BY <2>3, <2>4, PlacesFinite
  <2>6. QED  BY <2>1, <2>3, <2>5 DEF C
<1>5. QED  BY <1>3, <1>4

\* p95_latency_ms reads inside the list.
LEMMA IndexInside ==
    ASSUME NEW n \in Nat \ {0}
    PROVE  /\ Live!P95Index(n) \in 1..n
           /\ Live!Max({1, (95 * n) \div 100}) = Live!P95Index(n)
<1> DEFINE y == (95 * n) \div 100
<1>1. y \in Nat /\ y <= n /\ (n * 95) \div 100 = y  OBVIOUS
<1>2. Live!P95Index(n) = IF y <= 1 THEN 1 ELSE y  BY <1>1 DEF Live!P95Index
<1> HIDE DEF y
<1>3. Live!P95Index(n) \in 1..n  BY <1>1, <1>2
<1> DEFINE m == IF y <= 1 THEN 1 ELSE y
<1>4. m \in {1, y} /\ \A z \in {1, y} : m >= z  BY <1>1
<1>5. \A w \in {1, y} : (\A z \in {1, y} : w >= z) => w = m  BY <1>1
<1> HIDE DEF m
<1>6. Live!Max({1, y}) = m  BY <1>4, <1>5 DEF Live!Max
<1>7. QED  BY <1>2, <1>3, <1>6 DEF y, m

LEMMA RankSound ==
    ASSUME results \in Seq(Live!CaseResults)
    PROVE  Live!P95IsRank /\ Live!P95 \in Nat
<1>1. CASE results = <<>>  BY <1>1 DEF Live!P95IsRank, Live!P95
<1>2. CASE results # <<>>
  <2> DEFINE n == Len(results)
             v == [i \in 1..n |-> results[i].latency]
             k == Live!P95Index(n)
  <2>1. n \in Nat \ {0} /\ DOMAIN results = 1..n  BY <1>2
  <2>2. /\ \A i \in 1..n : v[i] \in Nat
        /\ \E p : Sorts(n, v, p) /\ Live!Sorted = [i \in 1..n |-> v[p[i]]]
    BY <2>1, SortedIs
  <2>3. PICK p : Sorts(n, v, p) /\ Live!Sorted = [i \in 1..n |-> v[p[i]]]  BY <2>2
  <2>4. k \in 1..n /\ Live!Max({1, (95 * n) \div 100}) = k  BY <2>1, IndexInside
  <2> DEFINE x == v[p[k]]
  <2>5. Live!P95 = x  BY <1>2, <2>3, <2>4 DEF Live!P95
  <2>6. p[k] \in 1..n  BY <2>3, <2>4 DEF Sorts
  <2>7. x \in Nat  BY <2>2, <2>6
  <2> DEFINE Within(ms) == Live!Cardinality({i \in DOMAIN results : results[i].latency <= ms})
             all == {r.latency : r \in Live!Range(results)}
             far == {ms \in all : Within(ms) >= k}
  <2>8. ASSUME NEW ms PROVE Within(ms) = Cardinality({i \in 1..n : v[i] <= ms})
    <3>1. {i \in DOMAIN results : results[i].latency <= ms} = {i \in 1..n : v[i] <= ms}
      BY <2>1
    <3>2. QED  BY <3>1, LiveCounts
  <2>9. x \in all
    <3>1. x = results[p[k]].latency  BY <2>6
    <3>2. results[p[k]] \in Live!Range(results)  BY <2>1, <2>6 DEF Live!Range
    <3>3. QED  BY <3>1, <3>2
  <2>10. all \subseteq Nat
    <3> SUFFICES ASSUME NEW r \in Live!Range(results) PROVE r.latency \in Nat  OBVIOUS
    <3>1. PICK i \in 1..n : r = results[i]  BY <2>1 DEF Live!Range
    <3>2. QED  BY <2>2, <3>1
  <2> HIDE DEF v, n, k
  <2>11. /\ Cardinality({i \in 1..n : v[i] <= x}) >= k
         /\ \A ms \in Nat : ms < x => Cardinality({i \in 1..n : v[i] <= ms}) < k
    <3>1. n \in Nat /\ k \in 1..n  BY <2>1, <2>4
    <3>2. QED  BY <2>2, <2>3, <3>1, SortedRank
  <2> HIDE DEF x, all
  <2>12. Within(x) >= k  BY <2>8, <2>11
  <2>13. x \in far  BY <2>9, <2>12
  <2>14. ASSUME NEW ms \in far PROVE x <= ms
    <3>1. ms \in Nat /\ Within(ms) >= k  BY <2>10
    <3>2. Within(ms) = Cardinality({i \in 1..n : v[i] <= ms})  BY <2>8
    <3>3. ms < x => Cardinality({i \in 1..n : v[i] <= ms}) < k  BY <2>11, <3>1
    <3>4. {i \in 1..n : v[i] <= ms} \in SUBSET (1..n)  OBVIOUS
    <3>5. Cardinality({i \in 1..n : v[i] <= ms}) \in Nat  BY <2>1, <3>4, PlacesFinite
    <3>6. k \in Nat  BY <2>1, <2>4
    <3>7. QED  BY <2>7, <3>1, <3>2, <3>3, <3>5, <3>6
  <2>15. far \subseteq Nat  BY <2>10
  <2> HIDE DEF far
  <2>16. Live!Min(far) = x
    <3>1. \A y \in far : (\A z \in far : y =< z) => y = x  BY <2>7, <2>13, <2>14, <2>15
    <3>2. QED  BY <2>13, <2>14, <3>1 DEF Live!Min
  <2>17. QED  BY <2>4, <2>5, <2>7, <2>16 DEF Live!P95IsRank, far, all, n
<1>3. QED  BY <1>1, <1>2

-----------------------------------------------------------------------------
(* The golden runs: the summary of a dataset and the totals.               *)

LEMMA RateNat ==
    ASSUME NEW num \in Nat, NEW den \in Nat \ {0}
    PROVE  Live!Rate(num, den) \in Nat
<1>1. 2 * den \in Nat \ {0} /\ 2 * (1000 * num) + den \in Nat  OBVIOUS
<1>2. (2 * (1000 * num) + den) \div (2 * den) \in Nat  BY <1>1, Divided
<1>3. QED  BY <1>2 DEF Live!Rate, Live!Rounded

\* What a CaseResult has.
LEMMA ResultFields ==
    ASSUME results \in Seq(Live!CaseResults), NEW i \in 1..Len(results)
    PROVE  LET r == results[i] IN
           /\ r.success \in BOOLEAN /\ r.approval_correct \in BOOLEAN
           /\ r.policy_cited \in BOOLEAN /\ r.latency \in Nat
           /\ r.expected \in Seq(Live!Range(r.expected)) /\ r.expected # <<>>
           /\ r.actual \in Seq(Live!Range(r.actual))
<1>1. results[i] \in Live!CaseResults  OBVIOUS
<1>2. PICK g \in Golden : results[i].expected = g.tools  BY <1>1 DEF Live!CaseResults
<1>3. PICK f \in Final : results[i].actual = f.tools  BY <1>1 DEF Live!CaseResults
<1>4. /\ g.tools \in Seq(Live!Range(g.tools)) /\ g.tools # <<>>
      /\ f.tools \in Seq(Live!Range(f.tools))
  BY EvalJobsAssumption DEF Live!EvalRunAssumption
<1>5. /\ results[i].success \in BOOLEAN /\ results[i].approval_correct \in BOOLEAN
      /\ results[i].policy_cited \in BOOLEAN /\ results[i].latency \in Nat
  BY <1>1 DEF Live!CaseResults
<1>6. QED  BY <1>2, <1>3, <1>4, <1>5

\* The sum of the scores is a fraction.
LEMMA SumF1Fraction ==
    ASSUME results \in Seq(Live!CaseResults)
    PROVE  Live!SumF1[1] \in Nat /\ Live!SumF1[2] \in Nat \ {0}
<1> DEFINE N == Len(results)
           F(i) == Live!F1(results[i].expected, results[i].actual)
           Add(s, f) == <<s[1] * f[2] + f[1] * s[2], s[2] * f[2]>>
           Adds(n, h) == h = [i \in 0..n |-> IF i = 0 THEN <<0, 1>> ELSE Add(h[i - 1], F(i))]
           S == {n \in Nat : \E h : Adds(n, h)}
<1>1. N \in Nat  OBVIOUS
<1>2. ASSUME NEW i \in 1..N PROVE F(i)[1] \in Nat /\ F(i)[2] \in Nat \ {0}
  <2>1. /\ results[i].expected \in Seq(Live!Range(results[i].expected))
        /\ results[i].expected # <<>>
        /\ results[i].actual \in Seq(Live!Range(results[i].actual))
    BY ResultFields
  <2>2. QED  BY <2>1, F1Full
<1> HIDE DEF F
<1>3. 0 \in S
  <2> DEFINE h == [i \in 0..0 |-> <<0, 1>>]
  <2>1. Adds(0, h)  OBVIOUS
  <2>2. QED  BY <2>1
<1>4. ASSUME NEW n \in Nat, n \in S PROVE n + 1 \in S
  <2>1. PICK h : Adds(n, h)  BY <1>4
  <2> DEFINE k == [i \in 0..(n + 1) |-> IF i = n + 1 THEN Add(h[n], F(n + 1)) ELSE h[i]]
  <2>2. ASSUME NEW i \in 0..(n + 1)
        PROVE  k[i] = IF i = 0 THEN <<0, 1>> ELSE Add(k[i - 1], F(i))
    <3>1. CASE i = n + 1
      <4>1. k[i] = Add(h[n], F(n + 1)) /\ i # 0 /\ i - 1 = n /\ k[n] = h[n]  BY <3>1
      <4>2. QED  BY <3>1, <4>1
    <3>2. CASE i # n + 1
      <4>1. i \in 0..n /\ k[i] = h[i]  BY <3>2
      <4>2. h[i] = IF i = 0 THEN <<0, 1>> ELSE Add(h[i - 1], F(i))  BY <2>1, <4>1
      <4>3. i # 0 => k[i - 1] = h[i - 1]  BY <4>1
      <4>4. QED  BY <4>1, <4>2, <4>3
    <3>3. QED  BY <3>1, <3>2
  <2>3. k = [i \in 0..(n + 1) |-> k[i]]  OBVIOUS
  <2> HIDE DEF k
  <2>4. Adds(n + 1, k)  BY <2>2, <2>3
  <2> HIDE DEF Adds
  <2>5. QED  BY <2>4
<1> HIDE DEF S
<1>5. Nat \subseteq S  BY <1>3, <1>4, Induct
<1>6. \E h : Adds(N, h)  BY <1>1, <1>5 DEF S
<1> DEFINE h == CHOOSE h : Adds(N, h)
<1>7. Adds(N, h)  BY <1>6
<1>8. Live!SumF1 = h[N]  BY DEF Live!SumF1, F
<1> HIDE DEF h
<1>9. h[0] = <<0, 1>> /\ \A i \in 1..N : h[i] = Add(h[i - 1], F(i))  BY <1>1, <1>7
<1> DEFINE T == {n \in Nat : n <= N => h[n][1] \in Nat /\ h[n][2] \in Nat \ {0}}
<1>10. 0 \in T  BY <1>9
<1>11. ASSUME NEW n \in Nat, n \in T PROVE n + 1 \in T
  <2> SUFFICES ASSUME n + 1 <= N
               PROVE  h[n + 1][1] \in Nat /\ h[n + 1][2] \in Nat \ {0}
    OBVIOUS
  <2> DEFINE a == h[n][1]
             b == h[n][2]
             c == F(n + 1)[1]
             d == F(n + 1)[2]
  <2>1. a \in Nat /\ b \in Nat \ {0}  BY <1>11
  <2>2. c \in Nat /\ d \in Nat \ {0}  BY <1>1, <1>2
  <2>3. n + 1 \in 1..N /\ (n + 1) - 1 = n  BY <1>1
  <2>4. h[n + 1] = Add(h[n], F(n + 1))  BY <1>9, <2>3
  <2>5. h[n + 1][1] = a * d + c * b /\ h[n + 1][2] = b * d  BY <2>4
  <2> HIDE DEF a, b, c, d
  <2>6. a * d \in Nat /\ c * b \in Nat /\ b * d \in Nat /\ b * d # 0  BY <2>1, <2>2
  <2>7. QED  BY <2>5, <2>6
<1> HIDE DEF T
<1>12. Nat \subseteq T  BY <1>10, <1>11, Induct
<1>13. N \in T  BY <1>1, <1>12
<1>14. h[N][1] \in Nat /\ h[N][2] \in Nat \ {0}  BY <1>1, <1>13 DEF T
<1>15. QED  BY <1>8, <1>14

LEMMA SummaryTyped ==
    ASSUME results \in Seq(Live!CaseResults), vertical \in Nat
    PROVE  Live!Summary \in Live!Summaries /\ Live!Summary.cases = Len(results)
<1> DEFINE n == Len(results)
<1>1. n \in Nat /\ DOMAIN results = 1..n /\ (results # <<>> => n # 0)  OBVIOUS
<1>2. ASSUME NEW good \in SUBSET (1..n) PROVE Live!Share(good) \in Nat
  <2>1. Cardinality(good) \in Nat  BY <1>1, PlacesFinite
  <2>2. results # <<>> => Live!Rate(Cardinality(good), n) \in Nat  BY <1>1, <2>1, RateNat
  <2>3. QED  BY <2>2, LiveCounts DEF Live!Share
<1>3. ASSUME NEW field PROVE Live!Share(Live!Where(field)) \in Nat
  <2>1. Live!Where(field) \in SUBSET (1..n)  BY <1>1 DEF Live!Where
  <2>2. QED  BY <1>2, <2>1
<1>4. Live!MeanF1 \in Nat
  <2>1. CASE results = <<>>  BY <2>1 DEF Live!MeanF1
  <2>2. CASE results # <<>>
    <3> DEFINE a == Live!SumF1[1]
               b == Live!SumF1[2]
    <3>1. a \in Nat /\ b \in Nat \ {0} /\ n \in Nat \ {0}  BY <1>1, <2>2, SumF1Fraction
    <3> HIDE DEF a, b, n
    <3>2. b * n \in Nat \ {0}  BY <3>1
    <3>3. Live!Rate(a, b * n) \in Nat  BY <3>1, <3>2, RateNat
    <3>4. QED  BY <2>2, <3>3 DEF Live!MeanF1, a, b, n
  <2>3. QED  BY <2>1, <2>2
<1>5. Live!P95 \in Nat  BY RankSound
<1>6. QED  BY <1>1, <1>3, <1>4, <1>5 DEF Live!Summary, Live!Summaries

\* The values of a field have a least and a greatest one.
LEMMA Extremes ==
    ASSUME NEW rows, NEW n \in Nat \ {0}, NEW field,
           \A i \in 1..n : rows[i][field] \in Nat,
           NEW V, \A x : x \in V <=> \E i \in 1..n : x = rows[i][field]
    PROVE  /\ Live!Min(V) \in Nat /\ Live!Max(V) \in Nat
           /\ \A i \in 1..n : Live!Min(V) <= rows[i][field] /\ rows[i][field] <= Live!Max(V)
<1>1. \A x : x \in V <=> \E i \in 1..n : x = rows[i][field]  OBVIOUS
<1>2. V \in SUBSET Nat /\ V # {}
  <2>1. 1 \in 1..n  OBVIOUS
  <2>2. QED  BY <1>1, <2>1
<1>3. \E x \in V : \A y \in V : x <= y  BY <1>2, LeastNat
<1>4. Live!Min(V) \in V /\ \A y \in V : Live!Min(V) <= y  BY <1>3 DEF Live!Min
<1> DEFINE S == {k \in Nat : k <= n => \E b \in Nat : \A i \in 1..k : rows[i][field] <= b}
<1>5. 0 \in S
  <2>1. \A i \in 1..0 : rows[i][field] <= 0  OBVIOUS
  <2>2. QED  BY <2>1
<1>6. ASSUME NEW k \in Nat, k \in S PROVE k + 1 \in S
  <2> SUFFICES ASSUME k + 1 <= n
               PROVE  \E b \in Nat : \A i \in 1..(k + 1) : rows[i][field] <= b
    OBVIOUS
  <2>1. PICK b \in Nat : \A i \in 1..k : rows[i][field] <= b  BY <1>6
  <2> DEFINE x == rows[k + 1][field]
  <2>2. x \in Nat  OBVIOUS
  <2>3. b + x \in Nat  BY <2>2
  <2>4. ASSUME NEW i \in 1..(k + 1) PROVE rows[i][field] <= b + x
    <3>1. CASE i = k + 1  BY <2>2, <3>1
    <3>2. CASE i # k + 1
      <4>1. i \in 1..k /\ rows[i][field] \in Nat  BY <3>2
      <4>2. rows[i][field] <= b  BY <2>1, <4>1
      <4> HIDE DEF x
      <4>3. QED  BY <2>2, <4>1, <4>2
    <3>3. QED  BY <3>1, <3>2
  <2> HIDE DEF x
  <2>5. QED  BY <2>3, <2>4
<1> HIDE DEF S
<1>7. Nat \subseteq S  BY <1>5, <1>6, Induct
<1>8. PICK b \in Nat : \A i \in 1..n : rows[i][field] <= b
  <2>1. n \in S /\ n <= n  BY <1>7
  <2>2. QED  BY <2>1 DEF S
<1> DEFINE f == [y \in V |-> y]
<1>9. f \in [V -> 0..b]
  <2>1. ASSUME NEW y \in V PROVE y \in 0..b
    <3>1. PICK i \in 1..n : y = rows[i][field]  BY <1>1
    <3>2. QED  BY <1>8, <3>1
  <2>2. QED  BY <2>1
<1>10. \E w \in V : \A y \in V : f[w] >= f[y]  BY <1>2, <1>9, MostOf
<1>11. \E w \in V : \A y \in V : w >= y  BY <1>10
<1>12. Live!Max(V) \in V /\ \A y \in V : Live!Max(V) >= y  BY <1>11 DEF Live!Max
<1>13. \A i \in 1..n : rows[i][field] \in V  BY <1>1
<1>14. ASSUME NEW i \in 1..n
       PROVE  Live!Min(V) <= rows[i][field] /\ rows[i][field] <= Live!Max(V)
  <2>1. Live!Max(V) \in Nat /\ rows[i][field] \in Nat  BY <1>2, <1>12
  <2>2. QED  BY <1>4, <1>12, <1>13, <2>1
<1>15. QED  BY <1>2, <1>4, <1>12, <1>14

-----------------------------------------------------------------------------
(* The golden runs: each step keeps LiveInv, and what follows from it.     *)

LiveInv == job = "live" => Live!LiveInv

LEMMA LiveInit ==
    ASSUME Live!Init
    PROVE  Live!LiveInv
<1>1. Verticals \in Nat /\ MaxCases \in Nat
  BY EvalJobsAssumption DEF Live!EvalRunAssumption
<1>2. vertical = 1 /\ results = <<>> /\ reports = <<>> /\ cases = 0  BY DEF Live!Init
<1>3. Live!TypeOK  BY <1>1, <1>2 DEF Live!TypeOK
<1>4. Live!Sum(<<>>, "cases") = 0
  <2>1. Len(<<>>) = 0  OBVIOUS
  <2>2. PICK h : Running(h, <<>>, "cases") /\ Live!Sum(<<>>, "cases") = h[0]
    BY <2>1, SumRuns
  <2>3. QED  BY <2>1, <2>2, RunningSteps
<1>5. QED  BY <1>2, <1>3, <1>4 DEF Live!LiveInv

LEMMA LiveRuns ==
    ASSUME Live!LiveInv, Live!RunCase
    PROVE  Live!LiveInv'
<1>1. /\ vertical <= Verticals /\ cases < MaxCases /\ cases' = cases + 1
      /\ vertical' = vertical /\ reports' = reports
  BY DEF Live!RunCase
<1>2. PICK case \in Golden, final \in Final :
         results' = Append(results, Live!CaseResult(case, final))
  BY DEF Live!RunCase
<1>3. Live!CaseResult(case, final) \in Live!CaseResults
  <2>1. final.cited \in BOOLEAN /\ final.latency \in Nat
    BY EvalJobsAssumption DEF Live!EvalRunAssumption
  <2>2. QED  BY <2>1 DEF Live!CaseResult, Live!CaseResults
<1>4. Live!TypeOK  BY DEF Live!LiveInv
<1>5. results \in Seq(Live!CaseResults)  BY <1>4 DEF Live!TypeOK
<1>6. results' \in Seq(Live!CaseResults) /\ Len(results') = Len(results) + 1
  BY <1>2, <1>3, <1>5
<1>7. Verticals \in Nat /\ MaxCases \in Nat
  BY EvalJobsAssumption DEF Live!EvalRunAssumption
<1>8. Live!TypeOK'  BY <1>1, <1>4, <1>6, <1>7 DEF Live!TypeOK
<1>9. ~Live!Done'  BY <1>1, <1>4, <1>7 DEF Live!TypeOK, Live!Done
<1>10. cases' = Live!Sum(reports', "cases") + Len(results')
  <2>1. cases = Live!Sum(reports, "cases") + Len(results)  BY DEF Live!LiveInv
  <2>2. Live!Sum(reports, "cases") \in Nat
    <3>1. reports \in Seq(Live!Summaries)  BY <1>4 DEF Live!TypeOK
    <3>2. QED  BY <3>1, SumNat
  <2>3. Len(results) \in Nat  BY <1>5
  <2>4. QED  BY <1>1, <1>6, <2>1, <2>2, <2>3
<1>11. QED  BY <1>8, <1>9, <1>10 DEF Live!LiveInv

LEMMA LiveEnds ==
    ASSUME Live!LiveInv, Live!EndDataset
    PROVE  Live!LiveInv'
<1>1. /\ vertical <= Verticals /\ vertical' = vertical + 1
      /\ reports' = IF results = <<>> THEN reports ELSE Append(reports, Live!Summary)
      /\ results' = <<>> /\ cases' = cases
  BY DEF Live!EndDataset
<1>2. Live!TypeOK  BY DEF Live!LiveInv
<1>3. Verticals \in Nat /\ MaxCases \in Nat /\ vertical \in Nat
  BY <1>2, EvalJobsAssumption DEF Live!EvalRunAssumption, Live!TypeOK
<1>4. results \in Seq(Live!CaseResults) /\ reports \in Seq(Live!Summaries)
  BY <1>2 DEF Live!TypeOK
<1>5. Live!Summary \in Live!Summaries /\ Live!Summary.cases = Len(results)
  BY <1>3, <1>4, SummaryTyped
<1>6. reports' \in Seq(Live!Summaries)  BY <1>1, <1>4, <1>5
<1>7. Live!TypeOK'  BY <1>1, <1>2, <1>3, <1>6 DEF Live!TypeOK
<1>8. cases' = Live!Sum(reports', "cases") + Len(results')
  <2>1. cases = Live!Sum(reports, "cases") + Len(results)  BY DEF Live!LiveInv
  <2>2. Live!Sum(reports, "cases") \in Nat  BY <1>4, SumNat
  <2>3. Len(results') = 0  BY <1>1
  <2>4. CASE results = <<>>  BY <1>1, <2>1, <2>2, <2>3, <2>4
  <2>5. CASE results # <<>>
    <3>1. Live!Sum(Append(reports, Live!Summary), "cases")
             = Live!Sum(reports, "cases") + Live!Summary.cases
      BY <1>4, <1>5, SumAppends
    <3>2. Len(results) \in Nat  BY <1>4
    <3>3. QED  BY <1>1, <1>5, <2>1, <2>2, <2>3, <2>5, <3>1, <3>2
  <2>6. QED  BY <2>4, <2>5
<1>9. QED  BY <1>1, <1>7, <1>8 DEF Live!LiveInv

LEMMA LiveScores ==
    ASSUME Live!LiveInv
    PROVE  Live!ScoresAreSound
<1>1. results \in Seq(Live!CaseResults)  BY DEF Live!LiveInv, Live!TypeOK
<1>2. ASSUME NEW i \in DOMAIN results,
             NEW r, r = results[i], NEW f, f = Live!F1(r.expected, r.actual)
      PROVE  /\ f[1] <= f[2]
             /\ f[1] = f[2] => Live!Range(r.actual) = Live!Range(r.expected)
             /\ f[1] = f[2] /\ Live!OrderCorrect(r.expected, r.actual) <=>
                   r.actual = r.expected /\ r.expected # <<>>
  <2>1. i \in 1..Len(results)  BY <1>1
  <2>2. /\ r.expected \in Seq(Live!Range(r.expected)) /\ r.expected # <<>>
        /\ r.actual \in Seq(Live!Range(r.actual))
    BY <1>1, <1>2, <2>1, ResultFields
  <2>3. QED  BY <1>2, <2>2, ScoreSound
<1>3. QED  BY <1>2 DEF Live!ScoresAreSound

LEMMA LiveTotals ==
    ASSUME Live!LiveInv
    PROVE  Live!TotalsAreSound
<1> SUFFICES ASSUME Live!Done, reports # <<>>
             PROVE  /\ Live!Totals.cases = cases
                    /\ \A f \in Live!RateFields :
                          LET rates == {m[f] : m \in Live!Range(reports)}
                          IN  /\ Live!Min(rates) <= Live!Totals.rates[f]
                              /\ Live!Totals.rates[f] <= Live!Max(rates)
  BY DEF Live!TotalsAreSound
<1> DEFINE n == Len(reports)
<1>1. reports \in Seq(Live!Summaries)  BY DEF Live!LiveInv, Live!TypeOK
<1>2. n \in Nat \ {0} /\ DOMAIN reports = 1..n  BY <1>1
<1>3. Live!Totals.cases = cases
  <2>1. cases = Live!Sum(reports, "cases") + Len(results) /\ results = <<>>
    BY DEF Live!LiveInv
  <2>2. Live!Sum(reports, "cases") \in Nat  BY <1>1, SumNat
  <2>3. Live!Totals.cases = Live!Sum(reports, "cases")  BY DEF Live!Totals
  <2>4. QED  BY <2>1, <2>2, <2>3
<1>4. ASSUME NEW f \in Live!RateFields,
             NEW rates, rates = {m[f] : m \in Live!Range(reports)}
      PROVE  Live!Min(rates) <= Live!Totals.rates[f] /\ Live!Totals.rates[f] <= Live!Max(rates)
  <2>1. \A i \in 1..n : reports[i][f] \in Nat
    <3> SUFFICES ASSUME NEW i \in 1..n PROVE reports[i][f] \in Nat  OBVIOUS
    <3>1. reports[i] \in Live!Summaries  BY <1>1, <1>2
    <3>2. QED  BY <3>1 DEF Live!Summaries, Live!RateFields
  <2> DEFINE lo == Live!Min(rates)
             hi == Live!Max(rates)
             sum == Live!Sum(reports, f)
  <2> HIDE DEF n
  <2>2. /\ lo \in Nat /\ hi \in Nat
        /\ \A i \in 1..n : lo <= reports[i][f] /\ reports[i][f] <= hi
    <3>1. Live!Range(reports) = {reports[i] : i \in 1..n}  BY <1>2 DEF Live!Range
    <3>2. \A x : x \in rates <=> \E i \in 1..n : x = reports[i][f]  BY <1>4, <3>1
    <3>3. QED  BY <1>2, <2>1, <3>2, Extremes
  <2> HIDE DEF lo, hi
  <2>3. sum \in Nat /\ n * lo <= sum /\ sum <= n * hi
    BY <1>2, <2>1, <2>2, SumBounds DEF n
  <2>4. Live!Totals.rates[f] = Live!Rounded(sum, n)
    BY DEF Live!Totals, Live!Mean, Live!Divisor, n
  <2> HIDE DEF sum
  <2>5. lo <= Live!Rounded(sum, n) /\ Live!Rounded(sum, n) <= hi
    BY <1>2, <2>2, <2>3, MeanBetween
  <2>6. QED  BY <2>4, <2>5 DEF lo, hi
<1>5. QED  BY <1>3, <1>4

\* The inductive invariant of the golden runs: results and reports are well
\* formed, and each case that ran is in a report or at hand (run_all_evals).
THEOREM LiveInvHolds == Spec => []LiveInv
<1>1. Init => LiveInv  BY LiveInit DEF Init, LiveInv
<1>2. LiveInv /\ [Next]_vars => LiveInv'
  <2> SUFFICES ASSUME LiveInv, [Next]_vars, job' = "live" PROVE Live!LiveInv'
    BY DEF LiveInv
  <2>1. job = "live"  BY DEF Next, vars
  <2>2. Live!LiveInv  BY <2>1 DEF LiveInv
  <2>3. CASE Live!Next  BY <2>2, <2>3, LiveRuns, LiveEnds DEF Live!Next
  <2>4. CASE UNCHANGED liveVars
    BY <2>2, <2>4 DEF liveVars, Live!LiveInv, Live!TypeOK, Live!Done
  <2>5. QED  BY <2>1, <2>3, <2>4 DEF Next, vars, liveVars
<1>3. QED  BY <1>1, <1>2, PTL DEF Spec

\* The types of the golden runs, the scores of every summary included.
THEOREM TypeOKHolds == Spec => []TypeOK
<1>1. LiveInv => TypeOK  BY DEF LiveInv, TypeOK, Live!LiveInv
<1>2. QED  BY <1>1, LiveInvHolds, PTL

\* Scores, percentile and totals mean what their names say (metrics.py,
\* evals.py), for any cases, final states and datasets.
THEOREM MetricsAreSoundHolds == Spec => []MetricsAreSound
<1>1. LiveInv => MetricsAreSound
  <2> SUFFICES ASSUME LiveInv, job = "live"
               PROVE  Live!ScoresAreSound /\ Live!P95IsRank /\ Live!TotalsAreSound
    BY DEF MetricsAreSound
  <2>1. Live!LiveInv  BY DEF LiveInv
  <2>2. results \in Seq(Live!CaseResults)  BY <2>1 DEF Live!LiveInv, Live!TypeOK
  <2>3. QED  BY <2>1, <2>2, LiveScores, RankSound, LiveTotals
<1>2. QED  BY <1>1, LiveInvHolds, PTL

=============================================================================
