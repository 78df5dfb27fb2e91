# Dark Factory OS: a TLA+ development of the governed run and its stores

Dark Factory OS runs *skills*: a run resolves a plan of tools from a skill's
manifest, executes it in a loop that stops in front of every financial or
destructive tool, waits for a human, and goes on from a checkpoint.  This
directory models that path, from the manifest to the rows in Postgres, and what
stands beside it: the governed memory, the start of the deployment, the API
that runs without a database, and the evals.  It has TLA+ modules, TLC
configurations for small instances, and theorems that TLAPS checks for every
instance.  Paths in this file are relative to the repository's root;
`orchestration/nodes.py` and the like are short for
`packages/py/<package>/src/dark_factory_<package>/<file>`.

## 1. Inventory

### The parts, their state, their operations

| Part | State it keeps | Operations | Modelled in |
|---|---|---|---|
| Skills registry and planner (`skills_registry/loader.py`, `orchestration/skill_planner.py`, `governance/risk_registry.py`) | a cached dictionary of manifests, the risk registry | `discover_skills`, `validate_skill_tools`, `resolve_skill_plan`, `load_fallback_plan` | `SkillPlan` |
| Governed tool loop (`orchestration/nodes.py`, `graph.py`, `state.py`) | one `RunState`: plan, counters, status, pending tool, trace, citations, outcome | `RunGraph.invoke`, `RunGraph.resume`; the nodes planner, specialist, verifier, approval gate, memory writer, execute_pending | `RunLoop`, abstractly `GovernedRun` |
| Persistence (`persistence/runs.py`, `approvals.py`, `run_ops.py`) | the tables `runs` (status, lease, checkpoint), `run_steps`, `approvals` | create, claim, renew, release stale, update status, save checkpoint, add step; create, list, decide approvals; `persist_run_result` | `ControlPlane` |
| Worker (`apps/worker/.../executor.py`) | the run it works on | `process_pending`, `_execute_run`, `worker_loop` | `ControlPlane` |
| API on Postgres (`apps/api/.../persisted.py`) | request locals, a pool | create run, resume run, decide approval, UCP checkout proposal; seeds; reads | `ControlPlane`; the memory seed and outcome write in `PostgresMemory`, the knowledge read in `KnowledgeSeed` |
| API in memory (`apps/api/.../main.py`) | `RUNS`, `RUN_STATES`, `DEMO_APPROVALS`, `DEMO_AUDIT_EVENTS` | the same handlers without a database | `LocalApi` |
| Memory (`memory/store.py`, `pg_store.py`, `run_outcomes.py`) | memory items by namespace, key and tier | upsert behind a write gate, seed, search that marks what it read, decay pass | `InMemoryStore`, `PostgresMemory` |
| Migrations (`persistence/migrate.py`, `pool.py`) | `schema_migrations`, the schema itself | look up, probe, record, apply, one file at a time | `Migrations` |
| Knowledge graph (`persistence/knowledge.py`, `knowledge_graph_persisted`) | `kg_entities`, `kg_edges` | read, and seed when empty | `KnowledgeSeed` |
| Eval endpoints (`apps/api/.../evals.py`) | `_LATEST_SUMMARY`, `_RUN_LOCK` | run, demo, skill improvements | `EvalApi` |
| Golden runs and metrics (`evals/runner.py`, `metrics.py`, `validate.py`) | the results of a dataset | run a case, score a report, total the reports | `EvalRun` |
| Hill climbing (`evals/hill_climb.py`) | traces grouped by skill | load, group, propose | `HillClimb` |
| Costs, audit log (`persistence/costs.py`, `audit.py`) | `audit_events` | sum over runs and steps; insert and list | no |
| Tool adapters, MCP server, artifacts | fixed demo data | `dispatch_tool` | external: a call's result is nondeterministic |
| Web front end (`apps/web`) | page state | renders the API | no |

### How the parts meet

The API's `POST /runs` inserts a `pending` row.  A worker claims the oldest
pending row with a lease, calls `RunGraph.invoke` on a fresh state and persists
the result: step rows, checkpoint, approval row, audit record, outcome memory,
each a separate transaction.  A human decides through `POST
/runs/{id}/resume` or `POST /approvals/{id}/decision`; both read the run, write
the decision, call `RunGraph.resume` on the state they *read*, and persist the
result with the same function.  `POST /ucp/checkout-proposals` attaches an
approval to a run that exists, in whatever status, or makes a run that is paused
from birth.  Workers and requests share nothing but the
tables.  The graph itself runs in a thread and touches no table; it asks the
planner for its plan, which trusts the manifests and the registry.

Before any of this, the API and the worker each bring the schema up to date,
with nothing between them but the ledger table, and the API seeds the memory.
Requests and workers write outcomes to the memory as they finish runs, beside
requests that search it.  The first read of the knowledge graph seeds it.

Without a database the API is one process: its handlers hold the event loop from
start to end, graph call included, and keep runs in dictionaries.  The eval
endpoints are synchronous in either mode, so each request has a thread; they
share one summary and a lock that only one of them takes.

### What is hard here

* Two requests, or a request and a worker, that interleave between awaits: the
  state a graph resumes was read several awaits earlier, and `save_checkpoint`,
  `decide` and `update_run_status` write by id alone.
* A worker that dies, raises, or outlives a lease that is renewed only once.
* A result that is persisted in five transactions and may stop after any.
* An approval that names a tool, and a decision that resumes a run: nothing
  compares the tool approved with the tool that is pending.
* A pause that must leave plan position, trace and counters such that the
  resume neither skips nor repeats a tool.
* The order in which tools get into a plan.
* A memory write that looks in one statement and writes in another; a search
  that marks rows it has read before; a decay pass that writes from a reading as
  old as its first row; a seed that skips the gate on every start.
* Two processes that migrate at once, a database whose entrypoint stopped inside
  a file, a probe for one object that stands for a whole file.
* A seed that is many transactions behind a check that is another.
* An exception behind the graph in a process that has no transaction to undo it.
* A summary computed without the lock, stored after one computed with it.
* Percentiles, means and thresholds at the edges of short lists.

`PROJECT.json` lists each hazard at its line with the properties that watch it.

### What makes each part correct

* *Planner*: a plan names registered tools only, no control-plane tool, none
  twice; a gated tool comes last and after the context tools (policy, memory).
* *Loop*: a gated tool is executed straight after an approved proposal of that
  tool and in no other way; the trace is the plan; a completed run executed its
  whole plan and found policy; the budget bounds the steps; every invocation
  comes to rest; no defensive branch is needed.
* *Control plane*: no gated call without consent; one call per consent, and one
  per run when requests do not overlap on it; a settled run stays settled, but for
  three writers that are named; a decision takes effect and, when requests do not
  overlap on its run, is what became of it; the step ledger neither loses nor invents; a queued
  run is executed in spite of crashes; every pause reaches the inbox; two workers
  do not share a run.
* *Memory*: nothing untrusted gets into the semantic tier by any door; an episodic
  entry is replaced only by calls that overlap or by the seed; a search drops stale
  rows before others; apart from overlaps the table is the in-memory store.
* *Start*: what the ledger records is applied, and in order; a file fails to apply
  only in a race lost; a worker that was once started comes up; the knowledge graph
  is empty or whole while no seeder dies, each edge there a bounded number of times.
* *API in memory*: the first answer decides a paused run; apart from exceptions
  behind the graph the same promise holds as on Postgres.
* *Eval endpoints*: the lock comes back; a posted summary that no GET ran beside
  replaces an older one.
* *Evals*: scores mean what their names say; a proposal follows from the traces of
  its own skill.

## 2. Modules

| Module | Role |
|---|---|
| `SkillPlan` | `discover_skills` and `resolve_skill_plan`, one action per turn of each loop |
| `MCSkillPlan` | every small manifest |
| `SkillPlanProofs` | theorems about `SkillPlan` |
| `GovernedRun` | abstract: propose, authorise or decline, perform, close |
| `RunLoop` | both LangGraph graphs; implements `GovernedRun` |
| `MCRunLoop` | the shipped plans and two harder ones, small budgets |
| `RunLoopProofs` | theorems about `RunLoop` |
| `GovernedService` | abstract: what the control plane promises of every run |
| `ControlPlane` | workers, request handlers and the three tables; implements `GovernedService` when requests do not overlap on a run |
| `MCControlPlane` | instances and symmetry |
| `ControlPlaneProofs` | theorems about `ControlPlane`, whatever goes wrong; among them what `run_steps` owes to checkpoints and calls |
| `SerialProofs` | on top of those, what requests that do not overlap on a run may rely on |
| `InMemoryStore` | the memory as one dictionary; the promise the table is measured by |
| `PostgresMemory` | the memory table, statement by statement, under concurrent calls; implements `InMemoryStore` apart from overlapping writes |
| `MCMemory` | two keys, two clients |
| `PostgresMemoryProofs` | theorems about `PostgresMemory` |
| `Migrations` | `run_migrations` in several processes, behind the entrypoint |
| `KnowledgeSeed` | the read of the knowledge graph that seeds it |
| `Startup` | composes the two: no request before its API is up, and none after its death |
| `MCStartup` | the four migration files, a small graph |
| `StartupProofs` | theorems about `Startup` |
| `LocalApi` | the handlers without a database; implements `GovernedService` apart from exceptions behind the graph |
| `EvalApi` | the eval endpoints, their lock and their global |
| `ApiProcess` | composes the two in one process that may restart |
| `ApiProcessProofs` | theorems about `ApiProcess` |
| `EvalRun`, `HillClimb` | the golden runs with their scores; the corpus scan with its proposals |
| `EvalJobs`, `MCEvalJobs` | the two jobs behind the endpoints; cases, final states and traces |
| `EvalJobsProofs` | theorems about both jobs |

The first modules form a chain.  `SkillPlan` shows, and `SkillPlanProofs` proves, what
`RunLoopAssumption` demands of `Plans` (registered tools, a gated tool only
last).  `RunLoop` shows what one graph call does from start to rest; its
`GroundedCompletion`, `TraceFollowsPlan` and refinement are what allow
`ControlPlane` to treat a call as one action with one of three results.
`LocalApi` does the same in the other mode, and both are measured by
`GovernedService`.  A module that is composed by `INSTANCE` states what it
assumes of its constants as a definition (`MigrationsAssumption` and so on); the
module that composes it makes it an `ASSUME`.

### State and actions against the code

**SkillPlan.**  `catalog` is the skills directory; `pc` says which loop runs:
`discover` (`discover_skills`), `context` (`_read_only_optional_tools`),
`required` (the loop over `required_tools`), `dedupe` (`_dedupe`), then
`planned`, `fallback` or `raised`.  `FallBack` is the `except KeyError` of
`planner_node` together with both places the error comes from.  The cache of
`_skills_by_name` is left out: it is filled only by a discovery that succeeded,
and the files do not change under a process.  `PlanFollowsManifest` says without any
loop what plan a manifest has: the allowed context tools, then the required tools up
to the first that is gated, each at the first of its places.

**RunLoop.**  The variables are the fields of `RunState` that control reads,
plus `node`, the graph node about to run, and the history variable
`approvedAt`.  `Planner`, `PlanExhausted`/`BudgetExceeded`/`ProposeGatedTool`/
`DispatchTool` (the exits of `specialist_node`), `VerifierForwards`/
`VerifierRejectsUngrounded`/`VerifierCompletes`, `ApprovalGate`, `MemoryWriter`,
`ExecutePending` are the nodes with the routing function that follows each;
`ResumeNotPaused`, `ResumeRejected` and `ResumeApproved` are `RunGraph.resume`.
A tool call's success and cost, and whether a policy search finds a clause, are
chosen by `\E`.  Two branches of the code have no action: the specialist's on a
failed or cancelled status and on an unknown tool.  `DefensiveBranchesDead` and
the assumption on plans are why no execution needs them.

**ControlPlane.**  `runs`, `run_steps` and `approvals` are the tables; `proc`
holds the locals of every worker and request.  An action is one awaited database
call, one graph call, or one event of the environment.  A worker walks
`ReleaseStaleRunning`, `Claim` or `NothingToClaim`, `RenewLease`, `Invoke` and
then `persist_run_result`: `AppendStep` per new trace entry, `SaveCheckpoint`,
`CheckInbox`, `RequestApproval`, `Finish`.  A request starts with `StartResume`
and `ListTargets`, or `StartDecide` and `LoadRun`, goes on with `DecideTarget`
per approval and `GraphResume`, and ends in the same `persist_run_result`;
`RefuseDecision` is the 409 of a run without a checkpoint.  A checkout proposal
is `ProposeForRun`, or `ProposeAlone` and `SaveCheckout`, followed by
`RequestCheckout`.  An approval row keeps which gated tool it is for (`own`, the
tool the run's skill stops at, or `checkout`), as a checkpoint keeps which one
is pending.  The tool trace is abstracted to the kind of each entry (`read`,
`proposed`, `executed`, and `checkout` for the proposal a checkout run is born
with).  `dispatched` and `consents` are history variables that count
gated calls and approving requests.  Faults are actions with a bound each:
`Crash` of a worker, `RaiseError` inside `_execute_run` followed by `FailRun`,
`Abort` of a request, `LeaseLapses` under a live worker.

**PostgresMemory.**  `memory_items` is the table, a key standing for namespace,
entity key and memory type together; `proc` holds what each call has read.  A
write is `Write` (the item is stamped before anything is awaited), `PassGate` or
`RefuseWrite` (`_write_gate`), and `Insert` (the upsert); `SeedItem` enters
behind the gate.  A search is `Read` and `MarkAccessed`.  `Read` keeps the order
of the code: filter, the newest `Limit` rows, score, drop zero scores, sort, cut
to `k`; where the order leaves ties, any outcome is taken.  A decay pass is
`StartDecay` and one `DecayRow` per row; nothing in the repository but a test calls
`decay_pass`.  `Die` ends a call anywhere.

There is no common clock.  An item is stamped by the process that makes it, a mark by
`NOW()`, the start of a transaction that may have waited for its row, and an age is
taken by the process that asks.  So every reading is any member of `Time`: an access
time may go back, and an age may be negative.  A decay pass may then write a score
above 1.0, which `MemoryItem` refuses, and the row cannot be read until it is written
again (`Legible`): a search that meets it raises.  Trust is in hundredths and the
weight of an age is linear: no property reads more than its order.  `overwritten`,
`reseeded` and `overlapped` are history.

**Startup.**  A migration file is a number of statements, `done` of them applied;
`Init` is every state the entrypoint of Postgres (which runs the files once, without
a ledger, and may stop inside one: `torn`) or an earlier release (which recorded
some) can leave.  `Start` looks whether the ledger table is there, and
`CreateLedger`/`CreateFails` is what CREATE TABLE IF NOT EXISTS does when it was not:
two processes that both missed it race for its name, and the catalogue's unique key
makes one of them raise.  Then a process is at `Look` (the ledger), `ProbeSchema`
(`is_effectively_applied`), `Record`, or `Apply`/`ApplyFails` (one transaction
for a file and its ledger row).  Any process may be started at any time: the compose
file starts the worker behind a healthy API, but a container that was stopped, or one
started with `--no-deps`, does not wait.  A request of `KnowledgeSeed` reads nodes and
edges in two statements, seeds when it saw no node, entity by entity and edge by
edge, and reads again.  `RequestFails` is a statement that raises, `Kill` the
death of a process with its requests.

**ApiProcess.**  In `LocalApi` the handler that holds the event loop is `loop`;
handlers do not interleave, but an exception can end one behind its graph call
(`ResumeRaises`).  `first` remembers the answer a run was paused for.  In
`EvalApi` a request is `GetSummary` or `PostRun`, then `Compute`, `Store` and
`Answer`, or `EvalRaises`; a summary is the moment it was made, and `alone` says
that no GET computed beside the POST.  `Restart` empties both.

**EvalJobs.**  `EvalRun` runs one case per step and files a report per dataset;
scores are fractions and thousandths as the code rounds them.  `HillClimb` groups
one trace per step and then takes the skills in order.  What a loop over a list
filters or counts is the set of the places it picks, and the order is that of the places.

A definition named `X_Mutant` is a plausible slip in the definition `X` after
it.  No action uses one; they show that each property can fail.

## 3. Runs

| Run | Module, instance | What it shows |
|---|---|---|
| `loop` | `MCRunLoop`: 9 tools, the 5 plans the shipped skills and the fallback give and 2 more, `MaxSteps` 4, `MaxCost` 3 | all of `RunLoop`'s invariants, that every invocation comes to rest, and that the loop implements `GovernedRun` with its progress |
| `plans` | `MCSkillPlan`: every manifest of up to 3 required and 2 optional tools over 7 names, beside a second skill that is fine, unknown-tooled or unreadable | the plan invariants, and that the plan follows the manifest (`PlanFollowsManifest`) |
| `any` | `ControlPlane`: 1 run, 2 workers, 2 requests on either endpoint, one of each fault | what holds whatever goes wrong: ledger complete and honest, one dispatch per consent, one worker per run until a lease lapses, a row for every call no request died behind, an inbox entry for every paused run unless a process died, and who alone can unsettle a settled run (`SettledUnless`) |
| `serial` | 2 runs, 1 worker, 1 request slot, 2 decisions, 1 checkout proposal, 1 crash | at-most-once execution, final terminal states and the refinement of `GovernedService`, when requests do not overlap and nothing raises |
| `inbox` | 2 runs, 2 workers, 1 request slot, 2 decisions through the inbox, a crash and an exception | every queued run is executed to its end or its pause; every pause reaches the inbox; decisions precede the tool, match the outcome and take effect |
| `memory` | `MCMemory`: 2 clients, an episodic and a semantic key, 3 levels of trust, 2 writes, 1 seed, 1 search, 1 decay pass, `Limit` 1, clocks that show 0 or 1 | the memory's three properties and the refinement of `InMemoryStore` |
| `startup` | `MCStartup`: an API and a worker, 4 files, 2 deaths, 2 readers, 2 entities and 2 edges | the ledger, the reason a file can fail, the graph's integrity, and that a worker that was started comes up |
| `local` | `ApiProcess`: 1 run, 2 answers, 1 proposal, 1 exception, 1 restart, 3 eval threads | the first answer decides; the refinement of `GovernedService`; posts that no GET runs beside go forward, and the lock comes back |
| `evals` | `MCEvalJobs`: sequences of up to 3 case results in 2 datasets, corpora of up to 4 traces of 2 skills | the metrics and the proposals against their meaning |
| `twice` | 1 run, 2 overlapping requests | *violation*: the gated tool is dispatched twice |
| `wrong_tool` | 1 run, 1 checkout proposal, 1 decision, no faults | *violation*: approving a checkout that was attached to a paused run executes the run's own tool, which nobody approved |
| `overwritten` | 1 run, 2 overlapping decisions, no faults | *violation*: the later decision overwrites the one the run has followed |

The violation runs each check one statement of the repository's own documents
that the code does not keep; `PROJECT.json`, "findings", quotes it.  The passing
runs `serial` and `inbox` check the same statements under the conditions in which
they do hold, so the two kinds together say where the line runs: overlap of requests
on a run, and an approval that is for another tool.

`KeepsService` speaks of runs, not of tools: a run performs its gated tool once, and
only after an approving answer to *some* request for that run (`consented`).  Which
tool the answer named is the business of `ConsentOnRecord` and `wrong_tool`.

### Seen with TLC, and not a run

These repeat a property of a run under another fault, or one that README.md or a
specification states more strongly:

* *Settled run marked failed*: an exception behind the checkpoint, in the write of the
  outcome to memory, makes the worker's `except` turn a completed run into a failed
  one (`TerminalIsFinal` with `MaxErrors` 1).
* *Settled run paused again*: a worker that outlived its lease saves over the run
  another has settled (`TerminalIsFinal` with two workers and `MaxLapses` 1).  In both
  cases `docs/plans/2026-06-18-001-feat-enterprise-agentic-augmentation-plan.md:165`
  draws a final state.  `SettledUnless` names these ways out and says there is one more.
* *Episodic entry overwritten*: two overlapping first writes of one key
  (`EpisodicSettles` with 0 in the place of its bound).
* *Trust between two documents*: a semantic row with a trust of 0.65
  (`SemanticTrusted` with 70 in the place of `MinTrust`).
* *Decision undone*: a lapsed lease may undo what a decision did
  (`DecisionTakesEffect` with `MaxLapses` 1), hence none in `inbox`; the other
  properties of `inbox` have been seen to hold with it.
* *Pause without an inbox entry*: a worker that dies between the checkpoint and the
  approval row leaves a paused run no inbox shows.  `PausedReachesInbox` makes this
  its one exception.
* *Call without a step row*: a request that dies behind the dispatch; hence the
  condition that `ExecutionIsRecorded` begins with.
* *Execution before its decision*: a resume in the gap between checkpoint and
  approval row (`ConsentOnRecord` with `resume` among the requests).

### Where documents and code part, short of a violation

* `packages/py/evals/spec.md:46` scores an "ordered tool name match"; the F1 of
  `metrics.py` ignores order, which `OrderCorrect` reports apart.
* `README.md:92` says of the episodic tier "no overwrite ever", and `pg_store.py:141`
  refuses a second write.  Two first writes that overlap both pass, and the second
  replaces the first; and each start of the API writes its seeds over what is there,
  without the gate.  `EpisodicSettles` counts both and rules out the rest.
* `README.md:93` and the code put the trust of semantic rows at 0.6, and
  `packages/py/memory/spec.md:36` that of durable writes at 0.7.  `SemanticTrusted` is
  about the gate the code has.
* `docs/plans/2026-06-18-001-feat-enterprise-agentic-augmentation-plan.md:418` expects
  a skill with an unknown tool to fail at plan time.  Its manifest makes discovery
  raise for every skill, and every run gets the read-only fallback plan.
* The docstring of `InMemoryStore` has the read gate filter by consistency; its
  `search` does not, the table's does.  Neither search changes a fact, so the
  refinement does not see it.  The two also read a namespace prefix differently:
  `startswith` here, `LIKE` there.
* In memory an approval never leaves `pending`, and a run made by a checkout
  proposal is listed as waiting and cannot be resumed (404).
* A resume of a settled run changes nothing but the decision on its outcome:
  `FirstAnswerDecides` trusts that field only when there was one answer.
* The knowledge graph is read in two statements, so an answer may have edges
  without their nodes.
* `pool.py` keeps the pool it has made when the migration behind it raises, so a
  second call in the same process would use it without migrating; the lifespan
  ends the process instead.

### Bounds, and why they are enough

* `RunLoop`'s plans have up to five steps because the loop treats every step
  alike; the two budgets are scaled from 100 steps and $5 to 4 and 3 so that the
  plans reach them.  With the shipped constants they are out of reach: no plan
  is longer than the 16 registered tools.  The theorems hold for any budget.
* `SkillPlan`'s names cover each kind of tool (control-plane, context,
  read-only, two gated, unknown); three required tools let one come before,
  between and after gated ones; two optional ones let order and repetition
  matter.
* `ControlPlane`: every property is about one run or one pair of processes.  One
  run is enough where the claim order does not matter; two are used where it
  does (`serial`, `inbox`).  Two request slots are the least that
  overlap, and the passing run without consent conditions (`any`) has them.  It
  has no checkout proposals, whose interleavings with two requests are too many for
  TLC; the theorems about the same properties have no such limit, and `serial` and
  `wrong_tool` do have proposals.  Each
  fault occurs once: the effects that were found need one each.  `ReadTrace` has
  one entry, enough for a ledger to lose or repeat a row, or none where rows do
  not matter.
* `memory`: two clients are the least that overlap; an untrusted fact, one between
  the two documented thresholds, a fact that scores low and one that scores high are
  among those they write.  With two keys and `Limit` 1 the window of a search leaves
  out a row; a search and a decay pass beside two writes let a mark, a decay and an
  upsert each come between the reading and the writing of another.  Each clock shows
  0 or 1, in any order, enough for an age that is none, positive or negative.
* `startup`: two processes race for the ledger table and for every file; three statements in the first file
  let the entrypoint stop before, at and behind the object the probe looks for.
  Two deaths let each process die, or one of them twice.
* `local`: handlers of different runs never interleave, so one run is enough; a
  second answer and the proposal come before or behind the first.  Three threads
  are two POSTs and a GET, or a POST and two GETs.
* `evals`: three case results are the shortest list whose percentile is neither
  first nor last; four traces let one skill repeat a cluster while the other has
  traces in between.
* `plans`, `memory`, `startup` and `evals` disable the deadlock check: a planner and
  a job end, calls of the memory and starts of the API are bounded.  Elsewhere it is
  on.

### Fairness

`RunLoop`: weak fairness of each graph step, since LangGraph runs a graph to its
end; a human owes no answer.  `ControlPlane`: weak fairness of each worker
(containers restart `unless-stopped` and `worker_loop` polls for ever), of each
accepted request, and of the passing of a lease; none for creating runs, for
sending decisions or for faults.  Faults are bounded, so liveness reads: after
the last fault, the system recovers.  `Startup`: weak fairness of every process
that is migrating, and of starting a worker *again*, which is what `restart:
unless-stopped` in the compose file promises.  Nothing promises its first start, which
waits for the health of an API that nobody restarts; so `RestartedComeUp` begins with
a worker that was started.  The API is started as often as somebody does.  `ApiProcess`: weak fairness of each
eval thread at work, for Python runs a thread to its end.  `PostgresMemory` and
`EvalJobs` promise nothing that needs any.

## 4. Proofs

**SkillPlanProofs.**  For every registry, every directory of skills and every
skill name: `PlanInv` is inductive, and with it `PlanIsGoverned` and
`ContextBeforeGate` hold in every reachable state.  `PlanIsGoverned` alone is
not inductive, as it says nothing until the plan is ready.  `PlanInv` adds what
each loop has established so far: `context` holds allowed, ungated tools and all
those among the optional tools read (`Gathered`); `ordered` has no gated tool
while the second loop runs and one in its last place afterwards; `plan` holds
exactly the elements of the prefix of `ordered` that was taken, once each.  The
one delicate step is that removing duplicates cannot put anything behind the
gated tool.  Assumed: the gated tools are registered and the fallback plan is
registered, read-only and free of repetitions (`SkillPlanAssumption`).

`PlansFollowManifests` says which plan it is.  `FollowInv` states of each list under
construction that it is read off places of the manifest in their order: one place for
every tool kept, increasing, and none left out of the prefix that the loop has read.
For `_dedupe` it adds that the plan has its tools in the order in which `ordered` has
them first (`FirstFirst`), which together gives the first places in the manifest.

**RunLoopProofs.**  For every set of tools, every set of plans that
`RunLoopAssumption` allows, every cost and every budget: `LoopInv` is inductive
(`LoopInvHolds`), and from it `TypeOK`, `ExecutionAuthorised`,
`TraceFollowsPlan`, `StepBudget`, `DefensiveBranchesDead` and
`GroundedCompletion` follow.  The strengthening says which status each node
sees, that a pending tool is the proposal at the end of the trace, that a
citation implies a successful policy search in the trace, and that before the
gated step the counter is within the budget.  One lemma per action shows that
it keeps the invariant; a lemma on steps that leave the trace alone
(`TraceUnchangedKeeps`) shortens most of them.  `KeepsPromiseSafety` proves that
initial states and steps map to `GovernedRun`.  The assumption on plans is what
`SkillPlanProofs!PlansAreGoverned` proves of the planner.

**ControlPlaneProofs.**  For every finite set of request slots, every set of runs and of
workers, and any number of requests and faults: `ControlInv` is inductive
(`ControlInvHolds`), and `LedgerHonest`, `DispatchPerConsent`,
`RunningHasLease` and `SoleWorker` follow.  None of them is inductive alone.
A step row may be written by a request long after its dispatch, so `LedgerInv`
adds the rows that are *owed*: the requests that have dispatched and not yet
written; a dispatch may follow a consent long after, so `ConsentInv` adds the
requests that still *ask*.  Both count processes with `Cardinality`, which is
why the request slots must be finite.  That a request owes one row at most needs
`StateInv`: every checkpoint is a state the graph returned and counts its whole
trace as persisted, so a resume has at most one entry that is new.  `Holding` is
what makes `SoleWorker` inductive: until a lease lapses, a worker's run is its
own with a live lease, or settled, hence neither queued nor stale.  The actions
that count nothing are proved through one lemma (`QuietStepKeeps`); the others
have one lemma each.

The ledger, under the same assumptions, any overlap and any fault included:
`CoverInv` is inductive beside `ControlInv`, and `LedgerComplete` follows.
`LedgerComplete` speaks of saved checkpoints only; a checkpoint is saved by a process
that appended rows before, some of them maybe appended by another process that died.
`CoverInv` therefore follows the trace through the process: a run that was not
executed to an end or a pause has no checkpoint, so a worker starts from none; the
snapshot of a request was saved once, so it has its rows; and whoever appends has the
rows up to its position, which for a request leaves its one execution.  `OwedInv` is
the converse of the count behind `LedgerHonest`: every dispatch has its row or a
request that owes it, until a request dies; `ExecutionIsRecorded` follows for runs
nobody works on.

Pauses, again whatever overlaps: `AskedInv` is inductive and `PausedIsAsked` follows.  The
worker that saves a pause asks for the approval two calls later, a second worker that
outlived its lease may save the pause again over a decision that was taken meanwhile, and
any number of requests may decide on snapshots they read before.  `AskedInv` therefore
says who still *minds* a paused run without an undecided approval: a worker at the inbox
check, at the request, or in its `except` clause; or a request that has listed what it
decides and has not saved yet.  That such a request cannot leave the run paused is
`SettlesInv`: the checkpoint it read was returned by the graph, so it is paused and the
resume settles it, or it was settled before; and it decides approvals of its own run only.

Settled runs, once more whatever overlaps, dies or lapses: `ReturnInv` is inductive and
`SettledUnless` follows.  `ReturnInv` says of each worker that holds a lease, as long as
none has lapsed, that its run is running and its own, and of each request that the
checkpoint it read is one of a run that waits or has ended.  A run that has ended is then
out of reach of the claim, the requeue and the renewal, and a save that changes it is one
of the three kinds that `Unsettles` lists.

These proofs, like those of `SerialProofs`, do not look at every action.  The actions are
first turned into shapes (`StepShapes`): what a step of one process does to the few fields
the invariants read.

**SerialProofs.**  The properties that overlapping requests break, as the run `twice`
shows for one of them, are theorems of the form `Spec /\ []OneAtATime => ...`.
`OneAtATime` says that no two requests are at work on the same run, from the read of
its row to the write of its checkpoint.  Requests on different runs overlap as they
like, and runs, workers, requests and proposals are any number.  Nothing in the code
sees to `OneAtATime`; a lock for each run would.  In the runs `serial` and `inbox` it
holds because there is one request slot (`OneSlotIsOneAtATime`).  Two
further assumptions appear where TLC or section 3 shows that they are needed:
`NoFaults` (no exception, dead request or lapsed lease; worker crashes stay) and
`DecideOnly` (humans answer through the inbox and nobody proposes a checkout;
`wrong_tool` is the refutation without it).

| Theorem | Assumes | Inductive invariant and its idea |
|---|---|---|
| `AtMostOnceExecutionHolds` | `[]OneAtATime`; speaks of states before a request dies or a lease lapses | `SerialInv`: the snapshot of a request is the row, a worker that has yet to save holds its run, and a call was saved or is about to be |
| `KeepsServiceHolds` | `[]OneAtATime`, `NoFaults` | `SmoothInv`: status column and checkpoint agree once a run has ended, and what is saved over it changes nothing; each action is mapped to a step of `GovernedService` or to a stutter |
| `ConsentOnRecordHolds` | `[]OneAtATime`, `DecideOnly`; any fault | `RecordInv`: a request that may resume has its approval ahead of it or its decision on record, and no tool but the run's own is pending |
| `DecisionMatchesOutcomeHolds` | `[]OneAtATime`, `DecideOnly`; speaks of states before a request dies, an error is raised or a lease lapses | `OutcomeInv`: a run has one approval, asked for by one worker, and whoever decided it is about to save the outcome |

An invariant that holds until a fault (`SerialInv`, `SmoothInv`, `OutcomeInv`) is an
implication whose premise never becomes true again (`CalmBefore`, `SmoothBefore`), so
its proof may assume it before the step.  Each invariant is taken through the shapes of
`StepShapes`.

**PostgresMemoryProofs.**  For any keys, queries, finite set of clients and bounds:
`MemoryInv` is inductive (`MemoryInvHolds`), and `SemanticTrusted` and
`EpisodicSettles` follow.  `SemanticTrusted` is not inductive, as an item is judged at
the gate and lands later: `InHand` carries the judgement with the item, and says of
searches and decay passes that the rows they have in hand are there still.  For the
episodic tier the argument is a count (`Settling`).  A write can be between gate and
table only if it found no entry, so what has replaced an entry, and the validated
writes that still may, are less than the clients, the seed apart; and as long as no two
writers overlapped there is nobody who still may once the entry is there.  Nothing is
said of access times: the clocks that write them are not one.
Assumed: seeds pass the gate they skip, which `store.py` sees to by its values.

`KeepsStoreHolds` is the refinement of `InMemoryStore`.  Only `Insert` changes facts
(`FactsStay`), and it comes one statement or more after the gate.  `StoreInv` says
what is true of it by then: outside `overlapped`, an episodic entry that passed the
gate is still absent, so the step is an `Upsert`, and an item that did not pass it is
a seed.  `WindowHidesOnlyStaleHolds` needs that the table has finitely many rows, each
key in it having been written (`FinitelyStored`), for without it a window need not
be filled by `Limit` rows.

**StartupProofs.**  For any files, probes, processes, readers and bounds:
`StartupInv` is inductive, and `LedgerSound` and `OnlyRacesFail` follow.  A start-up can
also fail in the race for the ledger table; no theorem is needed to see that only a race
can do it, and `RestartedComeUp` covers what comes of it.  The invariant says
that a file is applied as a whole or not at all, but for the torn one
(`WholeFiles`), that the ledger is truthful and closed under predecessors
(`SoundLedger`), and that what a process has seen of its file still holds
(`SoundProcess`): a probe that found the file keeps finding it, and one that did
not stays right until somebody records the file.  Assumed: a probe looks for a
statement of its own file, a file that is not rerunnable has a probe, and files
build on the first one only, as the four do.

For the knowledge graph `GraphInv` is inductive.  It counts: the rows of an edge and
the requests that can still add one (`CanAdd`: they saw no node, or are seeding and
not past the edge) are together no more than there are requests, and once there is a
node nobody joins them.  `EdgesBounded` follows.  The same invariant says how far each
seeder is and that without a seeder, and unless one died, the graph is empty or whole.
With `ServedUp` (a request is at work only in an API that is up) and `StartupInv`,
`GraphIsSound` follows.

**ApiProcessProofs.**  For any runs, threads and bounds: `LocalInv` and `EvalsInv`
are inductive, and `FirstAnswerDecides` and `NewerOnly` follow.  `LocalInv` says what
is known of each run whose graph has not raised and whose entries are not lost, and
what the handler that holds the loop will record; as handlers do not interleave, one
lemma (`OneRun`) disposes of all other runs.  `EvalsInv` says that a thread which
posts has the lock, and that a POST beside no GET has made a summary newer than the
one stored, until its own is.  `ServiceKeptHolds` is the refinement of
`GovernedService`: `KeptInv` adds that an id whose entries a restart took has no graph
state to resume and that a resume on its way to be recorded has settled its run; then
each handler maps to a step of the service or to a stutter, and a restart to the
closing of the runs it forgets.

**EvalJobsProofs.**  For any skills, traces, datasets, cases and thresholds: `ScanInv` and
`LiveInv` are inductive, and `ProposalsAreFounded`, `MetricsAreSound` and `TypeOK`
follow.  `ScanInv` says that the group of a skill is the corpus read at the skill's
places, up to where the scan is.  That a proposal follows from the traces of its
own skill is then a matter of counting: places in a group and places in the corpus
correspond one to one (`SamePlaces`, `SameCount`), the last report of the one is the
last of the other, and the tool that `MostCommonPendingTool` chooses exists, as a
finite set of places has a first (`MostCommon`).  `LiveInv` says that every case is in
a report or at hand.  Behind `MetricsAreSound` stand lemmas on the operators: a full F1 says
that every place is a hit (`F1Full`), ranks are places (`FullRank`), a sorted
list of latencies exists and its n-th entry is the least that n cases stay within
(`SortExists`, `SortedRank`), the index of the percentile is inside the list
(`IndexInside`), and a rounded mean lies between the least value and the greatest
(`MeanBetween`).

The library's induction theorems take an operator and cannot be cited here, and
these proofs need induction over numbers.  `Induct` is that principle for a set of naturals
instead of an operator, proved from the well-foundedness of `<` (`LeastNat`); sums,
which are recursive functions, are unfolded with it.

**Only model-checked.**  Every invariant, action property and refinement of the
passing runs has a theorem, with one exception.  TLC alone has

* `TerminalIsFinal`: under constants that exclude the exceptions and lapsed leases
  which unsettle runs it would be a theorem about little; `SettledUnless` is the one
  that holds without such conditions;
* liveness (`RunSettles`, `EveryRunSettles`, `DecisionTakesEffect`,
  `PausedReachesInbox`, `RestartedComeUp`, `LockIsReleased`, and the fairness half of
  `KeepsPromise`, whose safety half is `KeepsPromiseSafety`): the prover has no rules
  for `ENABLED`;
* the violations, which are behaviours TLC prints.

## 5. Not modelled, and why

* Contents of tool results, briefings, outcomes, proposals and readiness packs: no
  guard reads them.  So the tool adapters (`registry.py`, `dispatch.py`, `mock.py`,
  the simulators), the readiness pack and the MCP mock, which are functions from
  arguments to fixed data, have no state to model; what control reads of a call,
  its success, its cost and whether it cites a clause, is chosen by `RunLoop`.
* `claim_run_by_id` and `RunExecutor.resume_run` have no caller outside tests;
  the first is `Claim` with the run given, the second makes the calls of
  `resume_run_persisted`.
* The audit log: insert-only, read by no handler but its own list.  Its insert can
  raise, which `RaiseError` and `Abort` stand for.  The cost summary is one
  aggregation in SQL.
* LangGraph's own checkpointer: every call passes the whole state.
* The web front end, the artifact schemas, telemetry: no state that outlives a
  call.
* Keyword similarity and exponential decay, texts of proposals, costs in reports: a
  number each, of which only the order matters, or none.
* The read endpoints: they change nothing, but for the two that do (memory search,
  knowledge graph).
* SQL isolation below the statement: each statement the code issues is atomic
  under Postgres' READ COMMITTED, and none of the modelled ones reads and
  writes different rows.

## 6. Plan

Done, in the order of importance: the loop and its promise, the planner whose
plans it trusts, the control plane that persists it with the checkout proposals
that reach into it, the memory, the start of the deployment with the knowledge
graph, the API without a database, the eval endpoints and the jobs behind them;
and proofs for each of them.

The liveness properties have their safety halves among the theorems: a running row has a
worker and a lease that can end (`RunningHasLease`), a paused run is asked for
(`PausedIsAsked`), what was decided is what became of the run once nobody is at work
(`DecisionMatchesOutcome`), and every graph step keeps `RunLoop`'s promise
(`KeepsPromiseSafety`).

Left: the per-run lock that `OneAtATime` stands for is an assumption here, as the code has
none; were it added, it would become an action of `ControlPlane` and the assumption a
theorem.
