----------------------------- MODULE Migrations -----------------------------
(***************************************************************************)
(* run_migrations (persistence/migrate.py): the API and the workers bring  *)
(* the schema up to date when they start, each on its own, with a ledger   *)
(* table between them.  Each awaited statement is an action; the           *)
(* transaction that applies a file and records it is one, and CREATE TABLE *)
(* IF NOT EXISTS is two, for it looks before it creates.                   *)
(*                                                                         *)
(* Postgres runs the same files once, when its volume is created, without  *)
(* a ledger and statement by statement, and never again: Init has it end   *)
(* anywhere, between two files or inside one.                              *)
(***************************************************************************)
EXTENDS Naturals

CONSTANTS
    LastFile,     \* the files of infra/migrations are 1..LastFile, as sorted
    Size,         \* how many statements a file has
    Probe,        \* the statement is_effectively_applied looks for, 0 for none
    Needs,        \* the statements of the first file that a file builds on
    Rerunnable,   \* the files that are all IF NOT EXISTS
    Process, Restarted,   \* the processes, and those the container restarts
    MaxStarts,    \* bound on the starts by hand of the other processes
    MaxDeaths     \* bound on the processes that are killed

File == 1..LastFile

MigrationsAssumption ==
    /\ LastFile \in Nat
    /\ Size \in [File -> Nat \ {0}]
    /\ Probe \in [File -> Nat] /\ \A f \in File : Probe[f] <= Size[f]
    /\ Needs \in [File -> Nat]
    /\ LastFile > 0 => \A f \in File : Needs[f] <= Size[1]
    /\ Rerunnable \subseteq File
    /\ \A f \in File : f \in Rerunnable \/ Probe[f] # 0
    /\ Restarted \subseteq Process
    /\ MaxStarts \in Nat /\ MaxDeaths \in Nat

VARIABLES
    done,      \* how many statements of each file the schema has
    torn,      \* the file the entrypoint broke off in, or 0
    table,     \* whether table schema_migrations is there
    ledger,    \* its rows
    mig,       \* the locals of each process
    starts,    \* how often a process was started by hand
    deaths     \* how many processes were killed

vars == <<done, torn, table, ledger, mig, starts, deaths>>

Down == [pc |-> "down", file |-> 0]

\* The entrypoint went through the first files and broke off in the next one,
\* or an earlier release has migrated and recorded the first of them.
Init ==
    /\ \E first \in 0..LastFile :
       \E part \in (IF first < LastFile THEN 0..(Size[first + 1] - 1) ELSE {0}) :
          /\ done = [f \in File |-> IF f <= first THEN Size[f]
                                    ELSE IF f = first + 1 THEN part ELSE 0]
          /\ torn = IF part = 0 THEN 0 ELSE first + 1
          /\ \E recorded \in 0..first : ledger = 1..recorded
    /\ table \in BOOLEAN /\ (ledger # {} => table)
    /\ mig = [p \in Process |-> Down]
    /\ starts = [p \in Process |-> 0]
    /\ deaths = 0

Goto(p, label) == mig' = [mig EXCEPT ![p].pc = label]

NextFile_Mutant(p) == mig' = [mig EXCEPT ![p] = [pc |-> "look", file |-> @.file + 2]]
NextFile(p) == mig' = [mig EXCEPT ![p] = [pc |-> "look", file |-> @.file + 1]]

\* get_pool: ensure_schema_migrations looks whether the ledger table is there.
Start(p) ==
    /\ mig[p].pc = "down"
    /\ p \in Restarted \/ starts[p] < MaxStarts
    /\ starts' = [starts EXCEPT ![p] = IF p \in Restarted THEN 1 ELSE @ + 1]
    /\ mig' = [mig EXCEPT ![p] = [pc |-> IF table THEN "look" ELSE "create", file |-> 1]]
    /\ UNCHANGED <<done, torn, table, ledger, deaths>>

\* A process that was started once is started again by its container.
Restart(p) == p \in Restarted /\ starts[p] > 0 /\ Start(p)

CreateLedger(p) ==
    /\ mig[p].pc = "create"
    /\ ~table
    /\ table' = TRUE
    /\ Goto(p, "look")
    /\ UNCHANGED <<done, torn, ledger, starts, deaths>>

\* Another process has created it meanwhile: the catalogue's unique key raises,
\* IF NOT EXISTS or not, and the start-up ends with it.
CreateFails(p) ==
    /\ mig[p].pc = "create"
    /\ table
    /\ mig' = [mig EXCEPT ![p] = Down]
    /\ UNCHANGED <<done, torn, table, ledger, starts, deaths>>

\* Files are skipped by the ledger; behind the last one the process is up.
Look(p) ==
    /\ mig[p].pc = "look"
    /\ IF mig[p].file > LastFile THEN Goto(p, "up")
       ELSE IF mig[p].file \in ledger THEN NextFile(p)
       ELSE Goto(p, "probe")
    /\ UNCHANGED <<done, torn, table, ledger, starts, deaths>>

EffectivelyApplied_Mutant2(f) == FALSE
EffectivelyApplied(f) == Probe[f] # 0 /\ done[f] >= Probe[f]

ProbeSchema(p) ==
    /\ mig[p].pc = "probe"
    /\ Goto(p, IF EffectivelyApplied(mig[p].file) THEN "record" ELSE "apply")
    /\ UNCHANGED <<done, torn, table, ledger, starts, deaths>>

\* INSERT ... ON CONFLICT DO NOTHING.
Record(p) ==
    /\ mig[p].pc = "record"
    /\ ledger' = ledger \cup {mig[p].file}
    /\ NextFile(p)
    /\ UNCHANGED <<done, torn, table, starts, deaths>>

\* The transaction commits: nothing the file creates is there, unless it does
\* not mind, what it alters is there, and nobody has recorded the file.
Runs(f) ==
    /\ f \notin ledger
    /\ done[f] = 0 \/ f \in Rerunnable
    /\ f > 1 => done[1] >= Needs[f]

Apply(p) ==
    /\ mig[p].pc = "apply"
    /\ Runs(mig[p].file)
    /\ done' = [done EXCEPT ![mig[p].file] = Size[mig[p].file]]
    /\ ledger' = ledger \cup {mig[p].file}
    /\ NextFile(p)
    /\ UNCHANGED <<torn, table, starts, deaths>>

\* It raises and is rolled back, and the start-up ends with it.
ApplyFails(p) ==
    /\ mig[p].pc = "apply"
    /\ ~Runs(mig[p].file)
    /\ mig' = [mig EXCEPT ![p] = Down]
    /\ UNCHANGED <<done, torn, table, ledger, starts, deaths>>

\* A process is killed; its open transaction is rolled back.
Die(p) ==
    /\ mig[p].pc # "down"
    /\ deaths < MaxDeaths
    /\ deaths' = deaths + 1
    /\ mig' = [mig EXCEPT ![p] = Down]
    /\ UNCHANGED <<done, torn, table, ledger, starts>>

Migrate(p) ==
    \/ CreateLedger(p) \/ CreateFails(p)
    \/ Look(p) \/ ProbeSchema(p) \/ Record(p) \/ Apply(p) \/ ApplyFails(p)

Next == \E p \in Process : Start(p) \/ Migrate(p) \/ Die(p)

\* A process that runs goes on, and a container restarts its process; nothing
\* promises the first start of a process, nor another one without a container.
Fairness == \A p \in Process : WF_vars(Migrate(p)) /\ WF_vars(Restart(p))

Spec == Init /\ [][Next]_vars /\ Fairness

-----------------------------------------------------------------------------
TypeOK ==
    /\ done \in [File -> Nat]
    /\ torn \in 0..LastFile
    /\ table \in BOOLEAN
    /\ ledger \subseteq File
    /\ mig \in [Process -> [pc : {"down", "create", "look", "probe", "record", "apply", "up"},
                            file : 0..(LastFile + 1)]]
    /\ starts \in [Process -> Nat]
    /\ deaths \in Nat

Complete(f) == done[f] = Size[f]

\* A file that is recorded is applied from end to end.  The one exception is
\* the file the entrypoint broke off in, when what is_effectively_applied looks
\* for comes before the break: it is recorded as it is (migrate.py).
LedgerTruthful ==
    \A f \in ledger : Complete(f) \/ (f = torn /\ EffectivelyApplied(f))

\* Files are recorded in their order, however many processes are at it, and a
\* process is up only when all of them are (run_migrations).
LedgerInOrder ==
    /\ \A f \in ledger : 1..f \subseteq ledger
    /\ \A p \in Process : mig[p].pc = "up" => ledger = File

\* Unless the entrypoint broke off, a file is not applied for one reason only:
\* an other process has recorded it since this one looked.  So a file makes each
\* process fail once at most, and never all of them (run_migrations).
OnlyRacesFail ==
    torn = 0 =>
        \A p \in Process : mig[p].pc = "apply" /\ ~Runs(mig[p].file) => mig[p].file \in ledger

\* A process that its container restarts comes up in the end, once it has been
\* started at all, whoever fails or is killed around it, when the entrypoint did
\* not break off inside a file.
RestartedComeUp ==
    torn = 0 =>
        \A p \in Restarted : <>(starts[p] > 0) => <>[](mig[p].pc = "up")

=============================================================================
