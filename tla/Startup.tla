------------------------------- MODULE Startup ------------------------------
(***************************************************************************)
(* The start of the deployment: Migrations brings processes up, and the    *)
(* API, once it is up, serves the requests of KnowledgeSeed; they die with *)
(* it.  init_persistence holds the API's requests back until run_migrations*)
(* has returned (main.py, lifespan).                                       *)
(***************************************************************************)
EXTENDS Naturals, FiniteSets

CONSTANTS
    LastFile, Size, Probe, Needs, Rerunnable, Process, Restarted, MaxStarts, MaxDeaths,
    Entities, Edges, Reader,
    Api             \* the process that serves requests

VARIABLES done, torn, table, ledger, mig, starts, deaths, kg_entities, kg_edges, req, broken

Schema == INSTANCE Migrations
Knowledge == INSTANCE KnowledgeSeed

ASSUME StartupAssumption ==
    Schema!MigrationsAssumption /\ Knowledge!KnowledgeAssumption /\ Api \in Process

schemaVars == <<done, torn, table, ledger, mig, starts, deaths>>
graphVars == <<kg_entities, kg_edges, req, broken>>
vars == <<done, torn, table, ledger, mig, starts, deaths, kg_entities, kg_edges, req, broken>>

Init == Schema!Init /\ Knowledge!Init

\* A process starts or migrates; no request runs in the API before it is up.
Bring(p) ==
    /\ Schema!Start(p) \/ Schema!Migrate(p)
    /\ UNCHANGED graphVars

\* A process is killed, the API with its requests.
Kill(p) ==
    /\ Schema!Die(p)
    /\ IF p = Api THEN Knowledge!Drop(Reader) ELSE UNCHANGED graphVars

ServesRequests == mig[Api].pc = "up"

Request(r) ==
    /\ ServesRequests
    /\ Knowledge!Serve(r)
    /\ UNCHANGED schemaVars

\* A statement of one request raises: a 500, and the API goes on.
RequestFails(r) ==
    /\ req[r].pc # "idle"
    /\ deaths < MaxDeaths
    /\ deaths' = deaths + 1
    /\ Knowledge!Drop({r})
    /\ UNCHANGED <<done, torn, table, ledger, mig, starts>>

Next ==
    \/ \E p \in Process : Bring(p) \/ Kill(p)
    \/ \E r \in Reader : Request(r) \/ RequestFails(r)

\* A worker that was started is started again (docker-compose.yml); the API is
\* not, and what waits for its health may never be started.
Fairness ==
    /\ \A p \in Process : WF_vars(Schema!Migrate(p) /\ UNCHANGED graphVars)
    /\ \A p \in Restarted : WF_vars(Schema!Restart(p) /\ UNCHANGED graphVars)
    /\ \A r \in Reader : WF_vars(Request(r))

Spec == Init /\ [][Next]_vars /\ Fairness

-----------------------------------------------------------------------------
\* The types of both parts.
TypeOK == Schema!TypeOK /\ Knowledge!TypeOK

\* Every file that is recorded is applied, and in order; a process that is up
\* has them all, however starts, deaths and the two writers of the ledger come
\* together (migrate.py).
LedgerSound == Schema!LedgerTruthful /\ Schema!LedgerInOrder

\* A file fails to apply only in a race that another process has won, unless
\* the entrypoint broke off inside a file (migrate.py).
OnlyRacesFail == Schema!OnlyRacesFail

\* A worker that was once started comes up, however often it fails and whoever
\* races it, unless the entrypoint broke off inside a file (migrate.py).
RestartedComeUp == Schema!RestartedComeUp

\* Edges are not multiplied without bound (persisted.py).
EdgesBounded == Knowledge!EdgesBounded

\* The knowledge graph is empty or whole when nobody seeds it and no seeder
\* has died, and its tables are there whenever a request touches them: the
\* whole schema, unless the entrypoint broke off (persisted.py).
GraphIsSound ==
    /\ Knowledge!WholeWhenQuiet
    /\ torn = 0 /\ (\E r \in Reader : req[r].pc # "idle") =>
           \A f \in 1..LastFile : Schema!Complete(f)

=============================================================================
