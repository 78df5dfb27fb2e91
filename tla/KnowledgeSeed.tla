---------------------------- MODULE KnowledgeSeed ---------------------------
(***************************************************************************)
(* GET /api/knowledge/graph on Postgres: knowledge_graph_persisted reads   *)
(* the graph and, when it has no nodes, seeds it and reads it again        *)
(* (persisted.py, persistence/knowledge.py).  Each awaited statement is an *)
(* action.  Entities have a unique key and are upserted; edges have none,  *)
(* and every insert adds a row.                                            *)
(***************************************************************************)
EXTENDS Naturals, FiniteSets

CONSTANTS
    Entities, Edges,   \* the seed has 1..Entities, then 1..Edges, in this order
    Reader             \* requests that are served at once

KnowledgeAssumption ==
    /\ Entities \in Nat \ {0} /\ Edges \in Nat
    /\ IsFiniteSet(Reader)

VARIABLES
    kg_entities,   \* table: the entities that are there
    kg_edges,      \* table: how many rows each edge has
    req,           \* the locals of each request
    broken         \* history: a request died while it was seeding

vars == <<kg_entities, kg_edges, req, broken>>

Idle == [pc |-> "idle", nodes |-> {}, seeded |-> 0]

Init ==
    /\ kg_entities = {}
    /\ kg_edges = [e \in 1..Edges |-> 0]
    /\ req = [r \in Reader |-> Idle]
    /\ broken = FALSE

SeedSize_Mutant == Entities + Edges - 1
SeedSize == Entities + Edges

\* graph(): the nodes in one statement ...
ReadNodes(r) ==
    /\ req[r].pc \in {"idle", "again"}
    /\ req' = [req EXCEPT ![r].pc = IF @ = "idle" THEN "edges" ELSE "answer",
                          ![r].nodes = kg_entities]
    /\ UNCHANGED <<kg_entities, kg_edges, broken>>

MustSeed_Mutant(nodes) == TRUE
MustSeed(nodes) == nodes = {}

\* ... and the edges in another; only the nodes decide whether to seed.
ReadEdges(r) ==
    /\ req[r].pc = "edges"
    /\ req' = [req EXCEPT ![r] = IF MustSeed(@.nodes) THEN [Idle EXCEPT !.pc = "seed"]
                                                      ELSE Idle]
    /\ UNCHANGED <<kg_entities, kg_edges, broken>>

\* The last read of a request that has seeded.
ReadEdgesAgain(r) ==
    /\ req[r].pc = "answer"
    /\ req' = [req EXCEPT ![r] = Idle]
    /\ UNCHANGED <<kg_entities, kg_edges, broken>>

NextOfSeed(r) ==
    req' = [req EXCEPT ![r].seeded = @ + 1,
                       ![r].pc = IF req[r].seeded + 1 = SeedSize THEN "again" ELSE "seed"]

UpsertEntity(r) ==
    /\ req[r].pc = "seed" /\ req[r].seeded < Entities
    /\ kg_entities' = kg_entities \cup {req[r].seeded + 1}
    /\ NextOfSeed(r)
    /\ UNCHANGED <<kg_edges, broken>>

CreateEdge(r) ==
    /\ req[r].pc = "seed" /\ req[r].seeded >= Entities
    /\ kg_edges' = [kg_edges EXCEPT ![req[r].seeded + 1 - Entities] = @ + 1]
    /\ NextOfSeed(r)
    /\ UNCHANGED <<kg_entities, broken>>

\* The requests die with their process, or one does when a statement raises.
Drop(R) ==
    /\ req' = [r \in Reader |-> IF r \in R THEN Idle ELSE req[r]]
    /\ broken' = (broken \/ \E r \in R : req[r].pc = "seed")
    /\ UNCHANGED <<kg_entities, kg_edges>>

Serve(r) ==
    ReadNodes(r) \/ ReadEdges(r) \/ ReadEdgesAgain(r) \/ UpsertEntity(r) \/ CreateEdge(r)

Next == \E r \in Reader : Serve(r) \/ (req[r].pc # "idle" /\ Drop({r}))

Spec == Init /\ [][Next]_vars

-----------------------------------------------------------------------------
TypeOK ==
    /\ kg_entities \subseteq 1..Entities
    /\ kg_edges \in [1..Edges -> Nat]
    /\ req \in [Reader -> [pc : {"idle", "edges", "seed", "again", "answer"},
                           nodes : SUBSET (1..Entities), seeded : 0..SeedSize]]
    /\ broken \in BOOLEAN

\* However many first reads overlap and whoever dies, an edge has one row for
\* each request that could be seeding when the graph was empty, and no more:
\* once there is a node, nobody starts to seed again (knowledge_graph_persisted).
EdgesBounded ==
    \A e \in 1..Edges : kg_edges[e] <= Cardinality(Reader)

Seeding == {r \in Reader : req[r].pc = "seed"}

\* When no seeder has died and none is at work, the graph is empty or whole.
WholeWhenQuiet ==
    ~broken /\ Seeding = {} /\ kg_entities # {} =>
        /\ kg_entities = 1..Entities
        /\ \A e \in 1..Edges : kg_edges[e] > 0

=============================================================================
