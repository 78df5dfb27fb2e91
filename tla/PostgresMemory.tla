--------------------------- MODULE PostgresMemory ---------------------------
(***************************************************************************)
(* The memory_items table behind PostgresMemoryStore (memory/pg_store.py), *)
(* used by API requests and workers at once.  Each awaited statement is an *)
(* action: the write gate looks in one and the upsert writes in another, a *)
(* search reads in one and marks what it returns in another, and the decay *)
(* pass reads the table once and writes row by row.                        *)
(*                                                                         *)
(* Keys, contents and trust are as in InMemoryStore.  A query is the set   *)
(* of keys its filters on namespace, type and scope let through, with a    *)
(* similarity for each content.                                            *)
(*                                                                         *)
(* An item is stamped by the clock of the process that makes it, a mark by *)
(* the NOW() of its transaction, and an age is taken by the clock of the   *)
(* process that asks.  Nothing ties these clocks or the moment a statement *)
(* waits for its row, so each reading is any time at all, and an age may   *)
(* be negative.  The weight of an item is a decreasing, positive function  *)
(* of its age, here linear instead of exponential.                         *)
(***************************************************************************)
EXTENDS Integers, FiniteSets

CONSTANTS
    Key, Semantic, Episodic, Content, Trust, MinTrust, Seed, Absent,
    Client,       \* requests and workers that use the store at once
    Query,        \* [scope, similarity, min_trust, k, decay_weighted]
    Limit,        \* LIMIT 200: the rows a search looks at
    NoKey,
    MaxTime,      \* bound on what a clock may show
    MaxCalls      \* bound on the calls of each kind: write, seed, search, decay

\* Seeds are trusted (store.py sets 0.86 and more), and MemoryQuery has k >= 1.
ASSUME MemoryAssumption ==
    /\ Semantic \cup Episodic \subseteq Key /\ Semantic \cap Episodic = {}
    /\ NoKey \notin Key
    /\ Trust \subseteq Nat /\ MinTrust \in Nat
    /\ Seed \in [DOMAIN Seed -> [content : Content, trust : Trust, verified : BOOLEAN]]
    /\ DOMAIN Seed \subseteq Key
    /\ \A k \in DOMAIN Seed : Seed[k].trust >= MinTrust
    /\ Absent \notin [content : Content, trust : Trust, verified : BOOLEAN,
                      last_accessed : Nat, decay_score : Nat]
    /\ Absent \notin [content : Content, trust : Trust, verified : BOOLEAN]
    /\ IsFiniteSet(Client) /\ Client # {}
    /\ Query \subseteq [scope : SUBSET Key, similarity : [Content -> Nat],
                        min_trust : Nat, k : Nat \ {0}, decay_weighted : BOOLEAN]
    /\ Limit \in Nat \ {0} /\ MaxTime \in Nat
    /\ MaxCalls \in [{"write", "seed", "search", "decay"} -> Nat]

VARIABLES
    memory_items,   \* the table: a row or Absent, by key
    proc,           \* the locals of each client
    overwritten,    \* history: how often a row was replaced, by key
    reseeded,       \* history: how many of these times it was by the seed
    overlapped,     \* history: keys that two calls were writing at once
    calls           \* how much of each bound is used up

history == <<overwritten, reseeded, overlapped>>

vars == <<memory_items, proc, overwritten, reseeded, overlapped, calls>>

Time == 0..MaxTime

Row == [content : Content, trust : Trust, verified : BOOLEAN,
        last_accessed : Time, decay_score : Nat]

Rows == [Key -> Row \cup {Absent}]

\* _decay_weight of an item of that age; 1.0 is MaxTime + 1.
Weight(age) == MaxTime + 1 - age

\* A MemoryItem is stamped when it is made, before anything is awaited.
NewRow(f, time) == [content |-> f.content, trust |-> f.trust, verified |-> f.verified,
                    last_accessed |-> time, decay_score |-> Weight(0)]

\* A row becomes a MemoryItem only while its decay score is at most 1.0; the
\* statement that meets another raises.
Legible(row) == row.decay_score <= Weight(0)

Fact == [content : Content, trust : Trust, verified : BOOLEAN]

Idle == [pc |-> "idle", key |-> NoKey, item |-> Absent, checked |-> FALSE, keys |-> {},
         snapshot |-> [k \in Key |-> Absent]]

Init ==
    /\ memory_items = [k \in Key |-> Absent]
    /\ proc = [c \in Client |-> Idle]
    /\ overwritten = [k \in Key |-> 0]
    /\ reseeded = [k \in Key |-> 0]
    /\ overlapped = {}
    /\ calls = [b \in {"write", "seed", "search", "decay"} |-> 0]

Present(k) == memory_items[k] # Absent

\* The clients that have a write of the key in hand.
Writing(k) == {c \in Client : proc[c].key = k}

Call(kind) ==
    /\ calls[kind] < MaxCalls[kind]
    /\ calls' = [calls EXCEPT ![kind] = @ + 1]

Return(c) == proc' = [proc EXCEPT ![c] = Idle]

-----------------------------------------------------------------------------
(* upsert.  A definition named ..._Mutant is a plausible slip in the one   *)
(* after it.                                                               *)

BeginWrite(c, k, f, label) ==
    /\ proc[c].pc = "idle"
    /\ \E time \in Time :
          proc' = [proc EXCEPT ![c] =
                      [Idle EXCEPT !.pc = label, !.key = k, !.item = NewRow(f, time)]]
    /\ overlapped' = IF Writing(k) = {} THEN overlapped ELSE overlapped \cup {k}
    /\ UNCHANGED <<memory_items, overwritten, reseeded>>

\* A client writes an item, validate=True.
Write(c, k, f) == Call("write") /\ BeginWrite(c, k, f, "gate")

\* seed_demo_memory_persisted, on every start of the API, validate=False.
SeedItem(c, k) == k \in DOMAIN Seed /\ Call("seed") /\ BeginWrite(c, k, Seed[k], "insert")

Trustworthy_Mutant(k, item) == k \in Episodic => item.trust >= MinTrust
Trustworthy(k, item) == k \in Semantic => item.trust >= MinTrust

Writable_Mutant(k) == TRUE
Writable(k) == k \in Episodic => ~Present(k)

\* _write_gate lets the item pass ...
PassGate(c) ==
    /\ proc[c].pc = "gate"
    /\ Trustworthy(proc[c].key, proc[c].item)
    /\ Writable(proc[c].key)
    /\ proc' = [proc EXCEPT ![c].pc = "insert", ![c].checked = TRUE]
    /\ UNCHANGED <<memory_items, history, calls>>

\* ... or raises; the writers of run outcomes swallow "append-only".
RefuseWrite(c) ==
    /\ proc[c].pc = "gate"
    /\ ~(Trustworthy(proc[c].key, proc[c].item) /\ Writable(proc[c].key))
    /\ Return(c)
    /\ UNCHANGED <<memory_items, history, calls>>

\* INSERT ... ON CONFLICT DO UPDATE: whatever is there by now is replaced.
Insert(c) ==
    /\ proc[c].pc = "insert"
    /\ memory_items' = [memory_items EXCEPT ![proc[c].key] = proc[c].item]
    /\ IF Present(proc[c].key)
       THEN /\ overwritten' = [overwritten EXCEPT ![proc[c].key] = @ + 1]
            /\ reseeded' = [reseeded EXCEPT ![proc[c].key] = IF proc[c].checked THEN @ ELSE @ + 1]
       ELSE UNCHANGED <<overwritten, reseeded>>
    /\ Return(c)
    /\ UNCHANGED <<overlapped, calls>>

-----------------------------------------------------------------------------
(* search.                                                                 *)

\* The row passes the read gate of the query.
Eligible(rows, q) ==
    {k \in q.scope : rows[k] # Absent /\ rows[k].verified /\ rows[k].trust >= q.min_trust}

Score(row, q, time) ==
    q.similarity[row.content] * (IF q.decay_weighted THEN Weight(time - row.last_accessed) ELSE 1)

\* The choices of n elements of S, or of all, that no other element outranks.
Highest(S, n, rank) ==
    {T \in SUBSET S :
        /\ Cardinality(T) = IF Cardinality(S) < n THEN Cardinality(S) ELSE n
        /\ \A x \in T, y \in S \ T : rank[x] >= rank[y]}

Recency_Mutant(rows, S) == [k \in S |-> MaxTime - rows[k].last_accessed]
Recency(rows, S) == [k \in S |-> rows[k].last_accessed]

\* Results are sorted by score; the sort is stable, so recency breaks ties.
Rank(rows, q, S, time) ==
    [k \in S |-> Score(rows[k], q, time) * (MaxTime + 1) + rows[k].last_accessed]

\* The rows a search may look at.
Windows(rows, q) ==
    {W \in Highest(Eligible(rows, q), Limit, Recency(rows, Eligible(rows, q))) :
        \A k \in W : Legible(rows[k])}

Hits(rows, q, W, time) == {k \in W : Score(rows[k], q, time) > 0}

Read(c, q, time) ==
    /\ proc[c].pc = "idle"
    /\ Call("search")
    /\ \E window \in Windows(memory_items, q) :
          LET hits == Hits(memory_items, q, window, time) IN
          \E chosen \in Highest(hits, q.k, Rank(memory_items, q, hits, time)) :
              proc' = [proc EXCEPT ![c] =
                  IF chosen = {} THEN Idle
                  ELSE [Idle EXCEPT !.pc = "mark", !.keys = chosen, !.snapshot = memory_items]]
    /\ UNCHANGED <<memory_items, history>>

\* _mark_accessed, by id; a row keeps its id when it is replaced.
MarkAccessed(c) ==
    /\ proc[c].pc = "mark"
    /\ \E time \in Time :
          memory_items' = [k \in Key |->
              IF k \in proc[c].keys THEN [memory_items[k] EXCEPT !.last_accessed = time]
                                    ELSE memory_items[k]]
    /\ Return(c)
    /\ UNCHANGED <<history, calls>>

-----------------------------------------------------------------------------
(* decay_pass.                                                             *)

StartDecay(c) ==
    /\ proc[c].pc = "idle"
    /\ Call("decay")
    /\ \E k \in Key : Present(k)
    /\ proc' = [proc EXCEPT ![c] = [Idle EXCEPT !.pc = "decay", !.snapshot = memory_items,
                                    !.keys = {k \in Key : Present(k)}]]
    /\ UNCHANGED <<memory_items, history>>

Decayed_Mutant(row, read, score) == [read EXCEPT !.decay_score = score]
Decayed(row, read, score) == [row EXCEPT !.decay_score = score]

\* One row of the snapshot: its weight by the access time that was read, at
\* the time of this turn of the loop.  A row that has not changed is skipped.
DecayRow(c, k) ==
    /\ proc[c].pc = "decay"
    /\ k \in proc[c].keys
    /\ Legible(proc[c].snapshot[k])
    /\ \E time \in Time :
          LET read  == proc[c].snapshot[k]
              score == Weight(time - read.last_accessed)
          IN  memory_items' = IF score = read.decay_score THEN memory_items
                              ELSE [memory_items EXCEPT ![k] = Decayed(memory_items[k], read, score)]
    /\ IF proc[c].keys = {k} THEN Return(c)
                             ELSE proc' = [proc EXCEPT ![c].keys = @ \ {k}]
    /\ UNCHANGED <<history, calls>>

-----------------------------------------------------------------------------
\* The process dies or a statement raises; what is written stays.
Die(c) ==
    /\ proc[c].pc # "idle"
    /\ Return(c)
    /\ UNCHANGED <<memory_items, history, calls>>

Next ==
    \E c \in Client :
          \/ \E k \in Key : \/ \E f \in Fact : Write(c, k, f)
                            \/ SeedItem(c, k)
                            \/ DecayRow(c, k)
          \/ PassGate(c) \/ RefuseWrite(c) \/ Insert(c)
          \/ \E q \in Query, time \in Time : Read(c, q, time)
          \/ MarkAccessed(c)
          \/ StartDecay(c)
          \/ Die(c)

Spec == Init /\ [][Next]_vars

-----------------------------------------------------------------------------
ClientState == [pc : {"idle", "gate", "insert", "mark", "decay"}, key : Key \cup {NoKey},
                item : Row \cup {Absent}, checked : BOOLEAN, keys : SUBSET Key,
                snapshot : Rows]

TypeOK ==
    /\ memory_items \in Rows
    /\ proc \in [Client -> ClientState]
    /\ overwritten \in [Key -> Nat] /\ reseeded \in [Key -> Nat]
    /\ overlapped \subseteq Key
    /\ calls \in [{"write", "seed", "search", "decay"} -> Nat]

\* No semantic row is below the trust the gate asks for, 0.6 in the code,
\* through whichever door it came: the gate, the seed that skips it, or a write
\* over a row that a search or a decay pass has read before (_write_gate,
\* pg_store.py).
SemanticTrusted ==
    \A k \in Semantic : Present(k) => memory_items[k].trust >= MinTrust

\* An episodic entry is replaced by the seed of a starting API, which asks no
\* gate, or by writes that overlap, of which all but one client's replace it;
\* a write that begins when the entry exists is refused (_write_gate, upsert).
EpisodicSettles ==
    \A k \in Episodic :
        overwritten[k] <= reseeded[k] + (IF k \in overlapped THEN Cardinality(Client) - 1 ELSE 0)

\* What a search leaves out although it scores higher than something it
\* returns was accessed before everything it looked at: the LIMIT of the
\* query hides stale rows and no others.
WindowHidesOnlyStale ==
    [][\A c \in Client, q \in Query, time \in Time :
          LET chosen == proc'[c].keys
              rows   == memory_items
              found  == Eligible(rows, q)
          IN  Read(c, q, time) =>
              \A x \in chosen, y \in found \ chosen :
                  Score(rows[y], q, time) > Score(rows[x], q, time) =>
                      /\ Cardinality(found) > Limit
                      /\ rows[y].last_accessed <= rows[x].last_accessed]_vars

-----------------------------------------------------------------------------
(* What makes these invariants inductive.                                  *)

\* What a client has in hand: a write has its key and item, which the gate or
\* the seed has found trustworthy before it is inserted; a search or a decay
\* pass works on rows that were there, and rows do not go away.
SoundLocals(p) ==
    /\ p.pc \in {"gate", "insert"} =>
          p.key \in Key /\ p.item \in Row
    /\ p.pc = "insert" => Trustworthy(p.key, p.item)
    /\ p.checked => p.pc = "insert"
    /\ p.pc \in {"idle", "mark", "decay"} => p.key = NoKey
    /\ p.pc \in {"mark", "decay"} =>
          \A k \in p.keys : Present(k) /\ p.snapshot[k] # Absent

InHand == \A c \in Client : SoundLocals(proc[c])

\* The writes of the key that have passed the gate.
Checked(k) == {c \in Client : proc[c].key = k /\ proc[c].checked}

\* Writes that pass the gate find no entry.  Once there is one, what replaces it
\* are those that have passed by then: all the clients but the one that made
\* the entry, at most, and nobody where none overlap.
Settled(k) ==
    /\ ~Present(k) => overwritten[k] = 0 /\ reseeded[k] = 0
    /\ Present(k) =>
          overwritten[k] + Cardinality(Checked(k)) <= reseeded[k] + Cardinality(Client) - 1
    /\ k \notin overlapped =>
          /\ \A c, d \in Writing(k) : c = d
          /\ overwritten[k] <= reseeded[k]
          /\ Checked(k) # {} => ~Present(k)

Settling == \A k \in Episodic : Settled(k)

MemoryInv == TypeOK /\ SemanticTrusted /\ InHand /\ Settling

-----------------------------------------------------------------------------
(* The refinement: what the table says, its access times left out.         *)

Facts == [k \in Key |->
    IF Present(k) THEN [content |-> memory_items[k].content, trust |-> memory_items[k].trust,
                        verified |-> memory_items[k].verified]
                  ELSE Absent]

Store == INSTANCE InMemoryStore WITH items <- Facts

\* As long as no two calls write one key at once, every step of the Postgres
\* store is a step of the in-memory store or changes no fact: its writes go
\* through the same gate although they look and write in two statements.
KeepsStore ==
    /\ Store!Init
    /\ [][Store!Next \/ \E k \in overlapped : \A j \in Key \ {k} : Facts'[j] = Facts[j]]_Facts

=============================================================================
