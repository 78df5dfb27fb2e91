------------------------ MODULE PostgresMemoryProofs ------------------------
(***************************************************************************)
(* Proofs about PostgresMemory for any number of clients, keys and calls:  *)
(* MemoryInv is inductive, and with it the table keeps the semantic gate   *)
(* and the append-only promise as far as the code gives it; it implements  *)
(* InMemoryStore apart from overlapping writes, and a search leaves out    *)
(* what is stale only.                                                     *)
(***************************************************************************)
EXTENDS PostgresMemory, FiniteSetTheorems, TLAPS

\* What a row says: the row without its access time and its decay.
FactOf(row) == [content |-> row.content, trust |-> row.trust, verified |-> row.verified]

\* A typed row differs from Absent, and keeps its type under the two updates.
LEMMA RowUpdates ==
    ASSUME NEW row \in Row, NEW n \in Nat, NEW time \in Time
    PROVE  /\ row # Absent
           /\ [row EXCEPT !.last_accessed = time] \in Row
           /\ [row EXCEPT !.decay_score = n] \in Row
<1>1. Row \subseteq [content : Content, trust : Trust, verified : BOOLEAN,
                     last_accessed : Nat, decay_score : Nat]
  BY MemoryAssumption DEF Row, Time
<1>2. row # Absent  BY <1>1, MemoryAssumption
<1>3. QED  BY <1>2 DEF Row

\* There is a time, so a row is never Absent.
LEMMA RowPresent == \A row \in Row : row # Absent
<1>1. 0 \in Time /\ 0 \in Nat  BY MemoryAssumption DEF Time
<1>2. QED  BY <1>1, RowUpdates

\* A weight is a natural number, whatever clocks the age was taken from.
LEMMA WeightTyped ==
    ASSUME NEW at \in Time, NEW time \in Time
    PROVE  Weight(time - at) \in Nat
<1>1. at \in Nat /\ time \in Nat /\ time <= MaxTime /\ MaxTime \in Nat
  BY MemoryAssumption DEF Time
<1>2. MaxTime + 1 - (time - at) \in Nat  BY <1>1
<1>3. QED  BY <1>2 DEF Weight

\* A fact becomes a row stamped with the time that some clock shows.
LEMMA NewRowOK ==
    ASSUME NEW f \in Fact, NEW time \in Time
    PROVE  NewRow(f, time) \in Row /\ NewRow(f, time).trust = f.trust
  BY MemoryAssumption DEF NewRow, Weight, Row, Fact

\* The checked writes of a key are finitely many.
LEMMA CheckedFinite ==
    ASSUME NEW k
    PROVE  /\ IsFiniteSet(Checked(k)) /\ Cardinality(Checked(k)) \in Nat
           /\ Cardinality(Client) \in Nat
           /\ Cardinality(Checked(k)) <= Cardinality(Client)
<1>1. Checked(k) \subseteq Client  BY DEF Checked
<1>2. QED  BY <1>1, MemoryAssumption, FS_Subset, FS_CardinalityType

\* A step after which the clients, the table's keys and the history say no
\* more of any episodic key than before leaves the writes settling.
LEMMA SettlingKept ==
    ASSUME MemoryInv, TypeOK',
           UNCHANGED <<overwritten, reseeded>>, overlapped \subseteq overlapped',
           \A k \in Key : Present(k)' = Present(k),
           \A k \in Key : Checked(k)' \subseteq Checked(k),
           \A k \in Episodic : k \notin overlapped' =>
               \A c, d \in Writing(k)' : c = d
    PROVE  Settling'
<1>1. Episodic \subseteq Key  BY MemoryAssumption
<1>2. SUFFICES ASSUME NEW k \in Episodic PROVE Settled(k)'
  BY DEF Settling
<1>3. Cardinality(Checked(k)') <= Cardinality(Checked(k)) /\ Cardinality(Checked(k)') \in Nat
  BY <1>1, CheckedFinite, FS_Subset, FS_CardinalityType
<1>4. overwritten[k] \in Nat /\ reseeded[k] \in Nat  BY <1>1 DEF MemoryInv, TypeOK
<1>5. Settled(k)  BY DEF MemoryInv, Settling
<1>6. QED  BY <1>1, <1>3, <1>4, <1>5, CheckedFinite DEF Settled

LEMMA IdleOK ==
    Idle \in ClientState /\ Idle.pc = "idle" /\ Idle.key = NoKey /\ ~Idle.checked /\ Idle.keys = {}
  BY DEF Idle, ClientState, Rows

\* A client whose write has passed the gate.
LEMMA PassedState ==
    ASSUME NEW p \in ClientState, NEW q, q = [p EXCEPT !.pc = "insert", !.checked = TRUE]
    PROVE  /\ q \in ClientState
           /\ q.pc = "insert" /\ q.key = p.key /\ q.item = p.item /\ q.checked = TRUE
  BY DEF ClientState

\* What a client has in hand stays sound while others work: rows stay.
LEMMA OthersInHand ==
    ASSUME TypeOK, InHand, NEW d \in Client, proc'[d] = proc[d],
           \A k \in Key : Present(k) => Present(k)'
    PROVE  SoundLocals(proc[d])'
<1>1. proc[d] \in ClientState  BY DEF TypeOK
<1>2. proc[d].keys \subseteq Key  BY <1>1 DEF ClientState
<1>3. SoundLocals(proc[d])  BY DEF InHand
<1>4. QED  BY <1>2, <1>3 DEF SoundLocals, Trustworthy

\* An idle client has nothing in hand.
LEMMA IdleSound ==
    ASSUME NEW p, p = Idle
    PROVE  SoundLocals(p)
  BY IdleOK DEF SoundLocals

-----------------------------------------------------------------------------
(* Calls that begin: the table stays, one client gets something in hand.   *)

\* Both kinds of write.
LEMMA BeginWriteKeeps ==
    ASSUME MemoryInv, NEW c \in Client, NEW k \in Key, NEW f \in Fact, NEW label,
           BeginWrite(c, k, f, label), calls' \in [{"write", "seed", "search", "decay"} -> Nat],
           label \in {"gate", "insert"}, label = "insert" => Trustworthy(k, f)
    PROVE  MemoryInv'
<1> USE DEF MemoryInv
<1>0. PICK time \in Time :
          proc' = [proc EXCEPT ![c] =
                      [Idle EXCEPT !.pc = label, !.key = k, !.item = NewRow(f, time)]]
  BY DEF BeginWrite
<1> DEFINE item == NewRow(f, time)
           p == [Idle EXCEPT !.pc = label, !.key = k, !.item = item]
<1>a. item \in Row /\ item.trust = f.trust  BY NewRowOK
<1>b. proc' = [proc EXCEPT ![c] = p]  BY <1>0
<1> HIDE DEF item
<1>1. /\ p \in ClientState /\ p.pc = label /\ p.key = k /\ p.item = item /\ ~p.checked
  BY <1>a, IdleOK DEF ClientState
<1> HIDE DEF p
<1>2. /\ proc \in [Client -> ClientState]
      /\ UNCHANGED <<memory_items, overwritten, reseeded>>
      /\ overlapped' = IF Writing(k) = {} THEN overlapped ELSE overlapped \cup {k}
  BY DEF TypeOK, BeginWrite
<1>3. /\ proc'[c] = p /\ proc' \in [Client -> ClientState]
      /\ \A d \in Client : d # c => proc'[d] = proc[d]
  BY <1>b, <1>1, <1>2
<1>4. overlapped' \subseteq Key /\ overlapped \subseteq overlapped'
  BY <1>2 DEF TypeOK
<1>5. TypeOK'  BY <1>2, <1>3, <1>4 DEF TypeOK
<1>6. SemanticTrusted' /\ \A j \in Key : Present(j)' = Present(j)
  BY <1>2 DEF SemanticTrusted, Present
<1>7. InHand'
  <2>1. SoundLocals(proc[c])'
    <3>1. label = "insert" => (k \in Semantic => item.trust >= MinTrust)
      BY <1>a DEF Trustworthy
    <3>2. QED  BY <1>a, <1>1, <1>3, <3>1 DEF SoundLocals, Trustworthy
  <2>2. ASSUME NEW d \in Client, d # c PROVE SoundLocals(proc[d])'
    BY <2>2, <1>3, <1>6, OthersInHand
  <2>3. QED  BY <2>1, <2>2 DEF InHand
<1>8. Settling'
  <2>1. \A j \in Key : Checked(j)' \subseteq Checked(j)
    <3>1. QED  BY <1>1, <1>3 DEF Checked
  <2>2. \A j \in Episodic : j \notin overlapped' => \A d, e \in Writing(j)' : d = e
    <3>1. SUFFICES ASSUME NEW j \in Episodic, j \notin overlapped', NEW d \in Writing(j)', NEW e \in Writing(j)'
          PROVE d = e
      OBVIOUS
    <3>2. CASE j = k
      <4>1. Writing(k) = {}  BY <1>2, <3>1, <3>2
      <4>2. QED  BY <4>1, <3>1, <3>2, <1>3 DEF Writing
    <3>3. CASE j # k
      <4>1. d \in Writing(j) /\ e \in Writing(j)
        BY <3>1, <3>3, <1>1, <1>3 DEF Writing
      <4>2. \A a, b \in Writing(j) : a = b
        BY <3>1, <1>4 DEF Settling, Settled
      <4>3. QED  BY <4>1, <4>2
    <3>4. QED  BY <3>2, <3>3
  <2>3. QED  BY <1>2, <1>4, <1>5, <1>6, <2>1, <2>2, SettlingKept
<1>9. QED  BY <1>5, <1>6, <1>7, <1>8

-----------------------------------------------------------------------------
(* Steps of one client that store nothing.                                 *)

\* A client that neither takes up a key nor passes the gate, while rows stay
\* where they are, leaves everything else as it was.
LEMMA QuietStep ==
    ASSUME MemoryInv, TypeOK', SemanticTrusted', NEW c \in Client,
           \A d \in Client : d # c => proc'[d] = proc[d],
           SoundLocals(proc[c])', proc'[c].key \in {NoKey, proc[c].key}, ~proc'[c].checked,
           \A k \in Key : Present(k)' = Present(k),
           UNCHANGED history
    PROVE  MemoryInv'
<1> USE DEF MemoryInv
<1>1. InHand'
  <2>1. ASSUME NEW d \in Client, d # c PROVE SoundLocals(proc[d])'
    BY <2>1, OthersInHand
  <2>2. QED  BY <2>1 DEF InHand
<1>2. \A k \in Key : Checked(k)' \subseteq Checked(k)  BY DEF Checked
<1>3. \A k \in Key : Writing(k)' \subseteq Writing(k)  BY MemoryAssumption DEF Writing
<1>4. \A k \in Episodic : k \notin overlapped' => \A d, e \in Writing(k)' : d = e
  BY <1>3, MemoryAssumption DEF Settling, Settled, history
<1>5. Settling'
  <2>1. UNCHANGED <<overwritten, reseeded>> /\ overlapped \subseteq overlapped'  BY DEF history
  <2>2. QED  BY <1>2, <1>4, <2>1, SettlingKept
<1>6. QED  BY <1>1, <1>5

\* A call that returns, whatever it has or has not done to the rows.
LEMMA ReturnKeeps ==
    ASSUME MemoryInv, NEW c \in Client, Return(c),
           memory_items' \in Rows, SemanticTrusted',
           \A k \in Key : Present(k)' = Present(k),
           UNCHANGED <<history, calls>>
    PROVE  MemoryInv'
<1>1. /\ proc'[c] = Idle /\ proc' \in [Client -> ClientState]
      /\ \A d \in Client : d # c => proc'[d] = proc[d]
  BY IdleOK DEF Return, MemoryInv, TypeOK
<1>2. TypeOK'  BY <1>1 DEF MemoryInv, TypeOK, history
<1>3. SoundLocals(proc[c])'
  <2>1. proc'[c].pc = "idle" /\ proc'[c].key = NoKey /\ ~proc'[c].checked  BY <1>1, IdleOK
  <2>2. QED  BY <2>1 DEF SoundLocals
<1>4. proc'[c].key \in {NoKey, proc[c].key} /\ ~proc'[c].checked  BY <1>1, IdleOK
<1>5. QED  BY <1>1, <1>2, <1>3, <1>4, QuietStep

\* The rows as they were.
LEMMA RowsStay ==
    ASSUME MemoryInv, UNCHANGED memory_items
    PROVE  /\ memory_items' \in Rows /\ SemanticTrusted'
           /\ \A k \in Key : Present(k)' = Present(k)
  BY DEF MemoryInv, TypeOK, SemanticTrusted, Present

LEMMA RefuseWriteKeeps ==
    ASSUME MemoryInv, NEW c \in Client, RefuseWrite(c)
    PROVE  MemoryInv'
  BY RowsStay, ReturnKeeps DEF RefuseWrite

LEMMA DieKeeps ==
    ASSUME MemoryInv, NEW c \in Client, Die(c)
    PROVE  MemoryInv'
  BY RowsStay, ReturnKeeps DEF Die

\* A counter of the bounds stays typed.
LEMMA CallOK ==
    ASSUME TypeOK, NEW kind \in {"write", "seed", "search", "decay"}, Call(kind)
    PROVE  calls' \in [{"write", "seed", "search", "decay"} -> Nat]
  BY DEF TypeOK, Call

\* A search reads rows that are there.
LEMMA ReadKeeps ==
    ASSUME MemoryInv, NEW c \in Client, NEW q \in Query, NEW time \in Time, Read(c, q, time)
    PROVE  MemoryInv'
<1> USE DEF MemoryInv
<1>1. /\ UNCHANGED <<memory_items, history>> /\ TypeOK
      /\ calls' \in [{"write", "seed", "search", "decay"} -> Nat]
  BY CallOK DEF Read
<1>2. PICK window \in Windows(memory_items, q) :
          \E chosen \in Highest(Hits(memory_items, q, window, time), q.k,
                      Rank(memory_items, q, Hits(memory_items, q, window, time), time)) :
              proc' = [proc EXCEPT ![c] =
                  IF chosen = {} THEN Idle
                  ELSE [Idle EXCEPT !.pc = "mark", !.keys = chosen, !.snapshot = memory_items]]
  BY DEF Read
<1> DEFINE hits == Hits(memory_items, q, window, time)
<1>3. PICK chosen \in Highest(hits, q.k, Rank(memory_items, q, hits, time)) :
          proc' = [proc EXCEPT ![c] =
              IF chosen = {} THEN Idle
              ELSE [Idle EXCEPT !.pc = "mark", !.keys = chosen, !.snapshot = memory_items]]
  BY <1>2
<1>4. \A k \in chosen : k \in Key /\ memory_items[k] # Absent
  <2>1. chosen \subseteq window  BY <1>3 DEF Highest, Hits
  <2>2. window \subseteq Eligible(memory_items, q)  BY DEF Highest, Windows
  <2>3. q.scope \subseteq Key  BY MemoryAssumption
  <2>4. QED  BY <2>1, <2>2, <2>3 DEF Eligible
<1>5. CASE chosen = {}
  <2>1. TypeOK'  BY <1>1, <1>3, <1>5, IdleOK DEF TypeOK, history
  <2>2. /\ proc'[c] = Idle
        /\ \A d \in Client : d # c => proc'[d] = proc[d]
    BY <1>3, <1>5 DEF TypeOK
  <2>3. proc'[c].pc = "idle" /\ proc'[c].key = NoKey /\ ~proc'[c].checked  BY <2>2, IdleOK
  <2>4. SoundLocals(proc[c])'  BY <2>3 DEF SoundLocals
  <2>5. QED  BY <1>1, <2>1, <2>2, <2>3, <2>4, RowsStay, QuietStep
<1>6. CASE chosen # {}
  <2> DEFINE p == [Idle EXCEPT !.pc = "mark", !.keys = chosen, !.snapshot = memory_items]
  <2>1. /\ p \in ClientState /\ p.pc = "mark" /\ p.key = NoKey /\ ~p.checked
        /\ p.keys = chosen /\ p.snapshot = memory_items
    BY <1>4, IdleOK DEF ClientState, TypeOK
  <2>2. proc' = [proc EXCEPT ![c] = p]  BY <1>3, <1>6
  <2> HIDE DEF p
  <2>3. /\ proc'[c] = p /\ proc' \in [Client -> ClientState]
        /\ \A d \in Client : d # c => proc'[d] = proc[d]
    BY <2>1, <2>2 DEF TypeOK
  <2>4. TypeOK'  BY <1>1, <2>3 DEF TypeOK, history
  <2>5. SoundLocals(proc[c])'
    BY <1>1, <1>4, <2>1, <2>3 DEF SoundLocals, Present
  <2>6. QED  BY <1>1, <2>1, <2>3, <2>4, <2>5, RowsStay, QuietStep
<1>7. QED  BY <1>5, <1>6

LEMMA StartDecayKeeps ==
    ASSUME MemoryInv, NEW c \in Client, StartDecay(c)
    PROVE  MemoryInv'
<1> USE DEF MemoryInv
<1>1. /\ UNCHANGED <<memory_items, history>> /\ TypeOK
      /\ calls' \in [{"write", "seed", "search", "decay"} -> Nat]
  BY CallOK DEF StartDecay
<1> DEFINE p == [Idle EXCEPT !.pc = "decay", !.snapshot = memory_items,
                             !.keys = {k \in Key : Present(k)}]
<1>2. /\ p \in ClientState /\ p.pc = "decay" /\ p.key = NoKey /\ ~p.checked
      /\ p.keys = {k \in Key : Present(k)} /\ p.snapshot = memory_items
  BY IdleOK DEF ClientState, TypeOK
<1>3. proc' = [proc EXCEPT ![c] = p]  BY DEF StartDecay
<1> HIDE DEF p
<1>4. /\ proc'[c] = p /\ proc' \in [Client -> ClientState]
      /\ \A d \in Client : d # c => proc'[d] = proc[d]
  BY <1>2, <1>3 DEF TypeOK
<1>5. TypeOK'  BY <1>1, <1>4 DEF TypeOK, history
<1>6. SoundLocals(proc[c])'
  BY <1>1, <1>2, <1>4 DEF SoundLocals, Present
<1>7. QED  BY <1>1, <1>2, <1>4, <1>5, <1>6, RowsStay, QuietStep

-----------------------------------------------------------------------------
(* Steps that change rows.                                                 *)

\* A mark changes the access time of the rows it names and nothing else.
LEMMA MarkEffect ==
    ASSUME MemoryInv, NEW c \in Client, MarkAccessed(c), NEW k \in Key
    PROVE  \/ memory_items'[k] = memory_items[k]
           \/ /\ Present(k) /\ memory_items[k] \in Row /\ memory_items'[k] \in Row
              /\ FactOf(memory_items'[k]) = FactOf(memory_items[k])
<1> USE DEF MemoryInv
<1>1. memory_items \in [Key -> Row \cup {Absent}]  BY DEF TypeOK, Rows
<1>2. PICK time \in Time :
          memory_items'[k] = IF k \in proc[c].keys
                             THEN [memory_items[k] EXCEPT !.last_accessed = time]
                             ELSE memory_items[k]
  BY DEF MarkAccessed
<1>3. CASE k \in proc[c].keys
  <2>1. Present(k) /\ memory_items[k] \in Row
    BY <1>1, <1>3 DEF MarkAccessed, InHand, SoundLocals, Present
  <2>2. memory_items'[k] = [memory_items[k] EXCEPT !.last_accessed = time]  BY <1>2, <1>3
  <2>3. QED  BY <1>1, <2>1, <2>2 DEF Row, FactOf
<1>4. CASE k \notin proc[c].keys  BY <1>2, <1>4
<1>5. QED  BY <1>3, <1>4

LEMMA MarkAccessedKeeps ==
    ASSUME MemoryInv, NEW c \in Client, MarkAccessed(c)
    PROVE  MemoryInv'
<1> USE DEF MemoryInv
<1>1. memory_items \in [Key -> Row \cup {Absent}]  BY DEF TypeOK, Rows
<1>2. \A k \in Key : \/ memory_items'[k] = memory_items[k]
                     \/ /\ Present(k) /\ memory_items'[k] \in Row
                        /\ memory_items'[k].trust = memory_items[k].trust
  BY MarkEffect DEF FactOf
<1>3. memory_items' \in Rows
  <2>1. memory_items' = [k \in Key |-> memory_items'[k]]  BY DEF MarkAccessed
  <2>2. \A k \in Key : memory_items'[k] \in Row \cup {Absent}  BY <1>1, <1>2
  <2>3. QED  BY <2>1, <2>2 DEF Rows
<1>4. \A k \in Key : Present(k)' = Present(k)
  BY <1>2, RowPresent DEF Present
<1>5. SemanticTrusted'
  <2>1. Semantic \subseteq Key  BY MemoryAssumption
  <2>2. QED  BY <1>2, <2>1 DEF SemanticTrusted, Present
<1>6. Return(c) /\ UNCHANGED <<history, calls>>  BY DEF MarkAccessed
<1>7. QED  BY <1>3, <1>4, <1>5, <1>6, ReturnKeeps

\* One turn of the decay pass changes the decay score of one row, at most.
LEMMA DecayRowEffect ==
    ASSUME MemoryInv, NEW c \in Client, NEW k \in Key, DecayRow(c, k)
    PROVE  /\ Present(k) /\ memory_items[k] \in Row /\ memory_items'[k] \in Row
           /\ FactOf(memory_items'[k]) = FactOf(memory_items[k])
           /\ \A j \in Key : j # k => memory_items'[j] = memory_items[j]
           /\ memory_items' \in Rows
<1> USE DEF MemoryInv
<1> DEFINE read == proc[c].snapshot[k]
<1>0. PICK time \in Time :
          memory_items' = IF Weight(time - read.last_accessed) = read.decay_score THEN memory_items
                          ELSE [memory_items EXCEPT ![k] =
                                   Decayed(memory_items[k], read, Weight(time - read.last_accessed))]
  BY DEF DecayRow
<1> DEFINE score == Weight(time - read.last_accessed)
<1>1. proc[c] \in ClientState /\ memory_items \in [Key -> Row \cup {Absent}]
  BY DEF TypeOK, Rows
<1>2. /\ proc[c].pc = "decay" /\ k \in proc[c].keys
      /\ memory_items' = IF score = read.decay_score THEN memory_items
                         ELSE [memory_items EXCEPT ![k] = Decayed(memory_items[k], read, score)]
  BY <1>0 DEF DecayRow
<1>3. SoundLocals(proc[c])  BY DEF InHand
<1>4. Present(k) /\ memory_items[k] \in Row /\ read \in Row
  <2>1. Present(k) /\ read # Absent  BY <1>2, <1>3 DEF SoundLocals
  <2>2. read \in Row \cup {Absent}  BY <1>1 DEF ClientState, Rows
  <2>3. QED  BY <1>1, <2>1, <2>2 DEF Present
<1>5. score \in Nat
  <2>1. read.last_accessed \in Time  BY <1>4 DEF Row
  <2>2. QED  BY <2>1, WeightTyped
<1> HIDE DEF score
<1>6. CASE memory_items' = memory_items  BY <1>1, <1>4, <1>6 DEF Rows
<1>7. CASE memory_items' = [memory_items EXCEPT ![k] = Decayed(memory_items[k], read, score)]
  <2> DEFINE row == [memory_items[k] EXCEPT !.decay_score = score]
  <2>1. /\ row \in Row
        /\ FactOf(row) = FactOf(memory_items[k])
    BY <1>4, <1>5 DEF Row, FactOf
  <2>2. memory_items' = [memory_items EXCEPT ![k] = row]  BY <1>7 DEF Decayed
  <2> HIDE DEF row
  <2>3. QED  BY <1>1, <1>4, <2>1, <2>2 DEF Rows
<1>8. QED  BY <1>2, <1>6, <1>7

\* One row of the decay pass.
LEMMA DecayRowKeeps ==
    ASSUME MemoryInv, NEW c \in Client, NEW k \in Key, DecayRow(c, k)
    PROVE  MemoryInv'
<1> USE DEF MemoryInv
<1>1. proc[c] \in ClientState  BY DEF TypeOK
<1>2. /\ proc[c].pc = "decay" /\ k \in proc[c].keys
      /\ UNCHANGED <<history, calls>>
      /\ IF proc[c].keys = {k} THEN Return(c)
                               ELSE proc' = [proc EXCEPT ![c].keys = @ \ {k}]
  BY DEF DecayRow
<1>3. SoundLocals(proc[c])  BY DEF InHand
<1>4. /\ Present(k) /\ memory_items[k] \in Row
      /\ \A j \in Key : j # k => memory_items'[j] = memory_items[j]
      /\ memory_items'[k] \in Row
      /\ memory_items'[k].trust = memory_items[k].trust
      /\ memory_items' \in Rows
  BY DecayRowEffect DEF FactOf
<1>5. \A j \in Key : Present(j)' = Present(j)
  BY <1>4, RowPresent DEF Present
<1>7. SemanticTrusted'
  <2>1. Semantic \subseteq Key  BY MemoryAssumption
  <2>2. QED  BY <1>4, <2>1 DEF SemanticTrusted, Present
<1>8. CASE proc[c].keys = {k}
  BY <1>2, <1>4, <1>5, <1>7, <1>8, ReturnKeeps
<1>9. CASE proc[c].keys # {k}
  <2>1. proc' = [proc EXCEPT ![c].keys = @ \ {k}]  BY <1>2, <1>9
  <2>2. /\ \A d \in Client : d # c => proc'[d] = proc[d]
        /\ proc'[c] = [proc[c] EXCEPT !.keys = @ \ {k}]
    BY <2>1 DEF TypeOK
  <2>3. /\ proc'[c].pc = "decay" /\ proc'[c].key = proc[c].key
        /\ proc'[c].checked = proc[c].checked /\ proc'[c].snapshot = proc[c].snapshot
        /\ proc'[c].keys = proc[c].keys \ {k} /\ proc'[c] \in ClientState
    BY <1>1, <1>2, <2>2 DEF ClientState
  <2>4. proc' \in [Client -> ClientState]  BY <2>1, <2>2, <2>3 DEF TypeOK
  <2>5. TypeOK'  BY <1>2, <1>4, <2>4 DEF TypeOK, history
  <2>6. ~proc[c].checked /\ proc[c].key = NoKey
    BY <1>2, <1>3 DEF SoundLocals
  <2>7. SoundLocals(proc[c])'
    <3>1. \A j \in proc[c].keys : j \in Key /\ Present(j) /\ proc[c].snapshot[j] # Absent
      BY <1>1, <1>2, <1>3 DEF SoundLocals, ClientState
    <3>2. QED  BY <1>5, <2>3, <2>6, <3>1 DEF SoundLocals
  <2>8. QED  BY <1>2, <1>5, <1>7, <2>2, <2>3, <2>5, <2>6, <2>7, QuietStep
<1>10. QED  BY <1>8, <1>9

\* The gate opens when the entry is not there: from here on no entry is there
\* until one of those that have passed is stored.
LEMMA PassGateKeeps ==
    ASSUME MemoryInv, NEW c \in Client, PassGate(c)
    PROVE  MemoryInv'
<1> USE DEF MemoryInv
<1> DEFINE key == proc[c].key
<1>1. /\ proc[c].pc = "gate" /\ Trustworthy(key, proc[c].item) /\ Writable(key)
      /\ proc' = [proc EXCEPT ![c].pc = "insert", ![c].checked = TRUE]
      /\ UNCHANGED <<memory_items, history, calls>>
      /\ proc[c] \in ClientState
  BY DEF PassGate, TypeOK
<1>2. SoundLocals(proc[c])  BY DEF InHand
<1>3. key \in Key /\ proc[c].item \in Row
  BY <1>1, <1>2 DEF SoundLocals
<1>4. /\ \A d \in Client : d # c => proc'[d] = proc[d]
      /\ proc'[c] = [proc[c] EXCEPT !.pc = "insert", !.checked = TRUE]
  BY <1>1 DEF TypeOK
<1>5. /\ proc'[c].pc = "insert" /\ proc'[c].key = key /\ proc'[c].item = proc[c].item
      /\ proc'[c].checked = TRUE /\ proc'[c] \in ClientState
  <2>1. proc[c] \in ClientState  BY <1>1
  <2>2. proc'[c] = [proc[c] EXCEPT !.pc = "insert", !.checked = TRUE]  BY <1>4
  <2> HIDE DEF MemoryInv
  <2> USE DEF key
  <2>3. QED  BY ONLY <2>1, <2>2, PassedState
<1>6. proc' \in [Client -> ClientState]  BY <1>1, <1>4, <1>5 DEF TypeOK
<1>7. TypeOK'  BY <1>1, <1>6 DEF TypeOK, history
<1>8. /\ SemanticTrusted'
      /\ \A k \in Key : Present(k)' = Present(k)
  BY <1>1 DEF SemanticTrusted, Present
<1>9. InHand'
  <2>1. SoundLocals(proc[c])'
    BY <1>1, <1>3, <1>5 DEF SoundLocals, Trustworthy
  <2>2. ASSUME NEW d \in Client, d # c PROVE SoundLocals(proc[d])'
    BY <1>1, <1>4, <1>8, <2>2, OthersInHand
  <2>3. QED  BY <2>1, <2>2 DEF InHand
<1>10. Settling'
  <2>1. SUFFICES ASSUME NEW k \in Episodic PROVE Settled(k)'
    BY DEF Settling
  <2>2. k \in Key /\ Settled(k)  BY MemoryAssumption DEF Settling
  <2>3. Writing(k)' = Writing(k)
    <3>1. \A d \in Client : proc'[d].key = proc[d].key  BY <1>4, <1>5
    <3>2. QED  BY <3>1 DEF Writing
  <2>4. CASE k = key
    <3>1. ~Present(k)  BY <1>1, <2>4 DEF Writable
    <3>2. overwritten[k] = 0 /\ reseeded[k] = 0  BY <2>2, <3>1 DEF Settled
    <3>3. QED  BY <1>1, <1>8, <2>2, <2>3, <3>1, <3>2 DEF Settled, history
  <2>5. CASE k # key
    <3>1. Checked(k)' = Checked(k)  BY <1>4, <1>5, <2>5 DEF Checked
    <3>2. QED  BY <1>1, <1>8, <2>2, <2>3, <3>1 DEF Settled, history
  <2>6. QED  BY <2>4, <2>5
<1>11. QED  BY <1>7, <1>8, <1>9, <1>10

\* The upsert turns a write that has passed the gate into one that is stored.
LEMMA InsertKeeps ==
    ASSUME MemoryInv, NEW c \in Client, Insert(c)
    PROVE  MemoryInv'
<1> USE DEF MemoryInv
<1> DEFINE key == proc[c].key
<1>1. /\ proc[c].pc = "insert"
      /\ memory_items' = [memory_items EXCEPT ![key] = proc[c].item]
      /\ proc' = [proc EXCEPT ![c] = Idle]
      /\ UNCHANGED <<overlapped, calls>>
  BY DEF Insert, Return
<1>2. SoundLocals(proc[c])  BY DEF InHand
<1>3. /\ key \in Key /\ proc[c].item \in Row
      /\ Trustworthy(key, proc[c].item) /\ proc[c].item # Absent
  BY <1>1, <1>2, RowPresent DEF SoundLocals
<1>4. proc \in [Client -> ClientState] /\ memory_items \in [Key -> Row \cup {Absent}]
      /\ overwritten \in [Key -> Nat] /\ reseeded \in [Key -> Nat]
  BY DEF TypeOK, Rows
<1>5. /\ proc' \in [Client -> ClientState] /\ proc'[c] = Idle
      /\ \A d \in Client : d # c => proc'[d] = proc[d]
  BY <1>1, <1>4, IdleOK
<1>6. /\ memory_items' \in [Key -> Row \cup {Absent}] /\ memory_items'[key] = proc[c].item
      /\ \A k \in Key : k # key => memory_items'[k] = memory_items[k]
  BY <1>1, <1>3, <1>4
<1>7. /\ overwritten' \in [Key -> Nat] /\ reseeded' \in [Key -> Nat]
      /\ \A k \in Key : k # key => overwritten'[k] = overwritten[k] /\ reseeded'[k] = reseeded[k]
      /\ IF Present(key)
         THEN /\ overwritten'[key] = overwritten[key] + 1
              /\ reseeded'[key] = IF proc[c].checked THEN reseeded[key] ELSE reseeded[key] + 1
         ELSE overwritten'[key] = overwritten[key] /\ reseeded'[key] = reseeded[key]
  BY <1>3, <1>4 DEF Insert
<1>8. TypeOK'  BY <1>1, <1>5, <1>6, <1>7 DEF TypeOK, Rows
<1>9. \A k \in Key : Present(k) => Present(k)'  BY <1>3, <1>6 DEF Present
<1>11. SemanticTrusted'
  <2>1. Semantic \subseteq Key  BY MemoryAssumption
  <2>2. QED  BY <1>3, <1>6, <2>1 DEF SemanticTrusted, Present, Trustworthy
<1>12. InHand'
  <2>1. SoundLocals(proc[c])'
    <3>1. proc'[c].pc = "idle" /\ proc'[c].key = NoKey /\ ~proc'[c].checked
      BY <1>5, IdleOK
    <3>2. QED  BY <3>1 DEF SoundLocals
  <2>2. ASSUME NEW d \in Client, d # c PROVE SoundLocals(proc[d])'
    BY <1>1, <1>4, <1>5, <1>9, <2>2, OthersInHand
  <2>3. QED  BY <2>1, <2>2 DEF InHand
<1>13. Settling'
  <2>1. SUFFICES ASSUME NEW k \in Episodic PROVE Settled(k)'
    BY DEF Settling
  <2>2. k \in Key /\ k # NoKey /\ Settled(k) /\ overwritten[k] \in Nat /\ reseeded[k] \in Nat
    BY <1>4, MemoryAssumption DEF Settling
  <2>3. Checked(k)' = Checked(k) \ {c} /\ Writing(k)' = Writing(k) \ {c}
    BY <1>5, <2>2, IdleOK DEF Checked, Writing
  <2>4. /\ Cardinality(Checked(k)) \in Nat /\ Cardinality(Client) \in Nat
        /\ Cardinality(Checked(k)') \in Nat
        /\ Cardinality(Checked(k)') <= Cardinality(Checked(k))
        /\ c \in Checked(k) => Cardinality(Checked(k)') = Cardinality(Checked(k)) - 1
    BY <2>3, CheckedFinite, FS_RemoveElement, FS_Subset, FS_CardinalityType
  <2>5. CASE k # key
    <3>1. Present(k)' = Present(k)  BY <1>6, <2>2, <2>5 DEF Present
    <3>2. overwritten'[k] = overwritten[k] /\ reseeded'[k] = reseeded[k]
      BY <1>7, <2>2, <2>5
    <3>3. QED  BY <1>1, <2>2, <2>3, <2>4, <3>1, <3>2 DEF Settled
  <2>6. CASE k = key
    <3>1. Present(k)'  BY <1>3, <1>6, <2>6 DEF Present
    <3>2. proc[c].checked => c \in Checked(k)  BY <2>6 DEF Checked
    <3>3. c \in Writing(k)  BY <2>6 DEF Writing
    <3>4. Checked(k) \subseteq Writing(k)  BY DEF Checked, Writing
    <3>5. k \notin overlapped' =>
             /\ \A d, e \in Writing(k)' : d = e
             /\ Checked(k)' = {}
      BY <1>1, <2>2, <2>3, <3>3, <3>4 DEF Settled
    <3>6. CASE Present(k)
      <4>1. /\ overwritten'[k] = overwritten[k] + 1
            /\ reseeded'[k] = IF proc[c].checked THEN reseeded[k] ELSE reseeded[k] + 1
        BY <1>7, <2>6, <3>6
      <4>2. overwritten[k] + Cardinality(Checked(k)) <= reseeded[k] + Cardinality(Client) - 1
        BY <2>2, <3>6 DEF Settled
      <4>3. overwritten'[k] + Cardinality(Checked(k)') <= reseeded'[k] + Cardinality(Client) - 1
        BY <2>2, <2>4, <3>2, <4>1, <4>2
      <4>4. k \notin overlapped' => ~proc[c].checked /\ overwritten[k] <= reseeded[k]
        BY <1>1, <2>2, <3>2, <3>6 DEF Settled
      <4>5. k \notin overlapped' => overwritten'[k] <= reseeded'[k]
        BY <2>2, <4>1, <4>4
      <4>6. QED  BY <3>1, <3>5, <4>3, <4>5 DEF Settled
    <3>7. CASE ~Present(k)
      <4>1. overwritten'[k] = 0 /\ reseeded'[k] = 0
        BY <1>7, <2>2, <2>6, <3>7 DEF Settled
      <4>2. Cardinality(Checked(k)') <= Cardinality(Client) - 1
        <5>1. Checked(k)' \subseteq Client \ {c}  BY <2>3 DEF Checked
        <5>2. IsFiniteSet(Client \ {c}) /\ Cardinality(Client \ {c}) = Cardinality(Client) - 1
          BY MemoryAssumption, FS_RemoveElement
        <5>3. QED  BY <5>1, <5>2, FS_Subset
      <4>3. QED  BY <2>4, <3>1, <3>5, <4>1, <4>2 DEF Settled
    <3>8. QED  BY <3>6, <3>7
  <2>7. QED  BY <2>5, <2>6
<1>14. QED  BY <1>8, <1>11, <1>12, <1>13

-----------------------------------------------------------------------------
(* The theorems.                                                           *)

LEMMA WriteKeeps ==
    ASSUME MemoryInv, NEW c \in Client, NEW k \in Key, NEW f \in Fact, Write(c, k, f)
    PROVE  MemoryInv'
<1>1. BeginWrite(c, k, f, "gate") /\ calls' \in [{"write", "seed", "search", "decay"} -> Nat]
  BY CallOK DEF Write, MemoryInv
<1>2. QED  BY <1>1, BeginWriteKeeps

LEMMA SeedItemKeeps ==
    ASSUME MemoryInv, NEW c \in Client, NEW k \in Key, SeedItem(c, k)
    PROVE  MemoryInv'
<1>1. /\ BeginWrite(c, k, Seed[k], "insert") /\ k \in DOMAIN Seed
      /\ calls' \in [{"write", "seed", "search", "decay"} -> Nat]
  BY CallOK DEF SeedItem, MemoryInv
<1>2. Seed[k] \in Fact /\ Trustworthy(k, Seed[k])
  BY <1>1, MemoryAssumption DEF Fact, Trustworthy
<1>3. QED  BY <1>1, <1>2, BeginWriteKeeps

LEMMA InitSound == Init => MemoryInv
<1> SUFFICES ASSUME Init PROVE MemoryInv  OBVIOUS
<1> USE DEF Init
<1>1. TypeOK  BY IdleOK, MemoryAssumption DEF TypeOK, Rows
<1>2. \A k \in Key : ~Present(k)  BY DEF Present
<1>3. SemanticTrusted
  BY <1>2, MemoryAssumption DEF SemanticTrusted
<1>4. \A c \in Client : proc[c] = Idle  OBVIOUS
<1>5. InHand
  <2>1. ASSUME NEW c \in Client PROVE SoundLocals(proc[c])
    <3>1. proc[c].pc = "idle" /\ proc[c].key = NoKey /\ ~proc[c].checked  BY <1>4, IdleOK
    <3>2. QED  BY <3>1 DEF SoundLocals
  <2>2. QED  BY <2>1 DEF InHand
<1>6. Settling
  <2>1. \A k \in Episodic : k \in Key /\ k # NoKey /\ overwritten[k] = 0 /\ reseeded[k] = 0
    BY MemoryAssumption
  <2>2. \A k \in Episodic : Checked(k) = {} /\ Writing(k) = {}
    BY <1>4, <2>1, IdleOK DEF Checked, Writing
  <2> HIDE DEF Init
  <2>3. QED  BY <1>2, <2>1, <2>2, MemoryAssumption DEF Settling, Settled
<1>7. QED  BY <1>1, <1>3, <1>5, <1>6 DEF MemoryInv

LEMMA StepKeeps == MemoryInv /\ [Next]_vars => MemoryInv'
<1> SUFFICES ASSUME MemoryInv, [Next]_vars PROVE MemoryInv'  OBVIOUS
<1>1. CASE UNCHANGED vars
  BY <1>1 DEF vars, MemoryInv, TypeOK, SemanticTrusted, InHand, SoundLocals,
              Settling, Settled, Checked, Writing, Present
<1>2. CASE Next
  BY <1>2, WriteKeeps, SeedItemKeeps, PassGateKeeps, RefuseWriteKeeps, InsertKeeps, ReadKeeps,
     MarkAccessedKeeps, StartDecayKeeps, DecayRowKeeps, DieKeeps DEF Next
<1>3. QED  BY <1>1, <1>2

\* The inductive invariant of the memory table.
THEOREM MemoryInvHolds == Spec => []MemoryInv
  BY InitSound, StepKeeps, PTL DEF Spec

\* Semantic memory stays above the trust of the gate, for any clients, any
\* seed that is trusted and any interleaving (_write_gate).
THEOREM SemanticTrustedHolds == Spec => []SemanticTrusted
<1>1. MemoryInv => SemanticTrusted  BY DEF MemoryInv
<1>2. QED  BY <1>1, MemoryInvHolds, PTL

\* What replaces an episodic entry is the seed of a starting API, which asks no
\* gate, or writes that overlap, and of these less than there are clients; for
\* any clients, keys and calls (_write_gate, upsert).
THEOREM EpisodicSettlesHolds == Spec => []EpisodicSettles
<1>1. MemoryInv => EpisodicSettles
  <2>1. SUFFICES ASSUME MemoryInv, NEW k \in Episodic
        PROVE  overwritten[k] <= reseeded[k]
                                 + (IF k \in overlapped THEN Cardinality(Client) - 1 ELSE 0)
    BY DEF EpisodicSettles
  <2>2. /\ Settled(k) /\ overwritten[k] \in Nat /\ reseeded[k] \in Nat
        /\ Cardinality(Checked(k)) \in Nat
    BY <2>1, MemoryAssumption, CheckedFinite DEF MemoryInv, Settling, TypeOK
  <2>3. Cardinality(Client) \in Nat /\ Cardinality(Client) # 0
    BY MemoryAssumption, FS_CardinalityType, FS_EmptySet
  <2>4. QED  BY <2>2, <2>3 DEF Settled
<1>2. QED  BY <1>1, MemoryInvHolds, PTL

-----------------------------------------------------------------------------
(* The refinement of InMemoryStore.                                        *)

\* A write that is about to be stored is one the in-memory store would take:
\* where nobody overlaps it, an episodic entry that has passed the gate is
\* still not there, and what has not been through the gate is a seed.
Storable(p) ==
    p.pc = "insert" =>
        IF p.checked
        THEN p.key \in Episodic \ overlapped => ~Present(p.key)
        ELSE p.key \in DOMAIN Seed /\ FactOf(p.item) = Seed[p.key]

StoreInv == \A c \in Client : Storable(proc[c])

\* The steps that leave the facts alone: all but the upsert.
LEMMA FactsStay ==
    ASSUME MemoryInv, Next, ~\E c \in Client : Insert(c)
    PROVE  \A k \in Key : /\ Present(k)' = Present(k)
                          /\ Present(k) => FactOf(memory_items'[k]) = FactOf(memory_items[k])
<1>1. TAKE k \in Key
<1>2. CASE memory_items'[k] = memory_items[k]  BY <1>2 DEF Present
<1>3. CASE \E c \in Client : MarkAccessed(c)
  BY <1>3, MarkEffect, RowPresent DEF Present
<1>4. CASE \E c \in Client, j \in Key : DecayRow(c, j)
  BY <1>4, DecayRowEffect, RowPresent DEF Present
<1>5. CASE memory_items' = memory_items  BY <1>2, <1>5
<1>6. QED
  BY <1>3, <1>4, <1>5 DEF Next, Write, SeedItem, BeginWrite, PassGate, RefuseWrite, Read,
                          StartDecay, Die

\* What is in hand stays storable while no write of an episodic key that
\* nobody overlaps makes its entry.
LEMMA OthersStorable ==
    ASSUME StoreInv, NEW d \in Client, proc'[d] = proc[d], overlapped \subseteq overlapped',
           \A k \in Episodic \ overlapped : proc[d].key = k => Present(k)' = Present(k)
    PROVE  Storable(proc[d])'
  BY DEF StoreInv, Storable

\* A write that begins.
LEMMA BeginStorable ==
    ASSUME MemoryInv, StoreInv, NEW c \in Client, NEW k \in Key, NEW f \in Fact, NEW label,
           BeginWrite(c, k, f, label), label = "insert" => k \in DOMAIN Seed /\ f = Seed[k]
    PROVE  StoreInv'
<1>0. PICK time \in Time :
          proc' = [proc EXCEPT ![c] =
                      [Idle EXCEPT !.pc = label, !.key = k, !.item = NewRow(f, time)]]
  BY DEF BeginWrite
<1> DEFINE p == [Idle EXCEPT !.pc = label, !.key = k, !.item = NewRow(f, time)]
<1>1. p.pc = label /\ p.key = k /\ p.item = NewRow(f, time) /\ ~p.checked
  BY IdleOK DEF ClientState
<1>2. /\ proc' = [proc EXCEPT ![c] = p] /\ proc \in [Client -> ClientState]
      /\ overlapped \subseteq overlapped' /\ memory_items' = memory_items
  BY <1>0 DEF BeginWrite, MemoryInv, TypeOK
<1>3. FactOf(NewRow(f, time)) = f  BY DEF FactOf, NewRow, Fact
<1> HIDE DEF p
<1>4. Storable(proc[c])'  BY <1>1, <1>2, <1>3 DEF Storable
<1>5. ASSUME NEW d \in Client, d # c PROVE Storable(proc[d])'
  BY <1>2, <1>5, OthersStorable DEF Present
<1>6. QED  BY <1>4, <1>5 DEF StoreInv

\* The gate finds no entry before it lets an episodic item pass.
LEMMA PassStorable ==
    ASSUME MemoryInv, StoreInv, NEW c \in Client, PassGate(c)
    PROVE  StoreInv'
<1>1. /\ Writable(proc[c].key) /\ UNCHANGED <<memory_items, overlapped>>
      /\ proc' = [proc EXCEPT ![c].pc = "insert", ![c].checked = TRUE]
      /\ proc \in [Client -> ClientState]
  BY DEF PassGate, MemoryInv, TypeOK, history
<1>2. /\ proc'[c] = [proc[c] EXCEPT !.pc = "insert", !.checked = TRUE]
      /\ \A d \in Client : d # c => proc'[d] = proc[d]
  BY <1>1
<1>3. proc'[c].pc = "insert" /\ proc'[c].key = proc[c].key /\ proc'[c].checked = TRUE
  BY <1>1, <1>2, PassedState
<1>4. Storable(proc[c])'  BY <1>1, <1>3 DEF Storable, Writable, Present
<1>5. ASSUME NEW d \in Client, d # c PROVE Storable(proc[d])'
  BY <1>1, <1>2, <1>5, OthersStorable DEF Present
<1>6. QED  BY <1>4, <1>5 DEF StoreInv

\* Whoever is at a key that is being written by one call is that call.
LEMMA InsertStorable ==
    ASSUME MemoryInv, StoreInv, NEW c \in Client, Insert(c)
    PROVE  StoreInv'
<1>1. /\ memory_items' = [memory_items EXCEPT ![proc[c].key] = proc[c].item]
      /\ proc' = [proc EXCEPT ![c] = Idle] /\ overlapped' = overlapped
      /\ proc \in [Client -> ClientState] /\ memory_items \in [Key -> Row \cup {Absent}]
  BY DEF Insert, Return, MemoryInv, TypeOK, Rows
<1>2. Storable(proc[c])'  BY <1>1, IdleOK DEF Storable
<1>3. ASSUME NEW d \in Client, d # c PROVE Storable(proc[d])'
  <2>1. proc'[d] = proc[d]  BY <1>1, <1>3
  <2>2. ASSUME NEW k \in Episodic \ overlapped, proc[d].key = k
        PROVE  Present(k)' = Present(k)
    <3>1. k \in Key /\ d \in Writing(k)  BY <2>2, MemoryAssumption DEF Writing
    <3>2. c \notin Writing(k)  BY <1>3, <2>2, <3>1 DEF MemoryInv, Settling, Settled
    <3>3. proc[c].key # k  BY <3>2 DEF Writing
    <3>4. QED  BY <1>1, <3>1, <3>3 DEF Present
  <2>3. QED  BY <1>1, <2>1, <2>2, OthersStorable
<1>4. QED  BY <1>2, <1>3 DEF StoreInv

\* A step of a client that writes nothing and is not about to.
LEMMA QuietStorable ==
    ASSUME StoreInv, NEW c \in Client, Next, MemoryInv, ~\E d \in Client : Insert(d),
           \A d \in Client : d # c => proc'[d] = proc[d],
           proc'[c].pc # "insert", overlapped' = overlapped
    PROVE  StoreInv'
<1>1. Storable(proc[c])'  BY DEF Storable
<1>2. ASSUME NEW d \in Client, d # c PROVE Storable(proc[d])'
  <2>1. Episodic \subseteq Key  BY MemoryAssumption
  <2>2. QED  BY <1>2, <2>1, FactsStay, OthersStorable
<1>3. QED  BY <1>1, <1>2 DEF StoreInv

LEMMA StoreStepKeeps == MemoryInv /\ StoreInv /\ [Next]_vars => StoreInv'
<1> SUFFICES ASSUME MemoryInv, StoreInv, [Next]_vars PROVE StoreInv'  OBVIOUS
<1>1. CASE UNCHANGED vars  BY <1>1 DEF vars, StoreInv, Storable, Present
<1>2. ASSUME NEW c \in Client, Insert(c) PROVE StoreInv'  BY <1>2, InsertStorable
<1>3. ASSUME Next, ~\E c \in Client : Insert(c) PROVE StoreInv'
  <2> USE <1>3
  <2>1. proc \in [Client -> ClientState]  BY DEF MemoryInv, TypeOK
  <2>2. ASSUME NEW c \in Client, NEW k \in Key, NEW f \in Fact, Write(c, k, f) PROVE StoreInv'
    BY <2>2, BeginStorable DEF Write
  <2>3. ASSUME NEW c \in Client, NEW k \in Key, SeedItem(c, k) PROVE StoreInv'
    <3>1. Seed[k] \in Fact  BY <2>3, MemoryAssumption DEF SeedItem, Fact
    <3>2. QED  BY <2>3, <3>1, BeginStorable DEF SeedItem
  <2>4. ASSUME NEW c \in Client, PassGate(c) PROVE StoreInv'  BY <2>4, PassStorable
  <2>5. ASSUME NEW c \in Client, Return(c), overlapped' = overlapped PROVE StoreInv'
    BY <2>1, <2>5, IdleOK, QuietStorable DEF Return
  <2>6. ASSUME NEW c \in Client, NEW p, p.pc # "insert", proc' = [proc EXCEPT ![c] = p],
               overlapped' = overlapped
        PROVE  StoreInv'
    BY <2>1, <2>6, QuietStorable
  <2>7. ASSUME NEW c \in Client, NEW q \in Query, NEW time \in Time, Read(c, q, time) PROVE StoreInv'
    <3>1. PICK S : proc' = [proc EXCEPT ![c] =
              IF S = {} THEN Idle
              ELSE [Idle EXCEPT !.pc = "mark", !.keys = S, !.snapshot = memory_items]]
      BY <2>7 DEF Read
    <3> DEFINE p == IF S = {} THEN Idle
                    ELSE [Idle EXCEPT !.pc = "mark", !.keys = S, !.snapshot = memory_items]
    <3>2. p.pc # "insert"  BY IdleOK DEF ClientState
    <3>3. proc' = [proc EXCEPT ![c] = p] /\ overlapped' = overlapped
      BY <2>7, <3>1 DEF Read, history
    <3> HIDE DEF p
    <3>4. QED  BY <2>6, <3>2, <3>3
  <2>8. ASSUME NEW c \in Client, StartDecay(c) PROVE StoreInv'
    <3> DEFINE p == [Idle EXCEPT !.pc = "decay", !.snapshot = memory_items,
                                 !.keys = {k \in Key : Present(k)}]
    <3>1. p.pc # "insert"  BY IdleOK DEF ClientState
    <3>2. proc' = [proc EXCEPT ![c] = p] /\ overlapped' = overlapped
      BY <2>8 DEF StartDecay, history
    <3> HIDE DEF p
    <3>3. QED  BY <2>6, <3>1, <3>2
  <2>9. ASSUME NEW c \in Client, NEW k \in Key, DecayRow(c, k) PROVE StoreInv'
    <3>1. CASE proc[c].keys = {k}  BY <2>5, <2>9, <3>1 DEF DecayRow, history
    <3>2. CASE proc[c].keys # {k}
      <4>1. /\ proc' = [proc EXCEPT ![c] = [proc[c] EXCEPT !.keys = @ \ {k}]]
            /\ proc[c].pc = "decay" /\ overlapped' = overlapped /\ proc[c] \in ClientState
        BY <2>1, <2>9, <3>2 DEF DecayRow, history
      <4>2. [proc[c] EXCEPT !.keys = @ \ {k}].pc = "decay"  BY <4>1 DEF ClientState
      <4>3. QED  BY <2>6, <4>1, <4>2
    <3>3. QED  BY <3>1, <3>2
  <2>10. QED
    BY <2>2, <2>3, <2>4, <2>5, <2>7, <2>8, <2>9
       DEF Next, RefuseWrite, MarkAccessed, Die, history
<1>4. QED  BY <1>1, <1>2, <1>3

\* A row's fact is typed, and differs from the absence of a row.
LEMMA FactTyped ==
    ASSUME NEW row \in Row
    PROVE  FactOf(row) \in Fact /\ FactOf(row) # Absent /\ FactOf(row).trust = row.trust
  BY MemoryAssumption DEF FactOf, Fact, Row

LEMMA FactsAt ==
    ASSUME NEW k \in Key
    PROVE  Facts[k] = IF Present(k) THEN FactOf(memory_items[k]) ELSE Absent
  BY DEF Facts, FactOf

\* An upsert writes one fact: as the in-memory store would, or under a key
\* that two calls are writing at once.
LEMMA InsertMaps ==
    ASSUME MemoryInv, StoreInv, NEW c \in Client, Insert(c)
    PROVE  Store!Next \/ \E k \in overlapped : \A j \in Key \ {k} : Facts'[j] = Facts[j]
<1> DEFINE key == proc[c].key
           f   == FactOf(proc[c].item)
<1>1. /\ proc[c].pc = "insert"
      /\ memory_items' = [memory_items EXCEPT ![key] = proc[c].item]
      /\ memory_items \in [Key -> Row \cup {Absent}]
  BY DEF Insert, MemoryInv, TypeOK, Rows
<1>2. key \in Key /\ proc[c].item \in Row /\ Trustworthy(key, proc[c].item) /\ Storable(proc[c])
  BY <1>1 DEF MemoryInv, InHand, SoundLocals, StoreInv
<1>3. f \in Fact /\ f.trust = proc[c].item.trust /\ proc[c].item # Absent
  BY <1>2, FactTyped, RowPresent
<1>4. /\ memory_items'[key] = proc[c].item
      /\ \A j \in Key : j # key => memory_items'[j] = memory_items[j]
  BY <1>1, <1>2
<1>5. Facts'[key] = f /\ \A j \in Key \ {key} : Facts'[j] = Facts[j]
  BY <1>2, <1>3, <1>4 DEF Facts, FactOf, Present
<1>6. Facts' = [Facts EXCEPT ![key] = f]
  <2>1. DOMAIN Facts = Key /\ DOMAIN Facts' = Key  BY DEF Facts
  <2> HIDE DEF f
  <2>2. Facts' = [j \in Key |-> Facts'[j]] /\ Facts = [j \in Key |-> Facts[j]]  BY DEF Facts
  <2>3. QED  BY <1>2, <1>5, <2>1, <2>2
<1>7. CASE key \in overlapped  BY <1>5, <1>7
<1>8. CASE ~proc[c].checked
  <2>1. key \in DOMAIN Seed /\ f = Seed[key]  BY <1>1, <1>2, <1>8 DEF Storable
  <2>2. QED  BY <1>2, <1>6, <2>1 DEF Store!Next, Store!SeedDemo, Store!Put
<1>9. CASE proc[c].checked /\ key \notin overlapped
  <2>1. key \in Episodic => Facts[key] = Absent
    BY <1>1, <1>2, <1>9, FactsAt DEF Storable
  <2>2. key \in Semantic => f.trust >= MinTrust  BY <1>2, <1>3 DEF Trustworthy
  <2>3. f \in Store!Fact  BY <1>3 DEF Fact, Store!Fact
  <2> HIDE DEF f
  <2>4. Store!Upsert(key, f)
    BY <1>6, <2>1, <2>2 DEF Store!Upsert, Store!Trustworthy, Store!Writable, Store!Put
  <2>5. QED  BY <1>2, <2>3, <2>4 DEF Store!Next
<1>10. QED  BY <1>7, <1>8, <1>9

\* The table implements the in-memory store wherever no two calls write one
\* key at once: each upsert is an upsert or a seed of it, every other step
\* leaves the facts alone.
THEOREM KeepsStoreHolds == Spec => KeepsStore
<1> DEFINE Step == Store!Next \/ \E k \in overlapped : \A j \in Key \ {k} : Facts'[j] = Facts[j]
<1>1. Init => StoreInv
  BY IdleOK DEF Init, StoreInv, Storable
<1>2. Spec => []StoreInv
  BY <1>1, MemoryInvHolds, StoreStepKeeps, PTL DEF Spec
<1>3. Init => Store!Init
  BY DEF Init, Store!Init, Facts, Present
<1>4. MemoryInv /\ StoreInv /\ [Next]_vars => [Step]_Facts
  <2>1. SUFFICES ASSUME MemoryInv, StoreInv, [Next]_vars PROVE Step \/ Facts' = Facts
    OBVIOUS
  <2>2. ASSUME NEW c \in Client, Insert(c) PROVE Step  BY <2>1, <2>2, InsertMaps
  <2>3. CASE UNCHANGED vars  BY <2>3 DEF vars, Facts, Present
  <2>4. ASSUME Next, ~\E c \in Client : Insert(c) PROVE Facts' = Facts
    <3>1. \A k \in Key : /\ Present(k)' = Present(k)
                         /\ Present(k) => FactOf(memory_items'[k]) = FactOf(memory_items[k])
      BY <2>1, <2>4, FactsStay
    <3>2. Facts' = [k \in Key |-> IF Present(k) THEN FactOf(memory_items'[k]) ELSE Absent]
      BY <3>1 DEF Facts, FactOf
    <3>3. Facts = [k \in Key |-> IF Present(k) THEN FactOf(memory_items[k]) ELSE Absent]
      BY DEF Facts, FactOf
    <3>4. QED  BY <3>1, <3>2, <3>3
  <2>5. QED  BY <2>1, <2>2, <2>3, <2>4
<1>5. QED  BY <1>2, <1>3, <1>4, MemoryInvHolds, PTL DEF Spec, KeepsStore

-----------------------------------------------------------------------------
(* What a search leaves out.                                               *)

\* The table holds finitely many rows, however many keys there may be.
Stored == {k \in Key : Present(k)}

FinitelyStored == IsFiniteSet(Stored)

LEMMA StoredFinite == Spec => []FinitelyStored
<1>1. Init => FinitelyStored
  <2>1. Init => Stored = {}  BY DEF Init, Stored, Present
  <2>2. QED  BY <2>1, FS_EmptySet DEF FinitelyStored
<1>2. FinitelyStored /\ MemoryInv /\ [Next]_vars => FinitelyStored'
  <2>1. SUFFICES ASSUME IsFiniteSet(Stored), MemoryInv, [Next]_vars
        PROVE  IsFiniteSet(Stored')
    BY DEF FinitelyStored
  <2>2. CASE Stored' = Stored  BY <2>1, <2>2
  <2>3. ASSUME NEW c \in Client, Insert(c) PROVE IsFiniteSet(Stored')
    <3>1. \A k \in Key : k # proc[c].key => memory_items'[k] = memory_items[k]
      BY <2>1, <2>3 DEF Insert, MemoryInv, TypeOK, Rows
    <3>2. Stored' \subseteq Stored \cup {proc[c].key}
      BY <3>1 DEF Stored, Present
    <3>3. IsFiniteSet(Stored \cup {proc[c].key})  BY <2>1, FS_AddElement
    <3>4. QED  BY <3>2, <3>3, FS_Subset
  <2>4. CASE UNCHANGED vars
    <3>1. Stored' = Stored  BY <2>4 DEF vars, Stored, Present
    <3>2. QED  BY <2>2, <3>1
  <2>5. ASSUME Next, ~\E c \in Client : Insert(c) PROVE Stored' = Stored
    BY <2>1, <2>5, FactsStay DEF Stored
  <2>6. QED  BY <2>1, <2>2, <2>3, <2>4, <2>5
<1>3. QED  BY <1>1, <1>2, MemoryInvHolds, PTL DEF Spec

\* A better score outranks whatever the access times are: they are below the
\* factor that the score is given.
LEMMA ScoreDecides ==
    ASSUME NEW a \in Nat, NEW b \in Nat, NEW m \in Nat, NEW u \in Nat, NEW v \in Nat,
           b > a, u <= m
    PROVE  a * (m + 1) + u < b * (m + 1) + v
<1>1. PICK d \in Nat : b = a + 1 + d
  <2>1. b - a - 1 \in Nat /\ b = a + 1 + (b - a - 1)  OBVIOUS
  <2>2. QED  BY <2>1
<1> DEFINE n == m + 1
<1>2. n \in Nat /\ u < n  OBVIOUS
<1> HIDE DEF n
<1>3. b * n = a * n + n + d * n  BY <1>1, <1>2
<1>4. a * n \in Nat /\ d * n \in Nat  BY <1>2
<1>5. a * n + u < b * n + v
  <2> DEFINE an == a * n
             bn == b * n
             dn == d * n
  <2>1. bn = an + n + dn /\ an \in Nat /\ dn \in Nat  BY <1>3, <1>4
  <2> HIDE DEF an, bn, dn
  <2>2. an + u < bn + v  BY <1>2, <2>1
  <2>3. QED  BY <2>2 DEF an, bn
<1>6. QED  BY <1>5 DEF n

\* A row's score is a natural number.
LEMMA ScoreTyped ==
    ASSUME MemoryInv, NEW q \in Query, NEW time \in Time, NEW k \in Key, Present(k)
    PROVE  /\ Score(memory_items[k], q, time) \in Nat
           /\ memory_items[k].last_accessed \in 0..MaxTime
<1>1. memory_items[k] \in Row
  BY DEF MemoryInv, TypeOK, Rows, Present
<1>2. memory_items[k].last_accessed \in Time /\ memory_items[k].content \in Content
  BY <1>1 DEF Row
<1>3. q.similarity[memory_items[k].content] \in Nat /\ q.decay_weighted \in BOOLEAN
  BY <1>2, MemoryAssumption
<1>4. Weight(time - memory_items[k].last_accessed) \in Nat  BY <1>2, WeightTyped
<1> DEFINE s == q.similarity[memory_items[k].content]
           w == IF q.decay_weighted THEN Weight(time - memory_items[k].last_accessed) ELSE 1
<1>5. s \in Nat /\ w \in Nat  BY <1>3, <1>4
<1>6. Score(memory_items[k], q, time) = s * w  BY DEF Score
<1> HIDE DEF s, w
<1>7. s * w \in Nat  BY <1>5
<1>8. QED  BY <1>2, <1>6, <1>7 DEF Time

\* The LIMIT of a search hides rows that are staler than all it looks at, and
\* among those it looks at nothing that scores higher than what it returns
\* (search and its ORDER BY last_accessed DESC LIMIT 200).
THEOREM WindowHidesOnlyStaleHolds == Spec => WindowHidesOnlyStale
<1> DEFINE Hides(c, q, time) ==
        Read(c, q, time) =>
            \A x \in proc'[c].keys, y \in Eligible(memory_items, q) \ proc'[c].keys :
                Score(memory_items[y], q, time) > Score(memory_items[x], q, time) =>
                    /\ Cardinality(Eligible(memory_items, q)) > Limit
                    /\ memory_items[y].last_accessed <= memory_items[x].last_accessed
<1>1. MemoryInv /\ FinitelyStored => \A c \in Client, q \in Query, time \in Time : Hides(c, q, time)
  <2>1. SUFFICES ASSUME MemoryInv, IsFiniteSet(Stored), NEW c \in Client, NEW q \in Query,
                        NEW time \in Time, Read(c, q, time),
                        NEW x \in proc'[c].keys,
                        NEW y \in Eligible(memory_items, q) \ proc'[c].keys,
                        Score(memory_items[y], q, time) > Score(memory_items[x], q, time)
        PROVE  /\ Cardinality(Eligible(memory_items, q)) > Limit
               /\ memory_items[y].last_accessed <= memory_items[x].last_accessed
    BY DEF FinitelyStored
  <2> DEFINE found == Eligible(memory_items, q)
  <2>2. PICK window \in Windows(memory_items, q) :
            \E chosen \in Highest(Hits(memory_items, q, window, time), q.k,
                        Rank(memory_items, q, Hits(memory_items, q, window, time), time)) :
                proc' = [proc EXCEPT ![c] =
                    IF chosen = {} THEN Idle
                    ELSE [Idle EXCEPT !.pc = "mark", !.keys = chosen, !.snapshot = memory_items]]
    BY <2>1 DEF Read
  <2> DEFINE hits == Hits(memory_items, q, window, time)
  <2>3. PICK chosen \in Highest(hits, q.k, Rank(memory_items, q, hits, time)) :
            proc' = [proc EXCEPT ![c] =
                IF chosen = {} THEN Idle
                ELSE [Idle EXCEPT !.pc = "mark", !.keys = chosen, !.snapshot = memory_items]]
    BY <2>2
  <2>4. proc'[c].keys = chosen
    <3>1. c \in DOMAIN proc  BY <2>1 DEF MemoryInv, TypeOK
    <3>2. QED  BY <2>3, <3>1, IdleOK DEF ClientState
  <2>5. /\ window \in Highest(found, Limit, Recency(memory_items, found))
        /\ window \subseteq found /\ chosen \subseteq hits /\ hits \subseteq window
    BY <2>2, <2>3 DEF Windows, Highest, Hits
  <2>6. /\ x \in hits /\ x \in window /\ x \in found /\ x \in chosen
        /\ y \in found /\ y \notin chosen
    BY <2>1, <2>4, <2>5
  <2>7. found \subseteq Stored
    BY <2>1, MemoryAssumption DEF Eligible, Stored, Present
  <2>8. /\ Score(memory_items[x], q, time) \in Nat /\ Score(memory_items[y], q, time) \in Nat
        /\ memory_items[x].last_accessed \in 0..MaxTime
        /\ memory_items[y].last_accessed \in 0..MaxTime
    BY <2>1, <2>6, <2>7, ScoreTyped DEF Stored
  <2>9. y \notin window
    <3>1. SUFFICES ASSUME y \in window PROVE FALSE  OBVIOUS
    <3>2. y \in hits \ chosen
      <4> DEFINE sx == Score(memory_items[x], q, time)
                 sy == Score(memory_items[y], q, time)
      <4>1. sx \in Nat /\ sy \in Nat /\ sy > sx  BY <2>1, <2>8
      <4> HIDE DEF sx, sy
      <4>2. sy > 0  BY <4>1
      <4>3. QED  BY <2>6, <3>1, <4>2 DEF sy, Hits
    <3>3. Rank(memory_items, q, hits, time)[x] >= Rank(memory_items, q, hits, time)[y]
      BY <2>6, <3>2 DEF Highest
    <3>4. Score(memory_items[x], q, time) * (MaxTime + 1) + memory_items[x].last_accessed
          >= Score(memory_items[y], q, time) * (MaxTime + 1) + memory_items[y].last_accessed
      BY <2>6, <3>2, <3>3 DEF Rank
    <3> DEFINE sx == Score(memory_items[x], q, time)
               sy == Score(memory_items[y], q, time)
               ax == memory_items[x].last_accessed
               ay == memory_items[y].last_accessed
    <3>5. /\ sx \in Nat /\ sy \in Nat /\ sy > sx /\ ax \in Nat /\ ay \in Nat /\ ax <= MaxTime
          /\ MaxTime \in Nat
      BY <2>1, <2>8, MemoryAssumption
    <3>6. sx * (MaxTime + 1) + ax >= sy * (MaxTime + 1) + ay  BY <3>4
    <3> HIDE DEF sx, sy, ax, ay
    <3>7. sx * (MaxTime + 1) + ax < sy * (MaxTime + 1) + ay  BY <3>5, ScoreDecides
    <3> DEFINE l == sx * (MaxTime + 1) + ax
               r == sy * (MaxTime + 1) + ay
    <3>8. l \in Nat /\ r \in Nat /\ l >= r /\ l < r  BY <3>5, <3>6, <3>7
    <3> HIDE DEF l, r
    <3>9. QED  BY <3>8
  <2>10. memory_items[y].last_accessed <= memory_items[x].last_accessed
    <3>1. Recency(memory_items, found)[x] >= Recency(memory_items, found)[y]
      BY <2>5, <2>6, <2>9 DEF Highest
    <3>2. memory_items[x].last_accessed >= memory_items[y].last_accessed
      BY <2>6, <3>1 DEF Recency
    <3>3. QED  BY <2>8, <3>2
  <2>11. Cardinality(found) > Limit
    <3>1. IsFiniteSet(found)  BY <2>1, <2>7, FS_Subset
    <3>2. Cardinality(found) \in Nat /\ Limit \in Nat
      BY <3>1, FS_CardinalityType, MemoryAssumption
    <3>3. Cardinality(window) = IF Cardinality(found) < Limit THEN Cardinality(found) ELSE Limit
      BY <2>5 DEF Highest
    <3>4. window # found  BY <2>6, <2>9
    <3>5. Cardinality(window) # Cardinality(found)
      BY <2>5, <3>1, <3>4, FS_Subset
    <3>6. QED  BY <3>2, <3>3, <3>5
  <2>12. QED  BY <2>10, <2>11
<1>2. MemoryInv /\ FinitelyStored /\ [Next]_vars
      => [\A c \in Client, q \in Query, time \in Time : Hides(c, q, time)]_vars
  BY <1>1
<1>3. QED  BY <1>2, MemoryInvHolds, StoredFinite, PTL DEF Spec, WindowHidesOnlyStale

=============================================================================
