---------------------------- MODULE InMemoryStore ---------------------------
(***************************************************************************)
(* The governed memory as memory/store.py keeps it: one dictionary in one  *)
(* process, where every call is a step.  It is the promise the Postgres    *)
(* store is measured by (PostgresMemory).                                  *)
(*                                                                         *)
(* A key stands for namespace, entity key and memory type together.  Of an *)
(* item the model keeps what a guard reads: content, trust in hundredths   *)
(* and consistency.  The search of this store changes nothing; the decay   *)
(* pass changes decay_score alone, which no guard reads, so both stutter.  *)
(***************************************************************************)
EXTENDS Naturals

CONSTANTS
    Key,                 \* namespace:entity_key:memory_type
    Semantic, Episodic,  \* the keys of these two memory types
    Content,
    Trust,               \* the values of source_trust that items come with
    MinTrust,            \* 0.6: the trust a semantic item needs
    Seed,                \* the items of seed_demo: a fact for each of its keys
    Absent               \* what a key without an item maps to

VARIABLE items           \* self._items

Fact == [content : Content, trust : Trust, verified : BOOLEAN]

\* A semantic item that is low in trust is refused.
Trustworthy(k, f) == k \in Semantic => f.trust >= MinTrust

\* An episodic item is never overwritten.
Writable(k) == k \in Episodic => items[k] = Absent

Put(k, f) == items' = [items EXCEPT ![k] = f]

\* upsert behind the write gate; a write that is refused changes nothing.
Upsert(k, f) == Trustworthy(k, f) /\ Writable(k) /\ Put(k, f)

\* seed_demo writes with validate=False: the gate is not asked.
SeedDemo(k) == k \in DOMAIN Seed /\ Put(k, Seed[k])

Init == items = [k \in Key |-> Absent]

Next ==
    \E k \in Key :
        \/ \E f \in Fact : Upsert(k, f)
        \/ SeedDemo(k)

Spec == Init /\ [][Next]_items

=============================================================================
