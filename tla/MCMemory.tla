------------------------------- MODULE MCMemory -----------------------------
(***************************************************************************)
(* A small instance of PostgresMemory: an episodic and a semantic key,     *)
(* both of them seeded as store.py seeds cases and policies.               *)
(***************************************************************************)
EXTENDS PostgresMemory, TLC

OutcomeOrCase == "case"
Policy == "policy"

Keys == {OutcomeOrCase, Policy}

\* Trust in hundredths: below the gate of the code, between it and the 0.7 that
\* the memory spec asks for, and above both.
Levels == {50, 65, 90}
Gate == 60

Seeds == [k \in Keys |-> [content |-> "near", trust |-> 90, verified |-> TRUE]]

\* A query over everything weighted by age, and one that ranks by text alone.
Queries ==
    {[scope |-> Keys, similarity |-> [near |-> 2, far |-> 1], min_trust |-> 0,
      k |-> 1, decay_weighted |-> TRUE],
     [scope |-> Keys, similarity |-> [near |-> 1, far |-> 0], min_trust |-> 60,
      k |-> 2, decay_weighted |-> FALSE]}

Calls == [write |-> 2, seed |-> 1, search |-> 1, decay |-> 1]

ClientSymmetry == Permutations(Client)

=============================================================================
