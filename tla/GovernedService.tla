--------------------------- MODULE GovernedService --------------------------
(***************************************************************************)
(* What the control plane promises of every run, without saying how: a run *)
(* that is queued is executed until it closes or awaits a human; something *)
(* is performed for it only after an approving answer, which only a run    *)
(* that has come to await its human can get, and once, which closes it.    *)
(* A checkout proposal is a run that awaits its human from the start.      *)
(*                                                                         *)
(* The promise is about runs: which tool an answer was meant for, and      *)
(* which one is performed, it does not say.  ControlPlane keeps it when    *)
(* requests do not overlap, LocalApi but for raised exceptions;            *)
(* GovernedRun says the same of a single graph.                            *)
(***************************************************************************)
EXTENDS Naturals

CONSTANT Id

VARIABLES
    stage,        \* "absent", "queued", "awaiting" or "closed", by run
    consented,    \* the runs a human has sent an approving answer for
    performed     \* how many times something was carried out for a run

vars == <<stage, consented, performed>>

TypeOK ==
    /\ stage \in [Id -> {"absent", "queued", "awaiting", "closed"}]
    /\ consented \subseteq Id
    /\ performed \in [Id -> Nat]

Init ==
    /\ stage = [r \in Id |-> "absent"]
    /\ consented = {}
    /\ performed = [r \in Id |-> 0]

\* The legal moves of one run that perform nothing.
Moves == {<<"absent", "queued">>, <<"absent", "awaiting">>,
          <<"queued", "awaiting">>, <<"queued", "closed">>,
          <<"awaiting", "closed">>}

Move(r) ==
    /\ \E to \in {"queued", "awaiting", "closed"} :
          /\ <<stage[r], to>> \in Moves
          /\ stage' = [stage EXCEPT ![r] = to]
    /\ UNCHANGED <<consented, performed>>

\* A human approves; the answer may come late, to a run that has closed.
Consent(r) ==
    /\ stage[r] \in {"awaiting", "closed"}
    /\ consented' = consented \cup {r}
    /\ UNCHANGED <<stage, performed>>

\* With the human's consent the run's tool is called, and the run closes.
Perform(r) ==
    /\ stage[r] = "awaiting" /\ r \in consented
    /\ stage' = [stage EXCEPT ![r] = "closed"]
    /\ performed' = [performed EXCEPT ![r] = @ + 1]
    /\ UNCHANGED consented

Next == \E r \in Id : Move(r) \/ Consent(r) \/ Perform(r)

Spec == Init /\ [][Next]_vars

=============================================================================
