--------------------------- MODULE MCControlPlane ---------------------------
(***************************************************************************)
(* Small instances of ControlPlane.  A skill has one read-only step, or    *)
(* none where the step rows do not matter.                                 *)
(***************************************************************************)
EXTENDS ControlPlane, TLC

OneRead == <<"read">>
NoRead == <<>>

WorkerSymmetry == Permutations(Worker)

HandlerSymmetry == Permutations(Handler)

\* Workers are told apart by the claim only, handlers not at all.
Symmetry == WorkerSymmetry \cup HandlerSymmetry

=============================================================================
