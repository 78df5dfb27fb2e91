---------------------------- MODULE GovernedRun ----------------------------
(***************************************************************************)
(* What one governed run promises, without saying how: a gated tool is     *)
(* proposed, a human answers, and only a proposal the human authorised is  *)
(* performed, at most once.  It is the promise RunGraph.invoke and         *)
(* RunGraph.resume (graph.py) make together; RunLoop implements it.        *)
(***************************************************************************)

CONSTANTS
    GatedTool,    \* the tools a human must authorise
    NoProposal    \* the absence of a proposal

VARIABLES
    phase,        \* "working", "awaiting", "authorised" or "closed"
    proposal,     \* the gated tool put to the human, or NoProposal
    performed     \* the gated tools that have been carried out

vars == <<phase, proposal, performed>>

TypeOK ==
    /\ phase \in {"working", "awaiting", "authorised", "closed"}
    /\ proposal \in GatedTool \cup {NoProposal}
    /\ performed \subseteq GatedTool

Init ==
    /\ phase = "working"
    /\ proposal = NoProposal
    /\ performed = {}

\* The loop stops and puts a gated tool to a human.
Propose(t) ==
    /\ phase = "working"
    /\ t \notin performed
    /\ phase' = "awaiting"
    /\ proposal' = t
    /\ UNCHANGED performed

\* The human approves the proposal.
Authorise ==
    /\ phase = "awaiting"
    /\ phase' = "authorised"
    /\ UNCHANGED <<proposal, performed>>

\* The human rejects the proposal: the run is over.
Decline ==
    /\ phase = "awaiting"
    /\ phase' = "closed"
    /\ proposal' = NoProposal
    /\ UNCHANGED performed

\* The authorised tool is carried out, and nothing else is.
Perform ==
    /\ phase = "authorised"
    /\ phase' = "working"
    /\ performed' = performed \cup {proposal}
    /\ proposal' = NoProposal

\* The loop ends, successfully or not.
Close ==
    /\ phase = "working"
    /\ phase' = "closed"
    /\ UNCHANGED <<proposal, performed>>

Loop == Perform \/ Close \/ \E t \in GatedTool : Propose(t)

Next == Loop \/ Authorise \/ Decline

Safety == Init /\ [][Next]_vars

\* The loop owes progress; the human owes none.
Spec == Safety /\ WF_vars(Loop)

=============================================================================
