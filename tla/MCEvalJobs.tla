----------------------------- MODULE MCEvalJobs -----------------------------
(***************************************************************************)
(* Cases and final states whose tools are the expected ones, too few, too  *)
(* many, twice or in another order; traces of two skills with either       *)
(* pending tool and reports on both sides of the thresholds.               *)
(***************************************************************************)
EXTENDS EvalJobs

Cases == {[tools |-> <<"a", "b">>, approval_required |-> TRUE],
          [tools |-> <<"b">>, approval_required |-> FALSE]}

Ends ==
    {[status |-> s, tools |-> t, cited |-> s # "failed", latency |-> ms] :
        s \in {"completed", "approval_required", "failed"},
        t \in {<<>>, <<"a">>, <<"a", "b">>, <<"b", "a">>, <<"b", "b">>}, ms \in {10, 30}}

Good == <<9, 9, 7>>
Bad == <<9, 0, 7>>
Floor == <<8, 8, 6>>

Traces ==
    {[skill |-> s, status |-> "approval_required", pending |-> p, report |-> r] :
        s \in {1, 2}, p \in {<<"x">>, <<"y">>}, r \in {NoReport, Good}}
    \cup {[skill |-> s, status |-> "failed", pending |-> <<>>, report |-> Bad] : s \in {1, 2}}

=============================================================================
