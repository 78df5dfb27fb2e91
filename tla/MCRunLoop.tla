----------------------------- MODULE MCRunLoop -----------------------------
(***************************************************************************)
(* RunLoop on the plans the six shipped skills and the fallback resolve to *)
(* (tests/test_orchestration.py lists them), and on two more that legal    *)
(* manifests give: one that never searches policy, to reach the verifier's *)
(* refusal behind a gate, and one of MaxSteps + 1 steps, to reach the step *)
(* budget.  MaxSteps and MaxCost are the code's 100 and $5 scaled down to  *)
(* the length of these plans.                                              *)
(***************************************************************************)
EXTENDS RunLoop

MCTool == {"get_invoice", "get_po", "policy", "memory", "metrics", "incidents",
           "deployments", "set_price", "reorder"}

MCGated == {"set_price", "reorder"}

MCPlans == {<<"get_invoice", "get_po", "policy">>,
            <<"policy", "memory">>,
            <<"metrics", "policy", "memory", "set_price">>,
            <<"metrics", "policy", "memory", "reorder">>,
            <<"incidents", "deployments", "policy", "memory">>,
            <<"metrics", "set_price">>,
            <<"get_invoice", "metrics", "policy", "memory", "set_price">>}

=============================================================================
