---------------------------- MODULE MCSkillPlan ----------------------------
(***************************************************************************)
(* SkillPlan on every manifest of up to three required and two optional    *)
(* tools, drawn from seven names that cover every kind of tool there is,   *)
(* beside a second skill that is fine, names an unknown tool, or cannot be *)
(* parsed.                                                                 *)
(***************************************************************************)
EXTENDS SkillPlan, SequencesExt

MCName == {"approvals", "metrics", "policy", "memory", "set_price", "reorder", "bogus"}
MCRegistered == MCName \ {"bogus"}
MCGated == {"set_price", "reorder"}
MCFallback == <<"policy", "memory">>

Skill(required, optional) ==
    [readable |-> TRUE, required |-> required, optional |-> optional]

Fine == Skill(<<"policy">>, <<>>)
OtherSkills == {Fine, Skill(<<"policy">>, <<"bogus">>),
                [readable |-> FALSE, required |-> <<>>, optional |-> <<>>]}

AskedSkills(n, k) ==
    {Skill(r, p) : r \in BoundedSeq(MCName, n), p \in BoundedSeq(MCName, k)}

Catalog(asked, other) == [s \in {"asked", "other"} |-> IF s = "asked" THEN asked ELSE other]

MCCatalogs ==
    {Catalog(m, Fine) : m \in AskedSkills(3, 2)}
    \cup {Catalog(m, o) : m \in AskedSkills(2, 1), o \in OtherSkills}

=============================================================================
