----------------------------- MODULE SkillPlan -----------------------------
(***************************************************************************)
(* How planner_node turns the skills directory into the plan of a run:     *)
(* discover_skills reads and validates every SKILL.md, then                *)
(* resolve_skill_plan orders the tools of the skill that was asked for     *)
(* (skills_registry/loader.py, orchestration/skill_planner.py).            *)
(*                                                                         *)
(* One action per turn of each loop, so the loops can be proved about.  A  *)
(* manifest keeps its two tool lists and whether its file can be parsed;   *)
(* discovery is cached only when it succeeds and the files do not change   *)
(* under a process, so the cache is left out.                              *)
(***************************************************************************)
EXTENDS Integers, Sequences

CONSTANTS
    Name,           \* every tool name a manifest can spell
    Registered,     \* the tools of the risk registry
    Gated,          \* those of tier financial or destructive
    ControlPlane,   \* CONTROL_PLANE_TOOLS
    ContextTools,   \* DEFAULT_CONTEXT_TOOLS
    FallbackPlan,   \* FALLBACK_PLAN
    Catalogs,       \* the skills directories considered
    SkillNames      \* what a run can ask for, skill or not

Manifest == [readable : BOOLEAN, required : Seq(Name), optional : Seq(Name)]

Distinct(s) == \A i, j \in 1..Len(s) : s[i] = s[j] => i = j

\* The fallback is made of registered, read-only tools: the shipped
\* risk_registry.yaml says so of policy.search and memory.search.
ASSUME SkillPlanAssumption ==
    /\ Gated \subseteq Registered
    /\ Registered \subseteq Name
    /\ FallbackPlan \in Seq(Registered \ (Gated \cup ControlPlane))
    /\ Distinct(FallbackPlan)
    /\ \A c \in Catalogs : c \in [DOMAIN c -> Manifest]

VARIABLES
    catalog,    \* the skills directory, by skill name
    skill,      \* the skill the run asks for
    pc,         \* where the planner is
    next,       \* how many tools the loop at pc has taken
    context,    \* contextual_tools
    ordered,    \* "plan" before _dedupe
    plan        \* the plan of the run

vars == <<catalog, skill, pc, next, context, ordered, plan>>

Element(s) == {s[i] : i \in 1..Len(s)}

Required == catalog[skill].required
Optional == catalog[skill].optional

Init ==
    /\ catalog \in Catalogs
    /\ skill \in SkillNames
    /\ pc = "discover"
    /\ next = 0
    /\ context = <<>>
    /\ ordered = <<>>
    /\ plan = <<>>

-----------------------------------------------------------------------------
(* A definition named ..._Mutant is a plausible slip in the one after it.  *)

Readable == \A s \in DOMAIN catalog : catalog[s].readable

\* validate_skill_tools, of every skill there is.
Valid ==
    \A s \in DOMAIN catalog :
        Element(catalog[s].required) \cup Element(catalog[s].optional) \subseteq Registered

\* A file that cannot be parsed raises ValueError, which nobody catches.
DiscoveryRaises ==
    /\ pc = "discover"
    /\ ~Readable
    /\ pc' = "raised"
    /\ UNCHANGED <<catalog, skill, next, context, ordered, plan>>

\* A KeyError selects the fallback, whichever of the two raised it: an unknown
\* tool in any manifest, or an unknown skill.
FallBack ==
    /\ pc = "discover"
    /\ Readable
    /\ ~Valid \/ skill \notin DOMAIN catalog
    /\ plan' = FallbackPlan
    /\ pc' = "fallback"
    /\ UNCHANGED <<catalog, skill, next, context, ordered>>

Discover ==
    /\ pc = "discover"
    /\ Readable
    /\ Valid
    /\ skill \in DOMAIN catalog
    /\ pc' = "context"
    /\ UNCHANGED <<catalog, skill, next, context, ordered, plan>>

-----------------------------------------------------------------------------
(* _read_only_optional_tools.                                              *)

IsContext(t) == t \notin ControlPlane /\ t \notin Gated /\ t \in ContextTools

TakeOptional ==
    /\ pc = "context"
    /\ next < Len(Optional)
    /\ LET t == Optional[next + 1] IN
       context' = IF IsContext(t) THEN Append(context, t) ELSE context
    /\ next' = next + 1
    /\ UNCHANGED <<catalog, skill, pc, ordered, plan>>

ContextDone ==
    /\ pc = "context"
    /\ next = Len(Optional)
    /\ pc' = "required"
    /\ next' = 0
    /\ UNCHANGED <<catalog, skill, context, ordered, plan>>

-----------------------------------------------------------------------------
(* The loop over required_tools.  The first gated tool gets the context    *)
(* tools in front of it and ends the loop.                                 *)

Skipped(t) == t \in ControlPlane

Stops_Mutant(t) == FALSE
Stops(t) == t \in Gated

TakeReadOnly ==
    /\ pc = "required"
    /\ next < Len(Required)
    /\ LET t == Required[next + 1] IN
          /\ ~Stops(t) \/ Skipped(t)
          /\ ordered' = IF Skipped(t) THEN ordered ELSE Append(ordered, t)
    /\ next' = next + 1
    /\ UNCHANGED <<catalog, skill, pc, context, plan>>

BeforeGate_Mutant(t) == <<t>> \o context
BeforeGate(t) == context \o <<t>>

TakeGated ==
    /\ pc = "required"
    /\ next < Len(Required)
    /\ LET t == Required[next + 1] IN
          /\ Stops(t) /\ ~Skipped(t)
          /\ ordered' = ordered \o BeforeGate(t)
    /\ pc' = "dedupe"
    /\ next' = 0
    /\ UNCHANGED <<catalog, skill, context, plan>>

NoGatedTool ==
    /\ pc = "required"
    /\ next = Len(Required)
    /\ ordered' = ordered \o context
    /\ pc' = "dedupe"
    /\ next' = 0
    /\ UNCHANGED <<catalog, skill, context, plan>>

-----------------------------------------------------------------------------
(* _dedupe.                                                                *)

Seen_Mutant(t) == plan # <<>> /\ t = plan[Len(plan)]
Seen(t) == t \in Element(plan)

Dedupe ==
    /\ pc = "dedupe"
    /\ next < Len(ordered)
    /\ LET t == ordered[next + 1] IN
       plan' = IF Seen(t) THEN plan ELSE Append(plan, t)
    /\ next' = next + 1
    /\ UNCHANGED <<catalog, skill, pc, context, ordered>>

DedupeDone ==
    /\ pc = "dedupe"
    /\ next = Len(ordered)
    /\ pc' = "planned"
    /\ UNCHANGED <<catalog, skill, next, context, ordered, plan>>

Next ==
    \/ DiscoveryRaises \/ FallBack \/ Discover
    \/ TakeOptional \/ ContextDone
    \/ TakeReadOnly \/ TakeGated \/ NoGatedTool
    \/ Dedupe \/ DedupeDone

Spec == Init /\ [][Next]_vars

-----------------------------------------------------------------------------
PC == {"discover", "context", "required", "dedupe", "planned", "fallback", "raised"}

TypeOK ==
    /\ catalog \in [DOMAIN catalog -> Manifest]
    /\ skill \in SkillNames
    /\ pc \in PC
    /\ next \in Nat
    /\ context \in Seq(Name)
    /\ ordered \in Seq(Name)
    /\ plan \in Seq(Name)

GatedOnlyLast(s) == \A i \in 1..Len(s) : s[i] \in Gated => i = Len(s)

\* Whatever the manifests say, the plan a run gets names registered tools
\* only, no control-plane tool and no tool twice, and a gated tool only in the
\* last place: the specialist can trust it without checks of its own, and a
\* run pauses once at most (resolve_skill_plan, load_fallback_plan).
PlanIsGoverned ==
    pc \in {"planned", "fallback"} =>
        /\ plan \in Seq(Registered \ ControlPlane)
        /\ GatedOnlyLast(plan)
        /\ Distinct(plan)

\* A plan with a gated tool has every context tool of the manifest before it:
\* no approval is asked for before policy and memory were consulted.
ContextBeforeGate ==
    pc = "planned" =>
        \A i \in 1..Len(plan) : plan[i] \in Gated =>
            \A t \in Element(Optional) : IsContext(t) => t \in Element(SubSeq(plan, 1, i - 1))

-----------------------------------------------------------------------------
(* The plan as a function of the manifest.  A place is <<section, i>>: the *)
(* sections are the required tools before the gate, the optional context   *)
(* tools, and the gate, which is the first gated one of the required tools.*)

Own == {i \in 1..Len(Required) : Required[i] \notin ControlPlane}

Gate == {i \in Own : /\ Required[i] \in Gated
                     /\ \A j \in Own : j < i => Required[j] \notin Gated}

BeforeTheGate == {i \in Own : \A j \in Own : j <= i => Required[j] \notin Gated}

Context == {i \in 1..Len(Optional) : Optional[i] \in ContextTools \ (ControlPlane \cup Gated)}

Places == ({1} \X BeforeTheGate) \cup ({2} \X Context) \cup ({3} \X Gate)

ToolAt(v) == IF v[1] = 2 THEN Optional[v[2]] ELSE Required[v[2]]

Before(v, w) == v[1] < w[1] \/ (v[1] = w[1] /\ v[2] < w[2])

\* The three loops of resolve_skill_plan compute this: the plan has the tools
\* of all places and no others, and of two of its tools the one whose first
\* place comes first comes first.  As it repeats none, this determines it.
PlanFollowsManifest ==
    pc = "planned" =>
        /\ Element(plan) = {ToolAt(v) : v \in Places}
        /\ \A i, j \in 1..Len(plan) : i < j =>
              \E v \in Places :
                  /\ ToolAt(v) = plan[i]
                  /\ \A w \in Places : ToolAt(w) = plan[j] => Before(v, w)

-----------------------------------------------------------------------------
\* What makes the first two invariants inductive: how much of each the loops
\* have established of the list they build.
AllowedTools == Registered \ ControlPlane

FromManifest == pc \in {"context", "required", "dedupe", "planned"}

\* The context tools among the first n optional ones were taken.
Gathered(n) == \A i \in 1..n : IsContext(Optional[i]) => Optional[i] \in Element(context)

ManifestInv ==
    FromManifest =>
        /\ Valid
        /\ skill \in DOMAIN catalog
        /\ IF pc = "context"
           THEN next <= Len(Optional) /\ Gathered(next)
           ELSE Gathered(Len(Optional))

OrderedInv ==
    /\ pc = "discover" => next = 0
    /\ pc \in {"discover", "context"} => ordered = <<>>
    /\ pc = "required" => ordered \in Seq(AllowedTools \ Gated)
    /\ pc \in {"dedupe", "planned"} =>
          /\ ordered \in Seq(AllowedTools)
          /\ GatedOnlyLast(ordered)
          /\ Element(context) \subseteq Element(ordered)

DedupeInv ==
    /\ pc \in {"discover", "context", "required"} => plan = <<>>
    /\ pc \in {"dedupe", "planned"} =>
          /\ next <= Len(ordered)
          /\ \A i \in 1..next : ordered[i] \in Element(plan)
          /\ \A i \in 1..Len(plan) : \E j \in 1..next : plan[i] = ordered[j]
    /\ pc = "planned" => next = Len(ordered)
    /\ plan \in Seq(AllowedTools)
    /\ GatedOnlyLast(plan)
    /\ Distinct(plan)

PlanInv ==
    /\ TypeOK
    /\ context \in Seq(AllowedTools \ Gated)
    /\ ManifestInv
    /\ OrderedInv
    /\ DedupeInv

\* What makes PlanFollowsManifest inductive: each list a loop builds is read
\* off places in their order, and the plan has the tools seen so far in the
\* order in which "ordered" has them first.
Reads(s, list, places, n) ==
    \E at \in [1..Len(s) -> {i \in places : i <= n}] :
        /\ \A k, l \in 1..Len(s) : k < l => at[k] < at[l]
        /\ \A i \in places : i <= n => \E k \in 1..Len(s) : at[k] = i
        /\ \A k \in 1..Len(s) : s[k] = list[at[k]]

NoneGated(n) == \A i \in Own : i <= n => Required[i] \notin Gated

ReadsPlaces(s, places) ==
    \E at \in [1..Len(s) -> places] :
        /\ \A k, l \in 1..Len(s) : k < l => Before(at[k], at[l])
        /\ \A v \in places : \E k \in 1..Len(s) : at[k] = v
        /\ \A k \in 1..Len(s) : s[k] = ToolAt(at[k])

FirstFirst(n) ==
    \A i, j \in 1..Len(plan) : i < j =>
        \E k \in 1..n :
            /\ ordered[k] = plan[i]
            /\ \A l \in 1..n : ordered[l] = plan[j] => k < l

FollowInv ==
    /\ PlanInv
    /\ pc = "discover" => context = <<>>
    /\ pc = "context" => Reads(context, Optional, Context, next)
    /\ pc = "required" =>
          /\ next <= Len(Required)
          /\ Reads(context, Optional, Context, Len(Optional))
          /\ Reads(ordered, Required, Own, next)
          /\ NoneGated(next)
    /\ pc \in {"dedupe", "planned"} => ReadsPlaces(ordered, Places) /\ FirstFirst(next)

=============================================================================
