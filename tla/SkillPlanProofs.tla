-------------------------- MODULE SkillPlanProofs --------------------------
(***************************************************************************)
(* Proofs about SkillPlan for every registry, every skills directory and   *)
(* every skill name that SkillPlanAssumption allows.                       *)
(***************************************************************************)
EXTENDS SkillPlan, TLAPS

\* Appending a tool keeps the elements there were and adds the tool.
LEMMA AppendElements ==
    ASSUME NEW S, NEW s \in Seq(S), NEW t \in S
    PROVE  /\ Append(s, t) \in Seq(S)
           /\ Element(s) \subseteq Element(Append(s, t))
           /\ t \in Element(Append(s, t))
<1>1. /\ Append(s, t) \in Seq(S)
      /\ Len(Append(s, t)) = Len(s) + 1
      /\ \A i \in 1..Len(s) : Append(s, t)[i] = s[i]
      /\ Append(s, t)[Len(s) + 1] = t
  OBVIOUS
<1>2. Element(s) \subseteq Element(Append(s, t))
  <2> SUFFICES ASSUME NEW i \in 1..Len(s) PROVE s[i] \in Element(Append(s, t))
    BY DEF Element
  <2>1. i \in 1..Len(Append(s, t)) /\ Append(s, t)[i] = s[i]  BY <1>1
  <2>2. QED  BY <2>1 DEF Element
<1>3. t \in Element(Append(s, t))  BY <1>1 DEF Element
<1>4. QED  BY <1>1, <1>2, <1>3

\* Concatenation has the elements of both lists.
LEMMA ConcatElements ==
    ASSUME NEW S, NEW s \in Seq(S), NEW u \in Seq(S)
    PROVE  /\ s \o u \in Seq(S)
           /\ Len(s \o u) = Len(s) + Len(u)
           /\ \A i \in 1..Len(s) : (s \o u)[i] = s[i]
           /\ \A i \in 1..Len(u) : (s \o u)[Len(s) + i] = u[i]
           /\ Element(s) \subseteq Element(s \o u)
           /\ Element(u) \subseteq Element(s \o u)
<1>1. /\ s \o u \in Seq(S)
      /\ Len(s \o u) = Len(s) + Len(u)
      /\ \A i \in 1..Len(s) : (s \o u)[i] = s[i]
      /\ \A i \in 1..Len(u) : (s \o u)[Len(s) + i] = u[i]
  OBVIOUS
<1>2. ASSUME NEW i \in 1..Len(s) PROVE s[i] \in Element(s \o u)
  <2>1. i \in 1..Len(s \o u) /\ (s \o u)[i] = s[i]  BY <1>1
  <2>2. QED  BY <2>1 DEF Element
<1>3. ASSUME NEW i \in 1..Len(u) PROVE u[i] \in Element(s \o u)
  <2>1. Len(s) + i \in 1..Len(s \o u) /\ (s \o u)[Len(s) + i] = u[i]  BY <1>1
  <2>2. QED  BY <2>1 DEF Element
<1>4. QED  BY <1>1, <1>2, <1>3 DEF Element

\* What the list of TakeGated holds in each place.
LEMMA GateBehindContext ==
    ASSUME NEW S, NEW s \in Seq(S), NEW c \in Seq(S), NEW t \in S
    PROVE  /\ s \o (c \o <<t>>) \in Seq(S)
           /\ Len(s \o (c \o <<t>>)) = Len(s) + Len(c) + 1
           /\ \A i \in 1..Len(s) : (s \o (c \o <<t>>))[i] = s[i]
           /\ \A i \in 1..Len(c) : (s \o (c \o <<t>>))[Len(s) + i] = c[i]
<1> DEFINE head == c \o <<t>>
<1>1. /\ head \in Seq(S)
      /\ Len(head) = Len(c) + 1
      /\ \A i \in 1..Len(c) : head[i] = c[i]
      /\ Len(c) \in Nat /\ Len(s) \in Nat
  OBVIOUS
<1> HIDE DEF head
<1>2. /\ s \o head \in Seq(S)
      /\ Len(s \o head) = Len(s) + Len(head)
      /\ \A i \in 1..Len(s) : (s \o head)[i] = s[i]
      /\ \A i \in 1..Len(head) : (s \o head)[Len(s) + i] = head[i]
  BY <1>1
<1>3. Len(s \o head) = Len(s) + Len(c) + 1  BY <1>1, <1>2
<1>4. ASSUME NEW i \in 1..Len(c) PROVE (s \o head)[Len(s) + i] = c[i]
  BY <1>1, <1>2
<1>5. QED  BY <1>2, <1>3, <1>4 DEF head

\* The manifest of a skill that exists is a manifest.
LEMMA ManifestTyped ==
    ASSUME TypeOK, skill \in DOMAIN catalog
    PROVE  Required \in Seq(Name) /\ Optional \in Seq(Name)
BY DEF TypeOK, Manifest, Required, Optional

\* A tool of a valid manifest is registered.
LEMMA ManifestRegistered ==
    ASSUME TypeOK, ManifestInv, FromManifest
    PROVE  /\ \A i \in 1..Len(Required) : Required[i] \in Registered
           /\ \A i \in 1..Len(Optional) : Optional[i] \in Registered
BY DEF ManifestInv, Valid, Required, Optional, Element

LEMMA InitPlanInv == Init => PlanInv
<1> SUFFICES ASSUME Init PROVE PlanInv  OBVIOUS
<1> USE SkillPlanAssumption DEF Init
<1>1. TypeOK  BY DEF TypeOK, PC
<1>2. ManifestInv  BY DEF ManifestInv, FromManifest
<1>3. OrderedInv  BY DEF OrderedInv
<1>4. DedupeInv  BY DEF DedupeInv, GatedOnlyLast, Distinct
<1>5. QED  BY <1>1, <1>2, <1>3, <1>4 DEF PlanInv

\* Discovery builds no list; the fallback is governed by assumption.
LEMMA DiscoverKeeps ==
    PlanInv /\ (DiscoveryRaises \/ FallBack \/ Discover) => PlanInv'
<1> SUFFICES ASSUME PlanInv, DiscoveryRaises \/ FallBack \/ Discover PROVE PlanInv'
  OBVIOUS
<1> USE SkillPlanAssumption DEF PlanInv
<1>1. CASE DiscoveryRaises
  BY <1>1 DEF DiscoveryRaises, TypeOK, PC, ManifestInv, FromManifest, OrderedInv, DedupeInv,
              GatedOnlyLast, Distinct
<1>2. CASE FallBack
  <2> USE <1>2 DEF FallBack
  <2>1. FallbackPlan \in Seq(AllowedTools) /\ FallbackPlan \in Seq(Name)
    BY DEF AllowedTools
  <2>2. GatedOnlyLast(FallbackPlan)  BY DEF GatedOnlyLast
  <2>3. TypeOK'  BY <2>1 DEF TypeOK, PC
  <2>4. (ManifestInv /\ OrderedInv)'  BY DEF ManifestInv, FromManifest, OrderedInv
  <2>5. DedupeInv'  BY <2>1, <2>2 DEF DedupeInv, GatedOnlyLast, Distinct
  <2>6. QED  BY <2>3, <2>4, <2>5
<1>3. CASE Discover
  <2> USE <1>3 DEF Discover
  <2>1. TypeOK'  BY DEF TypeOK, PC
  <2>2. ManifestInv'
    BY DEF ManifestInv, FromManifest, Valid, Gathered, Optional, OrderedInv, TypeOK, Manifest
  <2>3. (OrderedInv /\ DedupeInv)'  BY DEF OrderedInv, DedupeInv, GatedOnlyLast, Distinct
  <2>4. QED  BY <2>1, <2>2, <2>3
<1>4. QED  BY <1>1, <1>2, <1>3

\* _read_only_optional_tools collects ungated, registered tools.
LEMMA ContextKeeps ==
    PlanInv /\ (TakeOptional \/ ContextDone) => PlanInv'
<1> SUFFICES ASSUME PlanInv, TakeOptional \/ ContextDone PROVE PlanInv'
  OBVIOUS
<1> USE SkillPlanAssumption DEF PlanInv
<1>0. FromManifest /\ skill \in DOMAIN catalog
  BY DEF TakeOptional, ContextDone, FromManifest, ManifestInv
<1>t. Optional \in Seq(Name) /\ Required \in Seq(Name)  BY <1>0, ManifestTyped
<1>r. \A i \in 1..Len(Optional) : Optional[i] \in Registered
  BY <1>0, ManifestRegistered
<1>1. CASE TakeOptional
  <2> USE <1>1 DEF TakeOptional
  <2> DEFINE t == Optional[next + 1]
  <2>1. next \in Nat /\ next + 1 \in 1..Len(Optional) /\ Gathered(next)
    BY <1>t DEF TypeOK, ManifestInv, FromManifest
  <2>2. t \in Registered /\ t \in Name  BY <2>1, <1>r
  <2>3. /\ context' \in Seq(AllowedTools \ Gated)
        /\ context' \in Seq(Name)
        /\ Element(context) \subseteq Element(context')
        /\ IsContext(t) => t \in Element(context')
    <3>1. CASE IsContext(t)
      <4>1. t \in AllowedTools \ Gated  BY <3>1, <2>2 DEF IsContext, AllowedTools
      <4>2. context' = Append(context, t)  BY <3>1
      <4>3. context \in Seq(Name)  BY DEF TypeOK
      <4>4. QED  BY <4>1, <4>2, <4>3, <2>2, AppendElements
    <3>2. CASE ~IsContext(t)  BY <3>2 DEF TypeOK
    <3>3. QED  BY <3>1, <3>2
  <2>4. TypeOK'  BY <2>1, <2>3 DEF TypeOK, PC
  <2>5. ManifestInv'
    <3>1. Gathered(next)'
      <4> SUFFICES ASSUME NEW i \in 1..(next + 1), IsContext(Optional[i])
                   PROVE  Optional[i] \in Element(context')
        BY DEF Gathered, Optional, IsContext, Element
      <4>1. CASE i = next + 1  BY <4>1, <2>3
      <4>2. CASE i # next + 1
        <5>1. i \in 1..next  BY <4>2, <2>1
        <5>2. QED  BY <5>1, <2>1, <2>3 DEF Gathered
      <4>3. QED  BY <4>1, <4>2
    <3>2. Valid' /\ (skill \in DOMAIN catalog)'
      BY <1>0 DEF ManifestInv, Valid
    <3>3. next' <= Len(Optional')  BY <2>1, <1>t DEF Optional
    <3>4. QED  BY <3>1, <3>2, <3>3 DEF ManifestInv, FromManifest
  <2>6. (OrderedInv /\ DedupeInv)'  BY DEF OrderedInv, DedupeInv, GatedOnlyLast, Distinct
  <2>7. QED  BY <2>3, <2>4, <2>5, <2>6
<1>2. CASE ContextDone
  <2> USE <1>2 DEF ContextDone
  <2>1. TypeOK'  BY DEF TypeOK, PC
  <2>2. ManifestInv'
    <3>1. Gathered(Len(Optional))  BY DEF ManifestInv, FromManifest
    <3>2. Gathered(Len(Optional))'  BY <3>1 DEF Gathered, Optional, IsContext
    <3>3. QED  BY <1>0, <3>2 DEF ManifestInv, FromManifest, Valid, Optional
  <2>3. OrderedInv'  BY DEF OrderedInv
  <2>4. DedupeInv'  BY DEF DedupeInv, GatedOnlyLast, Distinct
  <2>5. QED  BY <2>1, <2>2, <2>3, <2>4
<1>3. QED  BY <1>1, <1>2

\* A step of a later loop keeps what discovery and the context loop found.
LEMMA ManifestInvStays ==
    ASSUME PlanInv, pc \in {"required", "dedupe"}, pc' \in {"required", "dedupe", "planned"},
           UNCHANGED <<catalog, skill, context>>
    PROVE  ManifestInv'
<1>1. Gathered(Len(Optional))  BY DEF PlanInv, ManifestInv, FromManifest
<1>2. Gathered(Len(Optional))'  BY <1>1 DEF Gathered, Optional, IsContext, Element
<1>3. Valid' /\ (skill \in DOMAIN catalog)'
  BY DEF PlanInv, ManifestInv, FromManifest, Valid, Element
<1>4. QED  BY <1>2, <1>3 DEF ManifestInv, FromManifest

\* The loop over required_tools stops at the first gated tool, behind the
\* context tools, and takes no other gated tool.
LEMMA RequiredKeeps ==
    PlanInv /\ (TakeReadOnly \/ TakeGated \/ NoGatedTool) => PlanInv'
<1> SUFFICES ASSUME PlanInv, TakeReadOnly \/ TakeGated \/ NoGatedTool PROVE PlanInv'
  OBVIOUS
<1> USE SkillPlanAssumption DEF PlanInv
<1>p. pc = "required" /\ UNCHANGED <<catalog, skill, context, plan>>
  BY DEF TakeReadOnly, TakeGated, NoGatedTool
<1>0. FromManifest /\ skill \in DOMAIN catalog
  BY <1>p DEF FromManifest, ManifestInv
<1>t. Required \in Seq(Name)  BY <1>0, ManifestTyped
<1>r. \A i \in 1..Len(Required) : Required[i] \in Registered
  BY <1>0, ManifestRegistered
<1>o. /\ ordered \in Seq(AllowedTools \ Gated)
      /\ context \in Seq(AllowedTools \ Gated)
      /\ plan = <<>>
  BY <1>p DEF OrderedInv, DedupeInv
<1>s. AllowedTools \subseteq Name  BY DEF AllowedTools
<1>1. CASE TakeReadOnly
  <2> USE <1>1 DEF TakeReadOnly
  <2> DEFINE t == Required[next + 1]
  <2>1. next \in Nat /\ next + 1 \in 1..Len(Required)  BY <1>t DEF TypeOK
  <2>2. t \in Registered  BY <2>1, <1>r
  <2>3. ordered' \in Seq(AllowedTools \ Gated)
    <3>1. CASE Skipped(t)  BY <3>1, <1>o
    <3>2. CASE ~Skipped(t)
      <4>1. t \in AllowedTools \ Gated  BY <3>2, <2>2 DEF Skipped, Stops, AllowedTools
      <4>2. QED  BY <3>2, <4>1, <1>o
    <3>3. QED  BY <3>1, <3>2
  <2>4. ordered' \in Seq(Name)  BY <2>3, <1>s
  <2>5. TypeOK'  BY <2>1, <2>4 DEF TypeOK, PC
  <2>6. ManifestInv'  BY <1>p, ManifestInvStays
  <2>7. (OrderedInv /\ DedupeInv)'
    BY <2>3 DEF OrderedInv, DedupeInv, GatedOnlyLast, Distinct
  <2>8. QED  BY <2>5, <2>6, <2>7, <1>p
<1>2. CASE TakeGated
  <2> USE <1>2 DEF TakeGated
  <2> DEFINE t == Required[next + 1]
  <2>1. next \in Nat /\ next + 1 \in 1..Len(Required)  BY <1>t DEF TypeOK
  <2>2. t \in AllowedTools  BY <2>1, <1>r DEF Skipped, AllowedTools
  <2>4. ordered' = ordered \o (context \o <<t>>)  BY DEF BeforeGate
  <2>5. /\ ordered' \in Seq(AllowedTools)
        /\ Len(ordered') = Len(ordered) + Len(context) + 1
        /\ \A i \in 1..Len(ordered) : ordered'[i] = ordered[i]
        /\ \A i \in 1..Len(context) : ordered'[Len(ordered) + i] = context[i]
    <3>1. ordered \in Seq(AllowedTools) /\ context \in Seq(AllowedTools)  BY <1>o
    <3> HIDE DEF t
    <3>2. QED  BY <2>2, <2>4, <3>1, GateBehindContext
  <2>6. GatedOnlyLast(ordered')
    <3> SUFFICES ASSUME NEW i \in 1..(Len(ordered) + Len(context))
                 PROVE  ordered'[i] \notin Gated
      BY <2>5, <1>o DEF GatedOnlyLast
    <3>1. CASE i <= Len(ordered)
      <4>1. i \in 1..Len(ordered)  BY <3>1, <1>o
      <4>2. ordered'[i] = ordered[i]  BY <4>1, <2>5
      <4>3. ordered[i] \notin Gated  BY <4>1, <1>o
      <4>4. QED  BY <4>2, <4>3
    <3>2. CASE i > Len(ordered)
      <4>1. PICK k \in 1..Len(context) : i = Len(ordered) + k
        <5>1. i - Len(ordered) \in 1..Len(context)  BY <3>2, <1>o
        <5>2. i = Len(ordered) + (i - Len(ordered))  BY <1>o
        <5>3. QED  BY <5>1, <5>2
      <4>2. ordered'[i] = context[k]  BY <4>1, <2>5
      <4>3. QED  BY <4>2, <1>o
    <3>3. i \in Int /\ Len(ordered) \in Int  BY <1>o
    <3>4. i <= Len(ordered) \/ i > Len(ordered)  BY <3>3
    <3>5. QED  BY <3>1, <3>2, <3>4
  <2>7. ordered' \in Seq(Name)  BY <2>5, <1>s
  <2>8. TypeOK'  BY <2>7 DEF TypeOK, PC
  <2>9. ManifestInv'  BY <1>p, ManifestInvStays
  <2>10. OrderedInv'
    <3>1. (Element(context) \subseteq Element(ordered))'
      <4> SUFFICES ASSUME NEW k \in 1..Len(context)
                   PROVE  context[k] \in Element(ordered')
        BY DEF Element
      <4>1. Len(ordered) + k \in 1..Len(ordered')  BY <2>5, <1>o
      <4>2. QED  BY <4>1, <2>5 DEF Element
    <3>2. QED  BY <3>1, <2>5, <2>6 DEF OrderedInv, GatedOnlyLast
  <2>11. DedupeInv'
    BY <1>o, <2>5 DEF DedupeInv, GatedOnlyLast, Distinct
  <2>12. QED  BY <2>8, <2>9, <2>10, <2>11, <1>p
<1>3. CASE NoGatedTool
  <2> USE <1>3 DEF NoGatedTool
  <2>1. /\ ordered' \in Seq(AllowedTools \ Gated)
        /\ Element(context) \subseteq Element(ordered')
    BY <1>o, ConcatElements
  <2>2. ordered' \in Seq(Name) /\ ordered' \in Seq(AllowedTools)  BY <2>1, <1>s
  <2>3. GatedOnlyLast(ordered')  BY <2>1 DEF GatedOnlyLast
  <2>4. TypeOK'  BY <2>2 DEF TypeOK, PC
  <2>5. ManifestInv'  BY <1>p, ManifestInvStays
  <2>6. OrderedInv'
    <3>1. (Element(context) \subseteq Element(ordered))'  BY <2>1 DEF Element
    <3>2. QED  BY <3>1, <2>2, <2>3 DEF OrderedInv, GatedOnlyLast
  <2>7. DedupeInv'  BY <1>o, <2>2 DEF DedupeInv, GatedOnlyLast, Distinct
  <2>8. QED  BY <2>4, <2>5, <2>6, <2>7, <1>p
<1>4. QED  BY <1>1, <1>2, <1>3

\* _dedupe keeps first occurrences: a gated tool stays last because it is new
\* only when the last element of the list is taken.
LEMMA DedupeKeeps ==
    PlanInv /\ (Dedupe \/ DedupeDone) => PlanInv'
<1> SUFFICES ASSUME PlanInv, Dedupe \/ DedupeDone PROVE PlanInv'
  OBVIOUS
<1> USE SkillPlanAssumption DEF PlanInv
<1>p. pc = "dedupe" /\ UNCHANGED <<catalog, skill, context, ordered>>
  BY DEF Dedupe, DedupeDone
<1>o. /\ ordered \in Seq(AllowedTools) /\ plan \in Seq(AllowedTools)
      /\ GatedOnlyLast(ordered) /\ GatedOnlyLast(plan) /\ Distinct(plan)
      /\ next \in Nat /\ next <= Len(ordered)
      /\ \A i \in 1..next : ordered[i] \in Element(plan)
      /\ \A i \in 1..Len(plan) : \E j \in 1..next : plan[i] = ordered[j]
  BY <1>p DEF OrderedInv, DedupeInv, TypeOK
<1>s. AllowedTools \subseteq Name  BY DEF AllowedTools
<1>m. ManifestInv'
  <2>1. pc' \in {"dedupe", "planned"}  BY <1>p DEF Dedupe, DedupeDone
  <2>2. QED  BY <2>1, <1>p, ManifestInvStays
<1>1. CASE Dedupe
  <2> USE <1>1 DEF Dedupe
  <2> DEFINE t == ordered[next + 1]
  <2>1. next + 1 \in 1..Len(ordered) /\ t \in AllowedTools  BY <1>o
  <2>2. OrderedInv'  BY <1>p DEF OrderedInv, GatedOnlyLast, Element
  <2>3. CASE Seen(t)
    <3>1. plan' = plan /\ t \in Element(plan)  BY <2>3 DEF Seen
    <3>2. TypeOK'  BY <3>1, <1>p, <1>o DEF TypeOK, PC
    <3>3. \A i \in 1..(next + 1) : ordered[i] \in Element(plan)
      BY <3>1, <1>o
    <3>4. \A i \in 1..Len(plan) : \E j \in 1..(next + 1) : plan[i] = ordered[j]
      BY <1>o
    <3>5. DedupeInv'
      BY <3>1, <3>3, <3>4, <2>1, <1>p, <1>o DEF DedupeInv, GatedOnlyLast, Distinct, Element
    <3>6. QED  BY <3>2, <3>5, <2>2, <1>m, <1>p
  <2>4. CASE ~Seen(t)
    <3> DEFINE q == Append(plan, t)
    <3>1. plan' = q /\ t \notin Element(plan)  BY <2>4 DEF Seen
    <3>2. /\ q \in Seq(AllowedTools)
          /\ Element(plan) \subseteq Element(q)
          /\ t \in Element(q)
      BY <1>o, <2>1, AppendElements
    <3>3. /\ Len(q) = Len(plan) + 1
          /\ \A i \in 1..Len(plan) : q[i] = plan[i]
          /\ q[Len(plan) + 1] = t
          /\ Len(plan) \in Nat
      BY <1>o
    <3>4. TypeOK'  BY <3>1, <3>2, <1>s, <1>p, <1>o DEF TypeOK, PC
    <3>5. \A i \in 1..(next + 1) : ordered[i] \in Element(q)
      BY <3>2, <1>o
    <3>6. \A i \in 1..Len(q) : \E j \in 1..(next + 1) : q[i] = ordered[j]
      <4> SUFFICES ASSUME NEW i \in 1..Len(q)
                   PROVE  \E j \in 1..(next + 1) : q[i] = ordered[j]
        OBVIOUS
      <4>1. CASE i = Len(plan) + 1
        <5>1. next + 1 \in 1..(next + 1)  BY <1>o
        <5>2. QED  BY <4>1, <5>1, <3>3
      <4>2. CASE i \in 1..Len(plan)
        <5>1. PICK j \in 1..next : plan[i] = ordered[j]  BY <4>2, <1>o
        <5>2. j \in 1..(next + 1)  BY <1>o
        <5>3. QED  BY <4>2, <5>1, <5>2, <3>3
      <4>3. QED  BY <4>1, <4>2, <3>3
    <3>7. GatedOnlyLast(q)
      <4> SUFFICES ASSUME NEW i \in 1..Len(plan), plan[i] \in Gated PROVE FALSE
        BY <3>3 DEF GatedOnlyLast
      <4>1. PICK j \in 1..next : plan[i] = ordered[j]  BY <1>o
      <4>2. j \in 1..Len(ordered) /\ j # Len(ordered)  BY <2>1, <1>o
      <4>3. QED  BY <4>1, <4>2, <1>o DEF GatedOnlyLast
    <3>8. Distinct(q)
      <4>1. \A i \in 1..Len(plan) : plan[i] # t  BY <3>1 DEF Element
      <4>2. QED  BY <4>1, <3>3, <1>o DEF Distinct
    <3>9. DedupeInv'
      <4> HIDE DEF q
      <4>1. next' = next + 1 /\ pc' = "dedupe" /\ ordered' = ordered  BY <1>p
      <4>2. (\A i \in 1..next : ordered[i] \in Element(plan))'
        BY <4>1, <3>1, <3>5 DEF Element
      <4>3. (\A i \in 1..Len(plan) : \E j \in 1..next : plan[i] = ordered[j])'
        BY <4>1, <3>1, <3>6
      <4>4. (plan \in Seq(AllowedTools) /\ GatedOnlyLast(plan) /\ Distinct(plan))'
        BY <3>1, <3>2, <3>7, <3>8 DEF GatedOnlyLast, Distinct
      <4>5. next' <= Len(ordered')  BY <4>1, <2>1
      <4>6. QED  BY <4>1, <4>2, <4>3, <4>4, <4>5 DEF DedupeInv
    <3>10. QED  BY <3>4, <3>9, <2>2, <1>m, <1>p
  <2>5. QED  BY <2>3, <2>4
<1>2. CASE DedupeDone
  <2> USE <1>2 DEF DedupeDone
  <2>1. TypeOK'  BY DEF TypeOK, PC
  <2>2. OrderedInv'  BY <1>p DEF OrderedInv, GatedOnlyLast, Element
  <2>3. DedupeInv'  BY <1>o, <1>p DEF DedupeInv, GatedOnlyLast, Distinct, Element
  <2>4. QED  BY <2>1, <2>2, <2>3, <1>m, <1>p
<1>3. QED  BY <1>1, <1>2

LEMMA StutterKeeps == PlanInv /\ UNCHANGED vars => PlanInv'
<1> SUFFICES ASSUME PlanInv, UNCHANGED vars PROVE PlanInv'  OBVIOUS
<1> USE DEF vars, PlanInv
<1>1. TypeOK'  BY DEF TypeOK
<1>2. ManifestInv'
  <2>1. Valid' = Valid /\ FromManifest' = FromManifest
    BY DEF Valid, FromManifest, Element
  <2>2. \A n : Gathered(n)' = Gathered(n)  BY DEF Gathered, Optional, IsContext, Element
  <2>3. Len(Optional)' = Len(Optional)  BY DEF Optional
  <2>4. QED  BY <2>1, <2>2, <2>3 DEF ManifestInv
<1>3. OrderedInv'  BY DEF OrderedInv, GatedOnlyLast, Element
<1>4. DedupeInv'  BY DEF DedupeInv, GatedOnlyLast, Distinct, Element
<1>5. QED  BY <1>1, <1>2, <1>3, <1>4

LEMMA PlanInvStep == PlanInv /\ [Next]_vars => PlanInv'
BY DiscoverKeeps, ContextKeeps, RequiredKeeps, DedupeKeeps, StutterKeeps DEF Next

\* Every loop of the planner keeps what the loops before it established.
THEOREM PlanInvHolds == Spec => []PlanInv
BY InitPlanInv, PlanInvStep, PTL DEF Spec

\* A plan is registered, free of repetitions and gated in its last place only,
\* whatever the manifests say: what RunLoop assumes of Plans.
THEOREM PlansAreGoverned == Spec => []PlanIsGoverned
<1>1. PlanInv => PlanIsGoverned
  BY DEF PlanInv, DedupeInv, PlanIsGoverned, AllowedTools
<1>2. QED  BY PlanInvHolds, <1>1, PTL

\* No approval is asked for before every context tool of the manifest ran.
THEOREM ContextComesFirst == Spec => []ContextBeforeGate
<1>1. PlanInv => ContextBeforeGate
  <2> SUFFICES ASSUME PlanInv, pc = "planned",
                      NEW i \in 1..Len(plan), plan[i] \in Gated,
                      NEW t \in Element(Optional), IsContext(t)
               PROVE  t \in Element(SubSeq(plan, 1, i - 1))
    BY DEF ContextBeforeGate
  <2> USE DEF PlanInv
  <2>1. i = Len(plan) /\ plan \in Seq(AllowedTools)  BY DEF DedupeInv, GatedOnlyLast
  <2>2. t \in Element(context)
    BY DEF ManifestInv, FromManifest, Gathered, Element
  <2>3. t \notin Gated  BY DEF IsContext
  <2>4. PICK k \in 1..Len(ordered) : t = ordered[k]
    BY <2>2 DEF OrderedInv, Element
  <2>5. ordered[k] \in Element(plan)  BY DEF DedupeInv
  <2>6. PICK j \in 1..Len(plan) : plan[j] = t  BY <2>4, <2>5 DEF Element
  <2>7. j \in 1..(i - 1)  BY <2>1, <2>3, <2>6
  <2>8. /\ Len(SubSeq(plan, 1, i - 1)) = i - 1
        /\ SubSeq(plan, 1, i - 1)[j] = plan[j]
    BY <2>1, <2>7
  <2>9. QED  BY <2>6, <2>7, <2>8 DEF Element
<1>2. QED  BY PlanInvHolds, <1>1, PTL

-----------------------------------------------------------------------------
(* The plan follows from the manifest.                                     *)

LEMMA NothingRead ==
    ASSUME NEW S, NEW list, NEW places, places \subseteq Nat \ {0}
    PROVE  Reads(<<>>, list, places, 0)
<1> DEFINE at == [k \in {} |-> k]
<1>1. at \in [1..Len(<<>>) -> {i \in places : i <= 0}]  OBVIOUS
<1>2. \A i \in places : ~(i <= 0)  OBVIOUS
<1>3. 1..Len(<<>>) = {}  OBVIOUS
<1> HIDE DEF at
<1>4. QED  BY <1>1, <1>2, <1>3 DEF Reads

\* A loop passes over an element that is not at one of the places.
LEMMA PassesOver ==
    ASSUME NEW s, NEW list, NEW places, places \subseteq Nat, NEW n \in Nat,
           Reads(s, list, places, n), n + 1 \notin places
    PROVE  Reads(s, list, places, n + 1)
<1>2. \A i \in places : i <= n + 1 => i <= n
  <2> TAKE i \in places
  <2>1. i \in Nat /\ i # n + 1  OBVIOUS
  <2>2. QED  BY <2>1
<1>0. \A i \in places : i <= n => i <= n + 1  OBVIOUS
<1>1. {i \in places : i <= n + 1} = {i \in places : i <= n}  BY <1>0, <1>2
<1>3. QED  BY <1>1, <1>2 DEF Reads

\* A loop appends an element that is.
LEMMA ReadsOne ==
    ASSUME NEW S, NEW s \in Seq(S), NEW list, NEW places, places \subseteq Nat, NEW n \in Nat,
           Reads(s, list, places, n), n + 1 \in places, list[n + 1] \in S
    PROVE  Reads(Append(s, list[n + 1]), list, places, n + 1)
<1> DEFINE q == Append(s, list[n + 1])
           L == Len(s)
<1>1. /\ L \in Nat /\ Len(q) = L + 1
      /\ \A i \in 1..L : q[i] = s[i]
      /\ q[L + 1] = list[n + 1]
  OBVIOUS
<1>2. PICK at \in [1..L -> {i \in places : i <= n}] :
          /\ \A k, l \in 1..L : k < l => at[k] < at[l]
          /\ \A i \in places : i <= n => \E k \in 1..L : at[k] = i
          /\ \A k \in 1..L : s[k] = list[at[k]]
  BY DEF Reads
<1> DEFINE to == [k \in 1..(L + 1) |-> IF k = L + 1 THEN n + 1 ELSE at[k]]
<1> HIDE DEF q, L
<1>3. /\ to[L + 1] = n + 1
      /\ \A k \in 1..L : k \in 1..(L + 1) /\ to[k] = at[k] /\ at[k] \in places /\ at[k] <= n
      /\ to \in [1..(L + 1) -> {i \in places : i <= n + 1}]
  <2>1. L + 1 \in 1..(L + 1) /\ n + 1 \in {i \in places : i <= n + 1}  BY <1>1
  <2>2. ASSUME NEW k \in 1..L
        PROVE  /\ k \in 1..(L + 1) /\ k # L + 1 /\ at[k] \in places /\ at[k] <= n
               /\ at[k] \in {i \in places : i <= n + 1}
    <3>1. at[k] \in places /\ at[k] <= n /\ at[k] \in Nat  OBVIOUS
    <3>2. QED  BY <1>1, <3>1
  <2>3. \A k \in 1..(L + 1) : k = L + 1 \/ k \in 1..L  BY <1>1
  <2>4. to \in [1..(L + 1) -> {i \in places : i <= n + 1}]  BY <2>1, <2>2, <2>3
  <2>5. QED  BY <2>1, <2>2, <2>4
<1> HIDE DEF to
<1>4. \A k \in 1..(L + 1) : k = L + 1 \/ k \in 1..L  BY <1>1
<1>5. ASSUME NEW k \in 1..(L + 1), NEW l \in 1..(L + 1), k < l PROVE to[k] < to[l]
  <2>1. k \in 1..L  BY <1>1, <1>5
  <2>2. to[k] = at[k] /\ at[k] <= n /\ at[k] \in Nat  BY <1>3, <2>1
  <2>3. CASE l = L + 1  BY <2>2, <2>3, <1>3
  <2>4. CASE l \in 1..L  BY <2>1, <2>2, <2>4, <1>2, <1>3, <1>5
  <2>5. QED  BY <2>3, <2>4, <1>4
<1>6. ASSUME NEW i \in places, i <= n + 1 PROVE \E k \in 1..(L + 1) : to[k] = i
  <2>1. CASE i = n + 1
    <3>1. L + 1 \in 1..(L + 1)  BY <1>1
    <3>2. QED  BY <2>1, <3>1, <1>3
  <2>2. CASE i # n + 1
    <3>1. i <= n  BY <2>2, <1>6
    <3>2. PICK k \in 1..L : at[k] = i  BY <3>1, <1>2
    <3>3. QED  BY <3>2, <1>3
  <2>3. QED  BY <2>1, <2>2
<1>7. ASSUME NEW k \in 1..(L + 1) PROVE q[k] = list[to[k]]
  BY <1>1, <1>2, <1>3, <1>4
<1>8. Reads(q, list, places, n + 1)
  <2>1. 1..(L + 1) = 1..Len(q)  BY <1>1
  <2>2. \E f \in [1..(L + 1) -> {i \in places : i <= n + 1}] :
            /\ \A k, l \in 1..(L + 1) : k < l => f[k] < f[l]
            /\ \A i \in places : i <= n + 1 => \E k \in 1..(L + 1) : f[k] = i
            /\ \A k \in 1..(L + 1) : q[k] = list[f[k]]
    BY <1>3, <1>5, <1>6, <1>7
  <2>3. QED  BY ONLY <2>1, <2>2 DEF Reads
<1>9. QED  BY <1>8 DEF q

\* In what place of which list the tools of two lists put together are.
LEMMA TwoSections ==
    ASSUME NEW S, NEW s \in Seq(S), NEW c \in Seq(S), NEW n \in Nat, NEW m \in Nat,
           Own \subseteq Nat, Context \subseteq Nat,
           Reads(s, Required, Own, n), Reads(c, Optional, Context, m),
           \A i \in Context : i <= m
    PROVE  ReadsPlaces(s \o c, ({1} \X {i \in Own : i <= n}) \cup ({2} \X Context))
<1> DEFINE q == s \o c
           L == Len(s)
           M == Len(c)
           own == {i \in Own : i <= n}
           P == ({1} \X own) \cup ({2} \X Context)
<1>1. /\ L \in Nat /\ M \in Nat /\ Len(q) = L + M
      /\ \A k \in 1..L : q[k] = s[k]
      /\ \A k \in 1..M : q[L + k] = c[k]
  OBVIOUS
<1>2. PICK a \in [1..L -> own] :
          /\ \A k, l \in 1..L : k < l => a[k] < a[l]
          /\ \A i \in own : \E k \in 1..L : a[k] = i
          /\ \A k \in 1..L : s[k] = Required[a[k]]
  BY DEF Reads
<1>3. PICK b \in [1..M -> Context] :
          /\ \A k, l \in 1..M : k < l => b[k] < b[l]
          /\ \A i \in Context : \E k \in 1..M : b[k] = i
          /\ \A k \in 1..M : c[k] = Optional[b[k]]
  <2>1. {i \in Context : i <= m} = Context  OBVIOUS
  <2>2. QED  BY <2>1 DEF Reads
<1> DEFINE at == [k \in 1..(L + M) |-> IF k <= L THEN <<1, a[k]>> ELSE <<2, b[k - L]>>]
<1> HIDE DEF q, L, M
<1>4. ASSUME NEW k \in 1..L
      PROVE  /\ k \in 1..(L + M) /\ at[k] = <<1, a[k]>> /\ at[k] \in P
             /\ at[k][1] = 1 /\ at[k][2] = a[k] /\ a[k] \in Nat
  <2>1. k \in 1..(L + M) /\ k <= L  BY <1>1
  <2>2. at[k] = <<1, a[k]>>  BY <2>1
  <2>3. a[k] \in own  BY <1>2
  <2>4. QED  BY <2>1, <2>2, <2>3
<1>5. ASSUME NEW k \in 1..M
      PROVE  /\ L + k \in 1..(L + M) /\ at[L + k] = <<2, b[k]>> /\ at[L + k] \in P
             /\ at[L + k][1] = 2 /\ at[L + k][2] = b[k] /\ b[k] \in Nat
  <2>1. L + k \in 1..(L + M) /\ ~(L + k <= L) /\ (L + k) - L = k  BY <1>1
  <2>2. at[L + k] = <<2, b[(L + k) - L]>>  BY <2>1
  <2>3. b[k] \in Context  BY <1>3
  <2>4. QED  BY <2>1, <2>2, <2>3
<1>6. ASSUME NEW k \in 1..(L + M) PROVE k \in 1..L \/ \E j \in 1..M : k = L + j
  <2>1. CASE k <= L  BY <2>1, <1>1
  <2>2. CASE ~(k <= L)
    <3>1. k - L \in 1..M /\ k = L + (k - L)  BY <2>2, <1>1
    <3>2. QED  BY <3>1
  <2>3. QED  BY <2>1, <2>2
<1>7. at \in [1..(L + M) -> P]
  <2>1. ASSUME NEW k \in 1..(L + M) PROVE at[k] \in P
    <3> HIDE DEF at, P
    <3>1. QED  BY <1>4, <1>5, <1>6
  <2>2. QED  BY <2>1
<1> HIDE DEF at, P
<1>8. ASSUME NEW k \in 1..(L + M), NEW l \in 1..(L + M), k < l PROVE Before(at[k], at[l])
  <2>1. CASE k \in 1..L /\ l \in 1..L
    <3>1. a[k] < a[l]  BY <2>1, <1>2, <1>8
    <3>2. QED  BY <3>1, <2>1, <1>4 DEF Before
  <2>2. CASE k \in 1..L /\ l \notin 1..L
    <3>1. PICK j \in 1..M : l = L + j  BY <2>2, <1>6
    <3>2. at[k][1] = 1 /\ at[l][1] = 2  BY <3>1, <2>2, <1>4, <1>5
    <3>3. QED  BY <3>2 DEF Before
  <2>3. CASE k \notin 1..L
    <3>1. PICK i \in 1..M : k = L + i  BY <2>3, <1>6
    <3>2. l \notin 1..L  BY <3>1, <1>8, <1>1
    <3>3. PICK j \in 1..M : l = L + j  BY <3>2, <1>6
    <3>4. i < j  BY <3>1, <3>3, <1>8, <1>1
    <3>5. b[i] < b[j]  BY <3>4, <1>3
    <3>6. /\ at[k][1] = 2 /\ at[l][1] = 2
          /\ at[k][2] = b[i] /\ at[l][2] = b[j]
      BY <3>1, <3>3, <1>5
    <3>7. QED  BY <3>5, <3>6 DEF Before
  <2>4. QED  BY <2>1, <2>2, <2>3
<1>9. ASSUME NEW v \in P PROVE \E k \in 1..(L + M) : at[k] = v
  <2>1. CASE v \in {1} \X own
    <3>0. v[2] \in own /\ v = <<1, v[2]>>
      <4> HIDE DEF own
      <4>1. QED  BY <2>1
    <3>1. PICK i \in own : v = <<1, i>>  BY <3>0
    <3>2. PICK k \in 1..L : a[k] = i  BY <1>2
    <3>3. QED  BY <3>1, <3>2, <1>4
  <2>2. CASE v \in {2} \X Context
    <3>0. v[2] \in Context /\ v = <<2, v[2]>>
      <4>1. QED  BY <2>2
    <3>1. PICK i \in Context : v = <<2, i>>  BY <3>0
    <3>2. PICK k \in 1..M : b[k] = i  BY <1>3
    <3>3. QED  BY <3>1, <3>2, <1>5
  <2>3. QED  BY <2>1, <2>2 DEF P
<1>10. ASSUME NEW k \in 1..(L + M) PROVE q[k] = ToolAt(at[k])
  <2>1. CASE k \in 1..L
    <3>1. q[k] = Required[a[k]]  BY <2>1, <1>1, <1>2
    <3>2. QED  BY <3>1, <2>1, <1>4 DEF ToolAt
  <2>2. CASE k \notin 1..L
    <3>1. PICK j \in 1..M : k = L + j  BY <2>2, <1>6
    <3>2. q[k] = Optional[b[j]]  BY <3>1, <1>1, <1>3
    <3>3. QED  BY <3>1, <3>2, <1>5 DEF ToolAt
  <2>3. QED  BY <2>1, <2>2
<1>11. ReadsPlaces(q, P)
  <2>1. SUFFICES \E f \in [1..(L + M) -> P] :
                    /\ \A k, l \in 1..(L + M) : k < l => Before(f[k], f[l])
                    /\ \A v \in P : \E k \in 1..(L + M) : f[k] = v
                    /\ \A k \in 1..(L + M) : q[k] = ToolAt(f[k])
    BY <1>1 DEF ReadsPlaces
  <2>2. QED  BY <1>7, <1>8, <1>9, <1>10
<1>12. QED  BY <1>11 DEF q, P

\* A tool behind a list whose places all come before its own.
LEMMA OneMorePlace ==
    ASSUME NEW S, NEW s \in Seq(S), NEW P, NEW v, ReadsPlaces(s, P),
           \A w \in P : Before(w, v), ToolAt(v) \in S
    PROVE  ReadsPlaces(Append(s, ToolAt(v)), P \cup {v})
<1> DEFINE L == Len(s)
           q == Append(s, ToolAt(v))
<1>1. /\ L \in Nat /\ Len(q) = L + 1
      /\ \A k \in 1..L : q[k] = s[k]
      /\ q[L + 1] = ToolAt(v)
  OBVIOUS
<1>2. PICK a \in [1..L -> P] :
          /\ \A k, l \in 1..L : k < l => Before(a[k], a[l])
          /\ \A w \in P : \E k \in 1..L : a[k] = w
          /\ \A k \in 1..L : s[k] = ToolAt(a[k])
  BY DEF ReadsPlaces
<1> DEFINE at == [k \in 1..(L + 1) |-> IF k = L + 1 THEN v ELSE a[k]]
<1> HIDE DEF q, L
<1>3. /\ L + 1 \in 1..(L + 1) /\ at[L + 1] = v
      /\ \A k \in 1..(L + 1) : k = L + 1 \/ k \in 1..L
      /\ at \in [1..(L + 1) -> P \cup {v}]
      /\ \A k \in 1..L : k \in 1..(L + 1) /\ at[k] = a[k] /\ a[k] \in P
  <2>1. \A k \in 1..(L + 1) : k = L + 1 \/ k \in 1..L  BY <1>1
  <2>2. \A k \in 1..L : k \in 1..(L + 1) /\ k # L + 1 /\ a[k] \in P  BY <1>1
  <2>3. L + 1 \in 1..(L + 1)  BY <1>1
  <2>4. at \in [1..(L + 1) -> P \cup {v}]  BY <2>1, <2>2
  <2>5. QED  BY <2>1, <2>2, <2>3, <2>4
<1> HIDE DEF at
<1>4. ASSUME NEW k \in 1..(L + 1), NEW l \in 1..(L + 1), k < l PROVE Before(at[k], at[l])
  <2>1. k \in 1..L  BY <1>1, <1>4
  <2>2. CASE l = L + 1  BY <2>1, <2>2, <1>3
  <2>3. CASE l \in 1..L  BY <2>1, <2>3, <1>2, <1>3, <1>4
  <2>4. QED  BY <2>2, <2>3, <1>3
<1>5. ASSUME NEW w \in P \cup {v} PROVE \E k \in 1..(L + 1) : at[k] = w
  <2>1. CASE w = v  BY <2>1, <1>3
  <2>2. CASE w \in P  BY <2>2, <1>2, <1>3
  <2>3. QED  BY <2>1, <2>2
<1>6. ASSUME NEW k \in 1..(L + 1) PROVE q[k] = ToolAt(at[k])
  BY <1>1, <1>2, <1>3
<1>7. ReadsPlaces(q, P \cup {v})
  <2>1. 1..(L + 1) = 1..Len(q)  BY <1>1
  <2>2. \E f \in [1..(L + 1) -> P \cup {v}] :
            /\ \A k, l \in 1..(L + 1) : k < l => Before(f[k], f[l])
            /\ \A w \in P \cup {v} : \E k \in 1..(L + 1) : f[k] = w
            /\ \A k \in 1..(L + 1) : q[k] = ToolAt(f[k])
    BY <1>3, <1>4, <1>5, <1>6
  <2>3. QED  BY ONLY <2>1, <2>2 DEF ReadsPlaces
<1>8. QED  BY <1>7 DEF q

\* The manifest stays, and so do the places in it.
LEMMA PlacesStay ==
    ASSUME UNCHANGED <<catalog, skill>>
    PROVE  /\ Required' = Required /\ Optional' = Optional
           /\ Own' = Own /\ Context' = Context /\ Places' = Places
           /\ \A n : NoneGated(n)' = NoneGated(n)
           /\ \A s, P : ReadsPlaces(s, P)' = ReadsPlaces(s, P)
<1>1. Required' = Required /\ Optional' = Optional  BY DEF Required, Optional
<1>2. Own' = Own /\ Context' = Context  BY <1>1 DEF Own, Context
<1>3. Gate' = Gate /\ BeforeTheGate' = BeforeTheGate  BY <1>1, <1>2 DEF Gate, BeforeTheGate
<1>4. Places' = Places  BY <1>2, <1>3 DEF Places
<1>5. \A n : NoneGated(n)' = NoneGated(n)  BY <1>1, <1>2 DEF NoneGated
<1>6. \A s, P : ReadsPlaces(s, P)' = ReadsPlaces(s, P)
  BY <1>1 DEF ReadsPlaces, ToolAt
<1>7. QED  BY <1>1, <1>2, <1>4, <1>5, <1>6

LEMMA PlacesInRange ==
    ASSUME TypeOK, skill \in DOMAIN catalog
    PROVE  /\ Own \subseteq 1..Len(Required) /\ Context \subseteq 1..Len(Optional)
           /\ Len(Required) \in Nat /\ Len(Optional) \in Nat
BY ManifestTyped DEF Own, Context

\* Nothing before pc = "context" is claimed of the lists, and the lists of a
\* run that gets no plan from a manifest do not matter.
LEMMA FollowDiscovers ==
    FollowInv /\ (DiscoveryRaises \/ FallBack \/ Discover) => FollowInv'
<1> SUFFICES ASSUME FollowInv, DiscoveryRaises \/ FallBack \/ Discover PROVE FollowInv'
  OBVIOUS
<1>1. PlanInv'  BY DiscoverKeeps DEF FollowInv
<1>2. CASE DiscoveryRaises  BY <1>1, <1>2 DEF DiscoveryRaises, FollowInv
<1>3. CASE FallBack  BY <1>1, <1>3 DEF FallBack, FollowInv
<1>4. CASE Discover
  <2> USE <1>4 DEF Discover
  <2>1. context' = <<>> /\ next' = 0 /\ pc' = "context"
    BY DEF FollowInv, PlanInv, OrderedInv
  <2>2. Optional' = Optional /\ Context' = Context  BY PlacesStay
  <2>3. Context \subseteq Nat \ {0}  BY PlacesInRange DEF FollowInv, PlanInv
  <2>4. Reads(<<>>, Optional, Context, 0)  BY <2>3, NothingRead
  <2>5. QED  BY <1>1, <2>1, <2>2, <2>4 DEF FollowInv
<1>5. QED  BY <1>2, <1>3, <1>4

LEMMA FollowContext ==
    FollowInv /\ (TakeOptional \/ ContextDone) => FollowInv'
<1> SUFFICES ASSUME FollowInv, TakeOptional \/ ContextDone PROVE FollowInv'
  OBVIOUS
<1>p. PlanInv /\ PlanInv'  BY ContextKeeps DEF FollowInv
<1>c. pc = "context" /\ UNCHANGED <<catalog, skill>>  BY DEF TakeOptional, ContextDone
<1>s. skill \in DOMAIN catalog /\ next <= Len(Optional) /\ next \in Nat
      /\ context \in Seq(Name) /\ ordered = <<>>
  BY <1>p, <1>c DEF PlanInv, ManifestInv, FromManifest, TypeOK, OrderedInv
<1>t. Optional \in Seq(Name) /\ Required \in Seq(Name)  BY <1>p, <1>s, ManifestTyped DEF PlanInv
<1>r. Own \subseteq 1..Len(Required) /\ Context \subseteq 1..Len(Optional)
  BY <1>p, <1>s, PlacesInRange DEF PlanInv
<1>u. /\ Required' = Required /\ Optional' = Optional
      /\ Own' = Own /\ Context' = Context /\ \A n : NoneGated(n)' = NoneGated(n)
  BY <1>c, PlacesStay
<1>e. Reads(context, Optional, Context, next)  BY <1>c DEF FollowInv
<1>1. CASE TakeOptional
  <2> USE <1>1 DEF TakeOptional
  <2>1. next + 1 \in 1..Len(Optional) /\ Optional[next + 1] \in Name  BY <1>s, <1>t
  <2>2. next + 1 \in Context <=> IsContext(Optional[next + 1])
    BY <2>1 DEF Context, IsContext
  <2>3. Reads(context', Optional, Context, next + 1)
    <3>1. CASE IsContext(Optional[next + 1])
      <4>1. Context \subseteq Nat /\ next + 1 \in Context  BY <3>1, <2>2, <1>r
      <4>2. context' = Append(context, Optional[next + 1])  BY <3>1
      <4>3. Reads(Append(context, Optional[next + 1]), Optional, Context, next + 1)
        BY <4>1, <2>1, <1>s, <1>e, ReadsOne
      <4>4. QED  BY <4>2, <4>3
    <3>2. CASE ~IsContext(Optional[next + 1])
      <4>1. Context \subseteq Nat  BY <1>r
      <4>2. QED  BY <3>2, <4>1, <2>2, <1>s, <1>e, PassesOver
    <3>3. QED  BY <3>1, <3>2
  <2>4. QED  BY <1>p, <1>c, <1>u, <2>3 DEF FollowInv
<1>2. CASE ContextDone
  <2> USE <1>2 DEF ContextDone
  <2>1. Reads(ordered, Required, Own, 0)
    <3>1. Own \subseteq Nat \ {0}  BY <1>r
    <3>2. QED  BY <3>1, <1>s, NothingRead
  <2>2. NoneGated(0)  BY <1>r DEF NoneGated
  <2>3. next = Len(Optional) /\ pc' = "required" /\ next' = 0
        /\ UNCHANGED <<context, ordered>>
    OBVIOUS
  <2>4. 0 <= Len(Required)  BY <1>t
  <2>5. QED  BY <1>p, <1>u, <1>e, <2>1, <2>2, <2>3, <2>4 DEF FollowInv
<1>3. QED  BY <1>1, <1>2

LEMMA GateLast ==
    ASSUME NEW S, NEW s \in Seq(S), NEW c \in Seq(S), NEW t \in S
    PROVE  s \o (c \o <<t>>) = Append(s \o c, t)
OBVIOUS

\* The loop over required_tools leaves the places of the manifest read.
LEMMA FollowRequired ==
    FollowInv /\ (TakeReadOnly \/ TakeGated \/ NoGatedTool) => FollowInv'
<1> SUFFICES ASSUME FollowInv, TakeReadOnly \/ TakeGated \/ NoGatedTool PROVE FollowInv'
  OBVIOUS
<1>p. PlanInv /\ PlanInv'  BY RequiredKeeps DEF FollowInv
<1>c. pc = "required" /\ UNCHANGED <<catalog, skill, context, plan>>
  BY DEF TakeReadOnly, TakeGated, NoGatedTool
<1>s. /\ skill \in DOMAIN catalog /\ next \in Nat /\ plan = <<>>
      /\ context \in Seq(Name) /\ ordered \in Seq(Name)
  BY <1>p, <1>c DEF PlanInv, ManifestInv, FromManifest, TypeOK, DedupeInv
<1>t. Optional \in Seq(Name) /\ Required \in Seq(Name)  BY <1>p, <1>s, ManifestTyped DEF PlanInv
<1>r. Own \subseteq 1..Len(Required) /\ Context \subseteq 1..Len(Optional)
  BY <1>p, <1>s, PlacesInRange DEF PlanInv
<1>n. Own \subseteq Nat /\ Context \subseteq Nat  BY <1>r
<1>u. /\ Required' = Required /\ Optional' = Optional
      /\ Own' = Own /\ Context' = Context /\ Places' = Places
      /\ \A n : NoneGated(n)' = NoneGated(n)
      /\ \A s, P : ReadsPlaces(s, P)' = ReadsPlaces(s, P)
  BY <1>c, PlacesStay
<1>e. /\ next <= Len(Required)
      /\ Reads(context, Optional, Context, Len(Optional))
      /\ Reads(ordered, Required, Own, next)
      /\ NoneGated(next)
  BY <1>c DEF FollowInv
<1>f. FirstFirst(0)'
  <2>1. plan' = <<>>  BY <1>c, <1>s
  <2>2. QED  BY <2>1 DEF FirstFirst
<1> DEFINE read == ({1} \X {i \in Own : i <= next}) \cup ({2} \X Context)
<1>b. ReadsPlaces(ordered \o context, read)
  <2>1. \A i \in Context : i <= Len(Optional)  BY <1>r, <1>t
  <2>2. Len(Optional) \in Nat  BY <1>t
  <2> HIDE DEF read
  <2>3. QED  BY <2>1, <2>2, <1>n, <1>s, <1>e, TwoSections DEF read
<1>1. CASE TakeReadOnly
  <2> USE <1>1 DEF TakeReadOnly
  <2>1. next + 1 \in 1..Len(Required) /\ Required[next + 1] \in Name  BY <1>s, <1>t
  <2>2. next + 1 \in Own <=> ~Skipped(Required[next + 1])
    BY <2>1 DEF Own, Skipped
  <2>3. Reads(ordered', Required, Own, next + 1)
    <3>1. CASE Skipped(Required[next + 1])
      BY <3>1, <2>2, <1>n, <1>s, <1>e, PassesOver
    <3>2. CASE ~Skipped(Required[next + 1])
      BY <3>2, <2>1, <2>2, <1>n, <1>s, <1>e, ReadsOne
    <3>3. QED  BY <3>1, <3>2
  <2>4. NoneGated(next + 1)
    <3> SUFFICES ASSUME NEW i \in Own, i <= next + 1 PROVE Required[i] \notin Gated
      BY DEF NoneGated
    <3>1. CASE i = next + 1  BY <3>1, <2>2 DEF Stops
    <3>2. CASE i # next + 1
      <4>1. i <= next  BY <3>2, <1>n, <1>s
      <4>2. QED  BY <4>1, <1>e DEF NoneGated
    <3>3. QED  BY <3>1, <3>2
  <2>5. next + 1 <= Len(Required)  BY <2>1
  <2>6. QED  BY <1>p, <1>c, <1>u, <1>e, <2>3, <2>4, <2>5 DEF FollowInv
<1>2. CASE TakeGated
  <2> USE <1>2 DEF TakeGated
  <2> DEFINE t == Required[next + 1]
             v == <<3, next + 1>>
  <2>1. next + 1 \in 1..Len(Required) /\ t \in Name  BY <1>s, <1>t
  <2>2. next + 1 \in Own /\ t \in Gated  BY <2>1 DEF Own, Skipped, Stops
  <2>3. \A i \in Own : i <= next \/ next + 1 <= i  BY <1>n, <1>s
  <2>4. Gate = {next + 1}
    <3>1. next + 1 \in Gate
      <4>1. \A j \in Own : j < next + 1 => Required[j] \notin Gated
        BY <1>n, <1>s, <1>e DEF NoneGated
      <4>2. QED  BY <4>1, <2>2 DEF Gate
    <3>2. ASSUME NEW i \in Gate PROVE i = next + 1
      <4>1. i \in Own /\ Required[i] \in Gated  BY DEF Gate
      <4>2. ~(i <= next)  BY <4>1, <1>e DEF NoneGated
      <4>3. ~(next + 1 < i)  BY <2>2 DEF Gate
      <4>4. QED  BY <4>1, <4>2, <4>3, <1>n, <1>s
    <3>3. QED  BY <3>1, <3>2
  <2>5. BeforeTheGate = {i \in Own : i <= next}
    <3>1. ASSUME NEW i \in Own, i <= next PROVE i \in BeforeTheGate
      <4>1. \A j \in Own : j <= i => j <= next  BY <1>n, <1>s, <3>1
      <4>2. QED  BY <4>1, <1>e DEF BeforeTheGate, NoneGated
    <3>2. ASSUME NEW i \in BeforeTheGate PROVE i \in Own /\ i <= next
      <4>1. i \in Own /\ ~(next + 1 <= i)  BY <2>2 DEF BeforeTheGate
      <4>2. QED  BY <4>1, <2>3
    <3>3. QED  BY <3>1, <3>2
  <2>6. Places = read \cup {v}  BY <2>4, <2>5 DEF Places
  <2>7. \A w \in read : Before(w, v)  BY DEF Before
  <2>8. ToolAt(v) = t  BY DEF ToolAt
  <2>9. ordered' = Append(ordered \o context, t)
    <3>1. ordered' = ordered \o (context \o <<t>>)  BY DEF BeforeGate
    <3> HIDE DEF t
    <3>2. QED  BY <3>1, <2>1, <1>s, GateLast
  <2>10. ordered \o context \in Seq(Name)  BY <1>s
  <2> HIDE DEF t, v, read
  <2>11. ReadsPlaces(ordered', Places)
    <3>1. ReadsPlaces(Append(ordered \o context, ToolAt(v)), read \cup {v})
      <4> DEFINE s == ordered \o context
      <4> HIDE DEF s
      <4>1. s \in Seq(Name) /\ ReadsPlaces(s, read)  BY <2>10, <1>b DEF s
      <4>2. ReadsPlaces(Append(s, ToolAt(v)), read \cup {v})
        BY ONLY <4>1, <2>1, <2>7, <2>8, OneMorePlace
      <4>3. QED  BY <4>2 DEF s
    <3>2. QED  BY <3>1, <2>6, <2>8, <2>9
  <2>12. QED  BY <1>p, <1>u, <1>f, <2>11 DEF FollowInv
<1>3. CASE NoGatedTool
  <2> USE <1>3 DEF NoGatedTool
  <2>1. next = Len(Required)  OBVIOUS
  <2>2. \A i \in Own : i <= next  BY <2>1, <1>r, <1>s
  <2>3. \A i \in Own : Required[i] \notin Gated  BY <2>2, <1>e DEF NoneGated
  <2>4. Gate = {} /\ BeforeTheGate = Own  BY <2>3 DEF Gate, BeforeTheGate
  <2>5. {i \in Own : i <= next} = Own  BY <2>2
  <2>6. Places = read  BY <2>4, <2>5 DEF Places
  <2> HIDE DEF read
  <2>7. ReadsPlaces(ordered', Places)  BY <2>6, <1>b
  <2>8. QED  BY <1>p, <1>u, <1>f, <2>7 DEF FollowInv
<1>4. QED  BY <1>1, <1>2, <1>3

\* _dedupe keeps the order in which the list has its tools first.
LEMMA FollowDedupe ==
    FollowInv /\ (Dedupe \/ DedupeDone) => FollowInv'
<1> SUFFICES ASSUME FollowInv, Dedupe \/ DedupeDone PROVE FollowInv'
  OBVIOUS
<1>p. PlanInv /\ PlanInv'  BY DedupeKeeps DEF FollowInv
<1>c. pc = "dedupe" /\ UNCHANGED <<catalog, skill, context, ordered>>
  BY DEF Dedupe, DedupeDone
<1>s. /\ plan \in Seq(AllowedTools) /\ ordered \in Seq(AllowedTools)
      /\ next \in Nat /\ next <= Len(ordered)
      /\ \A i \in 1..next : ordered[i] \in Element(plan)
  BY <1>p, <1>c DEF PlanInv, DedupeInv, OrderedInv, TypeOK
<1>e. ReadsPlaces(ordered, Places) /\ FirstFirst(next)  BY <1>c DEF FollowInv
<1>b. ReadsPlaces(ordered, Places)'
  <2>1. Places' = Places /\ \A s, P : ReadsPlaces(s, P)' = ReadsPlaces(s, P)
    BY <1>c, PlacesStay
  <2>2. QED  BY <2>1, <1>c, <1>e
<1>1. CASE Dedupe
  <2> USE <1>1 DEF Dedupe
  <2> DEFINE t == ordered[next + 1]
  <2>1. next + 1 \in 1..Len(ordered) /\ t \in AllowedTools  BY <1>s
  <2>2. CASE Seen(t)
    <3>1. plan' = plan  BY <2>2
    <3>2. FirstFirst(next + 1)
      <4> SUFFICES ASSUME NEW i \in 1..Len(plan), NEW j \in 1..Len(plan), i < j
                   PROVE  \E k \in 1..(next + 1) :
                              /\ ordered[k] = plan[i]
                              /\ \A l \in 1..(next + 1) : ordered[l] = plan[j] => k < l
        BY DEF FirstFirst
      <4>1. PICK k \in 1..next : /\ ordered[k] = plan[i]
                                 /\ \A l \in 1..next : ordered[l] = plan[j] => k < l
        BY <1>e DEF FirstFirst
      <4>2. \A l \in 1..(next + 1) : l \in 1..next \/ k < l  BY <1>s
      <4>3. k \in 1..(next + 1)  BY <1>s
      <4>4. QED  BY <4>1, <4>2, <4>3
    <3>3. FirstFirst(next)'  BY <3>1, <3>2, <1>c DEF FirstFirst
    <3>4. QED  BY <1>p, <1>c, <1>b, <3>3 DEF FollowInv
  <2>3. CASE ~Seen(t)
    <3> DEFINE q == Append(plan, t)
    <3>1. plan' = q /\ t \notin Element(plan)  BY <2>3 DEF Seen
    <3>2. /\ Len(q) = Len(plan) + 1 /\ Len(plan) \in Nat
          /\ \A i \in 1..Len(plan) : q[i] = plan[i]
          /\ q[Len(plan) + 1] = t
      BY <1>s
    <3> HIDE DEF q
    <3>3. ASSUME NEW i \in 1..Len(q), NEW j \in 1..Len(q), i < j
          PROVE  \E k \in 1..(next + 1) :
                     /\ ordered[k] = q[i]
                     /\ \A l \in 1..(next + 1) : ordered[l] = q[j] => k < l
      <4>1. i \in 1..Len(plan) /\ q[i] = plan[i]  BY <3>2, <3>3
      <4>2. CASE j = Len(plan) + 1
        <5>1. PICK k \in 1..next : ordered[k] = plan[i]
          <6>1. plan[i] \in Element(plan)  BY <4>1 DEF Element
          <6>2. QED  BY <4>1, <1>p, <1>c DEF PlanInv, DedupeInv
        <5>2. ASSUME NEW l \in 1..(next + 1), ordered[l] = q[j] PROVE k < l
          <6>1. ordered[l] \notin Element(plan)  BY <5>2, <4>2, <3>1, <3>2
          <6>2. l = next + 1  BY <6>1, <1>s
          <6>3. QED  BY <6>2, <1>s
        <5>3. k \in 1..(next + 1)  BY <1>s
        <5>4. QED  BY <4>1, <5>1, <5>2, <5>3
      <4>3. CASE j \in 1..Len(plan)
        <5>1. PICK k \in 1..next : /\ ordered[k] = plan[i]
                                   /\ \A l \in 1..next : ordered[l] = plan[j] => k < l
          BY <4>1, <4>3, <3>3, <1>e DEF FirstFirst
        <5>2. \A l \in 1..(next + 1) : l \in 1..next \/ k < l  BY <1>s
        <5>3. k \in 1..(next + 1) /\ q[j] = plan[j]  BY <4>3, <3>2, <1>s
        <5>4. QED  BY <4>1, <5>1, <5>2, <5>3
      <4>4. QED  BY <4>2, <4>3, <3>2
    <3>4. FirstFirst(next)'
      <4>1. next' = next + 1 /\ ordered' = ordered /\ plan' = q  BY <1>c, <3>1
      <4>2. QED  BY ONLY <4>1, <3>3 DEF FirstFirst
    <3>5. pc' = "dedupe"  BY <1>c
    <3>6. QED  BY <1>p, <1>b, <3>4, <3>5 DEF FollowInv
  <2>4. QED  BY <2>2, <2>3
<1>2. CASE DedupeDone
  <2> USE <1>2 DEF DedupeDone
  <2>1. FirstFirst(next)'  BY <1>c, <1>e DEF FirstFirst
  <2>2. QED  BY <1>p, <1>b, <2>1 DEF FollowInv
<1>3. QED  BY <1>1, <1>2

LEMMA FollowStutters == FollowInv /\ UNCHANGED vars => FollowInv'
<1> SUFFICES ASSUME FollowInv, UNCHANGED vars PROVE FollowInv'  OBVIOUS
<1> USE DEF vars
<1>1. PlanInv'  BY StutterKeeps DEF FollowInv
<1>2. /\ Required' = Required /\ Optional' = Optional
      /\ Own' = Own /\ Context' = Context /\ Places' = Places
      /\ \A n : NoneGated(n)' = NoneGated(n)
      /\ \A s, P : ReadsPlaces(s, P)' = ReadsPlaces(s, P)
  BY PlacesStay
<1>3. FirstFirst(next)' = FirstFirst(next)  BY DEF FirstFirst
<1>4. QED  BY <1>1, <1>2, <1>3 DEF FollowInv

\* Each list a loop of resolve_skill_plan builds is read off the manifest in
\* order: the inductive invariant behind the next theorem.
THEOREM FollowInvHolds == Spec => []FollowInv
<1>1. Init => FollowInv  BY InitPlanInv DEF Init, FollowInv
<1>2. FollowInv /\ [Next]_vars => FollowInv'
  BY FollowDiscovers, FollowContext, FollowRequired, FollowDedupe, FollowStutters DEF Next
<1>3. QED  BY <1>1, <1>2, PTL DEF Spec

\* For every manifest, whatever its lists repeat or mix, the plan has the tools
\* of its places, each once, ordered by the first place of each.
THEOREM PlansFollowManifests == Spec => []PlanFollowsManifest
<1>1. ASSUME FollowInv, pc = "planned" PROVE PlanFollowsManifest
  <2>1. /\ ReadsPlaces(ordered, Places) /\ FirstFirst(next)
        /\ next = Len(ordered)
        /\ \A i \in 1..next : ordered[i] \in Element(plan)
        /\ \A i \in 1..Len(plan) : \E k \in 1..next : plan[i] = ordered[k]
    BY <1>1 DEF FollowInv, PlanInv, DedupeInv
  <2>2. PICK at \in [1..Len(ordered) -> Places] :
            /\ \A k, l \in 1..Len(ordered) : k < l => Before(at[k], at[l])
            /\ \A v \in Places : \E k \in 1..Len(ordered) : at[k] = v
            /\ \A k \in 1..Len(ordered) : ordered[k] = ToolAt(at[k])
    BY <2>1 DEF ReadsPlaces
  <2>3. ASSUME NEW i \in 1..Len(plan) PROVE \E v \in Places : plan[i] = ToolAt(v)
    BY <2>1, <2>2
  <2>4. ASSUME NEW v \in Places PROVE ToolAt(v) \in Element(plan)
    BY <2>1, <2>2
  <2>5. Element(plan) = {ToolAt(v) : v \in Places}  BY <2>3, <2>4 DEF Element
  <2>6. ASSUME NEW i \in 1..Len(plan), NEW j \in 1..Len(plan), i < j
        PROVE  \E v \in Places : /\ ToolAt(v) = plan[i]
                                 /\ \A w \in Places : ToolAt(w) = plan[j] => Before(v, w)
    <3>1. PICK k \in 1..Len(ordered) :
              /\ ordered[k] = plan[i]
              /\ \A l \in 1..Len(ordered) : ordered[l] = plan[j] => k < l
      BY <2>1, <2>6 DEF FirstFirst
    <3>2. at[k] \in Places /\ ToolAt(at[k]) = plan[i]  BY <3>1, <2>2
    <3>3. ASSUME NEW w \in Places, ToolAt(w) = plan[j] PROVE Before(at[k], w)
      <4>1. PICK l \in 1..Len(ordered) : at[l] = w  BY <2>2
      <4>2. k < l  BY <4>1, <3>1, <3>3, <2>2
      <4>3. QED  BY <4>1, <4>2, <2>2
    <3>4. QED  BY <3>2, <3>3
  <2>7. QED  BY <2>5, <2>6 DEF PlanFollowsManifest
<1>2. FollowInv => PlanFollowsManifest  BY <1>1 DEF PlanFollowsManifest
<1>3. QED  BY <1>2, FollowInvHolds, PTL

=============================================================================
