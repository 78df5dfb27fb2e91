---------------------------- MODULE StartupProofs ---------------------------
(***************************************************************************)
(* The ledger of the migrations and the graph that is seeded behind it,    *)
(* proved for any files, probes, processes, requests and bounds: however   *)
(* starts, deaths and races come together, what is recorded is applied and *)
(* in order, a file fails to apply only in a race lost, and the graph is   *)
(* whole or being seeded, each edge there a bounded number of times.       *)
(***************************************************************************)
EXTENDS Startup, FiniteSetTheorems, TLAPS

USE DEF Schema!File, Schema!Down

\* A file is applied as a whole, but for the one the entrypoint broke off in.
WholeFiles ==
    /\ done \in [Schema!File -> Nat] /\ torn \in Nat /\ ledger \subseteq Schema!File
    /\ \A f \in Schema!File :
          /\ done[f] <= Size[f]
          /\ f # torn => done[f] \in {0, Size[f]}

\* What is recorded is applied, and in order.
SoundLedger ==
    /\ Schema!LedgerTruthful
    /\ \A f \in ledger : 1..f \subseteq ledger

\* A process has the files before its own behind it; what the probe has said of
\* its own still holds, or another process has recorded the file.
SoundProcess(p) ==
    /\ p \in [pc : {"down", "create", "look", "probe", "record", "apply", "up"}, file : Nat]
    /\ p.pc # "down" => p.file > 0 /\ 1..(p.file - 1) \subseteq ledger
    /\ p.pc \in {"probe", "record", "apply"} => p.file \in Schema!File
    /\ p.pc = "up" => p.file > LastFile
    /\ p.pc = "record" => Schema!EffectivelyApplied(p.file)
    /\ p.pc = "apply" /\ torn = 0 /\ p.file \notin Rerunnable =>
          p.file \in ledger \/ done[p.file] = 0

StartupInv ==
    /\ WholeFiles
    /\ SoundLedger
    /\ DOMAIN mig = Process
    /\ \A p \in Process : SoundProcess(mig[p])

-----------------------------------------------------------------------------
USE DEF Schema!LedgerTruthful, Schema!Complete

LEMMA InitSound == Init => StartupInv
<1> SUFFICES ASSUME Init PROVE StartupInv
  OBVIOUS
<1> USE DEF Init, Schema!Init
<1>1. /\ LastFile \in Nat
      /\ \A f \in Schema!File : Size[f] \in Nat \ {0}
  BY StartupAssumption DEF Schema!MigrationsAssumption
<1>2. PICK first \in 0..LastFile :
        \E part \in (IF first < LastFile THEN 0..(Size[first + 1] - 1) ELSE {0}) :
          /\ done = [f \in Schema!File |-> IF f <= first THEN Size[f]
                                    ELSE IF f = first + 1 THEN part ELSE 0]
          /\ torn = IF part = 0 THEN 0 ELSE first + 1
          /\ \E recorded \in 0..first : ledger = 1..recorded
  OBVIOUS
<1>3. PICK part \in (IF first < LastFile THEN 0..(Size[first + 1] - 1) ELSE {0}) :
          /\ done = [f \in Schema!File |-> IF f <= first THEN Size[f]
                                    ELSE IF f = first + 1 THEN part ELSE 0]
          /\ torn = IF part = 0 THEN 0 ELSE first + 1
          /\ \E recorded \in 0..first : ledger = 1..recorded
  BY <1>2
<1>4. PICK recorded \in 0..first : ledger = 1..recorded  BY <1>3
<1>5. part \in Nat /\ (first < LastFile => part < Size[first + 1]) /\ (first = LastFile => part = 0)
  BY <1>1
<1>6. WholeFiles
  <2>1. first \in Nat /\ first <= LastFile /\ recorded <= first  BY <1>1, <1>4
  <2>2. torn \in Nat /\ ledger \subseteq Schema!File  BY <1>1, <1>3, <1>4, <1>5, <2>1
  <2>3. ASSUME NEW f \in Schema!File
        PROVE  done[f] \in Nat /\ done[f] <= Size[f] /\ (f # torn => done[f] \in {0, Size[f]})
    <3>1. f \in Nat /\ Size[f] \in Nat \ {0}  BY <1>1
    <3>2. done[f] = IF f <= first THEN Size[f] ELSE IF f = first + 1 THEN part ELSE 0
      BY <1>3
    <3>3. f = first + 1 => part < Size[f]  BY <1>1, <1>5, <2>1
    <3>4. f = first + 1 /\ f # torn => part = 0  BY <1>3
    <3>5. QED  BY <1>5, <2>1, <3>1, <3>2, <3>3, <3>4
  <2>4. done \in [Schema!File -> Nat]  BY <1>3, <2>3
  <2>5. QED  BY <2>2, <2>3, <2>4 DEF WholeFiles
<1>7. /\ \A f \in ledger : Schema!Complete(f)
      /\ \A f \in ledger : 1..f \subseteq ledger
  BY <1>1, <1>3, <1>4
<1>8. DOMAIN mig = Process /\ \A p \in Process : mig[p] = Schema!Down  OBVIOUS
<1>9. QED  BY <1>6, <1>7, <1>8 DEF StartupInv, SoundLedger, SoundProcess

\* What a process knows is not taken back while others add to the schema and
\* the ledger.
LEMMA Kept ==
    ASSUME StartupInv, WholeFiles', torn' = torn, ledger \subseteq ledger',
           \A f \in Schema!File : done'[f] = done[f] \/ (f \in ledger' /\ done'[f] = Size[f]),
           NEW p \in Process, mig'[p] = mig[p]
    PROVE  SoundProcess(mig[p])'
<1>1. SoundProcess(mig[p])  BY DEF StartupInv
<1>2. LastFile \in Nat /\ \A f \in Schema!File : Size[f] \in Nat /\ Probe[f] \in Nat /\ Probe[f] <= Size[f]
  BY StartupAssumption DEF Schema!MigrationsAssumption
<1>3. mig[p].pc \in {"record", "apply"} => mig[p].file \in Schema!File
  BY <1>1 DEF SoundProcess
<1>4. ASSUME mig[p].pc = "record" PROVE Schema!EffectivelyApplied(mig[p].file)'
  <2>1. Schema!EffectivelyApplied(mig[p].file)  BY <1>1, <1>4 DEF SoundProcess
  <2>2. QED  BY <1>2, <1>3, <1>4, <2>1 DEF Schema!EffectivelyApplied, WholeFiles
<1>5. QED  BY <1>1, <1>3, <1>4 DEF SoundProcess

\* What one process does keeps the invariant, when its own state is sound.
LEMMA OneMoves ==
    ASSUME StartupInv, WholeFiles', SoundLedger', torn' = torn, ledger \subseteq ledger',
           \A f \in Schema!File : done'[f] = done[f] \/ (f \in ledger' /\ done'[f] = Size[f]),
           NEW p \in Process, NEW s, mig' = [mig EXCEPT ![p] = s], SoundProcess(s)'
    PROVE  StartupInv'
<1>1. DOMAIN mig' = Process /\ mig'[p] = s /\ \A q \in Process : q # p => mig'[q] = mig[q]
  BY DEF StartupInv
<1>2. QED  BY <1>1, Kept DEF StartupInv

-----------------------------------------------------------------------------
\* What a migrating process does touches its own locals, and the schema and the
\* ledger only together.
LEMMA MigrateKeeps ==
    ASSUME StartupInv, NEW p \in Process, Schema!Migrate(p)
    PROVE  StartupInv'
<1> USE DEF Schema!Goto, Schema!NextFile
<1>1. SoundProcess(mig[p]) /\ WholeFiles /\ SoundLedger  BY DEF StartupInv
<1>2. /\ LastFile \in Nat /\ \A g \in Schema!File : Size[g] \in Nat \ {0}
      /\ \A g \in Schema!File : Probe[g] \in Nat /\ Probe[g] <= Size[g]
      /\ \A g \in Schema!File : g \in Rerunnable \/ Probe[g] # 0
  BY StartupAssumption DEF Schema!MigrationsAssumption
<1>3. mig[p] \in [pc : {"down", "create", "look", "probe", "record", "apply", "up"}, file : Nat]
  BY <1>1 DEF SoundProcess
<1>0. PICK f \in Nat : f = mig[p].file  BY <1>3
<1> USE <1>0
<1>4. ASSUME NEW l \in {"up", "look", "probe", "record", "apply"}, mig' = [mig EXCEPT ![p].pc = l]
      PROVE  /\ mig' = [mig EXCEPT ![p] = [pc |-> l, file |-> f]]
             /\ [pc |-> l, file |-> f].pc = l /\ [pc |-> l, file |-> f].file = f
  <2>1. [mig[p] EXCEPT !.pc = l] = [pc |-> l, file |-> f]  BY <1>3
  <2>2. QED  BY <1>4, <2>1
<1>5. ASSUME Schema!NextFile(p)
      PROVE  mig' = [mig EXCEPT ![p] = [pc |-> "look", file |-> f + 1]]
  BY <1>5
<1>6. CASE UNCHANGED <<done, ledger, torn>>
  <2>1. WholeFiles' /\ SoundLedger'
    BY <1>1, <1>6 DEF WholeFiles, SoundLedger, Schema!EffectivelyApplied
  <2>2. ASSUME NEW s, mig' = [mig EXCEPT ![p] = s], SoundProcess(s)' PROVE StartupInv'
    BY <1>6, <2>1, <2>2, OneMoves
  <2>3. CASE Schema!Look(p)
    <3> USE DEF Schema!Look
    <3>1. f \in Nat /\ f > 0 /\ 1..(f - 1) \subseteq ledger  BY <1>1, <2>3 DEF SoundProcess
    <3>2. CASE f > LastFile
      <4>1. mig' = [mig EXCEPT ![p] = [pc |-> "up", file |-> f]]  BY <2>3, <3>2, <1>4
      <4>2. SoundProcess([pc |-> "up", file |-> f])'  BY <1>6, <3>1, <3>2 DEF SoundProcess
      <4>3. QED  BY <2>2, <4>1, <4>2
    <3>3. CASE ~(f > LastFile) /\ f \in ledger
      <4>1. mig' = [mig EXCEPT ![p] = [pc |-> "look", file |-> f + 1]]  BY <2>3, <3>3, <1>5
      <4>2. 1..f \subseteq ledger  BY <1>1, <3>3 DEF SoundLedger
      <4>3. SoundProcess([pc |-> "look", file |-> f + 1])'
        BY <1>6, <3>1, <4>2 DEF SoundProcess
      <4>4. QED  BY <2>2, <4>1, <4>3
    <3>4. CASE ~(f > LastFile) /\ f \notin ledger
      <4>1. mig' = [mig EXCEPT ![p] = [pc |-> "probe", file |-> f]]  BY <2>3, <3>4, <1>4
      <4>2. SoundProcess([pc |-> "probe", file |-> f])'
        BY <1>2, <1>6, <3>1, <3>4 DEF SoundProcess
      <4>3. QED  BY <2>2, <4>1, <4>2
    <3>5. QED  BY <3>2, <3>3, <3>4
  <2>4. CASE Schema!ProbeSchema(p)
    <3> USE DEF Schema!ProbeSchema
    <3>1. f \in Schema!File /\ f > 0 /\ 1..(f - 1) \subseteq ledger
      BY <1>1, <2>4 DEF SoundProcess
    <3>2. CASE Schema!EffectivelyApplied(f)
      <4>1. mig' = [mig EXCEPT ![p] = [pc |-> "record", file |-> f]]  BY <2>4, <3>2, <1>4
      <4>2. SoundProcess([pc |-> "record", file |-> f])'
        BY <1>6, <3>1, <3>2 DEF SoundProcess, Schema!EffectivelyApplied
      <4>3. QED  BY <2>2, <4>1, <4>2
    <3>3. CASE ~Schema!EffectivelyApplied(f)
      <4>1. mig' = [mig EXCEPT ![p] = [pc |-> "apply", file |-> f]]  BY <2>4, <3>3, <1>4
      <4>2. torn = 0 /\ f \notin Rerunnable => done[f] = 0
        BY <1>1, <1>2, <3>1, <3>3 DEF WholeFiles, Schema!EffectivelyApplied
      <4>3. SoundProcess([pc |-> "apply", file |-> f])'
        BY <1>6, <3>1, <4>2 DEF SoundProcess
      <4>4. QED  BY <2>2, <4>1, <4>3
    <3>4. QED  BY <3>2, <3>3
  <2>5. CASE Schema!ApplyFails(p)
    <3>1. mig' = [mig EXCEPT ![p] = Schema!Down]  BY <2>5 DEF Schema!ApplyFails
    <3>2. SoundProcess(Schema!Down)'  BY DEF SoundProcess
    <3>3. QED  BY <2>2, <3>1, <3>2
  <2>6. CASE Schema!Record(p) \/ Schema!Apply(p)
    <3>1. Schema!NextFile(p) /\ f \in ledger /\ f > 0 /\ 1..(f - 1) \subseteq ledger
      BY <1>1, <1>6, <2>6 DEF SoundProcess, Schema!Record, Schema!Apply
    <3>2. mig' = [mig EXCEPT ![p] = [pc |-> "look", file |-> f + 1]]  BY <1>5, <3>1
    <3>3. SoundProcess([pc |-> "look", file |-> f + 1])'
      BY <1>1, <1>3, <1>6, <3>1 DEF SoundProcess, SoundLedger
    <3>4. QED  BY <2>2, <3>2, <3>3
  <2>7. CASE Schema!CreateLedger(p)
    <3>1. mig' = [mig EXCEPT ![p] = [pc |-> "look", file |-> f]]
      BY <2>7, <1>4 DEF Schema!CreateLedger
    <3>2. SoundProcess([pc |-> "look", file |-> f])'
      BY <1>1, <1>6, <2>7 DEF SoundProcess, Schema!CreateLedger
    <3>3. QED  BY <2>2, <3>1, <3>2
  <2>8. CASE Schema!CreateFails(p)
    <3>1. mig' = [mig EXCEPT ![p] = Schema!Down]  BY <2>8 DEF Schema!CreateFails
    <3>2. SoundProcess(Schema!Down)'  BY DEF SoundProcess
    <3>3. QED  BY <2>2, <3>1, <3>2
  <2>9. QED  BY <2>3, <2>4, <2>5, <2>6, <2>7, <2>8 DEF Schema!Migrate
<1>7. CASE Schema!Record(p) \/ Schema!Apply(p)
  <2>1. /\ f \in Schema!File /\ f > 0 /\ 1..(f - 1) \subseteq ledger
        /\ Schema!NextFile(p) /\ ledger' = ledger \cup {f} /\ torn' = torn
    BY <1>1, <1>7 DEF SoundProcess, Schema!Record, Schema!Apply
  <2>2. \/ done' = done /\ Schema!EffectivelyApplied(f)
        \/ done' = [done EXCEPT ![f] = Size[f]]
    BY <1>1, <1>7 DEF SoundProcess, Schema!Record, Schema!Apply
  <2>3. /\ done' \in [Schema!File -> Nat]
        /\ \A g \in Schema!File : g # f => done'[g] = done[g]
        /\ done'[f] = Size[f] \/ (done'[f] = done[f] /\ Schema!EffectivelyApplied(f))
    <3>1. done \in [Schema!File -> Nat] /\ Size[f] \in Nat  BY <1>1, <1>2, <2>1 DEF WholeFiles
    <3>2. CASE done' = done /\ Schema!EffectivelyApplied(f)  BY <3>1, <3>2
    <3>3. CASE done' = [done EXCEPT ![f] = Size[f]]  BY <2>1, <3>1, <3>3
    <3>4. QED  BY <2>2, <3>2, <3>3
  <2>4. WholeFiles'
    <3>1. ASSUME NEW g \in Schema!File
          PROVE  done'[g] <= Size[g] /\ (g # torn => done'[g] \in {0, Size[g]})
      <4>1. done[g] <= Size[g] /\ (g # torn => done[g] \in {0, Size[g]}) /\ Size[g] \in Nat
        BY <1>1, <1>2 DEF WholeFiles
      <4>2. done'[g] = done[g] \/ done'[g] = Size[g]  BY <2>3
      <4>3. QED  BY <4>1, <4>2
    <3>2. ledger' \subseteq Schema!File /\ torn' \in Nat  BY <1>1, <2>1 DEF WholeFiles
    <3>3. QED  BY <2>1, <2>3, <3>1, <3>2 DEF WholeFiles
  <2>5. done'[f] = Size[f] \/ (f = torn /\ Schema!EffectivelyApplied(f)')
    <3>1. CASE done'[f] = Size[f]  BY <3>1
    <3>2. CASE done'[f] = done[f] /\ Schema!EffectivelyApplied(f)
      <4>1. done[f] > 0  BY <1>1, <1>2, <2>1, <3>2 DEF WholeFiles, Schema!EffectivelyApplied
      <4>2. f # torn => done[f] = Size[f]  BY <1>1, <2>1, <4>1 DEF WholeFiles
      <4>3. Schema!EffectivelyApplied(f)'  BY <3>2 DEF Schema!EffectivelyApplied
      <4>4. QED  BY <3>2, <4>2, <4>3
    <3>3. QED  BY <2>3, <3>1, <3>2
  <2>6. Schema!LedgerTruthful'
    <3>1. SUFFICES ASSUME NEW g \in ledger, g # f
          PROVE  done'[g] = Size[g] \/ (g = torn /\ Schema!EffectivelyApplied(g)')
      BY <2>1, <2>5
    <3>2. g \in Schema!File  BY <1>1 DEF WholeFiles
    <3>3. QED  BY <1>1, <2>3, <3>1, <3>2 DEF SoundLedger, Schema!EffectivelyApplied
  <2>7. \A g \in ledger' : 1..g \subseteq ledger'
    <3>1. 1..f \subseteq ledger'  BY <2>1
    <3>2. QED  BY <1>1, <2>1, <3>1 DEF SoundLedger
  <2>8. SoundLedger'  BY <2>6, <2>7 DEF SoundLedger
  <2>9. mig' = [mig EXCEPT ![p] = [pc |-> "look", file |-> f + 1]]  BY <1>5, <2>1
  <2>10. SoundProcess([pc |-> "look", file |-> f + 1])'  BY <2>1 DEF SoundProcess
  <2>11. \A g \in Schema!File : done'[g] = done[g] \/ (g \in ledger' /\ done'[g] = Size[g])
    BY <2>1, <2>3
  <2>12. ledger \subseteq ledger'  BY <2>1
  <2>13. QED  BY <2>1, <2>4, <2>8, <2>9, <2>10, <2>11, <2>12, OneMoves
<1>8. QED
  BY <1>6, <1>7 DEF Schema!Migrate, Schema!Look, Schema!ProbeSchema, Schema!ApplyFails,
                      Schema!CreateLedger, Schema!CreateFails

\* Starts, kills and requests leave the schema and the ledger alone.
LEMMA StepKeeps == StartupInv /\ [Next]_vars => StartupInv'
<1> SUFFICES ASSUME StartupInv, [Next]_vars PROVE StartupInv'
  OBVIOUS
<1>1. /\ WholeFiles /\ SoundLedger /\ DOMAIN mig = Process
      /\ \A p \in Process : SoundProcess(mig[p])
  BY DEF StartupInv
<1>2. ASSUME UNCHANGED <<done, torn, ledger>>
      PROVE  WholeFiles' /\ SoundLedger'
  BY <1>1, <1>2 DEF WholeFiles, SoundLedger, Schema!EffectivelyApplied
<1>3. ASSUME UNCHANGED <<done, torn, ledger, mig>>
      PROVE  StartupInv'
  BY <1>1, <1>2, <1>3 DEF StartupInv, SoundProcess, Schema!EffectivelyApplied
<1>4. ASSUME NEW p \in Process, UNCHANGED <<done, torn, ledger>>,
             NEW s, mig' = [mig EXCEPT ![p] = s], SoundProcess(s)'
      PROVE  StartupInv'
  BY <1>1, <1>2, <1>4, OneMoves
<1>5. ASSUME NEW p \in Process, Schema!Start(p) PROVE StartupInv'
  <2>1. PICK l \in {"create", "look"} :
          mig' = [mig EXCEPT ![p] = [pc |-> l, file |-> 1]] /\ UNCHANGED <<done, torn, ledger>>
    BY <1>5 DEF Schema!Start
  <2>2. SoundProcess([pc |-> l, file |-> 1])'  BY DEF SoundProcess
  <2>3. QED  BY <1>4, <2>1, <2>2
<1>6. ASSUME NEW p \in Process, Schema!Die(p) PROVE StartupInv'
  <2>1. mig' = [mig EXCEPT ![p] = Schema!Down] /\ UNCHANGED <<done, torn, ledger>>
    BY <1>6 DEF Schema!Die
  <2>2. SoundProcess(Schema!Down)'  BY DEF SoundProcess
  <2>3. QED  BY <1>4, <2>1, <2>2
<1>7. ASSUME NEW p \in Process, Bring(p) \/ Kill(p) PROVE StartupInv'
  BY <1>5, <1>6, <1>7, MigrateKeeps DEF Bring, Kill
<1>8. ASSUME NEW r \in Reader, Request(r) \/ RequestFails(r) PROVE StartupInv'
  BY <1>3, <1>8 DEF Request, RequestFails, schemaVars
<1>9. CASE UNCHANGED vars  BY <1>3, <1>9 DEF vars
<1>10. QED  BY <1>7, <1>8, <1>9 DEF Next

\* The invariant holds however processes start, race and die.
THEOREM StartupInvHolds == Spec => []StartupInv
<1>1. QED  BY InitSound, StepKeeps, PTL DEF Spec

\* LedgerSound, for every set of files, probes and processes.
THEOREM LedgerSoundHolds == Spec => []LedgerSound
<1>1. StartupInv => LedgerSound
  <2> SUFFICES ASSUME StartupInv PROVE LedgerSound
    OBVIOUS
  <2>1. SoundLedger /\ WholeFiles /\ \A p \in Process : SoundProcess(mig[p])
    BY DEF StartupInv
  <2>2. ASSUME NEW p \in Process, mig[p].pc = "up" PROVE ledger = Schema!File
    <3>1. mig[p].file \in Nat /\ mig[p].file > LastFile /\ 1..(mig[p].file - 1) \subseteq ledger
      BY <2>1, <2>2 DEF SoundProcess
    <3>2. LastFile \in Nat  BY StartupAssumption DEF Schema!MigrationsAssumption
    <3>3. Schema!File \subseteq 1..(mig[p].file - 1)  BY <3>1, <3>2
    <3>4. ledger \subseteq Schema!File  BY <2>1 DEF WholeFiles
    <3>5. QED  BY <3>1, <3>3, <3>4
  <2>3. QED  BY <2>1, <2>2 DEF LedgerSound, Schema!LedgerInOrder, SoundLedger
<1>2. QED  BY <1>1, StartupInvHolds, PTL

\* OnlyRacesFail: what a file builds on is in the first file, and that one is
\* applied before any other is looked at.
THEOREM OnlyRacesFailHolds == Spec => []OnlyRacesFail
<1>1. StartupInv => OnlyRacesFail
  <2> SUFFICES ASSUME StartupInv, torn = 0, NEW p \in Process, mig[p].pc = "apply",
                      mig[p].file \notin ledger
               PROVE  Schema!Runs(mig[p].file)
    BY DEF OnlyRacesFail, Schema!OnlyRacesFail
  <2>1. SoundLedger /\ WholeFiles /\ SoundProcess(mig[p])  BY DEF StartupInv
  <2>2. PICK f \in Schema!File : f = mig[p].file  BY <2>1 DEF SoundProcess
  <2>3. f \in Nat /\ 1..(f - 1) \subseteq ledger /\ (f \in Rerunnable \/ done[f] = 0)
    BY <2>1, <2>2 DEF SoundProcess
  <2>4. ASSUME f > 1 PROVE done[1] >= Needs[f]
    <3>1. 1 \in ledger  BY <2>3, <2>4
    <3>2. done[1] = Size[1]  BY <2>1, <3>1 DEF SoundLedger
    <3>3. LastFile > 0 /\ LastFile \in Nat
      BY <2>2, StartupAssumption DEF Schema!MigrationsAssumption
    <3>4. Needs[f] <= Size[1] /\ Needs[f] \in Nat /\ Size[1] \in Nat
      BY <2>2, <3>3, StartupAssumption DEF Schema!MigrationsAssumption
    <3>5. QED  BY <3>2, <3>4
  <2>5. QED  BY <2>2, <2>3, <2>4 DEF Schema!Runs
<1>2. QED  BY <1>1, StartupInvHolds, PTL

-----------------------------------------------------------------------------
(* The knowledge graph.                                                    *)

Locals == [pc : {"idle", "edges", "seed", "again", "answer"},
           nodes : SUBSET (1..Entities), seeded : 0..(Entities + Edges)]

\* A request knows how far it has seeded; what it has written is there.
SoundReader(q) ==
    /\ q.pc = "seed" =>
          /\ q.seeded < Entities + Edges
          /\ \A i \in 1..Entities : i <= q.seeded => i \in kg_entities
          /\ \A e \in 1..Edges : Entities + e <= q.seeded => kg_edges[e] > 0
    /\ q.pc \in {"idle", "edges"} => q.seeded = 0
    /\ kg_entities = {} => q.seeded = 0

\* The requests that may still add a row for the edge: they have found the
\* graph empty and are not past the edge.
CanAdd(e) ==
    {r \in Reader : \/ req[r].pc = "edges" /\ req[r].nodes = {}
                    \/ req[r].pc = "seed" /\ req[r].seeded < Entities + e}

\* The rows of an edge and those who can still add one are no more than the
\* requests; while there is no node, there is no edge either.
EdgesCounted ==
    \A e \in 1..Edges :
        /\ kg_entities = {} => kg_edges[e] = 0
        /\ kg_edges[e] + Cardinality(CanAdd(e)) <= Cardinality(Reader)

Whole ==
    /\ kg_entities = 1..Entities
    /\ \A e \in 1..Edges : kg_edges[e] > 0

GraphInv ==
    /\ kg_entities \subseteq 1..Entities /\ kg_edges \in [1..Edges -> Nat]
    /\ req \in [Reader -> Locals] /\ broken \in BOOLEAN
    /\ \A r \in Reader : SoundReader(req[r])
    /\ EdgesCounted
    /\ ~broken /\ kg_entities # {} => Whole \/ Knowledge!Seeding # {}

\* Cardinality and finiteness are the same seen through KnowledgeSeed.
LEMMA SameCounts ==
    ASSUME NEW S
    PROVE  /\ Knowledge!Cardinality(S) = Cardinality(S)
           /\ Knowledge!IsFiniteSet(S) = IsFiniteSet(S)
<1>1. Knowledge!Cardinality(S) = Cardinality(S)
  BY DEF Knowledge!Cardinality, Cardinality
<1>2. Knowledge!IsFiniteSet(S) = IsFiniteSet(S)
  BY DEF Knowledge!IsFiniteSet, IsFiniteSet
<1>3. QED  BY <1>1, <1>2

LEMMA Sizes ==
    /\ Entities \in Nat \ {0} /\ Edges \in Nat /\ IsFiniteSet(Reader)
    /\ Knowledge!SeedSize = Entities + Edges
    /\ Cardinality(Reader) \in Nat
    /\ Knowledge!Idle \in Locals
    /\ Knowledge!Idle.pc = "idle" /\ Knowledge!Idle.nodes = {} /\ Knowledge!Idle.seeded = 0
<1>1. Entities \in Nat \ {0} /\ Edges \in Nat /\ IsFiniteSet(Reader)
  BY StartupAssumption, SameCounts DEF Knowledge!KnowledgeAssumption
<1>2. QED  BY <1>1, FS_CardinalityType DEF Knowledge!SeedSize, Knowledge!Idle, Locals

LEMMA CanAddFinite ==
    ASSUME NEW e
    PROVE  /\ IsFiniteSet(CanAdd(e)) /\ Cardinality(CanAdd(e)) \in Nat
           /\ Cardinality(CanAdd(e)) <= Cardinality(Reader)
<1>1. CanAdd(e) \subseteq Reader  BY DEF CanAdd
<1>2. QED  BY <1>1, Sizes, FS_Subset, FS_CardinalityType

LEMMA GraphInit == Init => GraphInv
<1> SUFFICES ASSUME Init PROVE GraphInv  OBVIOUS
<1> USE DEF Init, Knowledge!Init
<1>1. req \in [Reader -> Locals] /\ \A r \in Reader : req[r] = Knowledge!Idle  BY Sizes
<1>2. \A r \in Reader : SoundReader(req[r])  BY <1>1, Sizes DEF SoundReader
<1>3. EdgesCounted
  <2>1. \A e \in 1..Edges : kg_edges[e] = 0  OBVIOUS
  <2>2. QED  BY <2>1, CanAddFinite, Sizes DEF EdgesCounted
<1>4. QED  BY <1>1, <1>2, <1>3, Sizes DEF GraphInv

\* While the tables stay, the count stays for who leaves it or finds no node.
LEMMA CountKept ==
    ASSUME GraphInv, UNCHANGED <<kg_entities, kg_edges>>,
           kg_entities # {} => \A e \in 1..Edges : CanAdd(e)' \subseteq CanAdd(e)
    PROVE  EdgesCounted'
<1>1. SUFFICES ASSUME NEW e \in 1..Edges
      PROVE  /\ kg_entities = {} => kg_edges[e] = 0
             /\ kg_edges[e] + Cardinality(CanAdd(e)') <= Cardinality(Reader)
  BY DEF EdgesCounted
<1>2. /\ kg_edges[e] \in Nat /\ kg_edges[e] + Cardinality(CanAdd(e)) <= Cardinality(Reader)
      /\ kg_entities = {} => kg_edges[e] = 0
  BY DEF GraphInv, EdgesCounted
<1>3. CanAdd(e)' \subseteq Reader  BY DEF CanAdd
<1>4. Cardinality(CanAdd(e)') \in Nat /\ Cardinality(CanAdd(e)') <= Cardinality(Reader)
  BY <1>3, Sizes, FS_Subset, FS_CardinalityType
<1>5. CASE kg_entities = {}  BY <1>2, <1>4, <1>5, Sizes
<1>6. CASE kg_entities # {}
  <2>1. Cardinality(CanAdd(e)') <= Cardinality(CanAdd(e))
    BY <1>6, CanAddFinite, FS_Subset
  <2>2. QED  BY <1>2, <1>4, <1>6, <2>1, CanAddFinite, Sizes
<1>7. QED  BY <1>5, <1>6

\* The reads: one request takes note of what it finds.
LEMMA ReadKeeps ==
    ASSUME GraphInv, NEW r \in Reader, NEW s \in Locals, req' = [req EXCEPT ![r] = s],
           UNCHANGED <<kg_entities, kg_edges, broken>>,
           s.pc = "seed" => req[r].pc = "edges" /\ req[r].nodes = {} /\ s.seeded = 0,
           s.pc \in {"idle", "edges"} => s.seeded = 0,
           s.pc = "edges" /\ s.nodes = {} => kg_entities = {},
           kg_entities = {} => s.seeded = 0,
           req[r].pc # "seed"
    PROVE  GraphInv'
<1>1. /\ req' \in [Reader -> Locals] /\ req'[r] = s
      /\ \A q \in Reader : q # r => req'[q] = req[q]
  BY DEF GraphInv
<1>2. s.seeded \in Nat  BY Sizes DEF Locals
<1>3. SoundReader(req[r])'  BY <1>1, <1>2, Sizes DEF SoundReader
<1>4. \A q \in Reader : SoundReader(req[q])'
  BY <1>1, <1>3 DEF GraphInv, SoundReader
<1>5. \A e \in 1..Edges : kg_entities # {} => CanAdd(e)' \subseteq CanAdd(e)
  BY <1>1 DEF CanAdd
<1>6. EdgesCounted'  BY <1>5, CountKept
<1>7. Knowledge!Seeding \subseteq Knowledge!Seeding'
  BY <1>1 DEF Knowledge!Seeding
<1>8. ~broken /\ kg_entities # {} => Whole' \/ Knowledge!Seeding' # {}
  BY <1>7 DEF GraphInv, Whole
<1>9. QED  BY <1>1, <1>4, <1>6, <1>8 DEF GraphInv

\* The requests that die: a seeder leaves a break behind.
LEMMA DropKeeps ==
    ASSUME GraphInv, NEW R \in SUBSET Reader, Knowledge!Drop(R)
    PROVE  GraphInv'
<1>1. /\ req' = [r \in Reader |-> IF r \in R THEN Knowledge!Idle ELSE req[r]]
      /\ broken' = (broken \/ \E r \in R : req[r].pc = "seed")
      /\ UNCHANGED <<kg_entities, kg_edges>>
  BY DEF Knowledge!Drop
<1>2. req' \in [Reader -> Locals] /\ broken' \in BOOLEAN  BY <1>1, Sizes DEF GraphInv
<1>3. \A r \in Reader : req'[r] = Knowledge!Idle \/ req'[r] = req[r]  BY <1>1
<1>4. \A r \in Reader : SoundReader(req[r])'
  BY <1>1, <1>3, Sizes DEF GraphInv, SoundReader
<1>5. \A e \in 1..Edges : CanAdd(e)' \subseteq CanAdd(e)  BY <1>3, Sizes DEF CanAdd
<1>6. EdgesCounted'  BY <1>1, <1>5, CountKept
<1>7. ~broken' => Knowledge!Seeding \subseteq Knowledge!Seeding'
  BY <1>1 DEF Knowledge!Seeding
<1>8. ~broken' /\ kg_entities # {} => Whole' \/ Knowledge!Seeding' # {}
  BY <1>1, <1>7 DEF GraphInv, Whole
<1>9. QED  BY <1>1, <1>2, <1>4, <1>6, <1>8 DEF GraphInv

\* A seeder that has written its next item.
LEMMA NextOfSeedIs ==
    ASSUME GraphInv, NEW r \in Reader, req[r].pc = "seed", Knowledge!NextOfSeed(r)
    PROVE  /\ req' \in [Reader -> Locals] /\ \A q \in Reader : q # r => req'[q] = req[q]
           /\ req'[r].seeded = req[r].seeded + 1
           /\ req'[r].pc = IF req[r].seeded + 1 = Entities + Edges THEN "again" ELSE "seed"
           /\ req[r].seeded \in 0..(Entities + Edges - 1)
<1>1. req[r] \in Locals /\ req[r].seeded < Entities + Edges  BY DEF GraphInv, SoundReader
<1>2. req[r].seeded \in Nat  BY <1>1, Sizes DEF Locals
<1> DEFINE n == req[r].seeded + 1
           l == IF n = Entities + Edges THEN "again" ELSE "seed"
           s == [req[r] EXCEPT !.seeded = n, !.pc = l]
<1>3. n \in 0..(Entities + Edges) /\ l \in {"again", "seed"}  BY <1>1, <1>2, Sizes
<1>4. req' = [req EXCEPT ![r].seeded = n, ![r].pc = l]  BY Sizes DEF Knowledge!NextOfSeed
<1>5. req \in [Reader -> Locals]  BY DEF GraphInv
<1>6. req'[r] = s /\ \A q \in Reader : q # r => req'[q] = req[q]
  <2> HIDE DEF n, l
  <2>1. QED  BY <1>4, <1>5
<1>7. s \in Locals /\ s.seeded = n /\ s.pc = l
  <2> HIDE DEF n, l
  <2>1. QED  BY <1>1, <1>3 DEF Locals
<1>8. req' \in [Reader -> Locals]
  <2>1. req' = [q \in Reader |-> req'[q]]
    <3> HIDE DEF n, l
    <3>1. QED  BY <1>4, <1>5
  <2>2. \A q \in Reader : req'[q] \in Locals  BY <1>5, <1>6, <1>7
  <2>3. QED  BY <2>1, <2>2
<1>9. req[r].seeded \in 0..(Entities + Edges - 1)  BY <1>1, <1>2, Sizes
<1>10. QED  BY <1>6, <1>7, <1>8, <1>9

LEMMA UpsertKeeps ==
    ASSUME GraphInv, NEW r \in Reader, Knowledge!UpsertEntity(r)
    PROVE  GraphInv'
<1>1. /\ req[r].pc = "seed" /\ req[r].seeded < Entities
      /\ kg_entities' = kg_entities \cup {req[r].seeded + 1}
      /\ Knowledge!NextOfSeed(r) /\ UNCHANGED <<kg_edges, broken>>
  BY DEF Knowledge!UpsertEntity
<1>2. /\ req' \in [Reader -> Locals] /\ \A q \in Reader : q # r => req'[q] = req[q]
      /\ req'[r].seeded = req[r].seeded + 1
      /\ req'[r].pc = IF req[r].seeded + 1 = Entities + Edges THEN "again" ELSE "seed"
      /\ req[r].seeded \in 0..(Entities + Edges - 1)
  BY <1>1, NextOfSeedIs
<1>3. PICK n \in Nat : n = req[r].seeded  BY <1>2, Sizes
<1>4. kg_entities' \subseteq 1..Entities /\ kg_entities' # {} /\ kg_entities \subseteq kg_entities'
      /\ n + 1 \in kg_entities'
  <2>1. kg_entities' = kg_entities \cup {n + 1} /\ n < Entities  BY <1>1, <1>3
  <2>2. n + 1 \in 1..Entities  BY <1>3, <2>1, Sizes
  <2>3. QED  BY <2>1, <2>2 DEF GraphInv
<1>5. /\ \A i \in 1..Entities : i <= n + 1 => i \in kg_entities'
      /\ \A e \in 1..Edges : ~(Entities + e <= n + 1)
  <2>1. \A i \in 1..Entities : i <= n => i \in kg_entities
    BY <1>1, <1>3 DEF GraphInv, SoundReader
  <2>2. n < Entities  BY <1>1, <1>3
  <2>3. QED  BY <1>3, <1>4, <2>1, <2>2, Sizes
<1>6. SoundReader(req[r])'
  BY <1>1, <1>2, <1>3, <1>4, <1>5, Sizes DEF SoundReader
<1>7. \A q \in Reader : SoundReader(req[q])'
  <2>1. ASSUME NEW q \in Reader, q # r PROVE SoundReader(req[q])'
    <3>1. SoundReader(req[q])  BY DEF GraphInv
    <3>2. req'[q] = req[q] /\ kg_edges' = kg_edges  BY <1>1, <1>2, <2>1
    <3>3. QED  BY <1>4, <3>1, <3>2 DEF SoundReader
  <2>2. QED  BY <1>6, <2>1
<1>8. EdgesCounted'
  <2>1. SUFFICES ASSUME NEW e \in 1..Edges
        PROVE  kg_edges[e] + Cardinality(CanAdd(e)') <= Cardinality(Reader)
    BY <1>1, <1>4 DEF EdgesCounted
  <2>2. CanAdd(e)' \subseteq CanAdd(e)
    BY <1>1, <1>2, <1>3, Sizes DEF CanAdd
  <2>3. Cardinality(CanAdd(e)') <= Cardinality(CanAdd(e)) /\ Cardinality(CanAdd(e)') \in Nat
    BY <2>2, CanAddFinite, FS_Subset, FS_CardinalityType
  <2>4. kg_edges[e] \in Nat /\ kg_edges[e] + Cardinality(CanAdd(e)) <= Cardinality(Reader)
    BY DEF GraphInv, EdgesCounted
  <2>5. QED  BY <2>3, <2>4, CanAddFinite, Sizes
<1>9. Whole' \/ Knowledge!Seeding' # {}
  <2>1. CASE n + 1 = Entities + Edges
    <3>1. Edges = 0 /\ n + 1 = Entities  BY <1>1, <1>3, <2>1, Sizes
    <3>2. \A i \in 1..Entities : i \in kg_entities'  BY <1>5, <3>1, Sizes
    <3>3. kg_entities' = 1..Entities  BY <1>4, <3>2
    <3>4. QED  BY <3>1, <3>3, Sizes DEF Whole
  <2>2. CASE n + 1 # Entities + Edges
    BY <1>2, <1>3, <2>2 DEF Knowledge!Seeding
  <2>3. QED  BY <2>1, <2>2
<1>10. QED  BY <1>1, <1>2, <1>4, <1>7, <1>8, <1>9 DEF GraphInv

LEMMA CreateKeeps ==
    ASSUME GraphInv, NEW r \in Reader, Knowledge!CreateEdge(r)
    PROVE  GraphInv'
<1>1. /\ req[r].pc = "seed" /\ req[r].seeded >= Entities
      /\ kg_edges' = [kg_edges EXCEPT ![req[r].seeded + 1 - Entities] = @ + 1]
      /\ Knowledge!NextOfSeed(r) /\ UNCHANGED <<kg_entities, broken>>
  BY DEF Knowledge!CreateEdge
<1>2. /\ req' \in [Reader -> Locals] /\ \A q \in Reader : q # r => req'[q] = req[q]
      /\ req'[r].seeded = req[r].seeded + 1
      /\ req'[r].pc = IF req[r].seeded + 1 = Entities + Edges THEN "again" ELSE "seed"
      /\ req[r].seeded \in 0..(Entities + Edges - 1)
  BY <1>1, NextOfSeedIs
<1>3. PICK n \in Nat : n = req[r].seeded  BY <1>2, Sizes
<1>4. PICK a \in 1..Edges : a = n + 1 - Entities
  <2>1. n + 1 - Entities \in 1..Edges  BY <1>1, <1>2, <1>3, Sizes
  <2>2. QED  BY <2>1
<1>5. /\ kg_edges' \in [1..Edges -> Nat] /\ kg_edges'[a] = kg_edges[a] + 1
      /\ \A e \in 1..Edges : e # a => kg_edges'[e] = kg_edges[e]
      /\ \A e \in 1..Edges : kg_edges[e] \in Nat /\ kg_edges'[e] >= kg_edges[e]
  <2>1. kg_edges \in [1..Edges -> Nat]  BY DEF GraphInv
  <2>2. kg_edges' = [kg_edges EXCEPT ![a] = @ + 1]  BY <1>1, <1>3, <1>4
  <2>3. QED  BY <2>1, <2>2
<1>6. kg_entities # {}
  <2>1. n # 0  BY <1>1, <1>3, Sizes
  <2>2. QED  BY <1>3, <2>1 DEF GraphInv, SoundReader
<1>7. /\ \A i \in 1..Entities : i <= n /\ i \in kg_entities
      /\ \A e \in 1..Edges : Entities + e <= n + 1 => kg_edges'[e] > 0
  <2>1. /\ \A i \in 1..Entities : i <= n => i \in kg_entities
        /\ \A e \in 1..Edges : Entities + e <= n => kg_edges[e] > 0
    BY <1>1, <1>3 DEF GraphInv, SoundReader
  <2>2. n >= Entities  BY <1>1, <1>3
  <2>3. ASSUME NEW e \in 1..Edges, Entities + e <= n + 1 PROVE kg_edges'[e] > 0
    <3>1. CASE e = a  BY <1>5, <3>1
    <3>2. CASE e # a
      <4>1. Entities + e <= n  BY <1>3, <1>4, <2>3, <3>2, Sizes
      <4>2. QED  BY <1>5, <2>1, <3>2, <4>1
    <3>3. QED  BY <3>1, <3>2
  <2>4. QED  BY <1>3, <2>1, <2>2, <2>3, Sizes
<1>8. SoundReader(req[r])'
  BY <1>1, <1>2, <1>3, <1>6, <1>7, Sizes DEF SoundReader
<1>9. \A q \in Reader : SoundReader(req[q])'
  <2>1. ASSUME NEW q \in Reader, q # r PROVE SoundReader(req[q])'
    <3>1. SoundReader(req[q])  BY DEF GraphInv
    <3>2. req'[q] = req[q] /\ kg_entities' = kg_entities  BY <1>1, <1>2, <2>1
    <3>3. \A e \in 1..Edges : kg_edges[e] > 0 => kg_edges'[e] > 0  BY <1>5
    <3>4. QED  BY <3>1, <3>2, <3>3 DEF SoundReader
  <2>2. QED  BY <1>8, <2>1
<1>10. EdgesCounted'
  <2>1. SUFFICES ASSUME NEW e \in 1..Edges
        PROVE  kg_edges'[e] + Cardinality(CanAdd(e)') <= Cardinality(Reader)
    BY <1>1, <1>6 DEF EdgesCounted
  <2>2. kg_edges[e] \in Nat /\ kg_edges[e] + Cardinality(CanAdd(e)) <= Cardinality(Reader)
    BY DEF GraphInv, EdgesCounted
  <2>3. CanAdd(e)' \subseteq CanAdd(e)
    BY <1>1, <1>2, <1>3, Sizes DEF CanAdd
  <2>4. CASE e # a
    <3>1. Cardinality(CanAdd(e)') <= Cardinality(CanAdd(e)) /\ Cardinality(CanAdd(e)') \in Nat
      BY <2>3, CanAddFinite, FS_Subset, FS_CardinalityType
    <3>2. QED  BY <1>5, <2>2, <2>4, <3>1, CanAddFinite, Sizes
  <2>5. CASE e = a
    <3>1. r \in CanAdd(e)  BY <1>1, <1>3, <1>4, <2>5, Sizes DEF CanAdd
    <3>2. r \notin CanAdd(e)'
      BY <1>2, <1>3, <1>4, <2>5, Sizes DEF CanAdd
    <3>3. CanAdd(e)' \subseteq CanAdd(e) \ {r}  BY <2>3, <3>2
    <3>4. /\ IsFiniteSet(CanAdd(e) \ {r})
          /\ Cardinality(CanAdd(e) \ {r}) = Cardinality(CanAdd(e)) - 1
      BY <3>1, CanAddFinite, FS_RemoveElement
    <3>5. Cardinality(CanAdd(e)') <= Cardinality(CanAdd(e)) - 1 /\ Cardinality(CanAdd(e)') \in Nat
      BY <3>3, <3>4, FS_Subset, FS_CardinalityType
    <3>6. QED  BY <1>5, <2>2, <2>5, <3>5, CanAddFinite, Sizes
  <2>6. QED  BY <2>4, <2>5
<1>11. Whole' \/ Knowledge!Seeding' # {}
  <2>1. CASE n + 1 = Entities + Edges
    <3>1. \A e \in 1..Edges : Entities + e <= n + 1  BY <2>1, Sizes
    <3>2. kg_entities' = 1..Entities  BY <1>1, <1>7 DEF GraphInv
    <3>3. QED  BY <1>7, <3>1, <3>2 DEF Whole
  <2>2. CASE n + 1 # Entities + Edges
    BY <1>2, <1>3, <2>2 DEF Knowledge!Seeding
  <2>3. QED  BY <2>1, <2>2
<1>12. QED  BY <1>1, <1>2, <1>5, <1>9, <1>10, <1>11 DEF GraphInv

LEMMA ServeKeeps ==
    ASSUME GraphInv, NEW r \in Reader, Knowledge!Serve(r)
    PROVE  GraphInv'
<1>1. req \in [Reader -> Locals] /\ req[r] \in Locals /\ SoundReader(req[r])
      /\ kg_entities \subseteq 1..Entities
  BY DEF GraphInv
<1>2. CASE Knowledge!ReadNodes(r)
  <2> DEFINE s == [req[r] EXCEPT !.pc = IF @ = "idle" THEN "edges" ELSE "answer",
                                 !.nodes = kg_entities]
  <2>1. req' = [req EXCEPT ![r] = s] /\ req[r].pc \in {"idle", "again"}
        /\ UNCHANGED <<kg_entities, kg_edges, broken>>
    BY <1>1, <1>2 DEF Knowledge!ReadNodes
  <2>2. /\ s \in Locals /\ s.nodes = kg_entities /\ s.seeded = req[r].seeded
        /\ s.pc = IF req[r].pc = "idle" THEN "edges" ELSE "answer"
    BY <1>1 DEF Locals
  <2> HIDE DEF s
  <2>3. QED  BY <1>1, <2>1, <2>2, ReadKeeps DEF SoundReader
<1>3. CASE Knowledge!ReadEdges(r)
  <2> DEFINE s == IF req[r].nodes = {} THEN [Knowledge!Idle EXCEPT !.pc = "seed"] ELSE Knowledge!Idle
  <2>1. req' = [req EXCEPT ![r] = s] /\ req[r].pc = "edges"
        /\ UNCHANGED <<kg_entities, kg_edges, broken>>
    BY <1>1, <1>3 DEF Knowledge!ReadEdges, Knowledge!MustSeed
  <2>2. s \in Locals /\ s.seeded = 0 /\ s.pc = IF req[r].nodes = {} THEN "seed" ELSE "idle"
    BY Sizes DEF Locals
  <2> HIDE DEF s
  <2>3. QED  BY <2>1, <2>2, ReadKeeps
<1>4. CASE Knowledge!ReadEdgesAgain(r)
  <2>1. req' = [req EXCEPT ![r] = Knowledge!Idle] /\ req[r].pc = "answer"
        /\ UNCHANGED <<kg_entities, kg_edges, broken>>
    BY <1>4 DEF Knowledge!ReadEdgesAgain
  <2>2. QED  BY <2>1, Sizes, ReadKeeps
<1>5. QED  BY <1>2, <1>3, <1>4, UpsertKeeps, CreateKeeps DEF Knowledge!Serve

LEMMA GraphStep == GraphInv /\ [Next]_vars => GraphInv'
<1> SUFFICES ASSUME GraphInv, [Next]_vars PROVE GraphInv'  OBVIOUS
<1>1. ASSUME UNCHANGED graphVars PROVE GraphInv'
  <2>1. UNCHANGED <<kg_entities, kg_edges, req, broken>>  BY <1>1 DEF graphVars
  <2>2. EdgesCounted'  BY <2>1 DEF GraphInv, EdgesCounted, CanAdd
  <2>3. \A r \in Reader : SoundReader(req[r])'  BY <2>1 DEF GraphInv, SoundReader
  <2>4. QED  BY <2>1, <2>2, <2>3 DEF GraphInv, Whole, Knowledge!Seeding
<1>2. ASSUME NEW p \in Process, Kill(p) PROVE GraphInv'
  BY <1>1, <1>2, DropKeeps DEF Kill
<1>3. ASSUME NEW r \in Reader, RequestFails(r) PROVE GraphInv'
  BY <1>3, DropKeeps DEF RequestFails
<1>4. QED
  BY <1>1, <1>2, <1>3, ServeKeeps DEF Next, Bring, Request, vars, graphVars

\* What the graph and its seeders keep, however they overlap and whoever dies.
THEOREM GraphInvHolds == Spec => []GraphInv
  BY GraphInit, GraphStep, PTL DEF Spec

\* EdgesBounded, for any number of requests and any seed: overlapping seeders
\* multiply an edge no more than by the requests served at once
\* (knowledge_graph_persisted, KnowledgeRepository.seed).
THEOREM EdgesBoundedHolds == Spec => []EdgesBounded
<1>1. GraphInv => EdgesBounded
  <2>1. SUFFICES ASSUME GraphInv, NEW e \in 1..Edges PROVE kg_edges[e] <= Cardinality(Reader)
    BY SameCounts DEF EdgesBounded, Knowledge!EdgesBounded
  <2>2. kg_edges[e] \in Nat /\ kg_edges[e] + Cardinality(CanAdd(e)) <= Cardinality(Reader)
    BY <2>1 DEF GraphInv, EdgesCounted
  <2>3. QED  BY <2>2, CanAddFinite, Sizes
<1>2. QED  BY <1>1, GraphInvHolds, PTL

-----------------------------------------------------------------------------
(* The graph and the schema together.                                      *)

\* Requests are only at work in an API that is up.
ServedUp == (\E r \in Reader : req[r].pc # "idle") => mig[Api].pc = "up"

LEMMA ServedUpStep == StartupInv /\ GraphInv /\ ServedUp /\ [Next]_vars => ServedUp'
<1> SUFFICES ASSUME StartupInv, GraphInv, ServedUp, [Next]_vars PROVE ServedUp'  OBVIOUS
<1>1. Api \in Process /\ DOMAIN mig = Process
  BY StartupAssumption DEF StartupInv
<1>2. CASE UNCHANGED vars  BY <1>2 DEF vars, ServedUp
<1>3. ASSUME NEW p \in Process, Bring(p) PROVE ServedUp'
  <2>1. req' = req /\ mig[p].pc # "up"
    BY <1>3 DEF Bring, graphVars, Schema!Start, Schema!Migrate, Schema!Look, Schema!ProbeSchema,
                Schema!Record, Schema!Apply, Schema!ApplyFails, Schema!CreateLedger,
                Schema!CreateFails
  <2>2. \A q \in Process \ {p} : mig'[q] = mig[q]
    BY <1>1, <1>3 DEF Bring, Schema!Start, Schema!Migrate, Schema!Look, Schema!ProbeSchema,
                Schema!Record, Schema!Apply, Schema!ApplyFails, Schema!CreateLedger,
                Schema!CreateFails, Schema!Goto, Schema!NextFile
  <2>3. QED  BY <1>1, <2>1, <2>2 DEF ServedUp
<1>4. ASSUME NEW p \in Process, Kill(p) PROVE ServedUp'
  <2>1. mig' = [mig EXCEPT ![p] = Schema!Down]  BY <1>4 DEF Kill, Schema!Die
  <2>2. CASE p = Api
    <3>1. \A r \in Reader : req'[r].pc = "idle"
      BY <1>4, <2>2, Sizes DEF Kill, Knowledge!Drop
    <3>2. QED  BY <3>1 DEF ServedUp
  <2>3. CASE p # Api
    BY <1>1, <1>4, <2>1, <2>3 DEF Kill, graphVars, ServedUp
  <2>4. QED  BY <2>2, <2>3
<1>5. ASSUME NEW r \in Reader, Request(r) PROVE ServedUp'
  BY <1>5 DEF Request, ServesRequests, schemaVars, ServedUp
<1>6. ASSUME NEW r \in Reader, RequestFails(r) PROVE ServedUp'
  BY <1>6, Sizes DEF RequestFails, Knowledge!Drop, ServedUp
<1>7. QED  BY <1>2, <1>3, <1>4, <1>5, <1>6 DEF Next

\* GraphIsSound, for any seed, files, probes, processes and requests: while no
\* seeder has died the graph is empty, being seeded or whole, and no request
\* meets a schema that is not all there (knowledge_graph_persisted, lifespan).
THEOREM GraphIsSoundHolds == Spec => []GraphIsSound
<1>1. Init => ServedUp
  BY Sizes DEF Init, Knowledge!Init, ServedUp
<1>2. Spec => []ServedUp
  BY <1>1, ServedUpStep, StartupInvHolds, GraphInvHolds, PTL DEF Spec
<1>3. StartupInv /\ GraphInv /\ ServedUp => GraphIsSound
  <2>1. SUFFICES ASSUME StartupInv, GraphInv, ServedUp PROVE GraphIsSound  OBVIOUS
  <2>2. Knowledge!WholeWhenQuiet
    BY <2>1 DEF GraphInv, Whole, Knowledge!WholeWhenQuiet
  <2>3. ASSUME torn = 0, mig[Api].pc = "up", NEW f \in 1..LastFile PROVE Schema!Complete(f)
    <3>1. Api \in Process /\ LastFile \in Nat
      BY StartupAssumption DEF Schema!MigrationsAssumption
    <3>2. SoundProcess(mig[Api]) /\ SoundLedger  BY <2>1, <3>1 DEF StartupInv
    <3>3. /\ mig[Api].file \in Nat /\ mig[Api].file > LastFile
          /\ 1..(mig[Api].file - 1) \subseteq ledger
      BY <2>3, <3>2 DEF SoundProcess
    <3>4. f \in ledger  BY <3>1, <3>3
    <3>5. QED  BY <2>3, <3>2, <3>4 DEF SoundLedger
  <2>4. QED  BY <2>1, <2>2, <2>3 DEF GraphIsSound, ServedUp
<1>4. QED  BY <1>2, <1>3, StartupInvHolds, GraphInvHolds, PTL

=============================================================================
