------------------------- MODULE VeleroImportProofs --------------------------
(***************************************************************************)
(* Proofs about the import controller, for any number of imports that      *)
(* share its one worker and its step list: the phases, the shared list,    *)
(* and the lifecycle a user sees.                                          *)
(*                                                                         *)
(* The second part is about what an import restores, in what order, and    *)
(* what it waits for: a completed import has its data, and its original    *)
(* objects unless it asked for snapshots only; these come after the stage  *)
(* pods are gone; and the timeout cancels an import that is failing.       *)
(*                                                                         *)
(* All of the second part depends on the inputs.  EnsureVeleroRestore      *)
(* takes a restore of the same name for its own, so that two imports of    *)
(* one export share them; and DeletingStagePod makes a status update for   *)
(* each namespace, so that with two of them the phase moves past the       *)
(* restore of the originals, and with none it does not move at all.        *)
(***************************************************************************)
EXTENDS VeleroImportProperties, Integers, SequenceTheorems, TLAPS

-----------------------------------------------------------------------------
(* The two step lists.                                                     *)

LEMMA FullStepsAre ==
  /\ DOMAIN VeleroImportSteps = 1..8 /\ Len(VeleroImportSteps) = 8
  /\ VeleroImportSteps[1] = "Initial"
  /\ VeleroImportSteps[2] = "RestoreTempNamespace"
  /\ VeleroImportSteps[3] = "RestoringTempNamespace"
  /\ VeleroImportSteps[4] = "DeleteStagePod"
  /\ VeleroImportSteps[5] = "DeletingStagePod"
  /\ VeleroImportSteps[6] = "RestoreOriginNamespace"
  /\ VeleroImportSteps[7] = "RestoringOriginNamespace"
  /\ VeleroImportSteps[8] = "Completed"
BY DEF VeleroImportSteps, PhaseInitial, PhaseCompleted

LEMMA SnapshotStepsAre ==
  /\ DOMAIN VeleroImportSnapshotSteps = 1..6 /\ Len(VeleroImportSnapshotSteps) = 6
  /\ VeleroImportSnapshotSteps[1] = "Initial"
  /\ VeleroImportSnapshotSteps[2] = "RestoreTempNamespace"
  /\ VeleroImportSnapshotSteps[3] = "RestoringTempNamespace"
  /\ VeleroImportSnapshotSteps[4] = "DeleteStagePod"
  /\ VeleroImportSnapshotSteps[5] = "DeletingStagePod"
  /\ VeleroImportSnapshotSteps[6] = "Completed"
BY DEF VeleroImportSnapshotSteps, PhaseInitial, PhaseCompleted

(* No phase occurs twice in either, so that each but the last has one      *)
(* place and one successor.                                                *)
LEMMA FullNext ==
  ASSUME NEW k \in 1..8
  PROVE  /\ IndexOf(VeleroImportSteps[k], VeleroImportSteps) = k
         /\ k # 8 => GetNextPhase(VeleroImportSteps[k], VeleroImportSteps)
                       = VeleroImportSteps[k + 1]
<1>1. \A j \in 1..8 : VeleroImportSteps[j] = VeleroImportSteps[k] <=> j = k
  BY FullStepsAre
<1>2. IndexOf(VeleroImportSteps[k], VeleroImportSteps) = k
  BY <1>1, FullStepsAre DEF IndexOf
<1> QED BY <1>2, FullStepsAre DEF GetNextPhase

LEMMA SnapshotNext ==
  ASSUME NEW k \in 1..6
  PROVE  /\ IndexOf(VeleroImportSnapshotSteps[k], VeleroImportSnapshotSteps) = k
         /\ k # 6 => GetNextPhase(VeleroImportSnapshotSteps[k],
                                  VeleroImportSnapshotSteps)
                       = VeleroImportSnapshotSteps[k + 1]
<1>1. \A j \in 1..6 :
         VeleroImportSnapshotSteps[j] = VeleroImportSnapshotSteps[k] <=> j = k
  BY SnapshotStepsAre
<1>2. IndexOf(VeleroImportSnapshotSteps[k], VeleroImportSnapshotSteps) = k
  BY <1>1, SnapshotStepsAre DEF IndexOf
<1> QED BY <1>2, SnapshotStepsAre DEF GetNextPhase

(* The phases of an import, and the successor of each. *)
PlanOf(i) == {StepsOf(i)[k] : k \in DOMAIN StepsOf(i)}

NextOf(i, phase) == GetNextPhase(phase, StepsOf(i))

CommonPhases ==
  {"Initial", "RestoreTempNamespace", "RestoringTempNamespace",
   "DeleteStagePod", "DeletingStagePod", "Completed"}

OriginPhases == {"RestoreOriginNamespace", "RestoringOriginNamespace"}

LEMMA PlanIs ==
  ASSUME NEW i
  PROVE  /\ PlanOf(i) = IF SnapshotOnly[i] THEN CommonPhases
                                           ELSE CommonPhases \union OriginPhases
         /\ GetLastPhase(StepsOf(i)) = "Completed"
         /\ PlanOf(i) \subseteq ImportPhases
<1>1. {VeleroImportSteps[k] : k \in DOMAIN VeleroImportSteps}
        = CommonPhases \union OriginPhases
  <2>1. \A p : p \in {VeleroImportSteps[k] : k \in DOMAIN VeleroImportSteps}
                 <=> \E k \in 1..8 : p = VeleroImportSteps[k]
    BY FullStepsAre
  <2>2. \A k \in 1..8 : \/ k = 1 \/ k = 2 \/ k = 3 \/ k = 4
                        \/ k = 5 \/ k = 6 \/ k = 7 \/ k = 8
    OBVIOUS
  <2> QED BY <2>1, <2>2, FullStepsAre DEF CommonPhases, OriginPhases
<1>2. {VeleroImportSnapshotSteps[k] : k \in DOMAIN VeleroImportSnapshotSteps}
        = CommonPhases
  <2>1. \A p : p \in {VeleroImportSnapshotSteps[k] :
                         k \in DOMAIN VeleroImportSnapshotSteps}
                 <=> \E k \in 1..6 : p = VeleroImportSnapshotSteps[k]
    BY SnapshotStepsAre
  <2>2. \A k \in 1..6 : k = 1 \/ k = 2 \/ k = 3 \/ k = 4 \/ k = 5 \/ k = 6
    OBVIOUS
  <2> QED BY <2>1, <2>2, SnapshotStepsAre DEF CommonPhases
<1>3. CASE SnapshotOnly[i]
  BY <1>1, <1>2, <1>3, SnapshotStepsAre
  DEF PlanOf, StepsOf, GetLastPhase, ImportPhases
<1>4. CASE ~SnapshotOnly[i]
  BY <1>1, <1>4, FullStepsAre DEF PlanOf, StepsOf, GetLastPhase, ImportPhases
<1> QED BY <1>3, <1>4

LEMMA NextIs ==
  ASSUME NEW i
  PROVE  /\ NextOf(i, "Initial") = "RestoreTempNamespace"
         /\ NextOf(i, "RestoreTempNamespace") = "RestoringTempNamespace"
         /\ NextOf(i, "RestoringTempNamespace") = "DeleteStagePod"
         /\ NextOf(i, "DeleteStagePod") = "DeletingStagePod"
         /\ SnapshotOnly[i] => NextOf(i, "DeletingStagePod") = "Completed"
         /\ ~SnapshotOnly[i] =>
              /\ NextOf(i, "DeletingStagePod") = "RestoreOriginNamespace"
              /\ NextOf(i, "RestoreOriginNamespace") = "RestoringOriginNamespace"
              /\ NextOf(i, "RestoringOriginNamespace") = "Completed"
<1>1. CASE SnapshotOnly[i]
  <2>1. \A k \in 1..5 : NextOf(i, VeleroImportSnapshotSteps[k])
                          = VeleroImportSnapshotSteps[k + 1]
    BY <1>1, SnapshotNext DEF NextOf, StepsOf
  <2>2. /\ 1 \in 1..5 /\ 2 \in 1..5 /\ 3 \in 1..5 /\ 4 \in 1..5 /\ 5 \in 1..5
        /\ 1 + 1 = 2 /\ 2 + 1 = 3 /\ 3 + 1 = 4 /\ 4 + 1 = 5 /\ 5 + 1 = 6
    OBVIOUS
  <2> QED BY <1>1, <2>1, <2>2, SnapshotStepsAre
<1>2. CASE ~SnapshotOnly[i]
  <2>1. \A k \in 1..7 : NextOf(i, VeleroImportSteps[k]) = VeleroImportSteps[k + 1]
    BY <1>2, FullNext DEF NextOf, StepsOf
  <2>2. /\ 1 \in 1..7 /\ 2 \in 1..7 /\ 3 \in 1..7 /\ 4 \in 1..7 /\ 5 \in 1..7
        /\ 6 \in 1..7 /\ 7 \in 1..7
        /\ 1 + 1 = 2 /\ 2 + 1 = 3 /\ 3 + 1 = 4 /\ 4 + 1 = 5 /\ 5 + 1 = 6
        /\ 6 + 1 = 7 /\ 7 + 1 = 8
    OBVIOUS
  <2> QED BY <1>2, <2>1, <2>2, FullStepsAre
<1> QED BY <1>1, <1>2

LEMMA PlacesAre ==
  ASSUME NEW i
  PROVE  /\ Place(i, "Initial") = 1 /\ Place(i, "RestoreTempNamespace") = 2
         /\ Place(i, "RestoringTempNamespace") = 3
         /\ Place(i, "DeleteStagePod") = 4 /\ Place(i, "DeletingStagePod") = 5
         /\ SnapshotOnly[i] => Place(i, "Completed") = 6
         /\ ~SnapshotOnly[i] =>
              /\ Place(i, "RestoreOriginNamespace") = 6
              /\ Place(i, "RestoringOriginNamespace") = 7
              /\ Place(i, "Completed") = 8
<1>1. CASE SnapshotOnly[i]
  <2>1. \A k \in 1..6 : Place(i, VeleroImportSnapshotSteps[k]) = k
    BY <1>1, SnapshotNext DEF Place, StepsOf
  <2>2. 1 \in 1..6 /\ 2 \in 1..6 /\ 3 \in 1..6 /\ 4 \in 1..6 /\ 5 \in 1..6 /\ 6 \in 1..6
    OBVIOUS
  <2> QED BY <1>1, <2>1, <2>2, SnapshotStepsAre
<1>2. CASE ~SnapshotOnly[i]
  <2>1. \A k \in 1..8 : Place(i, VeleroImportSteps[k]) = k
    BY <1>2, FullNext DEF Place, StepsOf
  <2>2. /\ 1 \in 1..8 /\ 2 \in 1..8 /\ 3 \in 1..8 /\ 4 \in 1..8
        /\ 5 \in 1..8 /\ 6 \in 1..8 /\ 7 \in 1..8 /\ 8 \in 1..8
    OBVIOUS
  <2> QED BY <1>2, <2>1, <2>2, FullStepsAre
<1> QED BY <1>1, <1>2

(* Every phase but the last leads one place further on, in the same plan.  *)
LEMMA NextAdvances ==
  ASSUME NEW i, NEW p \in PlanOf(i), p # "Completed"
  PROVE  /\ NextOf(i, p) \in PlanOf(i) /\ NextOf(i, p) # "Initial"
         /\ Place(i, NextOf(i, p)) = Place(i, p) + 1
<1>1. CASE p \in CommonPhases
  BY <1>1, PlanIs, NextIs, PlacesAre DEF CommonPhases, OriginPhases
<1>2. CASE p \in OriginPhases
  <2>1. ~SnapshotOnly[i]
    BY <1>2, PlanIs DEF CommonPhases, OriginPhases
  <2> QED BY <1>2, <2>1, PlanIs, NextIs, PlacesAre DEF CommonPhases, OriginPhases
<1> QED BY <1>1, <1>2, PlanIs

-----------------------------------------------------------------------------
(* The inductive invariant: resources, informer and worker.                *)

ResourcesOf(i) == {c \in Resources : c.phase \in PlanOf(i)}

(* No resource leaves its own plan, and the informer ends in it. *)
Stored ==
  /\ cr \in [Imports -> Resources] /\ cached \in [Imports -> Resources]
  /\ watch \in [Imports -> Seq(Resources)]
  /\ \A i \in Imports :
        /\ cr[i] \in ResourcesOf(i) /\ cached[i] \in ResourcesOf(i)
        /\ watch[i] \in Seq(ResourcesOf(i))
        /\ cr[i] = IF watch[i] = <<>> THEN cached[i] ELSE watch[i][Len(watch[i])]

(* Neither canceled nor failed for good. *)
Alive(c) == c.state \notin {StateCanceled, StateVeleroFailed}

(* The copy is one ignored status update ahead of the resource. *)
Ahead ==
  /\ cr[cur].phase = "RestoringTempNamespace" /\ Alive(cr[cur])
  /\ mem.phase = "DeleteStagePod"

(* The step list is that of the import under way, and the copy of it is of *)
(* the same plan; only the loop of DeletingStagePod runs into Completed.   *)
Held ==
  /\ pc \in {"idle", "start", "phase", "loop"} \union Parts
  /\ cur \in Imports \union {NoImport}
  /\ mem \in Resources /\ fresh \in BOOLEAN
  /\ todo \in SUBSET TargetNamespaces
  /\ steps \in {<<>>, VeleroImportSteps, VeleroImportSnapshotSteps}
  /\ pc # "idle" =>
       /\ cur \in Imports /\ steps = StepsOf(cur) /\ todo \subseteq Targets[cur]
       /\ mem.phase \in PlanOf(cur) /\ Alive(mem)
       /\ mem.phase = "Completed" => pc = "loop"
  /\ pc = "temp" => mem.phase = "RestoreTempNamespace"
  /\ pc = "orig" => mem.phase = "RestoreOriginNamespace"
  /\ fresh => pc # "idle" /\ (mem = cr[cur] \/ Ahead)

Books ==
  /\ budget \in [Disturbances -> Nat]
  /\ failing \in SUBSET Imports /\ blind \in SUBSET TargetNamespaces
  /\ panics \in SUBSET {"no copy", "no next phase"}

Control == Stored /\ Held /\ Books

(* What a step may do to a resource and to what a user sees of it. *)
Forward ==
  \A i \in Imports : cr'[i].phase # cr[i].phase =>
     /\ cr'[i].phase \in PlanOf(i)
     /\ \/ Place(i, cr'[i].phase) = Place(i, cr[i].phase) + 1
        \/ /\ cr[i].phase = "RestoringTempNamespace"
           /\ Place(i, cr'[i].phase) = Place(i, cr[i].phase) + 2

Legal(s, t) ==
  \/ s = t
  \/ s = "queued" /\ t \in {"running", "canceled"}
  \/ s = "running" /\ t \in {"completed", "failed", "canceled"}

Lawful ==
  \/ \A i \in Imports : StageOf(cr'[i]) = StageOf(cr[i])
  \/ \E i \in Imports :
        /\ Legal(StageOf(cr[i]), StageOf(cr'[i]))
        /\ \A j \in Imports \ {i} : cr'[j] = cr[j]

StepOK == Control' /\ Forward /\ Lawful

-----------------------------------------------------------------------------
(* A resource, and what may be written in place of the worker's copy.      *)

LEMMA StageIs ==
  ASSUME NEW c \in Resources
  PROVE  /\ Alive(c) => StageOf(c) = IF c.phase = "Initial" THEN "queued"
                                     ELSE IF c.phase = "Completed" THEN "completed"
                                     ELSE "running"
         /\ c.state = StateCanceled => StageOf(c) = "canceled"
         /\ c.state = StateVeleroFailed => StageOf(c) = "failed"
BY DEF StageOf, Alive, PhaseInitial, PhaseCompleted, StateCanceled, StateVeleroFailed

Follows(c) ==
  /\ c \in ResourcesOf(cur)
  /\ \/ c.phase = mem.phase
     \/ mem.phase # "Completed" /\ c.phase = NextOf(cur, mem.phase)
  /\ Legal(StageOf(mem), StageOf(c))

Working == Control /\ pc # "idle"

(* UpdateStatus without an error, with or without the reference. *)
LEMMA SucceededFollows ==
  ASSUME Working, NEW c \in Resources, Alive(c), c.phase = mem.phase,
         mem.phase # "Completed"
  PROVE  /\ Follows(Succeeded(c))
         /\ Alive(Succeeded(c))
         /\ Succeeded(c).phase = NextOf(cur, mem.phase)
         /\ Succeeded(c).ref = c.ref
         /\ Succeeded(c).state = IF Succeeded(c).phase = "Completed"
                                   THEN StateCompleted ELSE StateInProgress
         /\ \A r \in {"nil"} \union Parts : Follows([Succeeded(c) EXCEPT !.ref = r])
<1> DEFINE next == NextOf(cur, mem.phase)
           state == IF next = "Completed" THEN StateCompleted ELSE StateInProgress
           d == Succeeded(c)
<1>1. /\ cur \in Imports /\ mem \in Resources /\ mem.phase \in PlanOf(cur)
      /\ Alive(mem) /\ steps = StepsOf(cur)
  BY DEF Working, Control, Held
<1>2. next \in PlanOf(cur) /\ next # "Initial"
  BY <1>1, NextAdvances
<1>3. next \in ImportPhases /\ GetLastPhase(steps) = "Completed"
  BY <1>1, <1>2, PlanIs
<1>4. d = [c EXCEPT !.phase = next, !.since = "nil", !.state = state]
  BY <1>1, <1>3 DEF Succeeded, NextOf
<1>5. state \in {StateCompleted, StateInProgress}
  OBVIOUS
<1> HIDE DEF next
<1>6. /\ d \in Resources /\ d.phase = next /\ d.state = state /\ d.ref = c.ref
  BY <1>3, <1>4, <1>5 DEF Resources
<1> HIDE DEF d
<1>7. ASSUME NEW b \in Resources, b.phase = next, b.state = state
      PROVE  Follows(b) /\ Alive(b)
  <2>1. Alive(b)
    BY <1>5, <1>7
    DEF Alive, StateCompleted, StateInProgress, StateCanceled, StateVeleroFailed
  <2>2. Legal(StageOf(mem), StageOf(b))
    <3>1. StageOf(mem) \in {"queued", "running"}
      BY <1>1, StageIs
    <3>2. StageOf(b) = IF next = "Completed" THEN "completed" ELSE "running"
      BY <1>2, <1>7, <2>1, StageIs
    <3>3. next = "Completed" => mem.phase # "Initial"
      BY NextIs DEF next
    <3>4. StageOf(mem) = IF mem.phase = "Initial" THEN "queued" ELSE "running"
      BY <1>1, StageIs
    <3> QED BY <3>2, <3>3, <3>4 DEF Legal
  <2> QED BY <1>2, <1>7, <2>1, <2>2 DEF Follows, ResourcesOf, next
<1>8. ASSUME NEW r \in {"nil"} \union Parts
      PROVE  Follows([d EXCEPT !.ref = r])
  <2>1. [d EXCEPT !.ref = r] \in Resources /\ [d EXCEPT !.ref = r].phase = next
        /\ [d EXCEPT !.ref = r].state = state
    BY <1>6 DEF Resources
  <2> QED BY <1>7, <2>1
<1>9. Follows(d) /\ Alive(d)
  BY <1>6, <1>7
<1> QED BY <1>6, <1>8, <1>9 DEF d, next

(* UpdateStatus with an error, the abort and the timeout. *)
LEMMA FailedFollows ==
  ASSUME Working
  PROVE  /\ Follows(FailedOn(mem))
         /\ FailedOn(mem).phase = mem.phase /\ FailedOn(mem).ref = mem.ref
         /\ FailedOn(mem).state = StateFailed
<1>1. /\ cur \in Imports /\ mem \in Resources /\ mem.phase \in PlanOf(cur)
      /\ Alive(mem)
  BY DEF Working, Control, Held
<1> DEFINE d == FailedOn(mem)
<1>2. /\ d \in Resources /\ d.phase = mem.phase /\ d.state = StateFailed
      /\ d.ref = mem.ref
  BY <1>1 DEF FailedOn, Resources, Alive
<1> HIDE DEF d
<1>3. Alive(d)
  BY <1>2 DEF Alive, StateFailed, StateCanceled, StateVeleroFailed
<1>4. StageOf(d) = StageOf(mem)
  BY <1>1, <1>2, <1>3, StageIs
<1> QED BY <1>1, <1>2, <1>4 DEF Follows, ResourcesOf, Legal, d

LEMMA EndsFollow ==
  ASSUME Working, mem.phase # "Completed"
  PROVE  /\ Follows([mem EXCEPT !.state = StateCanceled])
         /\ mem.phase # "Initial" =>
              Follows(FailedOn([mem EXCEPT !.state = StateVeleroFailed]))
<1>1. /\ cur \in Imports /\ mem \in Resources /\ mem.phase \in PlanOf(cur)
      /\ Alive(mem)
  BY DEF Working, Control, Held
<1> DEFINE d == [mem EXCEPT !.state = StateCanceled]
           v == [mem EXCEPT !.state = StateVeleroFailed]
           f == FailedOn(v)
<1>2. d \in Resources /\ d.phase = mem.phase /\ d.state = StateCanceled
  BY <1>1 DEF Resources
<1>3. v \in Resources /\ v.phase = mem.phase /\ v.state = StateVeleroFailed
  BY <1>1 DEF Resources
<1> HIDE DEF d, v
<1>4. f \in Resources /\ f.phase = mem.phase /\ f.state = StateVeleroFailed
  BY <1>3 DEF FailedOn, Resources
<1> HIDE DEF f
<1>5. StageOf(mem) = IF mem.phase = "Initial" THEN "queued" ELSE "running"
  BY <1>1, StageIs
<1>6. StageOf(d) = "canceled" /\ StageOf(f) = "failed"
  BY <1>2, <1>4, StageIs
<1> QED BY <1>1, <1>2, <1>4, <1>5, <1>6 DEF Follows, ResourcesOf, Legal, d, f, v

(* A resource in its first state. *)
LEMMA NewImportIs ==
  /\ NewImport \in Resources /\ NewImport.phase = "Initial" /\ Alive(NewImport)
  /\ StageOf(NewImport) = "queued" /\ NewImport.state = StateNone
  /\ \A i : NewImport \in ResourcesOf(i)
<1>1. "Initial" \in ImportPhases /\ \A i : "Initial" \in PlanOf(i)
  <2>1. \A i : "Initial" \in PlanOf(i) /\ PlanOf(i) \subseteq ImportPhases
    BY PlanIs DEF CommonPhases, OriginPhases
  <2> QED BY <2>1
<1>2. /\ NewImport \in Resources /\ NewImport.phase = "Initial" /\ Alive(NewImport)
      /\ NewImport.state = StateNone
  BY <1>1
  DEF NewImport, Resources, Alive, StateNone, PhaseInitial, StateCanceled,
      StateVeleroFailed
<1>3. StageOf(NewImport) = "queued"
  BY <1>2, StageIs
<1> QED BY <1>1, <1>2, <1>3 DEF ResourcesOf

-----------------------------------------------------------------------------
(* Writes.                                                                 *)

LEMMA AppendIs ==
  ASSUME NEW S, NEW w \in Seq(S), NEW c \in S
  PROVE  /\ Append(w, c) \in Seq(S)
         /\ Append(w, c) # <<>>
         /\ Append(w, c)[Len(Append(w, c))] = c
OBVIOUS

LEMMA TailIs ==
  ASSUME NEW S, NEW w \in Seq(S), w # <<>>
  PROVE  /\ Head(w) \in S /\ Tail(w) \in Seq(S)
         /\ w[Len(w)] = IF Tail(w) = <<>> THEN Head(w) ELSE Tail(w)[Len(Tail(w))]
<1> DEFINE t == Tail(w)
<1>1. /\ Len(w) \in Nat /\ Len(t) \in Nat /\ Len(w) = Len(t) + 1
      /\ Head(w) = w[1] /\ Head(w) \in S /\ t \in Seq(S)
      /\ \A i \in 1..Len(t) : t[i] = w[i + 1]
  OBVIOUS
<1>2. Len(t) = 0 <=> t = <<>>
  BY <1>1, EmptySeq
<1> HIDE DEF t
<1>3. w[Len(w)] = IF t = <<>> THEN Head(w) ELSE t[Len(t)]
  <2>1. CASE Len(t) = 0
    <3>1. w[Len(w)] = Head(w)
      BY <1>1, <2>1
    <3> QED BY <1>2, <2>1, <3>1, Zenon
  <2>2. CASE Len(t) # 0
    <3>1. w[Len(w)] = t[Len(t)]
      BY <1>1, <2>2
    <3> QED BY <1>2, <2>2, <3>1, Zenon
  <2> QED BY <2>1, <2>2
<1> QED BY <1>1, <1>3 DEF t

LEMMA StoredKept ==
  ASSUME Stored, UNCHANGED resourceVars
  PROVE  Stored' /\ Forward /\ Lawful
BY DEF Stored, resourceVars, Forward, Lawful

LEMMA WriteStored ==
  ASSUME Working, NEW c, Write(c), fresh => Follows(c), UNCHANGED cached
  PROVE  /\ Stored' /\ Forward /\ Lawful
         /\ fresh => cr' = [cr EXCEPT ![cur] = c] /\ cr'[cur] = c
         /\ ~fresh => UNCHANGED resourceVars
<1>1. cur \in Imports /\ fresh \in BOOLEAN /\ Stored
  BY DEF Working, Control, Held
<1>2. CASE ~fresh
  <2>1. UNCHANGED resourceVars
    BY <1>2 DEF Write, resourceVars
  <2> QED BY <1>1, <1>2, <2>1, StoredKept
<1>3. CASE fresh
  <2>1. /\ cr' = [cr EXCEPT ![cur] = c]
        /\ watch' = [watch EXCEPT ![cur] =
                       IF c = cr[cur] THEN @ ELSE Append(@, c)]
    BY <1>3 DEF Write
  <2>2. c \in Resources /\ c \in ResourcesOf(cur)
    BY <1>3 DEF Follows, ResourcesOf
  <2>3. /\ cr' \in [Imports -> Resources] /\ cr'[cur] = c
        /\ \A j \in Imports \ {cur} : cr'[j] = cr[j] /\ watch'[j] = watch[j]
        /\ watch'[cur] = IF c = cr[cur] THEN watch[cur] ELSE Append(watch[cur], c)
    BY <1>1, <2>1, <2>2 DEF Stored
  <2>4. /\ watch'[cur] \in Seq(ResourcesOf(cur))
        /\ watch'[cur] \in Seq(Resources)
        /\ c = IF watch'[cur] = <<>> THEN cached[cur]
                                     ELSE watch'[cur][Len(watch'[cur])]
    <3>1. CASE c = cr[cur]
      BY <1>1, <2>3, <3>1 DEF Stored
    <3>2. CASE c # cr[cur]
      BY <1>1, <2>2, <2>3, <3>2, AppendIs DEF Stored
    <3> QED BY <3>1, <3>2
  <2>5. watch' \in [Imports -> Seq(Resources)]
    BY <1>1, <2>1, <2>3, <2>4 DEF Stored
  <2>6. Stored'
    <3> SUFFICES ASSUME NEW i \in Imports
                 PROVE  /\ cr'[i] \in ResourcesOf(i) /\ cached[i] \in ResourcesOf(i)
                        /\ watch'[i] \in Seq(ResourcesOf(i))
                        /\ cr'[i] = IF watch'[i] = <<>> THEN cached[i]
                                    ELSE watch'[i][Len(watch'[i])]
      BY <1>1, <2>3, <2>5 DEF Stored
    <3>1. CASE i = cur
      BY <1>1, <2>2, <2>3, <2>4, <3>1 DEF Stored
    <3>2. CASE i # cur
      BY <1>1, <2>3, <3>2 DEF Stored
    <3> QED BY <3>1, <3>2
  <2>7. /\ mem = cr[cur] \/ Ahead
        /\ mem.phase \in PlanOf(cur) /\ mem \in Resources /\ Alive(mem)
        /\ cr[cur] \in Resources
    BY <1>1, <1>3 DEF Working, Control, Held, Stored
  <2>8. mem.phase # "Completed" =>
          Place(cur, NextOf(cur, mem.phase)) = Place(cur, mem.phase) + 1
    BY <2>7, NextAdvances
  <2>9. Forward
    <3>1. CASE mem = cr[cur]
      BY <1>3, <2>2, <2>3, <2>8, <3>1 DEF Forward, Follows, ResourcesOf
    <3>2. CASE Ahead
      <4>1. Place(cur, mem.phase) = 4 /\ Place(cur, cr[cur].phase) = 3
        BY <3>2, PlacesAre DEF Ahead
      <4>2. \/ Place(cur, c.phase) = 4
            \/ Place(cur, c.phase) = 5
        BY <1>3, <2>8, <3>2, <4>1 DEF Follows, Ahead
      <4>3. cr'[cur].phase \in PlanOf(cur)
            /\ \/ Place(cur, cr'[cur].phase) = Place(cur, cr[cur].phase) + 1
               \/ /\ cr[cur].phase = "RestoringTempNamespace"
                  /\ Place(cur, cr'[cur].phase) = Place(cur, cr[cur].phase) + 2
        BY <2>2, <2>3, <3>2, <4>1, <4>2 DEF ResourcesOf, Ahead
      <4> QED BY <2>3, <4>3 DEF Forward
    <3> QED BY <2>7, <3>1, <3>2
  <2>10. Lawful
    <3>1. StageOf(mem) = StageOf(cr[cur])
      <4>1. CASE Ahead
        BY <2>7, <4>1, StageIs DEF Ahead
      <4> QED BY <2>7, <4>1
    <3>2. Legal(StageOf(cr[cur]), StageOf(cr'[cur]))
      BY <1>3, <2>3, <3>1 DEF Follows
    <3> QED BY <1>1, <2>3, <3>2 DEF Lawful
  <2> QED BY <1>3, <2>1, <2>3, <2>6, <2>9, <2>10
<1> QED BY <1>1, <1>2, <1>3

-----------------------------------------------------------------------------
(* The ways a step of the worker ends.                                     *)

LEMMA SpendTyped ==
  ASSUME Books, NEW what \in Disturbances, Spend(what)
  PROVE  budget' \in [Disturbances -> Nat]
<1>1. budget[what] \in Nat /\ budget \in [Disturbances -> Nat]
  BY DEF Books
<1>2. budget[what] > 0 /\ budget' = [budget EXCEPT ![what] = budget[what] - 1]
  BY DEF Spend
<1>3. budget[what] - 1 \in Nat
  BY <1>1, <1>2
<1> QED BY <1>1, <1>2, <1>3

LEMMA ReturnHeld ==
  ASSUME Held, Return
  PROVE  Held'
BY NewImportIs DEF Held, Return

LEMMA ContinueHeld ==
  ASSUME Working, NEW c \in ResourcesOf(cur), Alive(c),
         NEW where \in {"start", "phase", "loop"} \union Parts,
         NEW loop \in SUBSET Targets[cur], Continue(c, where, loop),
         c.phase = "Completed" => where = "loop",
         where = "temp" => c.phase = "RestoreTempNamespace",
         where = "orig" => c.phase = "RestoreOriginNamespace",
         fresh' \in BOOLEAN,
         fresh' => \/ c = cr'[cur]
                   \/ /\ cr'[cur].phase = "RestoringTempNamespace"
                      /\ Alive(cr'[cur]) /\ c.phase = "DeleteStagePod"
  PROVE  Held'
<1>1. cur \in Imports /\ steps = StepsOf(cur) /\ Held
  BY DEF Working, Control, Held
<1>2. /\ pc' = where /\ mem' = c /\ todo' = loop /\ cur' = cur /\ steps' = steps
  BY DEF Continue
<1>3. Targets[cur] \subseteq TargetNamespaces
  BY <1>1 DEF TargetNamespaces
<1>4. StepsOf(cur)' = StepsOf(cur) /\ PlanOf(cur)' = PlanOf(cur)
  BY <1>2 DEF StepsOf, PlanOf
<1>5. c \in Resources /\ c.phase \in PlanOf(cur)
  BY DEF ResourcesOf
<1>6. Alive(mem)' /\ where # "idle"
  BY <1>2 DEF Alive, Parts
<1>7. fresh' => (mem = cr[cur] \/ Ahead)'
  BY <1>2 DEF Ahead, Alive
<1> QED BY <1>1, <1>2, <1>3, <1>4, <1>5, <1>6, <1>7 DEF Held

LEMMA FinishOK ==
  ASSUME Working, NEW c, Finish(c), fresh => Follows(c),
         budget' \in [Disturbances -> Nat]
  PROVE  StepOK
<1>1. Write(c) /\ Return /\ UNCHANGED <<cached, blind, panics>>
  BY DEF Finish
<1>2. Stored' /\ Forward /\ Lawful
  BY <1>1, WriteStored
<1>3. Held'
  BY <1>1, ReturnHeld DEF Working, Control
<1>4. failing' \in SUBSET Imports
  BY DEF Finish, Working, Control, Held, Books
<1>5. Books'
  BY <1>1, <1>4 DEF Books, Working, Control
<1> QED BY <1>2, <1>3, <1>5 DEF StepOK, Control

LEMMA WaitOK ==
  ASSUME Working, Wait \/ GiveUp, budget' \in [Disturbances -> Nat]
  PROVE  StepOK
<1>1. Return /\ UNCHANGED <<resourceVars, blind, panics>>
  BY DEF Wait, GiveUp
<1>2. Stored' /\ Forward /\ Lawful
  BY <1>1, StoredKept DEF Working, Control
<1>3. Held'
  BY <1>1, ReturnHeld DEF Working, Control
<1>4. Books'
  BY <1>1 DEF Wait, GiveUp, Working, Control, Held, Books
<1> QED BY <1>2, <1>3, <1>4 DEF StepOK, Control

LEMMA RestartOK ==
  ASSUME Control, Restart, budget' \in [Disturbances -> Nat],
         panics' \in SUBSET {"no copy", "no next phase"}
  PROVE  StepOK
<1>1. Stored'
  <2>1. /\ cached' = cr /\ watch' = [i \in Imports |-> <<>>] /\ cr' = cr
        /\ Stored
    BY DEF Restart, Control
  <2> DEFINE none == <<>>
  <2>0. \A S : none \in Seq(S)
    BY EmptySeq
  <2>4. watch' = [i \in Imports |-> none] /\ none = <<>>
    BY <2>1
  <2> HIDE DEF none
  <2>2. watch' \in [Imports -> Seq(Resources)]
    BY <2>0, <2>4
  <2>3. \A i \in Imports : watch'[i] = <<>> /\ watch'[i] \in Seq(ResourcesOf(i))
    BY <2>0, <2>4
  <2> QED BY <2>1, <2>2, <2>3 DEF Stored
<1>2. Forward /\ Lawful
  BY DEF Restart, Forward, Lawful
<1>3. Held'
  <2>1. NewImport \in Resources /\ {} \in SUBSET TargetNamespaces
    BY NewImportIs
  <2> QED BY <2>1 DEF Restart, Held
<1>4. Books'
  <2>1. failing' = failing /\ blind' = blind
    BY DEF Restart
  <2> QED BY <2>1 DEF Control, Books
<1> QED BY <1>1, <1>2, <1>3, <1>4 DEF StepOK, Control

(* A step that leaves the resources alone. *)
LEMMA QuietOK ==
  ASSUME Control, Held', Books', UNCHANGED resourceVars
  PROVE  StepOK
BY StoredKept DEF StepOK, Control

LEMMA PhaseKnown ==
  ASSUME Control, pc # "idle"
  PROVE  /\ Working /\ cur \in Imports /\ mem \in ResourcesOf(cur) /\ Alive(mem)
         /\ mem \in Resources /\ steps = StepsOf(cur)
         /\ GetLastPhase(steps) = "Completed"
         /\ pc # "loop" => mem.phase # "Completed"
         /\ Books /\ budget \in [Disturbances -> Nat]
         /\ todo \in SUBSET Targets[cur]
BY PlanIs DEF Control, Held, Working, ResourcesOf, Books

-----------------------------------------------------------------------------
(* The head of Reconcile.                                                  *)

LEMMA BeginOK ==
  ASSUME Control, NEW i \in Imports, Begin(i)
  PROVE  StepOK
<1>1. /\ cached[i] \in Resources /\ cached[i].phase \in PlanOf(i)
      /\ watch[i] = <<>> => cached[i] = cr[i]
  BY DEF Control, Stored, ResourcesOf
<1>2. Alive(cached[i]) /\ cached[i].phase # "Completed"
  BY DEF Begin, Terminal, Alive, PhaseCompleted
<1>3. steps' \in {<<>>, VeleroImportSteps, VeleroImportSnapshotSteps}
  BY DEF Begin, StepsOf
<1>4. StepsOf(cur)' = StepsOf(i) /\ PlanOf(cur)' = PlanOf(i)
  BY DEF Begin, StepsOf, PlanOf
<1>5. /\ pc' = "start" /\ cur' = i /\ mem' = cached[i] /\ cr' = cr
      /\ fresh' = (watch[i] = <<>>) /\ todo' = {} /\ steps' = StepsOf(i)
  BY DEF Begin, resourceVars
<1>6. Alive(mem)'
  BY <1>2, <1>5 DEF Alive
<1>7. fresh' => (mem = cr[cur] \/ Ahead)'
  BY <1>1, <1>5
<1>8. Held'
  BY <1>1, <1>2, <1>3, <1>4, <1>5, <1>6, <1>7 DEF Held, Parts
<1>9. Books' /\ UNCHANGED resourceVars
  BY DEF Begin, historyVars, Books, Control
<1> QED BY <1>8, <1>9, QuietOK

LEMMA InitialOK ==
  ASSUME Control, Initial
  PROVE  StepOK
<1>1. /\ pc # "idle" /\ mem.phase = "Initial" /\ Write(Succeeded(NewImport))
      /\ UNCHANGED cached /\ UNCHANGED <<budget, historyVars>>
  BY DEF Initial, PhaseInitial
<1>2. Working
  BY <1>1, PhaseKnown
<1> DEFINE c == Succeeded(NewImport)
<1>3. /\ Follows(c) /\ Alive(c) /\ c.phase = "RestoreTempNamespace"
  BY <1>1, <1>2, NewImportIs, SucceededFollows, NextIs
<1>4. IF fresh THEN Continue(c, "start", {}) /\ UNCHANGED fresh ELSE Return
  BY DEF Initial
<1> HIDE DEF c
<1>5. /\ Stored' /\ Forward /\ Lawful
      /\ fresh => cr'[cur] = c
  BY <1>1, <1>2, <1>3, WriteStored DEF c
<1>6. Held'
  <2>1. CASE fresh
    BY <1>2, <1>3, <1>4, <1>5, <2>1, ContinueHeld DEF Follows
  <2>2. CASE ~fresh
    BY <1>4, <2>2, ReturnHeld DEF Control
  <2> QED BY <2>1, <2>2
<1>7. Books'
  BY <1>1 DEF historyVars, Books, Control
<1> QED BY <1>5, <1>6, <1>7 DEF StepOK, Control

LEMMA TimeoutOK ==
  ASSUME Control, Timeout
  PROVE  StepOK
<1>1. pc # "idle" /\ pc # "loop" /\ Finish([mem EXCEPT !.state = StateCanceled])
      /\ UNCHANGED budget
  BY DEF Timeout
<1> QED BY <1>1, PhaseKnown, EndsFollow, FinishOK

LEMMA LoopOfIs ==
  ASSUME NEW c
  PROVE  LoopOf(c) \in SUBSET Targets[cur]
BY DEF LoopOf

LEMMA ValidateOK ==
  ASSUME Control, Validate
  PROVE  StepOK
<1>1. pc = "start" /\ UNCHANGED budget
  BY DEF Validate
<1>2. /\ Working /\ mem \in ResourcesOf(cur) /\ Alive(mem) /\ Books
      /\ mem.phase # "Completed" /\ budget \in [Disturbances -> Nat] /\ Held
  BY <1>1, PhaseKnown DEF Control
<1>3. CASE valid
  <2>1. Continue(mem, "phase", LoopOf(mem))
        /\ UNCHANGED <<resourceVars, fresh, historyVars>>
    BY <1>3 DEF Validate
  <2>2. fresh \in BOOLEAN /\ (fresh => mem = cr[cur] \/ Ahead)
    BY <1>2 DEF Held
  <2>3. fresh' => \/ mem = cr'[cur]
                  \/ /\ cr'[cur].phase = "RestoringTempNamespace"
                     /\ Alive(cr'[cur]) /\ mem.phase = "DeleteStagePod"
    BY <2>1, <2>2 DEF resourceVars, Ahead
  <2>4. Held'
    BY <1>2, <2>1, <2>2, <2>3, LoopOfIs, ContinueHeld
  <2>5. Books'
    BY <1>1, <1>2, <2>1 DEF historyVars, Books
  <2> QED BY <2>1, <2>4, <2>5, QuietOK
<1>4. CASE ~valid
  BY <1>1, <1>2, <1>4, FailedFollows, FinishOK DEF Validate
<1> QED BY <1>3, <1>4

LEMMA FailOK ==
  ASSUME Control, pc # "idle", Spend("faults") \/ UNCHANGED budget,
         Finish(FailedOn(mem))
  PROVE  StepOK
<1>1. "faults" \in Disturbances
  BY DEF Disturbances
<1>2. budget' \in [Disturbances -> Nat]
  BY <1>1, SpendTyped, PhaseKnown
<1> QED BY <1>2, PhaseKnown, FailedFollows, FinishOK

LEMMA HeadStepOK ==
  ASSUME Control, HeadStep
  PROVE  StepOK
<1>1. ASSUME NEW i \in Imports, ReconcileTerminal(i)
      PROVE  StepOK
  <2>1. UNCHANGED <<resourceVars, workerVars, budget, historyVars>>
    BY <1>1 DEF ReconcileTerminal, vars
  <2>2. Held' /\ Books'
    BY <2>1 DEF resourceVars, workerVars, historyVars, Control, Held, Books, Ahead,
        Alive, StepsOf, PlanOf
  <2> QED BY <2>1, <2>2, QuietOK
<1>2. CASE ReadFaults
  <2>1. pc # "idle" /\ Spend("faults") /\ Finish(FailedOn(mem))
    BY <1>2 DEF ReadFaults, At
  <2> QED BY <2>1, FailOK
<1> QED BY <1>1, <1>2, BeginOK, InitialOK, TimeoutOK, ValidateOK DEF HeadStep

-----------------------------------------------------------------------------
(* The Velero restores.                                                    *)

LEMMA RestoreOK ==
  ASSUME Control, NEW part \in Parts, Restore(part)
  PROVE  StepOK
<1>1. /\ pc = "phase" /\ part \in Parts
      /\ part = "temp" => mem.phase = "RestoreTempNamespace"
      /\ part = "orig" => mem.phase = "RestoreOriginNamespace"
      /\ Continue(mem, part, {})
      /\ UNCHANGED <<resourceVars, fresh, budget, historyVars>>
  BY DEF Restore, Asking, At, Parts
<1>2. /\ Working /\ mem \in ResourcesOf(cur) /\ Alive(mem) /\ Books
      /\ mem.phase # "Completed" /\ Held
  BY <1>1, PhaseKnown DEF Control
<1>3. fresh \in BOOLEAN /\ (fresh => mem = cr[cur] \/ Ahead)
  BY <1>2 DEF Held
<1>4. fresh' => \/ mem = cr'[cur]
                \/ /\ cr'[cur].phase = "RestoringTempNamespace"
                   /\ Alive(cr'[cur]) /\ mem.phase = "DeleteStagePod"
  BY <1>1, <1>3 DEF resourceVars, Ahead
<1>5. Held'
  BY <1>1, <1>2, <1>3, <1>4, ContinueHeld
<1>6. Books'
  BY <1>1, <1>2 DEF historyVars, Books
<1> QED BY <1>1, <1>5, <1>6, QuietOK

LEMMA RestoringTempOK ==
  ASSUME Control, RestoringTemp
  PROVE  StepOK
<1>1. pc = "phase" /\ mem.phase = "RestoringTempNamespace" /\ UNCHANGED budget
  BY DEF RestoringTemp, At
<1>2. /\ Working /\ mem \in Resources /\ Alive(mem) /\ Books
      /\ mem.phase # "Completed" /\ budget \in [Disturbances -> Nat] /\ Held
  BY <1>1, PhaseKnown DEF Control
<1> DEFINE c == Succeeded(mem)
<1>3. CASE Write(c) /\ Continue(c, "phase", LoopOf(c))
           /\ UNCHANGED <<cached, fresh, historyVars>>
  <2>1. Follows(c) /\ Alive(c) /\ c.phase = "DeleteStagePod"
    BY <1>1, <1>2, SucceededFollows, NextIs
  <2> HIDE DEF c
  <2>2. /\ Stored' /\ Forward /\ Lawful
        /\ fresh => cr'[cur] = c
    BY <1>2, <1>3, <2>1, WriteStored
  <2>3. Held'
    BY <1>2, <1>3, <2>1, <2>2, LoopOfIs, ContinueHeld DEF Follows, Held
  <2>4. Books'
    BY <1>1, <1>2, <1>3 DEF historyVars, Books
  <2> QED BY <2>2, <2>3, <2>4 DEF StepOK, Control
<1>4. CASE Finish(FailedOn([mem EXCEPT !.state = StateVeleroFailed]))
  BY <1>1, <1>2, <1>4, EndsFollow, FinishOK
<1>5. CASE Wait
  BY <1>1, <1>2, <1>5, WaitOK
<1> QED BY <1>3, <1>4, <1>5 DEF RestoringTemp

(* The one step after which the copy is ahead of the resource. *)
LEMMA RestoringTempForgetsOK ==
  ASSUME Control, RestoringTempForgets
  PROVE  StepOK
<1> DEFINE c == Succeeded(mem)
<1>1. /\ pc = "phase" /\ mem.phase = "RestoringTempNamespace" /\ fresh
      /\ Spend("faults") /\ UNCHANGED <<cached, historyVars>>
      /\ Continue(c, "phase", LoopOf(c))
      /\ \/ UNCHANGED <<cr, watch, fresh>>
         \/ Write(c) /\ fresh' = FALSE
  BY DEF RestoringTempForgets, At
<1>2. /\ Working /\ mem \in Resources /\ Alive(mem) /\ Books
      /\ mem.phase # "Completed" /\ Held /\ Stored
  BY <1>1, PhaseKnown DEF Control
<1>3. Follows(c) /\ Alive(c) /\ c.phase = "DeleteStagePod"
  BY <1>1, <1>2, SucceededFollows, NextIs
<1> HIDE DEF c
<1>4. Stored' /\ Forward /\ Lawful
  BY <1>1, <1>2, <1>3, WriteStored, StoredKept DEF resourceVars
<1>5. ASSUME UNCHANGED <<cr, watch, fresh>>
      PROVE  Held'
  <2>1. mem = cr[cur]
    BY <1>1, <1>2 DEF Held, Ahead
  <2>2. cr'[cur].phase = "RestoringTempNamespace" /\ Alive(cr'[cur])
    BY <1>1, <1>2, <1>5, <2>1
  <2> QED BY <1>1, <1>2, <1>3, <1>5, <2>2, LoopOfIs, ContinueHeld DEF Follows
<1>6. ASSUME fresh' = FALSE
      PROVE  Held'
  BY <1>1, <1>2, <1>3, <1>6, LoopOfIs, ContinueHeld DEF Follows
<1>7. "faults" \in Disturbances
  BY DEF Disturbances
<1>8. budget' \in [Disturbances -> Nat]
  BY <1>1, <1>2, <1>7, SpendTyped
<1>9. Books'
  BY <1>1, <1>2, <1>8 DEF historyVars, Books
<1> QED BY <1>1, <1>4, <1>5, <1>6, <1>9 DEF StepOK, Control

LEMMA RestoreStepOK ==
  ASSUME Control, RestoreStep
  PROVE  StepOK
<1>1. ASSUME NEW part \in Parts, RestoreFaults(part)
      PROVE  StepOK
  <2>1. pc # "idle" /\ Spend("faults") /\ Finish(FailedOn(mem))
    BY <1>1 DEF RestoreFaults, Asking, At
  <2> QED BY <2>1, FailOK
<1>2. ASSUME NEW part \in Parts, SaveRestore(part)
      PROVE  StepOK
  <2>1. /\ pc = part /\ pc # "idle" /\ pc # "loop" /\ UNCHANGED budget
        /\ Finish([Succeeded(mem) EXCEPT !.ref = part])
    BY <1>2 DEF SaveRestore, Parts
  <2>2. Follows([Succeeded(mem) EXCEPT !.ref = part])
    BY <2>1, PhaseKnown, SucceededFollows
  <2> QED BY <2>1, <2>2, PhaseKnown, FinishOK
<1>3. CASE NoCopy
  <2>1. Restart /\ UNCHANGED budget /\ panics' = panics \union {"no copy"}
    BY <1>3 DEF NoCopy, Panic
  <2> QED BY <2>1, RestartOK DEF Control, Books
<1>4. CASE RestoringOrigin
  <2>1. /\ pc = "phase" /\ UNCHANGED budget
        /\ Finish(Succeeded(mem)) \/ Wait
    BY <1>4 DEF RestoringOrigin, At
  <2>2. Working /\ budget' \in [Disturbances -> Nat] /\ Follows(Succeeded(mem))
    BY <2>1, PhaseKnown, SucceededFollows
  <2> QED BY <2>1, <2>2, FinishOK, WaitOK
<1> QED BY <1>1, <1>2, <1>3, <1>4, RestoreOK, RestoringTempOK, RestoringTempForgetsOK
        DEF RestoreStep

-----------------------------------------------------------------------------
(* The stage pods.                                                         *)

LEMMA DeleteStagePodOK ==
  ASSUME Control, NEW n \in todo, DeleteStagePod(n)
  PROVE  StepOK
<1>1. /\ pc = "phase" /\ mem.phase = "DeleteStagePod"
      /\ \/ /\ Continue(mem, pc, todo \ {n})
            /\ UNCHANGED <<resourceVars, fresh, budget, historyVars>>
         \/ Spend("faults") /\ Finish(FailedOn(mem))
  BY DEF DeleteStagePod, At
<1>2. /\ Working /\ mem \in ResourcesOf(cur) /\ Alive(mem) /\ Books
      /\ todo \ {n} \in SUBSET Targets[cur] /\ Held
  BY <1>1, PhaseKnown DEF Control
<1>3. CASE /\ Continue(mem, pc, todo \ {n})
           /\ UNCHANGED <<resourceVars, fresh, budget, historyVars>>
  <2>1. fresh \in BOOLEAN /\ (fresh => mem = cr[cur] \/ Ahead)
    BY <1>1, <1>2 DEF Held
  <2>2. fresh' => \/ mem = cr'[cur]
                  \/ /\ cr'[cur].phase = "RestoringTempNamespace"
                     /\ Alive(cr'[cur]) /\ mem.phase = "DeleteStagePod"
    BY <1>3, <2>1 DEF resourceVars, Ahead
  <2>3. Held'
    BY <1>1, <1>2, <1>3, <2>1, <2>2, ContinueHeld
  <2>4. Books'
    BY <1>2, <1>3 DEF historyVars, Books
  <2> QED BY <1>3, <2>3, <2>4, QuietOK
<1> QED BY <1>1, <1>3, FailOK

(* The status update of one namespace, the pods seen to be gone. *)
LEMMA NamespaceDoneOK ==
  ASSUME Control, Deleting, mem.phase # "Completed", NEW n \in todo,
         Write(Succeeded(mem)), UNCHANGED cached,
         IF fresh THEN Continue(Succeeded(mem), "loop", todo \ {n}) /\ UNCHANGED fresh
                  ELSE Return,
         budget' \in [Disturbances -> Nat], UNCHANGED <<failing, panics>>,
         blind' \in {blind, blind \union {n}}
  PROVE  StepOK
<1>1. pc # "idle"
  BY DEF Deleting, At
<1>2. /\ Working /\ mem \in Resources /\ Alive(mem) /\ Books /\ Held
      /\ todo \ {n} \in SUBSET Targets[cur]
  BY <1>1, PhaseKnown DEF Control
<1> DEFINE c == Succeeded(mem)
<1>4. Follows(c) /\ Alive(c)
  BY <1>2, SucceededFollows
<1>5. Write(c) /\ IF fresh THEN Continue(c, "loop", todo \ {n}) /\ UNCHANGED fresh
                           ELSE Return
  OBVIOUS
<1> HIDE DEF c
<1>6. /\ Stored' /\ Forward /\ Lawful
      /\ fresh => cr'[cur] = c
  BY <1>2, <1>4, <1>5, WriteStored
<1>7. Held'
  <2>1. CASE fresh
    BY <1>2, <1>4, <1>5, <1>6, <2>1, ContinueHeld DEF Follows
  <2>2. CASE ~fresh
    BY <1>2, <1>5, <2>2, ReturnHeld
  <2> QED BY <2>1, <2>2
<1>8. n \in TargetNamespaces
  BY <1>2 DEF Held
<1>9. Books'
  BY <1>2, <1>8 DEF Books
<1> QED BY <1>6, <1>7, <1>9 DEF StepOK, Control

LEMMA DeletingStagePodOK ==
  ASSUME Control, NEW n \in todo, DeletingStagePod(n)
  PROVE  StepOK
<1>1. Deleting /\ pc # "idle"
  BY DEF DeletingStagePod, Deleting, At
<1>2. GetLastPhase(steps) = "Completed" /\ Books /\ budget \in [Disturbances -> Nat]
  BY <1>1, PhaseKnown
<1>3. CASE IsStagePodDeleted(n) /\ mem.phase = "Completed"
  <2>1. Restart /\ UNCHANGED budget /\ panics' = panics \union {"no next phase"}
    BY <1>2, <1>3 DEF DeletingStagePod, PodsDeleted, Panic
  <2> QED BY <2>1, RestartOK DEF Control, Books
<1>4. CASE IsStagePodDeleted(n) /\ mem.phase # "Completed"
  <2>1. /\ Write(Succeeded(mem)) /\ UNCHANGED <<cached, budget, historyVars>>
        /\ IF fresh THEN Continue(Succeeded(mem), "loop", todo \ {n})
                         /\ UNCHANGED fresh
                    ELSE Return
    BY <1>2, <1>4 DEF DeletingStagePod, PodsDeleted
  <2>2. UNCHANGED <<failing, panics>> /\ blind' \in {blind, blind \union {n}}
    BY <2>1 DEF historyVars
  <2> QED BY <1>1, <1>2, <1>4, <2>1, <2>2, NamespaceDoneOK
<1>5. CASE ~IsStagePodDeleted(n)
  <2>1. Finish(FailedOn(mem)) /\ UNCHANGED budget
    BY <1>5 DEF DeletingStagePod
  <2> QED BY <1>1, <2>1, FailOK
<1> QED BY <1>3, <1>4, <1>5

LEMMA DeletingStagePodBlindOK ==
  ASSUME Control, NEW n \in todo, DeletingStagePodBlind(n)
  PROVE  StepOK
<1>1. Deleting /\ pc # "idle" /\ mem.phase # GetLastPhase(steps)
  BY DEF DeletingStagePodBlind, Deleting, At
<1>2. GetLastPhase(steps) = "Completed" /\ Books
  BY <1>1, PhaseKnown
<1>3. "faults" \in Disturbances /\ Spend("faults")
  BY DEF Disturbances, DeletingStagePodBlind
<1>4. budget' \in [Disturbances -> Nat]
  BY <1>2, <1>3, SpendTyped
<1>5. /\ Write(Succeeded(mem)) /\ UNCHANGED cached /\ UNCHANGED <<failing, panics>>
      /\ blind' \in {blind, blind \union {n}}
      /\ IF fresh THEN Continue(Succeeded(mem), "loop", todo \ {n})
                       /\ UNCHANGED fresh
                  ELSE Return
  BY DEF DeletingStagePodBlind
<1> QED BY <1>1, <1>2, <1>4, <1>5, NamespaceDoneOK

LEMMA DeletingStagePodDoneOK ==
  ASSUME Control, DeletingStagePodDone
  PROVE  StepOK
<1>1. Deleting /\ pc # "idle" /\ UNCHANGED budget
  BY DEF DeletingStagePodDone, Deleting, At
<1>2. /\ Working /\ mem \in ResourcesOf(cur) /\ Alive(mem) /\ Books /\ Held
      /\ budget \in [Disturbances -> Nat]
  BY <1>1, PhaseKnown DEF Control
<1>3. CASE mem.phase \in {"RestoreOriginNamespace", "RestoringOriginNamespace"}
  <2>1. Continue(mem, "phase", {}) /\ UNCHANGED <<resourceVars, fresh, historyVars>>
    BY <1>3 DEF DeletingStagePodDone
  <2>2. fresh \in BOOLEAN /\ (fresh => mem = cr[cur] \/ Ahead)
    BY <1>2 DEF Held
  <2>3. fresh' => mem = cr'[cur]
    BY <1>3, <2>1, <2>2 DEF resourceVars, Ahead
  <2>4. Held'
    BY <1>2, <1>3, <2>1, <2>2, <2>3, ContinueHeld
  <2>5. Books'
    BY <1>1, <1>2, <2>1 DEF historyVars, Books
  <2> QED BY <2>1, <2>4, <2>5, QuietOK
<1>4. CASE Wait
  BY <1>1, <1>2, <1>4, WaitOK
<1> QED BY <1>3, <1>4 DEF DeletingStagePodDone

LEMMA PodStepOK ==
  ASSUME Control, PodStep
  PROVE  StepOK
<1>1. CASE DeleteStagePodDone
  <2>1. /\ pc = "phase" /\ UNCHANGED budget /\ Finish(Succeeded(mem))
    BY <1>1 DEF DeleteStagePodDone, At
  <2>2. Working /\ budget' \in [Disturbances -> Nat] /\ Follows(Succeeded(mem))
    BY <2>1, PhaseKnown, SucceededFollows
  <2> QED BY <2>1, <2>2, FinishOK
<1> QED BY <1>1, DeleteStagePodOK, DeletingStagePodOK, DeletingStagePodBlindOK,
           DeletingStagePodDoneOK DEF PodStep

-----------------------------------------------------------------------------
(* The rest of the world, and every step.                                  *)

(* A step that changes neither the worker's state nor a resource in it. *)
LEMMA HeldKept ==
  ASSUME Control, UNCHANGED <<cr, pc, cur, mem, todo, steps>>,
         fresh' \in BOOLEAN, fresh' => fresh
  PROVE  Held'
<1>1. /\ StepsOf(cur)' = StepsOf(cur) /\ PlanOf(cur)' = PlanOf(cur)
      /\ Alive(mem)' = Alive(mem)
  BY DEF StepsOf, PlanOf, Alive
<1>2. mem' = cr'[cur'] <=> mem = cr[cur]
  OBVIOUS
<1>3. Ahead' <=> Ahead
  <2>1. cr'[cur'] = cr[cur] /\ mem' = mem
    OBVIOUS
  <2> QED BY <2>1 DEF Ahead, Alive
<1>4. Held
  BY DEF Control
<1> QED BY <1>1, <1>2, <1>3, <1>4 DEF Held

LEMMA SilentOK ==
  ASSUME Control, UNCHANGED <<resourceVars, workerVars, historyVars>>,
         budget' \in [Disturbances -> Nat]
  PROVE  StepOK
<1>1. Held'
  BY HeldKept DEF resourceVars, workerVars, Control, Held
<1>2. Books'
  BY DEF Control, Books, historyVars
<1> QED BY <1>1, <1>2, QuietOK

LEMMA EnvironmentOK ==
  ASSUME Control, EnvironmentStep \/ Expire \/ Unreachable \/ Crash
  PROVE  StepOK
<1>1. Books /\ budget \in [Disturbances -> Nat]
      /\ "faults" \in Disturbances /\ "crashes" \in Disturbances
      /\ "expiries" \in Disturbances
  BY DEF Control, Books, Disturbances
<1>2. CASE EnvironmentStep
  BY <1>1, <1>2, SilentOK DEF EnvironmentStep, Idle
<1>3. CASE Expire
  BY <1>1, <1>3, SpendTyped, SilentOK DEF Expire
<1>4. CASE Unreachable
  <2>1. pc # "idle" /\ Spend("faults") /\ GiveUp
    BY <1>4 DEF Unreachable
  <2> QED BY <1>1, <2>1, SpendTyped, PhaseKnown, WaitOK
<1>5. CASE Crash
  <2>1. Spend("crashes") /\ Restart /\ UNCHANGED panics
    BY <1>5 DEF Crash
  <2> QED BY <1>1, <2>1, SpendTyped, RestartOK DEF Books
<1> QED BY <1>2, <1>3, <1>4, <1>5

LEMMA CacheSyncOK ==
  ASSUME Control, NEW i \in Imports, CacheSync(i)
  PROVE  StepOK
<1> DEFINE h == Head(watch[i])
           t == Tail(watch[i])
<1>1. /\ watch[i] # <<>> /\ cr' = cr /\ cached' = [cached EXCEPT ![i] = h]
      /\ watch' = [watch EXCEPT ![i] = t]
      /\ UNCHANGED <<workerVars, budget, historyVars>>
  BY DEF CacheSync
<1>2. Stored /\ Books
  BY DEF Control
<1>3. /\ h \in ResourcesOf(i) /\ t \in Seq(ResourcesOf(i))
      /\ watch[i][Len(watch[i])] = IF t = <<>> THEN h ELSE t[Len(t)]
  BY <1>1, <1>2, TailIs DEF Stored
<1>4. h \in Resources /\ t \in Seq(Resources)
  BY <1>1, <1>2, TailIs DEF Stored
<1> HIDE DEF h, t
<1>5. Stored'
  <2>1. /\ cached' \in [Imports -> Resources] /\ cached'[i] = h
        /\ watch' \in [Imports -> Seq(Resources)] /\ watch'[i] = t
        /\ \A j \in Imports \ {i} : cached'[j] = cached[j] /\ watch'[j] = watch[j]
    BY <1>1, <1>2, <1>4 DEF Stored
  <2>2. cr'[i] = IF watch'[i] = <<>> THEN cached'[i] ELSE watch'[i][Len(watch'[i])]
    BY <1>1, <1>2, <1>3, <2>1 DEF Stored
  <2>3. ASSUME NEW j \in Imports
        PROVE  /\ cr'[j] \in ResourcesOf(j) /\ cached'[j] \in ResourcesOf(j)
               /\ watch'[j] \in Seq(ResourcesOf(j))
               /\ cr'[j] = IF watch'[j] = <<>> THEN cached'[j]
                           ELSE watch'[j][Len(watch'[j])]
    <3>1. CASE j = i
      BY <1>1, <1>2, <1>3, <2>1, <2>2, <3>1 DEF Stored
    <3>2. CASE j # i
      BY <1>1, <1>2, <2>1, <3>2 DEF Stored
    <3> QED BY <3>1, <3>2
  <2> QED BY <1>1, <1>2, <2>1, <2>3 DEF Stored
<1>6. Held'
  BY <1>1, HeldKept DEF workerVars, Control, Held
<1>7. Books'
  BY <1>1, <1>2 DEF Books, historyVars
<1>8. Forward /\ Lawful
  BY <1>1 DEF Forward, Lawful
<1> QED BY <1>5, <1>6, <1>7, <1>8 DEF StepOK, Control

LEMMA UserTouchOK ==
  ASSUME Control, NEW i \in Imports, UserTouch(i)
  PROVE  StepOK
<1> DEFINE w == Append(watch[i], cr[i])
<1>1. /\ cr' = cr /\ cached' = cached /\ watch' = [watch EXCEPT ![i] = w]
      /\ fresh' = (fresh /\ cur # i)
      /\ UNCHANGED <<pc, cur, mem, todo, steps, historyVars>> /\ Spend("conflicts")
  BY DEF UserTouch
<1>2. Stored /\ Books /\ fresh \in BOOLEAN
  BY DEF Control, Held
<1>3. w \in Seq(ResourcesOf(i)) /\ w \in Seq(Resources)
      /\ w # <<>> /\ w[Len(w)] = cr[i]
  BY <1>2, AppendIs DEF Stored
<1> HIDE DEF w
<1>4. Stored'
  <2>1. /\ watch' \in [Imports -> Seq(Resources)] /\ watch'[i] = w
        /\ \A j \in Imports \ {i} : watch'[j] = watch[j]
    BY <1>1, <1>2, <1>3 DEF Stored
  <2>2. cr'[i] = IF watch'[i] = <<>> THEN cached'[i] ELSE watch'[i][Len(watch'[i])]
    BY <1>1, <1>3, <2>1
  <2>3. ASSUME NEW j \in Imports
        PROVE  /\ cr'[j] \in ResourcesOf(j) /\ cached'[j] \in ResourcesOf(j)
               /\ watch'[j] \in Seq(ResourcesOf(j))
               /\ cr'[j] = IF watch'[j] = <<>> THEN cached'[j]
                           ELSE watch'[j][Len(watch'[j])]
    <3>1. CASE j = i
      BY <1>1, <1>2, <1>3, <2>1, <2>2, <3>1 DEF Stored
    <3>2. CASE j # i
      BY <1>1, <1>2, <2>1, <3>2 DEF Stored
    <3> QED BY <3>1, <3>2
  <2> QED BY <1>1, <1>2, <2>1, <2>3 DEF Stored
<1>5. fresh' \in BOOLEAN /\ (fresh' => fresh)
  BY <1>1, <1>2
<1>6. Held'
  BY <1>1, <1>5, HeldKept
<1>7. "conflicts" \in Disturbances
  BY DEF Disturbances
<1>8. Books'
  BY <1>1, <1>2, <1>7, SpendTyped DEF Books, historyVars
<1>9. Forward /\ Lawful
  BY <1>1 DEF Forward, Lawful
<1> QED BY <1>4, <1>6, <1>8, <1>9 DEF StepOK, Control

LEMMA AgedIs ==
  ASSUME NEW i, NEW c \in ResourcesOf(i)
  PROVE  /\ Aged(c) \in ResourcesOf(i) /\ Aged(c) \in Resources
         /\ Aged(c).phase = c.phase /\ Aged(c).state = c.state
         /\ (Alive(Aged(c)) <=> Alive(c)) /\ StageOf(Aged(c)) = StageOf(c)
<1> DEFINE d == Aged(c)
<1>1. /\ d \in Resources /\ d.phase = c.phase /\ d.state = c.state /\ c \in Resources
  BY DEF Aged, Resources, ResourcesOf
<1> HIDE DEF d
<1>2. d \in ResourcesOf(i)
  BY <1>1 DEF ResourcesOf
<1>3. (Alive(d) <=> Alive(c)) /\ StageOf(d) = StageOf(c)
  BY <1>1 DEF Alive, StageOf
<1> QED BY <1>1, <1>2, <1>3 DEF d

(* Every copy of a resource ages alike. *)
LEMMA AgedWatch ==
  ASSUME NEW i, NEW w \in Seq(ResourcesOf(i)), NEW v,
         v = [k \in DOMAIN w |-> Aged(w[k])]
  PROVE  /\ v \in Seq(ResourcesOf(i)) /\ v \in Seq(Resources)
         /\ v = <<>> <=> w = <<>>
         /\ w # <<>> => v[Len(v)] = Aged(w[Len(w)])
<1>1. Len(w) \in Nat /\ DOMAIN w = 1..Len(w) /\ \A k \in 1..Len(w) : w[k] \in ResourcesOf(i)
  OBVIOUS
<1>2. \A k \in 1..Len(w) : Aged(w[k]) \in ResourcesOf(i) /\ Aged(w[k]) \in Resources
  BY <1>1, AgedIs
<1> DEFINE a == [k \in 1..Len(w) |-> Aged(w[k])]
<1>3. v = a
  BY <1>1
<1>4. a \in [1..Len(w) -> ResourcesOf(i)] /\ a \in [1..Len(w) -> Resources]
      /\ \A k \in 1..Len(w) : a[k] = Aged(w[k])
  BY <1>2
<1> HIDE DEF a
<1>5. a \in Seq(ResourcesOf(i)) /\ a \in Seq(Resources) /\ Len(a) = Len(w)
  BY <1>1, <1>4
<1>6. (a = <<>> <=> Len(a) = 0) /\ (w = <<>> <=> Len(w) = 0)
  BY <1>5, EmptySeq
<1>7. w # <<>> => Len(w) \in 1..Len(w)
  BY <1>1, <1>6
<1> QED BY <1>3, <1>4, <1>5, <1>6, <1>7

LEMMA TimePassesOK ==
  ASSUME Control, NEW i \in Imports, TimePasses(i)
  PROVE  StepOK
<1> DEFINE a == Aged(cr[i])
           b == Aged(cached[i])
           w == [k \in DOMAIN watch[i] |-> Aged(watch[i][k])]
<1>1. /\ cr' = [cr EXCEPT ![i] = a] /\ cached' = [cached EXCEPT ![i] = b]
      /\ watch' = [watch EXCEPT ![i] = w]
      /\ mem' = IF cur = i THEN Aged(mem) ELSE mem
      /\ UNCHANGED <<pc, cur, fresh, todo, steps, budget, historyVars>>
  BY DEF TimePasses
<1>2. Stored /\ Held /\ Books
  BY DEF Control
<1>3. /\ a \in ResourcesOf(i) /\ a \in Resources /\ b \in ResourcesOf(i)
      /\ b \in Resources /\ a.phase = cr[i].phase
      /\ (Alive(a) <=> Alive(cr[i])) /\ StageOf(a) = StageOf(cr[i])
  BY <1>2, AgedIs DEF Stored
<1>4. /\ w \in Seq(ResourcesOf(i)) /\ w \in Seq(Resources)
      /\ w = <<>> <=> watch[i] = <<>>
      /\ watch[i] # <<>> => w[Len(w)] = Aged(watch[i][Len(watch[i])])
  BY <1>2, AgedWatch DEF Stored
<1>5. a = IF w = <<>> THEN b ELSE w[Len(w)]
  BY <1>2, <1>4 DEF Stored
<1> HIDE DEF a, b, w
<1>6. /\ cr' \in [Imports -> Resources] /\ cached' \in [Imports -> Resources]
      /\ watch' \in [Imports -> Seq(Resources)]
      /\ cr'[i] = a /\ cached'[i] = b /\ watch'[i] = w
      /\ \A j \in Imports \ {i} :
           cr'[j] = cr[j] /\ cached'[j] = cached[j] /\ watch'[j] = watch[j]
  BY <1>1, <1>2, <1>3, <1>4 DEF Stored
<1>7. Stored'
  <2>1. ASSUME NEW j \in Imports
        PROVE  /\ cr'[j] \in ResourcesOf(j) /\ cached'[j] \in ResourcesOf(j)
               /\ watch'[j] \in Seq(ResourcesOf(j))
               /\ cr'[j] = IF watch'[j] = <<>> THEN cached'[j]
                           ELSE watch'[j][Len(watch'[j])]
    <3>1. CASE j = i
      BY <1>3, <1>4, <1>5, <1>6, <3>1
    <3>2. CASE j # i
      BY <1>2, <1>6, <3>2 DEF Stored
    <3> QED BY <3>1, <3>2
  <2> QED BY <1>6, <2>1 DEF Stored
<1>8. Held'
  <2>1. StepsOf(cur)' = StepsOf(cur) /\ PlanOf(cur)' = PlanOf(cur)
    BY <1>1 DEF StepsOf, PlanOf
  <2>2. /\ mem' \in Resources /\ mem'.phase = mem.phase
        /\ Alive(mem') <=> Alive(mem)
    <3>1. CASE cur = i
      <4>1. /\ Aged(mem) \in Resources /\ Aged(mem).phase = mem.phase
            /\ Aged(mem).state = mem.state
        BY <1>2 DEF Held, Aged, Resources
      <4>2. mem' = Aged(mem)
        BY <1>1, <3>1
      <4> QED BY <4>1, <4>2 DEF Alive
    <3>2. CASE cur # i
      BY <1>1, <1>2, <3>2 DEF Held
    <3> QED BY <3>1, <3>2
  <2>3. fresh => mem' = cr'[cur] \/ Ahead'
    <3>1. SUFFICES ASSUME fresh PROVE mem' = cr'[cur] \/ Ahead'
      OBVIOUS
    <3>2. cur \in Imports /\ (mem = cr[cur] \/ Ahead) /\ cur' = cur
      BY <1>1, <1>2, <3>1 DEF Held
    <3>3. CASE mem = cr[cur]
      BY <1>1, <1>6, <3>2, <3>3 DEF a
    <3>4. CASE Ahead
      <4>1. cr'[cur].phase = cr[cur].phase /\ (Alive(cr'[cur]) <=> Alive(cr[cur]))
        BY <1>3, <1>6, <3>2
      <4> QED BY <2>2, <3>2, <3>4, <4>1 DEF Ahead, Alive
    <3> QED BY <3>2, <3>3, <3>4
  <2>4. Alive(mem)' <=> Alive(mem)
    BY <2>2 DEF Alive
  <2> QED BY <1>1, <1>2, <2>1, <2>2, <2>3, <2>4 DEF Held
<1>9. Books'
  BY <1>1, <1>2 DEF Books, historyVars
<1>10. Forward
  BY <1>3, <1>6 DEF Forward
<1>11. Lawful
  BY <1>3, <1>6 DEF Lawful
<1> QED BY <1>7, <1>8, <1>9, <1>10, <1>11 DEF StepOK, Control

LEMMA StepIsOK ==
  ASSUME Control, [Next]_vars
  PROVE  StepOK
<1>1. CASE UNCHANGED vars
  <2>1. UNCHANGED <<resourceVars, workerVars, historyVars>> /\ UNCHANGED budget
    BY <1>1 DEF vars
  <2> QED BY <2>1, SilentOK DEF Control, Books
<1>2. CASE Worker
  BY <1>2, HeadStepOK, RestoreStepOK, PodStepOK DEF Worker
<1> QED BY <1>1, <1>2, EnvironmentOK, CacheSyncOK, UserTouchOK, TimePassesOK DEF Next

-----------------------------------------------------------------------------
(* The objects of the cluster.                                             *)

LEMMA KeysAre ==
  ASSUME NEW i \in Imports, NEW part \in Parts
  PROVE  <<Key[i], part>> \in Restores /\ Targets[i] \in SUBSET TargetNamespaces
BY DEF Restores, TargetNamespaces

LEMMA EnsureRestoreTyped ==
  ASSUME Working, ExternalTypeOK, NEW part \in Parts, EnsureVeleroRestore(part)
  PROVE  ExternalTypeOK'
<1>1. cur \in Imports
  BY DEF Working, Control, Held
<1>2. Name(part) \in Restores /\ Targets[cur] \in SUBSET TargetNamespaces
  BY <1>1, KeysAre DEF Name
<1>3. /\ restore' = [restore EXCEPT ![Name(part)] =
                      IF restore[Name(part)].phase = "absent"
                        THEN [phase |-> "new", into |-> Targets[cur]]
                        ELSE restore[Name(part)]]
      /\ UNCHANGED <<pods, data, origin, valid, copy>>
  BY DEF EnsureVeleroRestore
<1>4. [phase |-> "new", into |-> Targets[cur]]
        \in [phase : RestorePhases, into : SUBSET TargetNamespaces]
  BY <1>2 DEF RestorePhases
<1>5. restore' \in [Restores -> [phase : RestorePhases, into : SUBSET TargetNamespaces]]
  BY <1>2, <1>3, <1>4 DEF ExternalTypeOK
<1> QED BY <1>3, <1>5 DEF ExternalTypeOK

LEMMA EnvironmentTyped ==
  ASSUME ExternalTypeOK, EnvironmentStep
  PROVE  ExternalTypeOK'
<1> DEFINE R == [phase : RestorePhases, into : SUBSET TargetNamespaces]
<1>1. ASSUME NEW r \in Restores, NEW p \in RestorePhases,
             restore' = [restore EXCEPT ![r].phase = p]
      PROVE  restore' \in [Restores -> R]
  <2>1. restore[r] \in R /\ restore \in [Restores -> R]
    BY DEF ExternalTypeOK
  <2>2. [restore[r] EXCEPT !.phase = p] \in R
    BY <1>1, <2>1
  <2>3. restore' = [restore EXCEPT ![r] = [restore[r] EXCEPT !.phase = p]]
    BY <1>1
  <2> QED BY <2>1, <2>2, <2>3
<1>2. ASSUME NEW r \in Restores, VeleroStarts(r)
      PROVE  ExternalTypeOK'
  <2>1. restore' \in [Restores -> R]
    <3>1. \E p \in {"running", "failed"} : restore' = [restore EXCEPT ![r].phase = p]
      BY <1>2 DEF VeleroStarts
    <3> QED BY <1>1, <3>1 DEF RestorePhases
  <2>2. pods' \in [TargetNamespaces -> {"absent", "present", "terminating"}]
    BY <1>2 DEF VeleroStarts, ExternalTypeOK
  <2> QED BY <1>2, <2>1, <2>2 DEF VeleroStarts, ExternalTypeOK
<1>3. ASSUME NEW r \in Restores, VeleroEnds(r)
      PROVE  ExternalTypeOK'
  <2>1. restore' \in [Restores -> R]
    <3>1. \E p \in {"completed", "partial", "failed"} :
             restore' = [restore EXCEPT ![r].phase = p]
      BY <1>3 DEF VeleroEnds
    <3> QED BY <1>1, <3>1 DEF RestorePhases
  <2>2. restore[r].into \in SUBSET TargetNamespaces
    BY DEF ExternalTypeOK
  <2>3. data' \in SUBSET TargetNamespaces /\ origin' \in SUBSET TargetNamespaces
    BY <1>3, <2>2 DEF VeleroEnds, ExternalTypeOK
  <2> QED BY <1>3, <2>1, <2>3 DEF VeleroEnds, ExternalTypeOK
<1>4. ASSUME NEW n \in TargetNamespaces, PodGone(n)
      PROVE  ExternalTypeOK'
  BY <1>4 DEF PodGone, ExternalTypeOK
<1>5. CASE CopyProceeds
  BY <1>5 DEF CopyProceeds, ExternalTypeOK
<1> QED BY <1>2, <1>3, <1>4, <1>5 DEF EnvironmentStep

LEMMA QuietTyped ==
  ASSUME ExternalTypeOK, UNCHANGED externalVars
  PROVE  ExternalTypeOK'
BY DEF ExternalTypeOK, externalVars

LEMMA StepTyped ==
  ASSUME Control, ExternalTypeOK, [Next]_vars
  PROVE  ExternalTypeOK'
<1>1. CASE HeadStep \/ Unreachable \/ Crash \/ UNCHANGED vars
  <2>1. UNCHANGED externalVars
    BY <1>1
    DEF HeadStep, Begin, ReconcileTerminal, Initial, Timeout, Validate, ReadFaults,
        Unreachable, Crash, Restart, vars
  <2> QED BY <2>1, QuietTyped
<1>2. CASE RestoreStep
  <2>1. ASSUME NEW part \in Parts, Restore(part) \/ RestoreFaults(part)
        PROVE  ExternalTypeOK'
    <3>1. pc # "idle" /\ (EnsureVeleroRestore(part) \/ UNCHANGED externalVars)
      BY <2>1 DEF Restore, RestoreFaults, Asking, At
    <3> QED BY <3>1, PhaseKnown, EnsureRestoreTyped, QuietTyped
  <2>2. CASE \/ \E part \in Parts : SaveRestore(part)
             \/ NoCopy \/ RestoringTemp \/ RestoringTempForgets \/ RestoringOrigin
    <3>1. UNCHANGED externalVars
      BY <2>2
      DEF SaveRestore, NoCopy, Panic, Restart, RestoringTemp, RestoringTempForgets,
          RestoringOrigin
    <3> QED BY <3>1, QuietTyped
  <2> QED BY <1>2, <2>1, <2>2 DEF RestoreStep
<1>3. CASE PodStep
  <2>1. ASSUME NEW n \in todo, DeleteStagePod(n)
        PROVE  ExternalTypeOK'
    <3>1. n \in TargetNamespaces
      BY DEF Control, Held
    <3> QED BY <2>1, <3>1 DEF DeleteStagePod, EnsureStagePodDeleted, ExternalTypeOK
  <2>2. CASE \/ \E n \in todo : DeletingStagePod(n) \/ DeletingStagePodBlind(n)
             \/ DeleteStagePodDone \/ DeletingStagePodDone
    <3>1. UNCHANGED externalVars
      BY <2>2
      DEF DeletingStagePod, PodsDeleted, Panic, Restart, DeletingStagePodBlind,
          DeleteStagePodDone, DeletingStagePodDone
    <3> QED BY <3>1, QuietTyped
  <2> QED BY <1>3, <2>1, <2>2 DEF PodStep
<1>4. CASE Expire
  BY <1>4 DEF Expire, ExternalTypeOK
<1>5. ASSUME NEW i \in Imports, CacheSync(i) \/ UserTouch(i) \/ TimePasses(i)
      PROVE  ExternalTypeOK'
  <2>1. UNCHANGED externalVars
    BY <1>5 DEF CacheSync, UserTouch, TimePasses
  <2> QED BY <2>1, QuietTyped
<1> QED BY <1>1, <1>2, <1>3, <1>4, <1>5, EnvironmentTyped DEF Next, Worker

-----------------------------------------------------------------------------
(* The theorems.                                                           *)

LEMMA InitHolds == Init => Control /\ ExternalTypeOK
<1> SUFFICES ASSUME Init PROVE Control /\ ExternalTypeOK
  OBVIOUS
<1> DEFINE none == <<>>
<1>1. /\ cr = [i \in Imports |-> NewImport] /\ cached = cr
      /\ watch = [i \in Imports |-> none]
      /\ pc = "idle" /\ cur = NoImport /\ mem = NewImport /\ fresh = FALSE
      /\ todo = {} /\ steps = <<>>
      /\ failing = {} /\ blind = {} /\ panics = {}
  BY DEF Init
<1>2. none = <<>> /\ \A S : none \in Seq(S)
  BY EmptySeq
<1> HIDE DEF none
<1>3. Stored
  <2>1. ASSUME NEW i \in Imports
        PROVE  cr[i] = NewImport /\ cached[i] = NewImport /\ watch[i] = none
    BY <1>1
  <2>2. /\ cr \in [Imports -> Resources] /\ cached \in [Imports -> Resources]
        /\ watch \in [Imports -> Seq(Resources)]
    BY <1>1, <1>2, NewImportIs
  <2> QED BY <1>2, <2>1, <2>2, NewImportIs DEF Stored
<1>4. Held
  BY <1>1, NewImportIs DEF Held
<1>5. Books
  <2>1. budget = [what \in Disturbances |->
                    CASE what = "faults" -> MaxFaults
                      [] what = "conflicts" -> MaxConflicts
                      [] what = "crashes" -> MaxCrashes
                      [] what = "expiries" -> MaxExpiries]
    BY DEF Init
  <2>2. budget \in [Disturbances -> Nat]
    BY <2>1, ImportBoundsAssumption DEF Disturbances
  <2> QED BY <1>1, <2>2 DEF Books
<1>6. ExternalTypeOK
  BY ImportAssumption DEF Init, ExternalTypeOK, RestorePhases
<1> QED BY <1>3, <1>4, <1>5, <1>6 DEF Control

(* The inductive invariant: every copy of a resource is in a phase of its  *)
(* own plan, and a write that the API server takes replaces the copy it    *)
(* was made from, or one an ignored update left behind.                    *)
THEOREM ImportInvariance == Spec => [](Control /\ ExternalTypeOK)
<1>1. Control /\ ExternalTypeOK /\ [Next]_vars => (Control /\ ExternalTypeOK)'
  BY StepIsOK, StepTyped DEF StepOK
<1> QED BY <1>1, InitHolds, PTL DEF Spec

(* Every variable keeps its type; the controller panics in two ways only.  *)
THEOREM ImportTypeCorrect == Spec => []ImportTypeOK
<1>1. Control /\ ExternalTypeOK => ImportTypeOK
  BY DEF Control, Stored, Held, Books, ImportTypeOK, ControlTypeOK
<1> QED BY <1>1, ImportInvariance, PTL

(* Though all imports share one step list, each moves forward through its  *)
(* own, by one phase a write, or two after the one ignored update.         *)
THEOREM ImportAdvances == Spec => ImportNeverRegresses
<1>1. Control /\ [Next]_vars => [Forward]_vars
  BY StepIsOK DEF StepOK
<1>2. Spec => [][Forward]_vars
  BY <1>1, ImportInvariance, PTL DEF Spec
<1>3. [Forward]_vars =>
        [\A i \in Imports : cr'[i].phase # cr[i].phase =>
           /\ cr'[i].phase \in {StepsOf(i)[k] : k \in DOMAIN StepsOf(i)}
           /\ \/ Place(i, cr'[i].phase) = Place(i, cr[i].phase) + 1
              \/ /\ cr[i].phase = "RestoringTempNamespace"
                 /\ Place(i, cr'[i].phase) = Place(i, cr[i].phase) + 2]_vars
  BY DEF Forward, PlanOf
<1> QED BY <1>2, <1>3, PTL DEF ImportNeverRegresses

(* A lawful step is one of the lifecycle's, or changes nothing of it. *)
LEMMA LawfulIsNext ==
  ASSUME Lawful
  PROVE  [View!Next]_([i \in Imports |-> StageOf(cr[i])])
<1> DEFINE s == [i \in Imports |-> StageOf(cr[i])]
<1>1. s' = [i \in Imports |-> StageOf(cr'[i])]
  BY DEF StageOf
<1>2. CASE \A i \in Imports : StageOf(cr'[i]) = StageOf(cr[i])
  <2>1. s' = s
    BY <1>1, <1>2
  <2> QED BY <2>1
<1>3. ASSUME NEW i \in Imports, Legal(StageOf(cr[i]), StageOf(cr'[i])),
             \A j \in Imports \ {i} : cr'[j] = cr[j]
      PROVE  [View!Next]_s
  <2> DEFINE a == StageOf(cr[i])
             b == StageOf(cr'[i])
  <2>1. s' = [s EXCEPT ![i] = b] /\ s[i] = a
    BY <1>1, <1>3
  <2>2. CASE a = b
    <3>1. s' = s
      BY <2>1, <2>2
    <3> QED BY <3>1
  <2>3. CASE a = "queued" /\ b = "running"
    BY <2>1, <2>3 DEF View!Next, View!Start, View!Move
  <2>4. CASE a \in {"queued", "running"} /\ b = "canceled"
    BY <2>1, <2>4 DEF View!Next, View!Cancel, View!Move
  <2>5. CASE a = "running" /\ b \in {"completed", "failed"}
    BY <2>1, <2>5 DEF View!Next, View!Finish, View!Move
  <2> QED BY <1>3, <2>2, <2>3, <2>4, <2>5 DEF Legal
<1> QED BY <1>2, <1>3 DEF Lawful

(* Each import is queued, starts once and ends once, for good, whichever   *)
(* lagging copies of it the worker reads: the reset of its first phase     *)
(* never restarts it.                                                      *)
THEOREM ImportHasLifecycle == Spec => ImportImplementsLifecycle
<1>1. Init => View!Init
  BY NewImportIs DEF Init, View!Init
<1>2. Control /\ [Next]_vars => [View!Next]_([i \in Imports |-> StageOf(cr[i])])
  BY StepIsOK, LawfulIsNext DEF StepOK
<1> QED
  BY <1>1, <1>2, ImportInvariance, PTL
  DEF Spec, ImportImplementsLifecycle, View!Spec

-----------------------------------------------------------------------------
(* What is restored.                                                       *)

(* No two imports are of the same export. *)
KeysDiffer == \A i, j \in Imports : Key[i] = Key[j] => i = j

(* A full import maps to one namespace at most. *)
OneTarget ==
  \A i \in Imports : ~SnapshotOnly[i] => \A m, n \in Targets[i] : m = n

-----------------------------------------------------------------------------
(* The restores.                                                           *)

(* What a restore r of a part of i has done, if got is what is restored.   *)
Does(i, part, r, got) ==
  /\ r.phase # "absent" =>
       r.into = Targets[i] /\ (part = "orig" => ~SnapshotOnly[i])
  /\ r.phase = "completed" \/ (part = "orig" /\ r.phase = "partial") =>
       Targets[i] \subseteq got

Restored ==
  \A i \in Imports :
     /\ Does(i, "temp", restore[<<Key[i], "temp">>], data)
     /\ Does(i, "orig", restore[<<Key[i], "orig">>], origin)

LEMMA RestoredPrimed ==
  ASSUME \A i \in Imports :
            /\ Does(i, "temp", restore'[<<Key[i], "temp">>], data')
            /\ Does(i, "orig", restore'[<<Key[i], "orig">>], origin')
  PROVE  Restored'
BY DEF Restored, Does

LEMMA DoesMore ==
  ASSUME NEW i, NEW part, NEW r, NEW got, NEW more, Does(i, part, r, got),
         got \subseteq more
  PROVE  Does(i, part, r, more)
BY DEF Does

LEMMA RestoredLasts ==
  ASSUME Restored, restore' = restore, data \subseteq data', origin \subseteq origin'
  PROVE  Restored'
<1>1. \A i \in Imports :
         /\ Does(i, "temp", restore'[<<Key[i], "temp">>], data')
         /\ Does(i, "orig", restore'[<<Key[i], "orig">>], origin')
  BY DoesMore DEF Restored
<1> QED BY <1>1, RestoredPrimed

(* Only a full import asks for the original namespaces. *)
LEMMA EnsureRestored ==
  ASSUME KeysDiffer, Control, ExternalTypeOK, Restored, NEW part \in Parts,
         Asking(part), EnsureVeleroRestore(part)
  PROVE  Restored'
<1> DEFINE a == <<Key[cur], part>>
           new == [phase |-> "new", into |-> Targets[cur]]
<1>1. pc # "idle" /\ (part = "orig" => mem.phase = "RestoreOriginNamespace")
  BY DEF Asking, At
<1>2. cur \in Imports /\ mem.phase \in PlanOf(cur)
  BY <1>1, PhaseKnown DEF ResourcesOf
<1>3. part = "orig" => ~SnapshotOnly[cur]
  BY <1>1, <1>2, PlanIs DEF CommonPhases
<1>4. /\ restore' = [restore EXCEPT ![a] =
                       IF restore[a].phase = "absent" THEN new ELSE restore[a]]
      /\ data' = data /\ origin' = origin
  BY DEF EnsureVeleroRestore, Name
<1>5. \A i \in Imports, p \in Parts :
         <<Key[i], p>> \in Restores /\ (<<Key[i], p>> = a => i = cur /\ p = part)
  <2>1. ASSUME NEW i \in Imports, NEW p \in Parts, <<Key[i], p>> = a
        PROVE  i = cur /\ p = part
    <3>1. Key[i] = Key[cur] /\ p = part
      BY <2>1
    <3> QED BY <1>2, <3>1 DEF KeysDiffer
  <2> QED BY <2>1, KeysAre
<1>6. ASSUME NEW i \in Imports, NEW p \in Parts, NEW got,
             Does(i, p, restore[<<Key[i], p>>], got)
      PROVE  Does(i, p, restore'[<<Key[i], p>>], got)
  <2>1. restore \in [Restores -> [phase : RestorePhases, into : SUBSET TargetNamespaces]]
    BY DEF ExternalTypeOK
  <2>2. CASE <<Key[i], p>> = a /\ restore[a].phase = "absent"
    <3>1. restore'[<<Key[i], p>>] = new
      BY <1>4, <1>5, <2>1, <2>2
    <3>2. i = cur /\ p = part
      BY <1>5, <2>2
    <3>3. Does(i, p, new, got)
      BY <1>3, <3>2 DEF Does
    <3> QED BY <3>1, <3>3
  <2>3. CASE ~(<<Key[i], p>> = a /\ restore[a].phase = "absent")
    <3>1. restore'[<<Key[i], p>>] = restore[<<Key[i], p>>]
      BY <1>4, <1>5, <2>1, <2>3
    <3> QED BY <1>6, <3>1
  <2> QED BY <2>2, <2>3
<1>7. "temp" \in Parts /\ "orig" \in Parts
  BY DEF Parts
<1>8. \A i \in Imports :
         /\ Does(i, "temp", restore'[<<Key[i], "temp">>], data')
         /\ Does(i, "orig", restore'[<<Key[i], "orig">>], origin')
  BY <1>4, <1>6, <1>7 DEF Restored
<1> QED BY <1>8, RestoredPrimed

(* Velero moves a restore on; one that ends well has done its part. *)
LEMMA VeleroRestored ==
  ASSUME KeysDiffer, ExternalTypeOK, Restored, NEW r \in Restores,
         VeleroStarts(r) \/ VeleroEnds(r)
  PROVE  Restored' /\ data \subseteq data' /\ origin \subseteq origin'
<1>1. restore \in [Restores -> [phase : RestorePhases, into : SUBSET TargetNamespaces]]
  BY DEF ExternalTypeOK
<1>2. PICK p \in RestorePhases :
         /\ restore' = [restore EXCEPT ![r].phase = p]
         /\ p # "absent" /\ restore[r].phase # "absent"
         /\ p = "completed" /\ r[2] = "temp" => restore[r].into \subseteq data'
         /\ p \in {"completed", "partial"} /\ r[2] = "orig" =>
              restore[r].into \subseteq origin'
         /\ data \subseteq data' /\ origin \subseteq origin'
  <2>1. CASE VeleroStarts(r)
    <3>1. /\ restore[r].phase = "new" /\ data' = data /\ origin' = origin
          /\ \/ restore' = [restore EXCEPT ![r].phase = "running"]
             \/ restore' = [restore EXCEPT ![r].phase = "failed"]
      BY <2>1 DEF VeleroStarts
    <3>2. "running" \in RestorePhases /\ "failed" \in RestorePhases
      BY DEF RestorePhases
    <3> QED BY <3>1, <3>2
  <2>2. CASE VeleroEnds(r)
    <3>1. PICK end \in {"completed", "partial", "failed"} :
             /\ restore[r].phase = "running"
             /\ restore' = [restore EXCEPT ![r].phase = end]
             /\ data' = IF end = "completed" /\ r[2] = "temp"
                          THEN data \union restore[r].into ELSE data
             /\ origin' = IF end # "failed" /\ r[2] = "orig"
                            THEN origin \union restore[r].into ELSE origin
      BY <2>2 DEF VeleroEnds
    <3>2. end \in RestorePhases
      BY DEF RestorePhases
    <3> QED BY <3>1, <3>2
  <2> QED BY <2>1, <2>2
<1>3. /\ restore'[r].into = restore[r].into /\ restore'[r].phase = p
      /\ \A s \in Restores \ {r} : restore'[s] = restore[s]
  BY <1>1, <1>2
<1>4. ASSUME NEW i \in Imports
      PROVE  /\ Does(i, "temp", restore'[<<Key[i], "temp">>], data')
             /\ Does(i, "orig", restore'[<<Key[i], "orig">>], origin')
  <2>1. /\ <<Key[i], "temp">> \in Restores /\ <<Key[i], "orig">> \in Restores
        /\ <<Key[i], "temp">>[2] = "temp" /\ <<Key[i], "orig">>[2] = "orig"
    BY KeysAre DEF Parts
  <2>2. /\ Does(i, "temp", restore[<<Key[i], "temp">>], data')
        /\ Does(i, "orig", restore[<<Key[i], "orig">>], origin')
    BY <1>2, DoesMore DEF Restored
  <2>3. Does(i, "temp", restore'[<<Key[i], "temp">>], data')
    <3>1. CASE <<Key[i], "temp">> = r
      <4>1. /\ r[2] = "temp" /\ restore[r].into = Targets[i]
        BY <1>2, <2>1, <2>2, <3>1 DEF Does
      <4> QED BY <1>2, <1>3, <3>1, <4>1 DEF Does
    <3>2. CASE <<Key[i], "temp">> # r
      BY <1>3, <2>1, <2>2, <3>2
    <3> QED BY <3>1, <3>2
  <2>4. Does(i, "orig", restore'[<<Key[i], "orig">>], origin')
    <3>1. CASE <<Key[i], "orig">> = r
      <4>1. /\ r[2] = "orig" /\ restore[r].into = Targets[i] /\ ~SnapshotOnly[i]
        BY <1>2, <2>1, <2>2, <3>1 DEF Does
      <4> QED BY <1>2, <1>3, <3>1, <4>1 DEF Does
    <3>2. CASE <<Key[i], "orig">> # r
      BY <1>3, <2>1, <2>2, <3>2
    <3> QED BY <3>1, <3>2
  <2> QED BY <2>3, <2>4
<1> QED BY <1>2, <1>4, RestoredPrimed

(* The worker's calls leave the data alone; nothing takes it away again. *)
LEMMA WorkerRestored ==
  ASSUME KeysDiffer, Control, ExternalTypeOK, Restored, Worker
  PROVE  Restored' /\ data' = data /\ origin' = origin
<1>1. CASE HeadStep
  <2>1. UNCHANGED externalVars
    BY <1>1 DEF HeadStep, Begin, ReconcileTerminal, Initial, Timeout, Validate,
        ReadFaults, vars
  <2> QED BY <2>1, RestoredLasts DEF externalVars
<1>2. CASE RestoreStep
  <2>1. ASSUME NEW part \in Parts, Restore(part) \/ RestoreFaults(part)
        PROVE  Restored' /\ data' = data /\ origin' = origin
    <3>1. Asking(part) /\ (EnsureVeleroRestore(part) \/ UNCHANGED externalVars)
      BY <2>1 DEF Restore, RestoreFaults
    <3>2. CASE EnsureVeleroRestore(part)
      BY <3>1, <3>2, EnsureRestored DEF EnsureVeleroRestore
    <3>3. CASE UNCHANGED externalVars
      BY <3>3, RestoredLasts DEF externalVars
    <3> QED BY <3>1, <3>2, <3>3
  <2>2. CASE \/ \E part \in Parts : SaveRestore(part)
             \/ NoCopy \/ RestoringTemp \/ RestoringTempForgets \/ RestoringOrigin
    <3>1. UNCHANGED externalVars
      BY <2>2
      DEF SaveRestore, NoCopy, Panic, Restart, RestoringTemp, RestoringTempForgets,
          RestoringOrigin
    <3> QED BY <3>1, RestoredLasts DEF externalVars
  <2> QED BY <1>2, <2>1, <2>2 DEF RestoreStep
<1>3. CASE PodStep
  <2>1. UNCHANGED <<restore, data, origin>>
    BY <1>3
    DEF PodStep, DeleteStagePod, EnsureStagePodDeleted, DeletingStagePod, PodsDeleted,
        Panic, Restart, DeletingStagePodBlind, DeleteStagePodDone,
        DeletingStagePodDone, externalVars
  <2> QED BY <2>1, RestoredLasts
<1> QED BY <1>1, <1>2, <1>3 DEF Worker

(* What changes outside the worker, the resources and their copies. *)
World ==
  \/ EnvironmentStep \/ Expire \/ UNCHANGED vars
  \/ \E i \in Imports : CacheSync(i) \/ UserTouch(i) \/ TimePasses(i)

LEMMA WorldRestored ==
  ASSUME KeysDiffer, ExternalTypeOK, Restored, World \/ Unreachable \/ Crash
  PROVE  Restored' /\ data \subseteq data' /\ origin \subseteq origin'
<1>1. ASSUME UNCHANGED <<restore, data, origin>>
      PROVE  Restored' /\ data \subseteq data' /\ origin \subseteq origin'
  BY <1>1, RestoredLasts
<1>2. CASE EnvironmentStep
  <2>1. ASSUME NEW n \in TargetNamespaces, PodGone(n)
        PROVE  UNCHANGED <<restore, data, origin>>
    BY <2>1 DEF PodGone
  <2>2. CopyProceeds => UNCHANGED <<restore, data, origin>>
    BY DEF CopyProceeds
  <2> QED BY <1>1, <1>2, <2>1, <2>2, VeleroRestored DEF EnvironmentStep
<1>3. CASE Expire \/ Unreachable \/ Crash \/ UNCHANGED vars
  BY <1>1, <1>3 DEF Expire, Unreachable, Crash, Restart, vars, externalVars
<1>4. ASSUME NEW i \in Imports, CacheSync(i) \/ UserTouch(i) \/ TimePasses(i)
      PROVE  UNCHANGED <<restore, data, origin>>
  BY <1>4 DEF CacheSync, UserTouch, TimePasses, externalVars
<1> QED BY <1>1, <1>2, <1>3, <1>4 DEF World

LEMMA NextIsWorldOrWorker ==
  [Next]_vars <=> World \/ Worker \/ Unreachable \/ Crash
BY DEF Next, World

LEMMA RestoredInit == Init => Restored
<1> SUFFICES ASSUME Init PROVE Restored
  OBVIOUS
<1>1. restore = [r \in Restores |-> [phase |-> "absent", into |-> {}]]
  BY DEF Init
<1> QED BY <1>1, KeysAre DEF Restored, Does, Parts

LEMMA RestoredHolds ==
  ASSUME KeysDiffer
  PROVE  Spec => []Restored
<1>1. Control /\ ExternalTypeOK /\ Restored /\ [Next]_vars => Restored'
  BY WorkerRestored, WorldRestored, NextIsWorldOrWorker
<1> QED BY <1>1, RestoredInit, ImportInvariance, PTL DEF Spec

(* An import that asks for snapshots only restores nothing else, though    *)
(* the step list is one package variable that every reconcile sets.        *)
THEOREM SnapshotsOnly ==
  ASSUME KeysDiffer
  PROVE  Spec => []SnapshotOnlyStops
<1>1. Restored => SnapshotOnlyStops
  BY DEF Restored, Does, SnapshotOnlyStops
<1> QED BY <1>1, RestoredHolds, PTL

-----------------------------------------------------------------------------
(* The resources and the worker's copy.                                    *)

Later == {"DeleteStagePod", "DeletingStagePod", "Completed"} \union OriginPhases

(* What a copy c of i claims has been restored: got of the data, and orig  *)
(* of the original objects; and the restore it waits for.                  *)
Claims(i, c, got, orig) ==
  /\ c.state = StateCompleted => c.phase = "Completed"
  /\ c.phase = "RestoringTempNamespace" => c.ref = "temp"
  /\ c.phase = "RestoringOriginNamespace" => c.ref = "orig"
  /\ c.phase \in Later => Targets[i] \subseteq got
  /\ c.phase = "Completed" /\ ~SnapshotOnly[i] => Targets[i] \subseteq orig

(* Every copy of a resource claims what is so. *)
Truthful ==
  \A i \in Imports :
     /\ Claims(i, cr[i], data, origin) /\ Claims(i, cached[i], data, origin)
     /\ \A k \in DOMAIN watch[i] : Claims(i, watch[i][k], data, origin)

WorkerTruthful == pc # "idle" => Claims(cur, mem, data, origin)

(* The loop of DeletingStagePod has no namespace left that would move the  *)
(* phase past the restore of the original namespaces.                      *)
Alone ==
  pc = "loop" => IF SnapshotOnly[cur] THEN mem.phase = "Completed" ELSE todo = {}

LEMMA TruthfulPrimed ==
  ASSUME \A i \in Imports :
           /\ Claims(i, cr'[i], data', origin') /\ Claims(i, cached'[i], data', origin')
           /\ \A k \in DOMAIN watch'[i] : Claims(i, watch'[i][k], data', origin')
  PROVE  Truthful'
BY DEF Truthful, Claims

LEMMA WorkerPrimed ==
  ASSUME pc' # "idle" => Claims(cur', mem', data', origin')
  PROVE  WorkerTruthful'
BY DEF WorkerTruthful, Claims

LEMMA ClaimsLast ==
  ASSUME NEW i, NEW c, NEW got, NEW orig, NEW got2, NEW orig2,
         Claims(i, c, got, orig), got \subseteq got2, orig \subseteq orig2
  PROVE  Claims(i, c, got2, orig2)
BY DEF Claims

LEMMA SamePhaseClaims ==
  ASSUME NEW i, NEW c, NEW d, NEW got, NEW orig, Claims(i, c, got, orig),
         d.phase = c.phase, d.ref = c.ref,
         d.state # StateCompleted \/ d.state = c.state
  PROVE  Claims(i, d, got, orig)
BY DEF Claims

Tells == Truthful /\ WorkerTruthful /\ Alone

Sound == Control /\ ExternalTypeOK /\ Restored /\ Tells

Still == data' = data /\ origin' = origin

LEMMA SoundWorker ==
  ASSUME Sound, pc # "idle"
  PROVE  /\ Working /\ cur \in Imports /\ mem \in Resources /\ mem.phase \in PlanOf(cur)
         /\ Alive(mem) /\ steps = StepsOf(cur) /\ GetLastPhase(steps) = "Completed"
         /\ Claims(cur, mem, data, origin) /\ todo \in SUBSET Targets[cur]
         /\ pc # "loop" => mem.phase # "Completed"
BY PhaseKnown DEF Sound, Tells, WorkerTruthful, ResourcesOf

-----------------------------------------------------------------------------
(* The ways a step of the worker ends.                                     *)

LEMMA SameResourcesTell ==
  ASSUME Truthful, data \subseteq data', origin \subseteq origin',
         UNCHANGED resourceVars
  PROVE  Truthful'
<1>1. \A i \in Imports :
         /\ Claims(i, cr'[i], data', origin') /\ Claims(i, cached'[i], data', origin')
         /\ \A k \in DOMAIN watch'[i] : Claims(i, watch'[i][k], data', origin')
  BY ClaimsLast DEF Truthful, resourceVars
<1> QED BY <1>1, TruthfulPrimed

LEMMA WriteTells ==
  ASSUME Sound, pc # "idle", Still, NEW c, Write(c), UNCHANGED cached,
         fresh => Claims(cur, c, data, origin)
  PROVE  Truthful'
<1>1. Truthful /\ Stored /\ cur \in Imports /\ fresh \in BOOLEAN
  BY SoundWorker DEF Sound, Tells, Control, Held
<1>2. CASE ~fresh
  BY <1>1, <1>2, SameResourcesTell DEF Write, resourceVars, Still
<1>3. CASE fresh
  <2> DEFINE w == IF c = cr[cur] THEN watch[cur] ELSE Append(watch[cur], c)
  <2>1. /\ cr' = [cr EXCEPT ![cur] = c] /\ watch' = [watch EXCEPT ![cur] = w]
        /\ Claims(cur, c, data, origin)
    BY <1>3 DEF Write
  <2>2. ASSUME NEW k \in DOMAIN w
        PROVE  Claims(cur, w[k], data, origin)
    <3>1. watch[cur] \in Seq(Resources)
      BY <1>1 DEF Stored
    <3>2. k \in DOMAIN watch[cur] => Claims(cur, watch[cur][k], data, origin)
      BY <1>1 DEF Truthful
    <3>3. CASE c = cr[cur]
      BY <2>2, <3>2, <3>3
    <3>4. CASE c # cr[cur]
      <4>1. w = Append(watch[cur], c)
        BY <3>4
      <4>2. \/ k \in DOMAIN watch[cur] /\ w[k] = watch[cur][k]
            \/ w[k] = c
        BY <2>2, <3>1, <4>1
      <4> QED BY <2>1, <3>2, <4>2
    <3> QED BY <3>3, <3>4
  <2> HIDE DEF w
  <2>3. /\ cr'[cur] = c /\ watch'[cur] = w /\ cached' = cached
        /\ \A i \in Imports \ {cur} : cr'[i] = cr[i] /\ watch'[i] = watch[i]
    BY <1>1, <2>1 DEF Stored
  <2>4. ASSUME NEW i \in Imports
        PROVE  /\ Claims(i, cr'[i], data', origin')
               /\ Claims(i, cached'[i], data', origin')
               /\ \A k \in DOMAIN watch'[i] : Claims(i, watch'[i][k], data', origin')
    <3>1. CASE i = cur
      BY <1>1, <2>1, <2>2, <2>3, <3>1 DEF Truthful, Still
    <3>2. CASE i # cur
      BY <1>1, <2>3, <3>2 DEF Truthful, Still
    <3> QED BY <3>1, <3>2
  <2> QED BY <2>4, TruthfulPrimed
<1> QED BY <1>1, <1>2, <1>3

LEMMA ReturnTells ==
  ASSUME Truthful', pc' = "idle"
  PROVE  Tells'
BY WorkerPrimed DEF Alone, Tells

LEMMA FinishTells ==
  ASSUME Sound, pc # "idle", Still, NEW c, Finish(c),
         fresh => Claims(cur, c, data, origin)
  PROVE  Tells'
BY WriteTells, ReturnTells DEF Finish, Return

LEMMA WaitTells ==
  ASSUME Sound, data \subseteq data', origin \subseteq origin', Wait \/ GiveUp
  PROVE  Tells'
BY SameResourcesTell, ReturnTells DEF Wait, GiveUp, Return, Sound, Tells

LEMMA RestartTells ==
  ASSUME Sound, Restart
  PROVE  Tells'
<1>1. /\ cached' = cr /\ cr' = cr /\ watch' = [i \in Imports |-> <<>>]
      /\ data' = data /\ origin' = origin /\ pc' = "idle" /\ Truthful
  BY DEF Restart, externalVars, Sound, Tells
<1>2. \A i \in Imports : DOMAIN watch'[i] = {}
  BY <1>1
<1>3. Truthful'
  BY <1>1, <1>2, TruthfulPrimed DEF Truthful
<1> QED BY <1>1, <1>3, ReturnTells

LEMMA ContinueTells ==
  ASSUME Truthful', Still, NEW c, NEW where, NEW loop, Continue(c, where, loop),
         Claims(cur, c, data, origin),
         where = "loop" =>
           IF SnapshotOnly[cur] THEN c.phase = "Completed" ELSE loop = {}
  PROVE  Tells'
<1>1. pc' = where /\ mem' = c /\ todo' = loop /\ cur' = cur
  BY DEF Continue
<1>2. WorkerTruthful'
  BY <1>1, WorkerPrimed DEF Still
<1>3. Alone'
  BY <1>1 DEF Alone
<1> QED BY <1>2, <1>3 DEF Tells

LEMMA FailTells ==
  ASSUME Sound, pc # "idle", Still, Finish(FailedOn(mem))
  PROVE  Tells'
<1>1. Working /\ Claims(cur, mem, data, origin)
  BY SoundWorker
<1>2. /\ FailedOn(mem).phase = mem.phase /\ FailedOn(mem).ref = mem.ref
      /\ FailedOn(mem).state # StateCompleted
  BY <1>1, FailedFollows DEF StateFailed, StateCompleted
<1>3. Claims(cur, FailedOn(mem), data, origin)
  BY <1>1, <1>2, SamePhaseClaims
<1> QED BY <1>3, FinishTells

-----------------------------------------------------------------------------
(* The steps of the worker.                                                *)

(* UpdateStatus without an error. *)
LEMMA SucceededClaims ==
  ASSUME Sound, pc # "idle", mem.phase # "Completed",
         NextOf(cur, mem.phase) \in Later => Targets[cur] \subseteq data,
         NextOf(cur, mem.phase) = "Completed" /\ ~SnapshotOnly[cur] =>
           Targets[cur] \subseteq origin,
         NextOf(cur, mem.phase) \notin
           {"RestoringTempNamespace", "RestoringOriginNamespace"}
  PROVE  Claims(cur, Succeeded(mem), data, origin)
<1> DEFINE c == Succeeded(mem)
<1>1. /\ c.phase = NextOf(cur, mem.phase)
      /\ c.state = IF c.phase = "Completed" THEN StateCompleted ELSE StateInProgress
  BY SoundWorker, SucceededFollows
<1> HIDE DEF c
<1>2. c.state = StateCompleted => c.phase = "Completed"
  BY <1>1 DEF StateCompleted, StateInProgress
<1>3. Claims(cur, c, data, origin)
  BY <1>1, <1>2 DEF Claims
<1> QED BY <1>3 DEF c

LEMMA HeadTells ==
  ASSUME Sound, Still, HeadStep
  PROVE  Tells'
<1>1. Truthful /\ WorkerTruthful /\ Alone /\ Control
  BY DEF Sound, Tells
<1>2. ASSUME NEW i \in Imports, Begin(i)
      PROVE  Tells'
  <2>1. Truthful'
    BY <1>1, <1>2, SameResourcesTell DEF Begin, Still
  <2>2. /\ pc' = "start" /\ cur' = i /\ mem' = cached[i]
    BY <1>2 DEF Begin
  <2>3. WorkerTruthful'
    BY <1>1, <2>2, WorkerPrimed DEF Truthful, Still
  <2>4. Alone'
    BY <2>2 DEF Alone
  <2> QED BY <2>1, <2>3, <2>4 DEF Tells
<1>3. ASSUME NEW i \in Imports, ReconcileTerminal(i)
      PROVE  Tells'
  <2>1. UNCHANGED <<resourceVars, workerVars>>
    BY <1>3 DEF ReconcileTerminal, vars
  <2>2. Truthful'
    BY <1>1, <2>1, SameResourcesTell DEF Still
  <2>3. WorkerTruthful' /\ Alone'
    BY <1>1, <2>1, WorkerPrimed DEF workerVars, WorkerTruthful, Alone, Still
  <2> QED BY <2>2, <2>3 DEF Tells
<1>4. CASE Initial
  <2> DEFINE c == Succeeded(NewImport)
  <2>1. /\ pc # "idle" /\ mem.phase = "Initial" /\ Write(c) /\ UNCHANGED cached
        /\ IF fresh THEN Continue(c, "start", {}) /\ UNCHANGED fresh ELSE Return
    BY <1>4 DEF Initial, PhaseInitial
  <2>2. c.phase = "RestoreTempNamespace" /\ c.state = StateInProgress
    <3>1. /\ c.phase = NextOf(cur, "Initial")
          /\ c.state = IF c.phase = "Completed" THEN StateCompleted ELSE StateInProgress
      BY <2>1, SoundWorker, NewImportIs, SucceededFollows
    <3> QED BY <3>1, NextIs
  <2> HIDE DEF c
  <2>3. Claims(cur, c, data, origin)
    BY <2>2 DEF Claims, Later, OriginPhases, StateCompleted, StateInProgress
  <2>4. Truthful'
    BY <2>1, <2>3, WriteTells
  <2>5. CASE fresh
    BY <2>1, <2>3, <2>4, <2>5, ContinueTells
  <2>6. CASE ~fresh
    BY <2>1, <2>4, <2>6, ReturnTells DEF Return
  <2> QED BY <2>5, <2>6
<1>5. CASE Timeout
  <2> DEFINE c == [mem EXCEPT !.state = StateCanceled]
  <2>1. pc # "idle" /\ Finish(c)
    BY <1>5 DEF Timeout
  <2>2. Claims(cur, mem, data, origin) /\ mem \in Resources
    BY <2>1, SoundWorker
  <2>3. c.phase = mem.phase /\ c.ref = mem.ref /\ c.state # StateCompleted
    BY <2>2 DEF Resources, StateCanceled, StateCompleted
  <2> HIDE DEF c
  <2>4. Claims(cur, c, data, origin)
    BY <2>2, <2>3, SamePhaseClaims
  <2> QED BY <2>1, <2>4, FinishTells
<1>6. CASE Validate
  <2>1. pc = "start" /\ pc # "idle"
    BY <1>6 DEF Validate
  <2>2. CASE valid
    <3>1. Continue(mem, "phase", LoopOf(mem)) /\ UNCHANGED resourceVars
      BY <1>6, <2>2 DEF Validate
    <3>2. Truthful' /\ Claims(cur, mem, data, origin)
      BY <1>1, <2>1, <3>1, SameResourcesTell, SoundWorker DEF Still
    <3> QED BY <3>1, <3>2, ContinueTells
  <2>3. CASE ~valid
    BY <1>6, <2>1, <2>3, FailTells DEF Validate
  <2> QED BY <2>2, <2>3
<1>7. CASE ReadFaults
  <2>1. pc # "idle" /\ Finish(FailedOn(mem))
    BY <1>7 DEF ReadFaults, At
  <2> QED BY <2>1, FailTells
<1> QED BY <1>2, <1>3, <1>4, <1>5, <1>6, <1>7 DEF HeadStep

LEMMA RestoringTempTells ==
  ASSUME Sound, Still, RestoringTemp \/ RestoringTempForgets
  PROVE  Tells'
<1> DEFINE c == Succeeded(mem)
           r == restore[<<Key[cur], "temp">>]
<1>1. pc = "phase" /\ pc # "idle" /\ mem.phase = "RestoringTempNamespace"
  BY DEF RestoringTemp, RestoringTempForgets, At
<1>2. /\ cur \in Imports /\ Claims(cur, mem, data, origin) /\ Restored /\ Truthful
      /\ Working
  BY <1>1, SoundWorker DEF Sound, Tells
<1>3. mem.ref = "temp" /\ Name(mem.ref) = <<Key[cur], "temp">>
  BY <1>1, <1>2 DEF Claims, Name
<1>4. ASSUME r.phase = "completed"
      PROVE  Claims(cur, c, data, origin)
  <2>1. Targets[cur] \subseteq data
    BY <1>2, <1>4 DEF Restored, Does
  <2> QED BY <1>1, <2>1, NextIs, SucceededClaims
<1>5. CASE RestoringTempForgets
  <2>1. /\ r.phase = "completed" /\ Continue(c, "phase", LoopOf(c)) /\ UNCHANGED cached
        /\ UNCHANGED <<cr, watch>> \/ Write(c)
    BY <1>3, <1>5 DEF RestoringTempForgets
  <2> HIDE DEF c
  <2>2. Truthful'
    BY <1>1, <1>2, <1>4, <2>1, WriteTells, SameResourcesTell DEF resourceVars, Still
  <2> QED BY <1>4, <2>1, <2>2, ContinueTells
<1>6. CASE RestoringTemp
  <2>1. CASE /\ r.phase = "completed" /\ Write(c) /\ Continue(c, "phase", LoopOf(c))
             /\ UNCHANGED cached
    <3> HIDE DEF c
    <3>1. Truthful'
      BY <1>1, <1>4, <2>1, WriteTells
    <3> QED BY <1>4, <2>1, <3>1, ContinueTells
  <2>2. CASE Finish(FailedOn([mem EXCEPT !.state = StateVeleroFailed]))
    <3> DEFINE v == [mem EXCEPT !.state = StateVeleroFailed]
               d == FailedOn(v)
    <3>1. mem \in Resources
      BY <1>1, SoundWorker
    <3>2. /\ v \in Resources /\ v.phase = mem.phase /\ v.ref = mem.ref
          /\ v.state = StateVeleroFailed
      BY <3>1 DEF Resources
    <3> HIDE DEF v
    <3>3. d.phase = mem.phase /\ d.ref = mem.ref /\ d.state # StateCompleted
      BY <3>2 DEF FailedOn, Resources, StateVeleroFailed, StateCompleted
    <3> HIDE DEF d
    <3>4. Claims(cur, d, data, origin)
      BY <1>2, <3>3, SamePhaseClaims
    <3>5. Finish(d)
      BY <2>2 DEF d, v
    <3> QED BY <1>1, <3>4, <3>5, FinishTells
  <2>3. CASE Wait
    BY <2>3, WaitTells DEF Still
  <2> QED BY <1>3, <1>6, <2>1, <2>2, <2>3 DEF RestoringTemp
<1> QED BY <1>5, <1>6

LEMMA RestoreTells ==
  ASSUME Sound, Still, RestoreStep
  PROVE  Tells'
<1>1. ASSUME NEW part \in Parts, Restore(part)
      PROVE  Tells'
  <2>1. /\ pc # "idle" /\ Continue(mem, part, {}) /\ UNCHANGED resourceVars
        /\ part # "loop"
    BY <1>1 DEF Restore, Asking, At, Parts
  <2>2. Truthful' /\ Claims(cur, mem, data, origin)
    BY <2>1, SameResourcesTell, SoundWorker DEF Still, Sound, Tells
  <2> QED BY <2>1, <2>2, ContinueTells
<1>2. ASSUME NEW part \in Parts, RestoreFaults(part)
      PROVE  Tells'
  <2>1. pc # "idle" /\ Finish(FailedOn(mem))
    BY <1>2 DEF RestoreFaults, Asking, At
  <2> QED BY <2>1, FailTells
<1>3. ASSUME NEW part \in Parts, SaveRestore(part)
      PROVE  Tells'
  <2> DEFINE c == Succeeded(mem)
             d == [c EXCEPT !.ref = part]
  <2>1. pc = part /\ pc # "idle" /\ pc # "loop" /\ Finish(d)
    BY <1>3 DEF SaveRestore, Parts
  <2>2. /\ part = "temp" => mem.phase = "RestoreTempNamespace"
        /\ part = "orig" => mem.phase = "RestoreOriginNamespace"
    BY <2>1 DEF Sound, Control, Held
  <2>3. /\ Working /\ mem.phase # "Completed" /\ Claims(cur, mem, data, origin)
        /\ mem \in Resources /\ Alive(mem) /\ mem.phase \in PlanOf(cur)
    BY <2>1, SoundWorker
  <2>4. /\ c.phase = NextOf(cur, mem.phase) /\ c \in Resources
        /\ c.state = IF c.phase = "Completed" THEN StateCompleted ELSE StateInProgress
    BY <2>3, SucceededFollows DEF Follows, ResourcesOf
  <2> HIDE DEF c
  <2>5. d.phase = c.phase /\ d.state = c.state /\ d.ref = part
    BY <2>4 DEF Resources
  <2> HIDE DEF d
  <2>6. Claims(cur, d, data, origin)
    <3>1. CASE part = "temp"
      BY <2>2, <2>4, <2>5, <3>1, NextIs
      DEF Claims, Later, OriginPhases, StateCompleted, StateInProgress
    <3>2. CASE part = "orig"
      <4>1. ~SnapshotOnly[cur]
        BY <2>2, <2>3, <3>2, PlanIs DEF CommonPhases
      <4>2. d.phase = "RestoringOriginNamespace" /\ d.state = StateInProgress
        BY <2>2, <2>4, <2>5, <3>2, <4>1, NextIs
      <4>3. Targets[cur] \subseteq data
        BY <2>2, <2>3, <3>2 DEF Claims, Later, OriginPhases
      <4> QED BY <2>5, <3>2, <4>2, <4>3 DEF Claims, StateCompleted, StateInProgress
    <3> QED BY <3>1, <3>2 DEF Parts
  <2> QED BY <2>1, <2>6, FinishTells
<1>4. CASE NoCopy
  BY <1>4, RestartTells DEF NoCopy, Panic
<1>5. CASE RestoringOrigin
  <2>1. /\ pc = "phase" /\ pc # "idle" /\ mem.phase = "RestoringOriginNamespace"
        /\ \/ IsNamespaceRestored(Name(mem.ref)) /\ Finish(Succeeded(mem))
           \/ Wait
    BY <1>5 DEF RestoringOrigin, At
  <2>2. CASE Wait
    BY <2>2, WaitTells DEF Still
  <2>3. CASE IsNamespaceRestored(Name(mem.ref)) /\ Finish(Succeeded(mem))
    <3>1. cur \in Imports /\ Claims(cur, mem, data, origin) /\ mem.phase \in PlanOf(cur)
      BY <2>1, SoundWorker
    <3>2. ~SnapshotOnly[cur] /\ mem.ref = "orig" /\ Targets[cur] \subseteq data
      BY <2>1, <3>1, PlanIs DEF CommonPhases, Claims, Later, OriginPhases
    <3>3. restore[<<Key[cur], "orig">>].phase \in {"completed", "partial"}
      BY <2>3, <3>2 DEF IsNamespaceRestored, Name
    <3>4. Targets[cur] \subseteq origin
      BY <3>1, <3>3 DEF Sound, Restored, Does
    <3>5. NextOf(cur, mem.phase) = "Completed"
      BY <2>1, <3>2, NextIs
    <3>6. Claims(cur, Succeeded(mem), data, origin)
      BY <2>1, <3>2, <3>4, <3>5, SucceededClaims
    <3> QED BY <2>1, <2>3, <3>6, FinishTells
  <2> QED BY <2>1, <2>2, <2>3
<1> QED BY <1>1, <1>2, <1>3, <1>4, <1>5, RestoringTempTells DEF RestoreStep

(* One namespace is the last one of a full import, so that the phase moves *)
(* on once; an import of snapshots only is completed by the first.         *)
LEMMA NamespaceDoneTells ==
  ASSUME OneTarget, Sound, Still, NEW n \in todo, Deleting, mem.phase # "Completed",
         Write(Succeeded(mem)), UNCHANGED cached,
         IF fresh THEN Continue(Succeeded(mem), "loop", todo \ {n}) /\ UNCHANGED fresh
                  ELSE Return
  PROVE  Tells'
<1> DEFINE c == Succeeded(mem)
<1>1. pc # "idle"
  BY DEF Deleting, At
<1>2. /\ cur \in Imports /\ Claims(cur, mem, data, origin) /\ Working
      /\ todo \in SUBSET Targets[cur] /\ mem \in Resources /\ Alive(mem)
  BY <1>1, SoundWorker
<1>3. mem.phase = "DeletingStagePod"
  <2>1. pc # "loop"
    BY DEF Sound, Tells, Alone
  <2> QED BY <2>1 DEF Deleting, At
<1>4. Targets[cur] \subseteq data
  BY <1>2, <1>3 DEF Claims, Later
<1>5. NextOf(cur, mem.phase) =
        IF SnapshotOnly[cur] THEN "Completed" ELSE "RestoreOriginNamespace"
  BY <1>3, NextIs
<1>6. Claims(cur, c, data, origin)
  BY <1>1, <1>4, <1>5, SucceededClaims
<1>7. c.phase = NextOf(cur, mem.phase)
  BY <1>2, SucceededFollows
<1>8. ~SnapshotOnly[cur] => todo \ {n} = {}
  BY <1>2 DEF OneTarget
<1>9. Write(c) /\ IF fresh THEN Continue(c, "loop", todo \ {n}) /\ UNCHANGED fresh
                           ELSE Return
  OBVIOUS
<1> HIDE DEF c
<1>10. Truthful'
  BY <1>1, <1>6, <1>9, WriteTells
<1>11. CASE fresh
  BY <1>5, <1>6, <1>7, <1>8, <1>9, <1>10, <1>11, ContinueTells
<1>12. CASE ~fresh
  BY <1>9, <1>10, <1>12, ReturnTells DEF Return
<1> QED BY <1>11, <1>12

LEMMA PodTells ==
  ASSUME OneTarget, Sound, Still, PodStep
  PROVE  Tells'
<1>1. ASSUME NEW n \in todo, DeleteStagePod(n)
      PROVE  Tells'
  <2>1. /\ pc = "phase" /\ pc # "idle"
        /\ \/ Continue(mem, pc, todo \ {n}) /\ UNCHANGED resourceVars
           \/ Finish(FailedOn(mem))
    BY <1>1 DEF DeleteStagePod, At
  <2>2. CASE Continue(mem, pc, todo \ {n}) /\ UNCHANGED resourceVars
    <3>1. Truthful' /\ Claims(cur, mem, data, origin)
      BY <2>1, <2>2, SameResourcesTell, SoundWorker DEF Still, Sound, Tells
    <3> QED BY <2>1, <2>2, <3>1, ContinueTells
  <2>3. CASE Finish(FailedOn(mem))
    BY <2>1, <2>3, FailTells
  <2> QED BY <2>1, <2>2, <2>3
<1>2. CASE DeleteStagePodDone
  <2>1. /\ pc = "phase" /\ pc # "idle" /\ mem.phase = "DeleteStagePod"
        /\ Finish(Succeeded(mem))
    BY <1>2 DEF DeleteStagePodDone, At
  <2>2. Targets[cur] \subseteq data
    BY <2>1, SoundWorker DEF Claims, Later
  <2>3. Claims(cur, Succeeded(mem), data, origin)
    BY <2>1, <2>2, NextIs, SucceededClaims
  <2> QED BY <2>1, <2>3, FinishTells
<1>3. ASSUME NEW n \in todo, DeletingStagePod(n)
      PROVE  Tells'
  <2>1. Deleting /\ pc # "idle"
    BY <1>3 DEF DeletingStagePod, Deleting, At
  <2>2. GetLastPhase(steps) = "Completed"
    BY <2>1, SoundWorker
  <2>3. CASE IsStagePodDeleted(n) /\ mem.phase = "Completed"
    BY <1>3, <2>2, <2>3, RestartTells DEF DeletingStagePod, PodsDeleted, Panic
  <2>4. CASE IsStagePodDeleted(n) /\ mem.phase # "Completed"
    <3>1. /\ Write(Succeeded(mem)) /\ UNCHANGED cached
          /\ IF fresh THEN Continue(Succeeded(mem), "loop", todo \ {n})
                           /\ UNCHANGED fresh
                      ELSE Return
      BY <1>3, <2>2, <2>4 DEF DeletingStagePod, PodsDeleted
    <3> QED BY <2>1, <2>4, <3>1, NamespaceDoneTells
  <2>5. CASE ~IsStagePodDeleted(n)
    BY <1>3, <2>1, <2>5, FailTells DEF DeletingStagePod
  <2> QED BY <2>3, <2>4, <2>5
<1>4. ASSUME NEW n \in todo, DeletingStagePodBlind(n)
      PROVE  Tells'
  <2>1. /\ Deleting /\ pc # "idle" /\ mem.phase # GetLastPhase(steps)
        /\ Write(Succeeded(mem)) /\ UNCHANGED cached
        /\ IF fresh THEN Continue(Succeeded(mem), "loop", todo \ {n})
                         /\ UNCHANGED fresh
                    ELSE Return
    BY <1>4 DEF DeletingStagePodBlind, Deleting, At
  <2>2. GetLastPhase(steps) = "Completed"
    BY <2>1, SoundWorker
  <2> QED BY <2>1, <2>2, NamespaceDoneTells
<1>5. CASE DeletingStagePodDone
  <2>1. /\ pc # "idle"
        /\ \/ Continue(mem, "phase", {}) /\ UNCHANGED resourceVars
           \/ Wait
    BY <1>5 DEF DeletingStagePodDone, Deleting, At
  <2>2. CASE Continue(mem, "phase", {}) /\ UNCHANGED resourceVars
    <3>1. Truthful' /\ Claims(cur, mem, data, origin)
      BY <2>1, <2>2, SameResourcesTell, SoundWorker DEF Still, Sound, Tells
    <3> QED BY <2>2, <3>1, ContinueTells
  <2>3. CASE Wait
    BY <2>3, WaitTells DEF Still
  <2> QED BY <2>1, <2>2, <2>3
<1> QED BY <1>1, <1>2, <1>3, <1>4, <1>5 DEF PodStep

-----------------------------------------------------------------------------
(* The rest of the world, and every step.                                  *)

LEMMA WorkerLasts ==
  ASSUME WorkerTruthful, Alone, data \subseteq data', origin \subseteq origin',
         UNCHANGED <<pc, cur, mem, todo>>
  PROVE  WorkerTruthful' /\ Alone'
BY ClaimsLast, WorkerPrimed DEF WorkerTruthful, Alone

LEMMA CacheSyncTells ==
  ASSUME Sound, Still, NEW i \in Imports, CacheSync(i)
  PROVE  Tells'
<1> DEFINE h == Head(watch[i])
           t == Tail(watch[i])
<1>1. /\ watch[i] # <<>> /\ cr' = cr /\ cached' = [cached EXCEPT ![i] = h]
      /\ watch' = [watch EXCEPT ![i] = t] /\ UNCHANGED workerVars
  BY DEF CacheSync
<1>2. Truthful /\ WorkerTruthful /\ Alone /\ Stored
  BY DEF Sound, Tells, Control
<1>3. Claims(i, h, data, origin) /\ \A k \in DOMAIN t : Claims(i, t[k], data, origin)
  <2>1. watch[i] \in Seq(Resources) /\ \A k \in DOMAIN watch[i] :
                                         Claims(i, watch[i][k], data, origin)
    BY <1>2 DEF Stored, Truthful
  <2>2. h = watch[i][1] /\ 1 \in DOMAIN watch[i]
    BY <1>1, <2>1
  <2>3. \A k \in DOMAIN t : k + 1 \in DOMAIN watch[i] /\ t[k] = watch[i][k + 1]
    BY <1>1, <2>1
  <2> HIDE DEF h, t
  <2> QED BY <2>1, <2>2, <2>3
<1> HIDE DEF h, t
<1>4. /\ cached'[i] = h /\ watch'[i] = t
      /\ \A j \in Imports \ {i} : cached'[j] = cached[j] /\ watch'[j] = watch[j]
  BY <1>1, <1>2 DEF Stored
<1>5. ASSUME NEW j \in Imports
      PROVE  /\ Claims(j, cr'[j], data', origin') /\ Claims(j, cached'[j], data', origin')
             /\ \A k \in DOMAIN watch'[j] : Claims(j, watch'[j][k], data', origin')
  <2>1. CASE j = i
    BY <1>1, <1>2, <1>3, <1>4, <2>1 DEF Truthful, Still
  <2>2. CASE j # i
    BY <1>1, <1>2, <1>4, <2>2 DEF Truthful, Still
  <2> QED BY <2>1, <2>2
<1>6. Truthful'
  BY <1>5, TruthfulPrimed
<1>7. WorkerTruthful' /\ Alone'
  BY <1>1, <1>2, WorkerLasts DEF workerVars, Still
<1> QED BY <1>6, <1>7 DEF Tells

LEMMA UserTouchTells ==
  ASSUME Sound, Still, NEW i \in Imports, UserTouch(i)
  PROVE  Tells'
<1> DEFINE w == Append(watch[i], cr[i])
<1>1. /\ cr' = cr /\ cached' = cached /\ watch' = [watch EXCEPT ![i] = w]
      /\ UNCHANGED <<pc, cur, mem, todo>>
  BY DEF UserTouch
<1>2. Truthful /\ WorkerTruthful /\ Alone /\ Stored
  BY DEF Sound, Tells, Control
<1>3. \A k \in DOMAIN w : Claims(i, w[k], data, origin)
  <2>1. watch[i] \in Seq(Resources)
    BY <1>2 DEF Stored
  <2>2. \A k \in DOMAIN w : \/ k \in DOMAIN watch[i] /\ w[k] = watch[i][k]
                            \/ w[k] = cr[i]
    BY <2>1
  <2> HIDE DEF w
  <2> QED BY <1>2, <2>2 DEF Truthful
<1> HIDE DEF w
<1>4. watch'[i] = w /\ \A j \in Imports \ {i} : watch'[j] = watch[j]
  BY <1>1, <1>2 DEF Stored
<1>5. ASSUME NEW j \in Imports
      PROVE  /\ Claims(j, cr'[j], data', origin') /\ Claims(j, cached'[j], data', origin')
             /\ \A k \in DOMAIN watch'[j] : Claims(j, watch'[j][k], data', origin')
  <2>1. CASE j = i
    BY <1>1, <1>2, <1>3, <1>4, <2>1 DEF Truthful, Still
  <2>2. CASE j # i
    BY <1>1, <1>2, <1>4, <2>2 DEF Truthful, Still
  <2> QED BY <2>1, <2>2
<1>6. Truthful'
  BY <1>5, TruthfulPrimed
<1>7. WorkerTruthful' /\ Alone'
  BY <1>1, <1>2, WorkerLasts DEF Still
<1> QED BY <1>6, <1>7 DEF Tells

LEMMA AgedClaims ==
  ASSUME NEW i, NEW c \in Resources, NEW got, NEW orig, Claims(i, c, got, orig)
  PROVE  Claims(i, Aged(c), got, orig)
<1> DEFINE d == Aged(c)
<1>1. d.phase = c.phase /\ d.state = c.state /\ d.ref = c.ref
  BY DEF Aged, Resources
<1> HIDE DEF d
<1>2. Claims(i, d, got, orig)
  BY <1>1, SamePhaseClaims
<1> QED BY <1>2 DEF d

LEMMA TimePassesTells ==
  ASSUME Sound, Still, NEW i \in Imports, TimePasses(i)
  PROVE  Tells'
<1> DEFINE a == Aged(cr[i])
           b == Aged(cached[i])
           w == [k \in DOMAIN watch[i] |-> Aged(watch[i][k])]
           m == Aged(mem)
<1>1. /\ cr' = [cr EXCEPT ![i] = a] /\ cached' = [cached EXCEPT ![i] = b]
      /\ watch' = [watch EXCEPT ![i] = w]
      /\ mem' = IF cur = i THEN m ELSE mem
      /\ UNCHANGED <<pc, cur, todo>>
  BY DEF TimePasses
<1>2. Truthful /\ WorkerTruthful /\ Alone /\ Stored /\ mem \in Resources
  BY DEF Sound, Tells, Control, Held
<1>3. /\ Claims(i, a, data, origin) /\ Claims(i, b, data, origin)
      /\ \A k \in DOMAIN w : Claims(i, w[k], data, origin)
  <2>1. /\ cr[i] \in Resources /\ cached[i] \in Resources
        /\ \A k \in DOMAIN watch[i] : watch[i][k] \in Resources
    BY <1>2 DEF Stored
  <2>2. \A k \in DOMAIN watch[i] : Claims(i, Aged(watch[i][k]), data, origin)
    BY <1>2, <2>1, AgedClaims DEF Truthful
  <2> QED BY <1>2, <2>1, <2>2, AgedClaims DEF Truthful
<1>4. pc # "idle" => Claims(cur, m, data, origin)
  BY <1>2, AgedClaims DEF WorkerTruthful
<1>5. m.phase = mem.phase
  BY <1>2 DEF Aged, Resources
<1> HIDE DEF a, b, w, m
<1>6. /\ cr'[i] = a /\ cached'[i] = b /\ watch'[i] = w
      /\ \A j \in Imports \ {i} :
           cr'[j] = cr[j] /\ cached'[j] = cached[j] /\ watch'[j] = watch[j]
  BY <1>1, <1>2 DEF Stored
<1>7. ASSUME NEW j \in Imports
      PROVE  /\ Claims(j, cr'[j], data', origin') /\ Claims(j, cached'[j], data', origin')
             /\ \A k \in DOMAIN watch'[j] : Claims(j, watch'[j][k], data', origin')
  <2>1. CASE j = i
    BY <1>3, <1>6, <2>1 DEF Still
  <2>2. CASE j # i
    BY <1>2, <1>6, <2>2 DEF Truthful, Still
  <2> QED BY <2>1, <2>2
<1>8. Truthful'
  BY <1>7, TruthfulPrimed
<1>9. WorkerTruthful'
  BY <1>1, <1>2, <1>4, WorkerPrimed DEF WorkerTruthful, Still
<1>10. Alone'
  BY <1>1, <1>2, <1>5 DEF Alone
<1> QED BY <1>8, <1>9, <1>10 DEF Tells

LEMMA SoundStep ==
  ASSUME KeysDiffer, OneTarget, Sound, [Next]_vars
  PROVE  Sound'
<1>1. Control' /\ ExternalTypeOK'
  BY StepIsOK, StepTyped DEF Sound, StepOK
<1>2. Restored' /\ data \subseteq data' /\ origin \subseteq origin'
  BY WorkerRestored, WorldRestored, NextIsWorldOrWorker DEF Sound
<1>3. CASE Worker
  <2>1. Still
    BY <1>3, WorkerRestored DEF Sound, Still
  <2> QED BY <1>1, <1>2, <1>3, <2>1, HeadTells, RestoreTells, PodTells
          DEF Worker, Sound
<1>4. CASE EnvironmentStep \/ Expire \/ UNCHANGED vars
  <2>1. UNCHANGED resourceVars /\ UNCHANGED <<pc, cur, mem, todo>>
    BY <1>4 DEF EnvironmentStep, Idle, Expire, vars, workerVars
  <2>2. Truthful' /\ WorkerTruthful' /\ Alone'
    BY <1>2, <2>1, SameResourcesTell, WorkerLasts DEF Sound, Tells
  <2> QED BY <1>1, <1>2, <2>2 DEF Sound, Tells
<1>5. ASSUME NEW i \in Imports, CacheSync(i) \/ UserTouch(i) \/ TimePasses(i)
      PROVE  Tells'
  <2>1. Still
    BY <1>5 DEF CacheSync, UserTouch, TimePasses, externalVars, Still
  <2> QED BY <1>5, <2>1, CacheSyncTells, UserTouchTells, TimePassesTells
<1>6. CASE Unreachable
  <2>1. Tells'
    BY <1>2, <1>6, WaitTells DEF Unreachable
  <2> QED BY <1>1, <1>2, <2>1 DEF Sound
<1>7. CASE Crash
  <2>1. Tells'
    BY <1>7, RestartTells DEF Crash
  <2> QED BY <1>1, <1>2, <2>1 DEF Sound
<1> QED BY <1>1, <1>2, <1>3, <1>4, <1>5, <1>6, <1>7, NextIsWorldOrWorker
        DEF World, Sound

LEMMA SoundInit == Init => Tells
<1> SUFFICES ASSUME Init PROVE Tells
  OBVIOUS
<1>1. /\ pc = "idle" /\ cr = [i \in Imports |-> NewImport] /\ cached = cr
      /\ watch = [i \in Imports |-> <<>>]
  BY DEF Init
<1>2. \A i : Claims(i, NewImport, data, origin)
  BY NewImportIs DEF Claims, Later, OriginPhases, StateNone, StateCompleted
<1>3. Truthful
  BY <1>1, <1>2 DEF Truthful
<1> QED BY <1>1, <1>3 DEF Tells, WorkerTruthful, Alone

(* A completed import has its data in every namespace it maps to and,      *)
(* unless it asked for snapshots only, the original objects: whatever the  *)
(* worker reads late, and whatever fails or restarts in between.           *)
THEOREM CompletedIsRestored ==
  ASSUME KeysDiffer, OneTarget
  PROVE  Spec => []CompletedRestored
<1>1. Sound => CompletedRestored
  BY DEF Sound, Tells, Truthful, Claims, Later, CompletedRestored
<1>2. Init => Sound
  BY RestoredInit, InitHolds, SoundInit DEF Sound
<1>3. Sound /\ [Next]_vars => Sound'
  BY SoundStep
<1> QED BY <1>1, <1>2, <1>3, PTL DEF Spec

-----------------------------------------------------------------------------
(* The order of the restores, and the failures the timeout counts from.    *)

(* No namespace is the target of two imports. *)
OwnTargets == \A i, j \in Imports : Targets[i] \cap Targets[j] # {} => i = j

Apart == KeysDiffer /\ OneTarget /\ OwnTargets

(* The imports whose temporary namespaces are restored, and those whose    *)
(* stage pods are seen to be gone.                                         *)
Past == {i \in Imports : restore[<<Key[i], "temp">>].phase = "completed"}

Clear == {i \in Imports : \A n \in Targets[i] \ blind : pods[n] = "absent"}

(* What a copy c of i says is so. *)
Honest(i, c, past, clear) ==
  /\ c.phase = "RestoringTempNamespace" => c.ref = "temp"
  /\ c.phase \in Later => i \in past
  /\ Apart /\ ~SnapshotOnly[i] /\ c.phase \in OriginPhases \union {"Completed"} =>
       i \in clear

CopiesOf(i) == {cr[i], cached[i]} \union {watch[i][k] : k \in DOMAIN watch[i]}

(* No copy is ahead of the resource, ... *)
InOrder ==
  \A i \in Imports : \A c \in CopiesOf(i) :
     Honest(i, c, Past, Clear) /\ Place(i, c.phase) <= Place(i, cr[i].phase)

(* ... and that of the worker only where an update may have been ignored.  *)
Near(i, p, q) ==
  \/ Place(i, p) <= Place(i, q)
  \/ p = "DeleteStagePod" /\ q = "RestoringTempNamespace"

Keeping ==
  pc # "idle" =>
    /\ Honest(cur, mem, Past, Clear) /\ Near(cur, mem.phase, cr[cur].phase)
    /\ pc = "start" /\ fresh => mem = cr[cur]
    /\ pc = "phase" /\ mem.phase = "DeletingStagePod" => todo = Targets[cur]
    /\ pc = "loop" => mem.phase \in Later /\ cr[cur].state # StateFailed

(* An import that says it is failing is failing, or waits for a restore.   *)
Slow == {"RestoringTempNamespace", "RestoringOriginNamespace"}

FailuresKnown ==
  \A i \in Imports : Targets[i] # {} /\ cr[i].state = StateFailed =>
     i \in failing \/ cr[i].phase \in Slow \union {"Completed"}

Story == InOrder /\ Keeping /\ FailuresKnown

(* No timeout cancels another. *)
Justified ==
  \A i \in Imports :
     Targets[i] # {} /\ cr[i].state # StateCanceled /\ cr'[i].state = StateCanceled =>
       i \in failing \/ cr[i].phase \in Slow

Faithful == Story' /\ Justified

(* What is over stays over. *)
Lasting == Past \subseteq Past' /\ (Apart => Past \cap Clear \subseteq Clear')

Ready == Control /\ Control' /\ Forward /\ Lasting /\ Story

LEMMA PlaceTyped ==
  ASSUME NEW i, NEW p \in PlanOf(i)
  PROVE  Place(i, p) \in 1..8
BY PlanIs, PlacesAre DEF CommonPhases, OriginPhases

LEMMA HonestLasts ==
  ASSUME NEW i, NEW c, NEW past, NEW clear, NEW past2, NEW clear2,
         Honest(i, c, past, clear), past \subseteq past2,
         Apart => past \cap clear \subseteq clear2
  PROVE  Honest(i, c, past2, clear2)
BY DEF Honest, Later, OriginPhases

LEMMA SameHonest ==
  ASSUME NEW i, NEW c, NEW d, NEW past, NEW clear, Honest(i, c, past, clear),
         d.phase = c.phase, d.ref = c.ref
  PROVE  Honest(i, d, past, clear)
BY DEF Honest

(* Whether a copy is one there was, aged or not, or a new one. *)
LEMMA InOrderStays ==
  ASSUME Ready,
         \A i \in Imports : \A c \in CopiesOf(i)' :
            \/ c = cr'[i] /\ Honest(i, c, Past', Clear')
            \/ \E d \in CopiesOf(i) : c.phase = d.phase /\ c.ref = d.ref
  PROVE  InOrder'
<1>1. ASSUME NEW i \in Imports, NEW c \in CopiesOf(i)'
      PROVE  Honest(i, c, Past', Clear') /\ Place(i, c.phase) <= Place(i, cr'[i].phase)
  <2>1. /\ cr[i].phase \in PlanOf(i) /\ cr'[i].phase \in PlanOf(i)
        /\ \A d \in CopiesOf(i) : d.phase \in PlanOf(i)
    <3>1. Stored /\ cr'[i] \in ResourcesOf(i)
      <4>1. Stored'
        BY DEF Ready, Control
      <4>2. PlanOf(i)' = PlanOf(i)
        BY DEF PlanOf, StepsOf
      <4>3. cr'[i] \in ResourcesOf(i)'
        BY <4>1 DEF Stored
      <4> QED BY <4>2, <4>3 DEF Ready, Control, ResourcesOf
    <3>2. watch[i] \in Seq(ResourcesOf(i))
      BY <3>1 DEF Stored
    <3>3. \A k \in DOMAIN watch[i] : watch[i][k] \in ResourcesOf(i)
      BY <3>2
    <3> QED BY <3>1, <3>3 DEF Stored, CopiesOf, ResourcesOf
  <2>2. /\ Place(i, cr[i].phase) \in 1..8 /\ Place(i, cr'[i].phase) \in 1..8
        /\ \A d \in CopiesOf(i) : Place(i, d.phase) \in 1..8
    BY <2>1, PlaceTyped
  <2>3. Place(i, cr[i].phase) <= Place(i, cr'[i].phase)
    BY <2>2 DEF Ready, Forward
  <2>4. CASE c = cr'[i] /\ Honest(i, c, Past', Clear')
    BY <2>2, <2>4
  <2>5. ASSUME NEW d \in CopiesOf(i), c.phase = d.phase, c.ref = d.ref
        PROVE  Honest(i, c, Past', Clear') /\ Place(i, c.phase) <= Place(i, cr'[i].phase)
    <3>1. Honest(i, d, Past, Clear) /\ Place(i, d.phase) <= Place(i, cr[i].phase)
      BY DEF Ready, Story, InOrder
    <3>2. Honest(i, d, Past', Clear')
      BY <3>1, HonestLasts DEF Ready, Lasting
    <3>3. Honest(i, c, Past', Clear')
      BY <2>5, <3>2, SameHonest
    <3> QED BY <2>2, <2>3, <2>5, <3>1, <3>3
  <2> QED BY <2>4, <2>5
<1> QED BY <1>1 DEF InOrder

LEMMA SameInOrder ==
  ASSUME Ready, UNCHANGED resourceVars
  PROVE  InOrder'
<1>1. \A i \in Imports : CopiesOf(i)' = CopiesOf(i)
  BY DEF CopiesOf, resourceVars
<1> QED BY <1>1, InOrderStays

LEMMA WriteInOrder ==
  ASSUME Ready, pc # "idle", NEW c, Write(c), UNCHANGED cached,
         fresh => Honest(cur, c, Past', Clear')
  PROVE  /\ InOrder'
         /\ fresh => cr'[cur] = c
         /\ \A i \in Imports : cr'[i] = cr[i] \/ (fresh /\ i = cur /\ cr'[i] = c)
<1>1. Stored /\ cur \in Imports /\ fresh \in BOOLEAN
  BY DEF Ready, Control, Held
<1>2. CASE ~fresh
  <2>1. UNCHANGED resourceVars
    BY <1>2 DEF Write, resourceVars
  <2> QED BY <1>2, <2>1, SameInOrder DEF resourceVars
<1>3. CASE fresh
  <2> DEFINE w == IF c = cr[cur] THEN watch[cur] ELSE Append(watch[cur], c)
  <2>1. /\ cr' = [cr EXCEPT ![cur] = c] /\ watch' = [watch EXCEPT ![cur] = w]
        /\ watch[cur] \in Seq(Resources)
    BY <1>1, <1>3 DEF Write, Stored
  <2>2. \A k \in DOMAIN w : w[k] = c \/ \E j \in DOMAIN watch[cur] : w[k] = watch[cur][j]
    <3>1. CASE c = cr[cur]
      BY <3>1
    <3>2. CASE c # cr[cur]
      <4>1. w = Append(watch[cur], c)
        BY <3>2
      <4> HIDE DEF w
      <4> QED BY <2>1, <4>1
    <3> QED BY <3>1, <3>2
  <2> HIDE DEF w
  <2>3. /\ cr'[cur] = c /\ watch'[cur] = w
        /\ \A i \in Imports \ {cur} : cr'[i] = cr[i] /\ watch'[i] = watch[i]
    BY <1>1, <2>1 DEF Stored
  <2>4. \A i \in Imports \ {cur} : CopiesOf(i)' = CopiesOf(i)
    BY <2>3 DEF CopiesOf
  <2>5. ASSUME NEW i \in Imports, i = cur, NEW d \in CopiesOf(i)'
        PROVE  \/ d = cr'[i] /\ Honest(i, d, Past', Clear')
               \/ \E e \in CopiesOf(i) : d.phase = e.phase /\ d.ref = e.ref
    <3>1. \/ d = c \/ d = cached[i] \/ \E k \in DOMAIN watch[i] : d = watch[i][k]
      BY <2>2, <2>3, <2>5 DEF CopiesOf
    <3>2. Honest(i, c, Past', Clear')
      BY <1>3, <2>5
    <3> QED BY <2>3, <2>5, <3>1, <3>2 DEF CopiesOf
  <2>6. InOrder'
    BY <2>4, <2>5, InOrderStays
  <2> QED BY <1>3, <2>3, <2>6
<1> QED BY <1>1, <1>2, <1>3

-----------------------------------------------------------------------------
(* The ways a step of the worker ends.                                     *)

LEMMA ReadyWorker ==
  ASSUME Ready, pc # "idle"
  PROVE  /\ Working /\ cur \in Imports /\ mem \in Resources /\ mem.phase \in PlanOf(cur)
         /\ Alive(mem) /\ steps = StepsOf(cur) /\ GetLastPhase(steps) = "Completed"
         /\ Honest(cur, mem, Past, Clear) /\ Honest(cur, mem, Past', Clear')
         /\ Near(cur, mem.phase, cr[cur].phase)
         /\ todo \in SUBSET Targets[cur] /\ fresh \in BOOLEAN
         /\ pc # "loop" => mem.phase # "Completed"
<1>1. Honest(cur, mem, Past, Clear) /\ Near(cur, mem.phase, cr[cur].phase)
  BY DEF Ready, Story, Keeping
<1>2. Honest(cur, mem, Past', Clear')
  BY <1>1, HonestLasts DEF Ready, Lasting
<1> QED BY <1>1, <1>2, PhaseKnown DEF Ready, ResourcesOf, Control, Held

(* Most steps leave the failures as they are, or write that one is over.   *)
Heals(i) == cr'[i] = cr[i] \/ cr'[i].state \notin {StateFailed, StateCanceled}

LEMMA HealedFaithful ==
  ASSUME Ready, failing' = failing, \A i \in Imports : Heals(i)
  PROVE  FailuresKnown' /\ Justified
<1>1. FailuresKnown
  BY DEF Ready, Story
<1> QED BY <1>1 DEF FailuresKnown, Justified, Heals

LEMMA IdleKeeps ==
  ASSUME pc' = "idle"
  PROVE  Keeping'
BY DEF Keeping

LEMMA ReturnFaithful ==
  ASSUME Ready, InOrder', Return, failing' = failing, \A i \in Imports : Heals(i)
  PROVE  Faithful
BY HealedFaithful, IdleKeeps DEF Return, Faithful, Story

LEMMA ContinueFaithful ==
  ASSUME Ready, pc # "idle", InOrder', failing' = failing, \A i \in Imports : Heals(i),
         NEW c, NEW where, NEW loop, Continue(c, where, loop),
         Honest(cur, c, Past', Clear'), Near(cur, c.phase, cr'[cur].phase),
         where = "start" /\ fresh' => c = cr'[cur],
         where = "phase" /\ c.phase = "DeletingStagePod" => loop = Targets[cur],
         where = "loop" => c.phase \in Later /\ cr'[cur].state # StateFailed
  PROVE  Faithful
<1>1. pc' = where /\ mem' = c /\ todo' = loop /\ cur' = cur
  BY DEF Continue
<1>2. Near(cur, c.phase, cr'[cur].phase) <=> Near(cur, mem.phase, cr[cur].phase)'
  BY <1>1 DEF Near, Place, StepsOf
<1>3. Keeping'
  BY <1>1, <1>2 DEF Keeping
<1> QED BY <1>3, HealedFaithful DEF Faithful, Story

LEMMA FinishFaithful ==
  ASSUME Ready, pc # "idle", NEW c, Finish(c),
         fresh => Honest(cur, c, Past', Clear'),
         c.state = StateCanceled =>
           pc = "start" /\ mem.phase # "Completed" /\ mem.state = StateFailed
  PROVE  Faithful
<1>1. /\ Write(c) /\ pc' = "idle" /\ UNCHANGED cached
      /\ failing' = IF c.state = StateFailed THEN failing \union {cur}
                    ELSE failing \ {i \in {cur} : fresh}
  BY DEF Finish, Return
<1>2. /\ InOrder' /\ cur \in Imports /\ fresh \in BOOLEAN
      /\ \A i \in Imports : cr'[i] = cr[i] \/ (fresh /\ i = cur /\ cr'[i] = c)
      /\ fresh => cr'[cur] = c
  BY <1>1, WriteInOrder, ReadyWorker
<1>3. FailuresKnown /\ Keeping
  BY DEF Ready, Story
<1>4. FailuresKnown'
  <2>1. ASSUME NEW i \in Imports, Targets[i] # {}, cr'[i].state = StateFailed
        PROVE  i \in failing' \/ cr'[i].phase \in Slow \union {"Completed"}
    <3>1. CASE fresh /\ i = cur
      BY <1>1, <1>2, <2>1, <3>1
    <3>2. CASE ~(fresh /\ i = cur)
      BY <1>1, <1>2, <1>3, <2>1, <3>2 DEF FailuresKnown
    <3> QED BY <3>1, <3>2
  <2> QED BY <2>1 DEF FailuresKnown
<1>5. Justified
  <2>1. ASSUME NEW i \in Imports, Targets[i] # {}, cr[i].state # StateCanceled,
               cr'[i].state = StateCanceled
        PROVE  i \in failing \/ cr[i].phase \in Slow
    <3>1. fresh /\ i = cur /\ c.state = StateCanceled
      BY <1>2, <2>1
    <3>2. mem = cr[cur]
      BY <3>1, <1>3 DEF Keeping
    <3> QED BY <1>3, <2>1, <3>1, <3>2 DEF FailuresKnown
  <2> QED BY <2>1 DEF Justified
<1> QED BY <1>1, <1>2, <1>4, <1>5, IdleKeeps DEF Faithful, Story

(* A wait forgets a failure: the phase is one of those that may, ... *)
LEMMA WaitFaithful ==
  ASSUME Ready, pc # "idle", Wait \/ GiveUp,
         Wait /\ Targets[cur] # {} /\ cr[cur].state = StateFailed =>
           cr[cur].phase \in Slow \union {"Completed"}
  PROVE  Faithful
<1>1. /\ pc' = "idle" /\ UNCHANGED resourceVars
      /\ \/ failing' = failing \ {cur} /\ Wait
         \/ failing' = failing \union {cur}
  BY DEF Wait, GiveUp, Return
<1>2. FailuresKnown
  BY DEF Ready, Story
<1>3. FailuresKnown'
  BY <1>1, <1>2 DEF FailuresKnown, resourceVars
<1>4. Justified
  BY <1>1 DEF Justified, resourceVars
<1> QED BY <1>1, <1>3, <1>4, SameInOrder, IdleKeeps DEF Faithful, Story

LEMMA RestartFaithful ==
  ASSUME Ready, Restart
  PROVE  Faithful
<1>1. /\ cached' = cr /\ cr' = cr /\ watch' = [i \in Imports |-> <<>>]
      /\ pc' = "idle" /\ failing' = failing
  BY DEF Restart
<1>2. \A i \in Imports : DOMAIN watch'[i] = {}
  BY <1>1
<1>3. \A i \in Imports : CopiesOf(i)' \subseteq CopiesOf(i)
  BY <1>1, <1>2 DEF CopiesOf
<1>4. InOrder'
  BY <1>3, InOrderStays
<1> QED BY <1>1, <1>4, HealedFaithful, IdleKeeps DEF Faithful, Story, Heals

LEMMA FailFaithful ==
  ASSUME Ready, pc # "idle", Finish(FailedOn(mem))
  PROVE  Faithful
<1>1. /\ FailedOn(mem).phase = mem.phase /\ FailedOn(mem).ref = mem.ref
      /\ FailedOn(mem).state = StateFailed
  BY ReadyWorker, FailedFollows
<1>2. Honest(cur, FailedOn(mem), Past', Clear')
  BY <1>1, ReadyWorker, SameHonest
<1>3. FailedOn(mem).state # StateCanceled
  BY <1>1 DEF StateFailed, StateCanceled
<1> QED BY <1>2, <1>3, FinishFaithful

(* UpdateStatus without an error. *)
LEMMA SucceededHonest ==
  ASSUME Ready, pc # "idle", mem.phase # "Completed",
         NextOf(cur, mem.phase) \in Later => cur \in Past',
         Apart /\ ~SnapshotOnly[cur]
           /\ NextOf(cur, mem.phase) \in OriginPhases \union {"Completed"} => cur \in Clear'
  PROVE  /\ Succeeded(mem).phase = NextOf(cur, mem.phase)
         /\ Succeeded(mem).state \notin {StateFailed, StateCanceled}
         /\ NextOf(cur, mem.phase) # "RestoringTempNamespace" =>
              Honest(cur, Succeeded(mem), Past', Clear')
         /\ \A r : Honest(cur, [Succeeded(mem) EXCEPT !.ref = r], Past', Clear')
                   \/ (NextOf(cur, mem.phase) = "RestoringTempNamespace" /\ r # "temp")
<1> DEFINE c == Succeeded(mem)
<1>1. /\ c.phase = NextOf(cur, mem.phase) /\ c \in Resources
      /\ c.state = IF c.phase = "Completed" THEN StateCompleted ELSE StateInProgress
  BY ReadyWorker, SucceededFollows DEF Follows, ResourcesOf
<1> HIDE DEF c
<1>2. c.state \notin {StateFailed, StateCanceled}
  BY <1>1 DEF StateFailed, StateCanceled, StateCompleted, StateInProgress
<1>3. \A r : [c EXCEPT !.ref = r].phase = c.phase /\ [c EXCEPT !.ref = r].ref = r
  BY <1>1 DEF Resources
<1>4. c.phase # "RestoringTempNamespace" => Honest(cur, c, Past', Clear')
  BY <1>1 DEF Honest
<1>5. ASSUME NEW r
      PROVE  Honest(cur, [c EXCEPT !.ref = r], Past', Clear')
             \/ (c.phase = "RestoringTempNamespace" /\ r # "temp")
  <2> DEFINE d == [c EXCEPT !.ref = r]
  <2>1. d.phase = c.phase /\ d.ref = r
    BY <1>3
  <2> HIDE DEF d
  <2>2. Honest(cur, d, Past', Clear') \/ (c.phase = "RestoringTempNamespace" /\ r # "temp")
    BY <1>1, <2>1 DEF Honest
  <2> QED BY <2>2 DEF d
<1> QED BY <1>1, <1>2, <1>4, <1>5 DEF c

-----------------------------------------------------------------------------
(* The steps of the worker.                                                *)

(* What a phase as late as these can be. *)
LEMMA LateIs ==
  ASSUME NEW i, NEW p \in PlanOf(i)
  PROVE  /\ Place(i, "RestoringTempNamespace") <= Place(i, p) =>
              \/ p = "RestoringTempNamespace"
              \/ p \in Later /\ Place(i, "DeleteStagePod") <= Place(i, p)
         /\ ~SnapshotOnly[i] /\ Place(i, "RestoringOriginNamespace") <= Place(i, p) =>
              p \in {"RestoringOriginNamespace", "Completed"}
BY PlanIs, PlacesAre DEF CommonPhases, OriginPhases, Later

(* A step that leaves the worker's copy alone. *)
LEMMA StaysFaithful ==
  ASSUME Ready, InOrder', UNCHANGED <<cr, pc, cur, mem, todo, failing>>,
         fresh' => fresh
  PROVE  Faithful
<1>1. Keeping /\ (pc # "idle" => Honest(cur, mem, Past', Clear'))
  BY ReadyWorker DEF Ready, Story
<1>2. Near(cur, mem.phase, cr[cur].phase)' <=> Near(cur, mem.phase, cr[cur].phase)
  BY DEF Near, Place, StepsOf
<1>3. Keeping'
  BY <1>1, <1>2 DEF Keeping
<1> QED BY <1>3, HealedFaithful DEF Faithful, Story, Heals

(* ... or goes on with it. *)
LEMMA GoesOnFaithful ==
  ASSUME Ready, pc # "idle", UNCHANGED <<resourceVars, failing>>,
         NEW where, NEW loop, Continue(mem, where, loop),
         where \notin {"start", "loop"},
         where = "phase" /\ mem.phase = "DeletingStagePod" => loop = Targets[cur]
  PROVE  Faithful
<1>1. cr' = cr /\ InOrder'
  BY SameInOrder DEF resourceVars
<1> QED BY <1>1, ReadyWorker, ContinueFaithful DEF Heals

LEMMA HeadFaithful ==
  ASSUME Ready, HeadStep
  PROVE  Faithful
<1>1. ASSUME NEW i \in Imports, Begin(i)
      PROVE  Faithful
  <2>1. /\ UNCHANGED resourceVars /\ cr' = cr /\ failing' = failing
        /\ pc' = "start" /\ cur' = i /\ mem' = cached[i] /\ fresh' = (watch[i] = <<>>)
    BY <1>1 DEF Begin, resourceVars, historyVars
  <2>2. InOrder'
    BY <2>1, SameInOrder
  <2>3. cached[i] \in CopiesOf(i)'
    BY <2>1 DEF CopiesOf, resourceVars
  <2>4. /\ Honest(i, cached[i], Past', Clear')
        /\ Place(i, cached[i].phase) <= Place(i, cr[i].phase)
    BY <2>1, <2>2, <2>3 DEF InOrder
  <2>5. fresh' => cached[i] = cr[i]
    BY <2>1 DEF Ready, Control, Stored
  <2>6. Near(cur, mem.phase, cr[cur].phase)' <=> Near(i, cached[i].phase, cr[i].phase)
    BY <2>1 DEF Near, Place, StepsOf
  <2>7. Keeping'
    BY <2>1, <2>4, <2>5, <2>6 DEF Keeping, Near
  <2> QED BY <2>1, <2>2, <2>7, HealedFaithful DEF Faithful, Story, Heals
<1>2. ASSUME NEW i \in Imports, ReconcileTerminal(i)
      PROVE  Faithful
  <2>1. UNCHANGED <<resourceVars, cr, pc, cur, mem, todo, failing, fresh>>
    BY <1>2 DEF ReconcileTerminal, vars, resourceVars, workerVars, historyVars
  <2> QED BY <2>1, SameInOrder, StaysFaithful
<1>3. CASE Initial
  <2> DEFINE c == Succeeded(NewImport)
  <2>1. /\ pc # "idle" /\ mem.phase = "Initial" /\ Write(c) /\ UNCHANGED cached
        /\ failing' = failing
        /\ IF fresh THEN Continue(c, "start", {}) /\ UNCHANGED fresh ELSE Return
    BY <1>3 DEF Initial, PhaseInitial, historyVars
  <2>2. c.phase = "RestoreTempNamespace" /\ c.state = StateInProgress
    <3>1. Working /\ cur \in Imports
      BY <2>1, ReadyWorker
    <3>2. /\ c.phase = NextOf(cur, "Initial")
          /\ c.state = IF c.phase = "Completed" THEN StateCompleted ELSE StateInProgress
      BY <2>1, <3>1, NewImportIs, SucceededFollows
    <3> QED BY <3>2, NextIs
  <2> HIDE DEF c
  <2>3. Honest(cur, c, Past', Clear')
    BY <2>2 DEF Honest, Later, OriginPhases
  <2>4. /\ InOrder' /\ (fresh => cr'[cur] = c)
        /\ \A i \in Imports : cr'[i] = cr[i] \/ (fresh /\ i = cur /\ cr'[i] = c)
    BY <2>1, <2>3, WriteInOrder
  <2>5. \A i \in Imports : Heals(i)
    BY <2>2, <2>4 DEF Heals, StateInProgress, StateFailed, StateCanceled
  <2>6. CASE fresh
    <3>1. Place(cur, c.phase) = 2
      BY <2>2, PlacesAre
    <3>2. Near(cur, c.phase, cr'[cur].phase)
      BY <2>4, <2>6, <3>1 DEF Near
    <3> QED BY <2>1, <2>3, <2>4, <2>5, <2>6, <3>2, ContinueFaithful
  <2>7. CASE ~fresh
    BY <2>1, <2>4, <2>5, <2>7, ReturnFaithful
  <2>8. fresh \in BOOLEAN
    BY <2>1, ReadyWorker
  <2> QED BY <2>6, <2>7, <2>8
<1>4. CASE Timeout
  <2> DEFINE c == [mem EXCEPT !.state = StateCanceled]
  <2>1. pc = "start" /\ mem.state = StateFailed /\ Finish(c)
    BY <1>4 DEF Timeout, TimedOut
  <2>2. /\ mem.phase # "Completed" /\ mem \in Resources
        /\ Honest(cur, mem, Past', Clear')
    BY <2>1, ReadyWorker
  <2>3. c.phase = mem.phase /\ c.ref = mem.ref
    BY <2>2 DEF Resources
  <2> HIDE DEF c
  <2>4. Honest(cur, c, Past', Clear')
    BY <2>2, <2>3, SameHonest
  <2> QED BY <2>1, <2>2, <2>4, FinishFaithful
<1>5. CASE Validate
  <2>1. pc = "start" /\ pc # "idle"
    BY <1>5 DEF Validate
  <2>2. CASE valid
    <3>1. Continue(mem, "phase", LoopOf(mem)) /\ UNCHANGED <<resourceVars, failing>>
      BY <1>5, <2>2 DEF Validate, historyVars
    <3>2. mem.phase = "DeletingStagePod" => LoopOf(mem) = Targets[cur]
      BY DEF LoopOf
    <3> QED BY <2>1, <3>1, <3>2, GoesOnFaithful
  <2>3. CASE ~valid
    BY <1>5, <2>1, <2>3, FailFaithful DEF Validate
  <2> QED BY <2>2, <2>3
<1>6. CASE ReadFaults
  <2>1. pc # "idle" /\ Finish(FailedOn(mem))
    BY <1>6 DEF ReadFaults, At
  <2> QED BY <2>1, FailFaithful
<1> QED BY <1>1, <1>2, <1>3, <1>4, <1>5, <1>6 DEF HeadStep

(* The phase moves on once the restore is completed; until then it is the  *)
(* resource's own phase as well, although the copy may be old.             *)
LEMMA RestoringTempFaithful ==
  ASSUME Ready, RestoringTemp \/ RestoringTempForgets
  PROVE  Faithful
<1> DEFINE c == Succeeded(mem)
           r == restore[<<Key[cur], "temp">>]
<1>1. pc = "phase" /\ pc # "idle" /\ mem.phase = "RestoringTempNamespace"
      /\ UNCHANGED externalVars
  BY DEF RestoringTemp, RestoringTempForgets, At
<1>2. /\ cur \in Imports /\ Honest(cur, mem, Past, Clear) /\ mem \in Resources
      /\ Honest(cur, mem, Past', Clear')
      /\ Near(cur, mem.phase, cr[cur].phase) /\ fresh \in BOOLEAN /\ Working
  BY <1>1, ReadyWorker
<1>3. mem.ref = "temp" /\ Name(mem.ref) = <<Key[cur], "temp">>
  BY <1>1, <1>2 DEF Honest, Name
<1>4. cr[cur].phase \in PlanOf(cur) /\ cr[cur] \in CopiesOf(cur)
  BY <1>2 DEF Working, Control, Stored, ResourcesOf, CopiesOf
<1>5. cr[cur].phase \in Later => cur \in Past
  BY <1>2, <1>4 DEF Ready, Story, InOrder, Honest
<1>6. \/ cr[cur].phase = "RestoringTempNamespace"
      \/ cr[cur].phase \in Later
         /\ Place(cur, "DeleteStagePod") <= Place(cur, cr[cur].phase)
  BY <1>1, <1>2, <1>4, LateIs DEF Near
<1>7. ASSUME r.phase = "completed"
      PROVE  /\ Honest(cur, c, Past', Clear') /\ c.phase = "DeleteStagePod"
             /\ c.state \notin {StateFailed, StateCanceled}
             /\ Near(cur, c.phase, cr[cur].phase)
  <2>1. cur \in Past'
    BY <1>1, <1>2, <1>7 DEF Past, externalVars
  <2>2. NextOf(cur, mem.phase) = "DeleteStagePod"
    BY <1>1, NextIs
  <2>3. Honest(cur, c, Past', Clear') /\ c.phase = "DeleteStagePod"
        /\ c.state \notin {StateFailed, StateCanceled}
    BY <1>1, <2>1, <2>2, SucceededHonest DEF OriginPhases
  <2> HIDE DEF c
  <2> QED BY <1>6, <2>3 DEF Near
<1>8. ASSUME r.phase = "completed", Continue(c, "phase", LoopOf(c)), UNCHANGED cached,
             failing' = failing, UNCHANGED <<cr, watch>> \/ Write(c)
      PROVE  Faithful
  <2> HIDE DEF c
  <2>1. /\ InOrder'
        /\ \A i \in Imports : cr'[i] = cr[i] \/ (i = cur /\ cr'[i] = c)
    BY <1>1, <1>7, <1>8, WriteInOrder, SameInOrder DEF resourceVars
  <2>2. \A i \in Imports : Heals(i)
    BY <1>7, <1>8, <2>1 DEF Heals
  <2>3. Place(cur, "DeleteStagePod") = 4
    BY PlacesAre
  <2>4. Near(cur, c.phase, cr'[cur].phase)
    BY <1>2, <1>7, <1>8, <2>1, <2>3 DEF Near
  <2> QED BY <1>1, <1>7, <1>8, <2>1, <2>2, <2>4, ContinueFaithful
<1>9. CASE RestoringTempForgets
  BY <1>3, <1>8, <1>9 DEF RestoringTempForgets, historyVars
<1>10. CASE RestoringTemp
  <2>1. CASE /\ r.phase = "completed" /\ Write(c) /\ Continue(c, "phase", LoopOf(c))
             /\ UNCHANGED <<cached, failing>>
    BY <1>8, <2>1
  <2>2. CASE Finish(FailedOn([mem EXCEPT !.state = StateVeleroFailed]))
    <3> DEFINE v == [mem EXCEPT !.state = StateVeleroFailed]
               d == FailedOn(v)
    <3>1. /\ v \in Resources /\ v.phase = mem.phase /\ v.ref = mem.ref
          /\ v.state = StateVeleroFailed
      BY <1>2 DEF Resources
    <3> HIDE DEF v
    <3>2. d.phase = mem.phase /\ d.ref = mem.ref /\ d.state # StateCanceled
      BY <3>1 DEF FailedOn, Resources, StateVeleroFailed, StateCanceled
    <3> HIDE DEF d
    <3>3. Honest(cur, d, Past', Clear')
      BY <1>2, <3>2, SameHonest
    <3>4. Finish(d)
      BY <2>2 DEF d, v
    <3> QED BY <1>1, <3>2, <3>3, <3>4, FinishFaithful
  <2>3. CASE Wait /\ r.phase \in {"absent", "new", "running"}
    <3>1. cur \notin Past
      BY <2>3 DEF Past
    <3>2. cr[cur].phase \in Slow
      BY <1>5, <1>6, <3>1 DEF Slow
    <3> QED BY <1>1, <2>3, <3>2, WaitFaithful
  <2> QED BY <1>3, <1>10, <2>1, <2>2, <2>3 DEF RestoringTemp, historyVars
<1> QED BY <1>9, <1>10

LEMMA RestoreFaithful ==
  ASSUME Ready, RestoreStep
  PROVE  Faithful
<1>1. ASSUME NEW part \in Parts, Restore(part)
      PROVE  Faithful
  <2>1. /\ pc # "idle" /\ Continue(mem, part, {}) /\ UNCHANGED <<resourceVars, failing>>
        /\ part \notin {"start", "loop"} /\ part # "phase"
    BY <1>1 DEF Restore, Asking, At, Parts, historyVars
  <2> QED BY <2>1, GoesOnFaithful
<1>2. ASSUME NEW part \in Parts, RestoreFaults(part)
      PROVE  Faithful
  <2>1. pc # "idle" /\ Finish(FailedOn(mem))
    BY <1>2 DEF RestoreFaults, Asking, At
  <2> QED BY <2>1, FailFaithful
<1>3. ASSUME NEW part \in Parts, SaveRestore(part)
      PROVE  Faithful
  <2> DEFINE d == [Succeeded(mem) EXCEPT !.ref = part]
  <2>1. pc = part /\ pc # "idle" /\ pc # "loop" /\ Finish(d)
    BY <1>3 DEF SaveRestore, Parts
  <2>2. /\ part = "temp" => mem.phase = "RestoreTempNamespace"
        /\ part = "orig" => mem.phase = "RestoreOriginNamespace"
    BY <2>1 DEF Ready, Control, Held
  <2>3. /\ mem.phase # "Completed" /\ Honest(cur, mem, Past', Clear') /\ Working
        /\ mem \in Resources /\ Alive(mem) /\ mem.phase \in PlanOf(cur)
    BY <2>1, ReadyWorker
  <2>4. part = "orig" => ~SnapshotOnly[cur]
    BY <2>2, <2>3, PlanIs DEF CommonPhases
  <2>5. NextOf(cur, mem.phase) = IF part = "temp" THEN "RestoringTempNamespace"
                                                  ELSE "RestoringOriginNamespace"
    BY <2>2, <2>4, NextIs DEF Parts
  <2>6. Honest(cur, d, Past', Clear') /\ d.state # StateCanceled
    <3>1. NextOf(cur, mem.phase) \in Later => cur \in Past'
      BY <2>2, <2>3, <2>5 DEF Honest, Later, OriginPhases, Parts
    <3>2. Apart /\ ~SnapshotOnly[cur]
            /\ NextOf(cur, mem.phase) \in OriginPhases \union {"Completed"} =>
            cur \in Clear'
      BY <2>2, <2>3, <2>5 DEF Honest, OriginPhases, Parts
    <3>3. /\ Succeeded(mem).state \notin {StateFailed, StateCanceled}
          /\ Honest(cur, d, Past', Clear')
             \/ (NextOf(cur, mem.phase) = "RestoringTempNamespace" /\ part # "temp")
      BY <2>1, <2>3, <3>1, <3>2, SucceededHonest
    <3>4. Succeeded(mem) \in Resources
      BY <2>3, SucceededFollows DEF Follows, ResourcesOf
    <3>5. d.state = Succeeded(mem).state
      BY <3>4 DEF Resources
    <3> QED BY <2>5, <3>3, <3>5
  <2> HIDE DEF d
  <2> QED BY <2>1, <2>6, FinishFaithful
<1>4. CASE NoCopy
  BY <1>4, RestartFaithful DEF NoCopy, Panic
<1>5. CASE RestoringOrigin
  <2>1. /\ pc = "phase" /\ pc # "idle" /\ mem.phase = "RestoringOriginNamespace"
        /\ Finish(Succeeded(mem)) \/ Wait
    BY <1>5 DEF RestoringOrigin, At
  <2>2. /\ cur \in Imports /\ mem.phase \in PlanOf(cur) /\ Working
        /\ Honest(cur, mem, Past', Clear') /\ Near(cur, mem.phase, cr[cur].phase)
    BY <2>1, ReadyWorker
  <2>3. ~SnapshotOnly[cur]
    BY <2>1, <2>2, PlanIs DEF CommonPhases
  <2>4. CASE Wait
    <3>1. cr[cur].phase \in PlanOf(cur)
      BY <2>2 DEF Working, Control, Stored, ResourcesOf
    <3>2. cr[cur].phase \in Slow \union {"Completed"}
      BY <2>1, <2>2, <2>3, <3>1, LateIs DEF Near, Slow
    <3> QED BY <2>1, <2>4, <3>2, WaitFaithful
  <2>5. CASE Finish(Succeeded(mem))
    <3>1. NextOf(cur, mem.phase) = "Completed"
      BY <2>1, <2>3, NextIs
    <3>2. cur \in Past' /\ (Apart => cur \in Clear')
      BY <2>1, <2>2, <2>3 DEF Honest, Later, OriginPhases
    <3>3. /\ Honest(cur, Succeeded(mem), Past', Clear')
          /\ Succeeded(mem).state # StateCanceled
      BY <2>1, <3>1, <3>2, SucceededHonest
    <3> QED BY <2>1, <2>5, <3>3, FinishFaithful
  <2> QED BY <2>1, <2>4, <2>5
<1> QED BY <1>1, <1>2, <1>3, <1>4, <1>5, RestoringTempFaithful DEF RestoreStep

(* One namespace is all there is to wait for. *)
LEMMA NamespaceDoneFaithful ==
  ASSUME Ready, NEW n \in todo, Deleting, mem.phase # "Completed",
         Write(Succeeded(mem)), UNCHANGED <<cached, failing, pods>>,
         pods[n] = "absent" \/ n \in blind',
         IF fresh THEN Continue(Succeeded(mem), "loop", todo \ {n}) /\ UNCHANGED fresh
                  ELSE Return
  PROVE  Faithful
<1> DEFINE c == Succeeded(mem)
           next == NextOf(cur, mem.phase)
<1>1. pc # "idle"
  BY DEF Deleting, At
<1>2. /\ cur \in Imports /\ Honest(cur, mem, Past', Clear') /\ Working
      /\ todo \in SUBSET Targets[cur] /\ mem.phase \in PlanOf(cur) /\ fresh \in BOOLEAN
  BY <1>1, ReadyWorker
<1>3. mem.phase \in Later
  <2>1. pc = "loop" => mem.phase \in Later
    BY DEF Ready, Story, Keeping
  <2> QED BY <2>1 DEF Deleting, At, Later
<1>4. next \in Later /\ cur \in Past'
  <2>1. mem.phase \in CommonPhases \/ ~SnapshotOnly[cur]
    BY <1>2, PlanIs
  <2> QED BY <1>2, <1>3, <2>1, NextIs DEF Honest, Later, OriginPhases, CommonPhases
<1>5. Apart /\ ~SnapshotOnly[cur] => cur \in Clear'
  <2>1. SUFFICES ASSUME Apart, ~SnapshotOnly[cur] PROVE cur \in Clear'
    OBVIOUS
  <2>2. \A m \in Targets[cur] : m = n
    BY <1>2, <2>1 DEF Apart, OneTarget
  <2>3. pods'[n] = "absent" \/ n \in blind'
    OBVIOUS
  <2> QED BY <1>2, <2>2, <2>3 DEF Clear
<1>6. /\ Honest(cur, c, Past', Clear') /\ c.phase \in Later /\ c.phase = next
      /\ c.state \notin {StateFailed, StateCanceled}
  <2>1. next # "RestoringTempNamespace"
    BY <1>4 DEF Later, OriginPhases
  <2> QED BY <1>1, <1>4, <1>5, <2>1, SucceededHonest
<1>7. Write(c) /\ IF fresh THEN Continue(c, "loop", todo \ {n}) /\ UNCHANGED fresh
                           ELSE Return
  OBVIOUS
<1> HIDE DEF c, next
<1>8. /\ InOrder' /\ (fresh => cr'[cur] = c)
      /\ \A i \in Imports : cr'[i] = cr[i] \/ (fresh /\ i = cur /\ cr'[i] = c)
  BY <1>1, <1>6, <1>7, WriteInOrder
<1>9. \A i \in Imports : Heals(i)
  BY <1>6, <1>8 DEF Heals
<1>10. CASE fresh
  <2>1. c.phase \in PlanOf(cur)
    BY <1>2, <1>6, NextAdvances DEF next
  <2>2. Place(cur, c.phase) \in 1..8
    BY <2>1, PlaceTyped
  <2>3. Near(cur, c.phase, cr'[cur].phase)
    BY <1>8, <1>10, <2>2 DEF Near
  <2> QED BY <1>1, <1>6, <1>7, <1>8, <1>9, <1>10, <2>3, ContinueFaithful
<1>11. CASE ~fresh
  BY <1>7, <1>8, <1>9, <1>11, ReturnFaithful
<1> QED BY <1>2, <1>10, <1>11

LEMMA PodFaithful ==
  ASSUME Ready, PodStep
  PROVE  Faithful
<1>1. ASSUME NEW n \in todo, DeleteStagePod(n)
      PROVE  Faithful
  <2>1. /\ pc = "phase" /\ pc # "idle" /\ mem.phase = "DeleteStagePod"
        /\ \/ Continue(mem, pc, todo \ {n}) /\ UNCHANGED <<resourceVars, failing>>
           \/ Finish(FailedOn(mem))
    BY <1>1 DEF DeleteStagePod, At, historyVars
  <2> QED BY <2>1, GoesOnFaithful, FailFaithful
<1>2. CASE DeleteStagePodDone
  <2>1. /\ pc = "phase" /\ pc # "idle" /\ mem.phase = "DeleteStagePod"
        /\ Finish(Succeeded(mem))
    BY <1>2 DEF DeleteStagePodDone, At
  <2>2. NextOf(cur, mem.phase) = "DeletingStagePod" /\ cur \in Past'
    BY <2>1, ReadyWorker, NextIs DEF Honest, Later
  <2>3. /\ Honest(cur, Succeeded(mem), Past', Clear')
        /\ Succeeded(mem).state # StateCanceled
    BY <2>1, <2>2, SucceededHonest DEF OriginPhases
  <2> QED BY <2>1, <2>3, FinishFaithful
<1>3. ASSUME NEW n \in todo, DeletingStagePod(n)
      PROVE  Faithful
  <2>1. Deleting /\ pc # "idle"
    BY <1>3 DEF DeletingStagePod, Deleting, At
  <2>2. GetLastPhase(steps) = "Completed"
    BY <2>1, ReadyWorker
  <2>3. CASE IsStagePodDeleted(n) /\ mem.phase = "Completed"
    BY <1>3, <2>2, <2>3, RestartFaithful DEF DeletingStagePod, PodsDeleted, Panic
  <2>4. CASE IsStagePodDeleted(n) /\ mem.phase # "Completed"
    <3>1. /\ Write(Succeeded(mem)) /\ UNCHANGED <<cached, failing, pods>>
          /\ pods[n] = "absent"
          /\ IF fresh THEN Continue(Succeeded(mem), "loop", todo \ {n})
                           /\ UNCHANGED fresh
                      ELSE Return
      BY <1>3, <2>2, <2>4 DEF DeletingStagePod, PodsDeleted, IsStagePodDeleted,
         externalVars, historyVars
    <3> QED BY <2>1, <2>4, <3>1, NamespaceDoneFaithful
  <2>5. CASE ~IsStagePodDeleted(n)
    BY <1>3, <2>1, <2>5, FailFaithful DEF DeletingStagePod
  <2> QED BY <2>3, <2>4, <2>5
<1>4. ASSUME NEW n \in todo, DeletingStagePodBlind(n)
      PROVE  Faithful
  <2>1. /\ Deleting /\ pc # "idle" /\ mem.phase # GetLastPhase(steps)
        /\ Write(Succeeded(mem)) /\ UNCHANGED <<cached, failing, pods>> /\ n \in blind'
        /\ IF fresh THEN Continue(Succeeded(mem), "loop", todo \ {n})
                         /\ UNCHANGED fresh
                    ELSE Return
    BY <1>4 DEF DeletingStagePodBlind, Deleting, At, externalVars
  <2>2. GetLastPhase(steps) = "Completed"
    BY <2>1, ReadyWorker
  <2> QED BY <2>1, <2>2, NamespaceDoneFaithful
<1>5. CASE DeletingStagePodDone
  <2>1. /\ pc # "idle" /\ Deleting /\ todo = {}
        /\ \/ /\ mem.phase \in {"RestoreOriginNamespace", "RestoringOriginNamespace"}
              /\ Continue(mem, "phase", {}) /\ UNCHANGED <<resourceVars, failing>>
           \/ Wait
    BY <1>5 DEF DeletingStagePodDone, Deleting, At, historyVars
  <2>2. CASE Wait
    <3>1. Targets[cur] # {} => cr[cur].state # StateFailed
      BY <2>1 DEF Ready, Story, Keeping, Deleting, At
    <3> QED BY <2>1, <2>2, <3>1, WaitFaithful
  <2> QED BY <2>1, <2>2, GoesOnFaithful
<1> QED BY <1>1, <1>2, <1>3, <1>4, <1>5 DEF PodStep

-----------------------------------------------------------------------------
(* The rest of the world, and every step.                                  *)

LEMMA CacheSyncFaithful ==
  ASSUME Ready, NEW i \in Imports, CacheSync(i)
  PROVE  Faithful
<1> DEFINE h == Head(watch[i])
           t == Tail(watch[i])
<1>1. /\ watch[i] # <<>> /\ cr' = cr /\ cached' = [cached EXCEPT ![i] = h]
      /\ watch' = [watch EXCEPT ![i] = t]
      /\ UNCHANGED <<cr, pc, cur, mem, todo, failing, fresh>> /\ Stored
  BY DEF CacheSync, workerVars, historyVars, Ready, Control
<1>2. /\ \E k \in DOMAIN watch[i] : h = watch[i][k]
      /\ \A k \in DOMAIN t : \E j \in DOMAIN watch[i] : t[k] = watch[i][j]
  <2>1. watch[i] \in Seq(Resources)
    BY <1>1 DEF Stored
  <2>2. h = watch[i][1] /\ 1 \in DOMAIN watch[i]
    BY <1>1, <2>1
  <2>3. \A k \in DOMAIN t : k + 1 \in DOMAIN watch[i] /\ t[k] = watch[i][k + 1]
    BY <1>1, <2>1
  <2> HIDE DEF h, t
  <2> QED BY <2>2, <2>3
<1> HIDE DEF h, t
<1>3. /\ cached'[i] = h /\ watch'[i] = t
      /\ \A j \in Imports \ {i} : cached'[j] = cached[j] /\ watch'[j] = watch[j]
  BY <1>1 DEF Stored
<1>4. \A j \in Imports : CopiesOf(j)' \subseteq CopiesOf(j)
  BY <1>1, <1>2, <1>3 DEF CopiesOf
<1>5. InOrder'
  BY <1>4, InOrderStays
<1> QED BY <1>1, <1>5, StaysFaithful

LEMMA UserTouchFaithful ==
  ASSUME Ready, NEW i \in Imports, UserTouch(i)
  PROVE  Faithful
<1> DEFINE w == Append(watch[i], cr[i])
<1>1. /\ cr' = cr /\ cached' = cached /\ watch' = [watch EXCEPT ![i] = w]
      /\ UNCHANGED <<cr, pc, cur, mem, todo, failing>> /\ Stored
      /\ fresh' => fresh
  BY DEF UserTouch, historyVars, Ready, Control
<1>2. \A k \in DOMAIN w : w[k] = cr[i] \/ \E j \in DOMAIN watch[i] : w[k] = watch[i][j]
  <2>1. watch[i] \in Seq(Resources)
    BY <1>1 DEF Stored
  <2> QED BY <2>1
<1> HIDE DEF w
<1>3. watch'[i] = w /\ \A j \in Imports \ {i} : watch'[j] = watch[j]
  BY <1>1 DEF Stored
<1>4. \A j \in Imports : CopiesOf(j)' \subseteq CopiesOf(j)
  BY <1>1, <1>2, <1>3 DEF CopiesOf
<1>5. InOrder'
  BY <1>4, InOrderStays
<1> QED BY <1>1, <1>5, StaysFaithful

LEMMA TimePassesFaithful ==
  ASSUME Ready, NEW i \in Imports, TimePasses(i)
  PROVE  Faithful
<1> DEFINE a == Aged(cr[i])
           b == Aged(cached[i])
           w == [k \in DOMAIN watch[i] |-> Aged(watch[i][k])]
           m == Aged(mem)
           Like(d, e) == d.phase = e.phase /\ d.ref = e.ref /\ d.state = e.state
<1>1. /\ cr' = [cr EXCEPT ![i] = a] /\ cached' = [cached EXCEPT ![i] = b]
      /\ watch' = [watch EXCEPT ![i] = w]
      /\ mem' = IF cur = i THEN m ELSE mem
      /\ UNCHANGED <<pc, cur, fresh, todo, failing>>
  BY DEF TimePasses, historyVars
<1>2. Stored /\ mem \in Resources
  BY DEF Ready, Control, Held
<1>3. \A c \in Resources : Like(Aged(c), c)
  BY DEF Aged, Resources
<1>4. /\ Like(a, cr[i]) /\ Like(b, cached[i]) /\ Like(m, mem)
      /\ \A k \in DOMAIN w : k \in DOMAIN watch[i] /\ Like(w[k], watch[i][k])
  <2>1. /\ cr[i] \in Resources /\ cached[i] \in Resources
        /\ \A k \in DOMAIN watch[i] : watch[i][k] \in Resources
    BY <1>2 DEF Stored
  <2> HIDE DEF Like
  <2> QED BY <1>2, <1>3, <2>1
<1>5. mem = cr[i] => m = a
  OBVIOUS
<1> HIDE DEF a, b, w, m
<1>6. /\ cr'[i] = a /\ cached'[i] = b /\ watch'[i] = w
      /\ \A j \in Imports \ {i} :
           cr'[j] = cr[j] /\ cached'[j] = cached[j] /\ watch'[j] = watch[j]
  BY <1>1, <1>2 DEF Stored
<1>7. ASSUME NEW j \in Imports, NEW c \in CopiesOf(j)'
      PROVE  \E d \in CopiesOf(j) : c.phase = d.phase /\ c.ref = d.ref
  <2>1. CASE j = i
    <3>1. c \in {a, b} \union {w[k] : k \in DOMAIN w}
      BY <1>6, <1>7, <2>1 DEF CopiesOf
    <3>2. \E d \in {cr[i], cached[i]} \union {watch[i][k] : k \in DOMAIN watch[i]} :
            Like(c, d)
      <4> HIDE DEF Like
      <4> QED BY <1>4, <3>1
    <3> QED BY <2>1, <3>2 DEF CopiesOf
  <2>2. CASE j # i
    BY <1>6, <1>7, <2>2 DEF CopiesOf
  <2> QED BY <2>1, <2>2
<1>8. InOrder'
  BY <1>7, InOrderStays
<1>9. \A j \in Imports : cr'[j].state = cr[j].state /\ cr'[j].phase = cr[j].phase
  BY <1>4, <1>6
<1>10. FailuresKnown' /\ Justified
  <2>1. FailuresKnown
    BY DEF Ready, Story
  <2> QED BY <1>1, <1>9, <2>1 DEF FailuresKnown, Justified
<1>11. Keeping'
  <2>1. SUFFICES ASSUME pc # "idle" PROVE Keeping'
    BY <1>1 DEF Keeping
  <2>2. cur \in Imports /\ Honest(cur, mem, Past', Clear')
    BY <2>1, ReadyWorker
  <2>3. Keeping
    BY DEF Ready, Story
  <2>4. mem'.phase = mem.phase /\ mem'.ref = mem.ref
    BY <1>1, <1>4
  <2>5. Honest(cur, mem', Past', Clear')
    BY <2>2, <2>4, SameHonest
  <2>6. Near(cur, mem.phase, cr[cur].phase)' <=> Near(cur, mem.phase, cr[cur].phase)
    BY <1>1, <1>9, <2>2, <2>4 DEF Near, Place, StepsOf
  <2>7. mem = cr[cur] => mem' = cr'[cur]
    BY <1>1, <1>5, <1>6, <2>2
  <2>8. cr'[cur].state = cr[cur].state
    BY <1>9, <2>2
  <2> QED BY <1>1, <2>1, <2>3, <2>4, <2>5, <2>6, <2>7, <2>8 DEF Keeping
<1> QED BY <1>8, <1>10, <1>11 DEF Faithful, Story

-----------------------------------------------------------------------------
(* What is over stays over.                                                *)

LEMMA LastingIf ==
  ASSUME \A r \in Restores : restore[r].phase = "completed" =>
                               restore'[r].phase = "completed",
         \A n \in TargetNamespaces : pods[n] = "absent" => pods'[n] = "absent",
         blind \subseteq blind'
  PROVE  Lasting
<1>1. \A i \in Imports : <<Key[i], "temp">> \in Restores
                         /\ Targets[i] \subseteq TargetNamespaces
  BY KeysAre DEF Parts
<1> QED BY <1>1 DEF Lasting, Past, Clear

LEMMA EnsureLasting ==
  ASSUME ExternalTypeOK, NEW part, EnsureVeleroRestore(part), blind \subseteq blind'
  PROVE  Lasting
<1>1. \A r \in Restores : restore[r].phase = "completed" =>
                            restore'[r].phase = "completed"
  BY DEF EnsureVeleroRestore, ExternalTypeOK
<1> QED BY <1>1, LastingIf DEF EnsureVeleroRestore

LEMMA WorkerLasting ==
  ASSUME Control, ExternalTypeOK, Worker
  PROVE  Lasting
<1>1. blind \subseteq blind'
  BY DEF Worker, HeadStep, Begin, ReconcileTerminal, Initial, Timeout, Validate,
         ReadFaults, RestoreStep, Restore, RestoreFaults, SaveRestore, NoCopy, Panic,
         Restart, RestoringTemp, RestoringTempForgets, RestoringOrigin, PodStep,
         DeleteStagePod, DeleteStagePodDone, DeletingStagePod, PodsDeleted,
         DeletingStagePodBlind, DeletingStagePodDone, Finish, Wait, historyVars, vars
<1>2. CASE UNCHANGED externalVars
  BY <1>1, <1>2, LastingIf DEF externalVars
<1>3. CASE HeadStep
  <2>1. UNCHANGED externalVars
    BY <1>3 DEF HeadStep, Begin, ReconcileTerminal, Initial, Timeout, Validate,
        ReadFaults, vars
  <2> QED BY <1>2, <2>1
<1>4. CASE RestoreStep
  <2>1. ASSUME NEW part \in Parts, Restore(part) \/ RestoreFaults(part)
        PROVE  Lasting
    <3>1. EnsureVeleroRestore(part) \/ UNCHANGED externalVars
      BY <2>1 DEF Restore, RestoreFaults
    <3> QED BY <1>1, <1>2, <3>1, EnsureLasting
  <2>2. CASE \/ \E part \in Parts : SaveRestore(part)
             \/ NoCopy \/ RestoringTemp \/ RestoringTempForgets \/ RestoringOrigin
    <3>1. UNCHANGED externalVars
      BY <2>2
      DEF SaveRestore, NoCopy, Panic, Restart, RestoringTemp, RestoringTempForgets,
          RestoringOrigin
    <3> QED BY <1>2, <3>1
  <2> QED BY <1>4, <2>1, <2>2 DEF RestoreStep
<1>5. CASE PodStep
  <2>1. ASSUME NEW n \in todo, DeleteStagePod(n)
        PROVE  Lasting
    <3>1. restore' = restore
          /\ \A m \in TargetNamespaces : pods[m] = "absent" => pods'[m] = "absent"
      BY <2>1 DEF DeleteStagePod, EnsureStagePodDeleted, ExternalTypeOK
    <3> QED BY <1>1, <3>1, LastingIf
  <2>2. CASE \/ \E n \in todo : DeletingStagePod(n) \/ DeletingStagePodBlind(n)
             \/ DeleteStagePodDone \/ DeletingStagePodDone
    <3>1. UNCHANGED externalVars
      BY <2>2
      DEF DeletingStagePod, PodsDeleted, Panic, Restart, DeletingStagePodBlind,
          DeleteStagePodDone, DeletingStagePodDone
    <3> QED BY <1>2, <3>1
  <2> QED BY <1>5, <2>1, <2>2 DEF PodStep
<1> QED BY <1>3, <1>4, <1>5 DEF Worker

(* Velero brings stage pods into a namespace when a restore begins, once.  *)
LEMMA StartLasting ==
  ASSUME ExternalTypeOK, Apart => Restored, NEW r \in Restores, VeleroStarts(r),
         blind' = blind
  PROVE  Lasting
<1>1. /\ restore[r].phase = "new"
      /\ \A s \in Restores \ {r} : restore'[s] = restore[s]
  BY DEF VeleroStarts, ExternalTypeOK
<1>2. Past \subseteq Past'
  <2>1. \A i \in Imports : <<Key[i], "temp">> \in Restores
    BY KeysAre DEF Parts
  <2> QED BY <1>1, <2>1 DEF Past
<1>3. ASSUME Apart, NEW i \in Past, i \in Clear
      PROVE  i \in Clear'
  <2>1. i \in Imports /\ Targets[i] \subseteq TargetNamespaces
    BY <1>3 DEF Past, TargetNamespaces
  <2>2. ASSUME NEW n \in Targets[i] \ blind
        PROVE  pods'[n] = "absent"
    <3>1. pods[n] = "absent" /\ n \in TargetNamespaces
      BY <1>3, <2>1 DEF Clear
    <3>2. ASSUME r[2] = "temp", n \in restore[r].into
          PROVE  FALSE
      <4>1. PICK j \in Imports : r = <<Key[j], "temp">>
        BY <3>2 DEF Restores
      <4>2. restore[r].into = Targets[j]
        BY <1>1, <1>3, <4>1 DEF Restored, Does
      <4>3. i = j
        BY <1>3, <2>1, <3>2, <4>2 DEF Apart, OwnTargets
      <4> QED BY <1>1, <1>3, <4>1, <4>3 DEF Past
    <3> QED BY <3>1, <3>2 DEF VeleroStarts
  <2> QED BY <2>1, <2>2 DEF Clear
<1> QED BY <1>2, <1>3 DEF Lasting

LEMMA WorldLasting ==
  ASSUME ExternalTypeOK, Apart => Restored, World \/ Unreachable \/ Crash
  PROVE  Lasting
<1>1. blind' = blind
  BY DEF World, EnvironmentStep, Idle, Expire, CacheSync, UserTouch, TimePasses,
         Unreachable, GiveUp, Crash, Restart, historyVars, vars
<1>2. CASE EnvironmentStep
  <2>1. ASSUME NEW r \in Restores, VeleroEnds(r)
        PROVE  Lasting
    <3>1. \A s \in Restores : restore[s].phase = "completed" =>
                                restore'[s].phase = "completed"
      BY <2>1 DEF VeleroEnds, ExternalTypeOK
    <3> QED BY <1>1, <2>1, <3>1, LastingIf DEF VeleroEnds
  <2>2. ASSUME NEW n \in TargetNamespaces, PodGone(n)
        PROVE  Lasting
    <3>1. \A m \in TargetNamespaces : pods[m] = "absent" => pods'[m] = "absent"
      BY <2>2 DEF PodGone, ExternalTypeOK
    <3> QED BY <1>1, <2>2, <3>1, LastingIf DEF PodGone
  <2>3. CASE CopyProceeds
    BY <1>1, <2>3, LastingIf DEF CopyProceeds
  <2> QED BY <1>1, <1>2, <2>1, <2>2, <2>3, StartLasting DEF EnvironmentStep
<1>3. CASE \/ Expire \/ UNCHANGED vars \/ Unreachable \/ Crash
           \/ \E i \in Imports : CacheSync(i) \/ UserTouch(i) \/ TimePasses(i)
  <2>1. UNCHANGED <<restore, pods>>
    BY <1>3 DEF Expire, vars, Unreachable, Crash, Restart, CacheSync, UserTouch,
       TimePasses, externalVars
  <2> QED BY <1>1, <2>1, LastingIf
<1> QED BY <1>2, <1>3 DEF World

-----------------------------------------------------------------------------
(* The theorems.                                                           *)

Told == Control /\ ExternalTypeOK /\ (Apart => Restored) /\ Story

LEMMA ToldStep ==
  ASSUME Told, [Next]_vars
  PROVE  Told' /\ Justified
<1>1. Control' /\ ExternalTypeOK' /\ Forward
  BY StepIsOK, StepTyped DEF Told, StepOK
<1>2. (Apart => Restored)'
  <2>1. Apart => Restored'
    BY WorkerRestored, WorldRestored, NextIsWorldOrWorker DEF Told, Apart
  <2>2. Apart' <=> Apart
    BY DEF Apart, KeysDiffer, OneTarget, OwnTargets
  <2> QED BY <2>1, <2>2
<1>3. Ready
  BY <1>1, WorkerLasting, WorldLasting, NextIsWorldOrWorker DEF Told, Ready
<1>4. Faithful
  <2>1. CASE Worker
    BY <1>3, <2>1, HeadFaithful, RestoreFaithful, PodFaithful DEF Worker
  <2>2. CASE EnvironmentStep \/ Expire \/ UNCHANGED vars
    <3>1. UNCHANGED <<resourceVars, cr, pc, cur, mem, todo, failing, fresh>>
      BY <2>2 DEF EnvironmentStep, Idle, Expire, vars, resourceVars, workerVars,
         historyVars
    <3> QED BY <1>3, <3>1, SameInOrder, StaysFaithful
  <2>3. CASE Unreachable
    BY <1>3, <2>3, WaitFaithful DEF Unreachable, GiveUp, Wait
  <2>4. CASE Crash
    BY <1>3, <2>4, RestartFaithful DEF Crash
  <2> QED BY <1>3, <2>1, <2>2, <2>3, <2>4, NextIsWorldOrWorker, CacheSyncFaithful,
             UserTouchFaithful, TimePassesFaithful DEF World
<1> QED BY <1>1, <1>2, <1>4 DEF Told, Faithful

LEMMA StoryInit == Init => Told
<1> SUFFICES ASSUME Init PROVE Told
  OBVIOUS
<1> DEFINE none == <<>>
<1>1. /\ pc = "idle" /\ cr = [i \in Imports |-> NewImport] /\ cached = cr
      /\ watch = [i \in Imports |-> none]
  BY DEF Init
<1>2. DOMAIN none = {}
  OBVIOUS
<1> HIDE DEF none
<1>3. ASSUME NEW i \in Imports, NEW c \in CopiesOf(i)
      PROVE  Honest(i, c, Past, Clear) /\ Place(i, c.phase) <= Place(i, cr[i].phase)
  <2>1. cr[i] = NewImport /\ c = NewImport
    BY <1>1, <1>2 DEF CopiesOf
  <2>2. NewImport.phase \in PlanOf(i)
    BY NewImportIs, PlanIs DEF CommonPhases
  <2>3. Place(i, NewImport.phase) \in Int
    BY <2>2, PlaceTyped
  <2>4. Honest(i, NewImport, Past, Clear)
    BY NewImportIs DEF Honest, Later, OriginPhases
  <2> QED BY <2>1, <2>3, <2>4
<1>4. FailuresKnown
  BY <1>1, NewImportIs DEF FailuresKnown, StateNone, StateFailed
<1> QED BY <1>1, <1>3, <1>4, InitHolds, RestoredInit DEF Told, Story, InOrder, Keeping

LEMMA ToldHolds == Spec => []Told /\ [][Justified]_vars
<1>1. Told /\ [Next]_vars => Told' /\ Justified
  BY ToldStep
<1> QED BY <1>1, StoryInit, PTL DEF Spec

(* Every import maps to some namespace.  DeletingStagePod moves on with    *)
(* each namespace it finds; with none at all the import waits there for    *)
(* ever, and each wait forgets the failure before it.                      *)
SomeTarget == \A i \in Imports : Targets[i] # {}

(* The timeout cancels an import only while it is failing, or while it     *)
(* waits for a restore: in no other phase does a reconcile that fails      *)
(* leave behind a failure that a later one has made good.                  *)
THEOREM CanceledAreFailing ==
  ASSUME SomeTarget
  PROVE  Spec => CanceledIsFailing
<1>1. [Justified]_vars =>
        [\A i \in Imports :
           cr[i].state # StateCanceled /\ cr'[i].state = StateCanceled =>
             \/ i \in failing
             \/ cr[i].phase \in {"RestoringTempNamespace",
                                 "RestoringOriginNamespace"}]_vars
  BY DEF Justified, Slow, SomeTarget
<1> QED BY <1>1, ToldHolds, PTL DEF CanceledIsFailing

(* Only a worker in RestoreOriginNamespace makes the restore of the        *)
(* originals of an import, and its copy of the resource is honest.         *)
LEMMA OriginIsLate ==
  ASSUME Apart, Told, [Next]_vars, NEW i \in Imports,
         restore[<<Key[i], "orig">>].phase = "absent",
         restore'[<<Key[i], "orig">>].phase = "new"
  PROVE  i \in Clear
<1> DEFINE name == <<Key[i], "orig">>
<1>1. name \in Restores /\ Control /\ ExternalTypeOK
  BY KeysAre DEF Parts, Told
<1>2. restore'[name] # restore[name]
  OBVIOUS
<1> HIDE DEF name
<1>3. ASSUME NEW part \in Parts, Asking(part), EnsureVeleroRestore(part)
      PROVE  i \in Clear
  <2>1. name = <<Key[cur], part>>
    BY <1>1, <1>2, <1>3 DEF EnsureVeleroRestore, Name, ExternalTypeOK
  <2>2. Key[cur] = Key[i] /\ part = "orig"
    BY <2>1 DEF name
  <2>3. mem.phase = "RestoreOriginNamespace" /\ pc # "idle"
    BY <1>3, <2>2 DEF Asking, At
  <2>4. cur \in Imports /\ mem.phase \in PlanOf(cur)
    BY <1>1, <2>3, PhaseKnown DEF ResourcesOf
  <2>5. cur = i /\ ~SnapshotOnly[cur]
    BY <2>2, <2>3, <2>4, PlanIs DEF Apart, KeysDiffer, CommonPhases
  <2>6. Honest(cur, mem, Past, Clear)
    BY <2>3 DEF Told, Story, Keeping
  <2> QED BY <2>3, <2>5, <2>6 DEF Honest, OriginPhases
<1>4. CASE Worker
  <2>1. CASE RestoreStep
    <3>1. \/ \E part \in Parts : Asking(part) /\ EnsureVeleroRestore(part)
          \/ restore' = restore
      BY <2>1
      DEF RestoreStep, Restore, RestoreFaults, SaveRestore, NoCopy, Panic, Restart,
          RestoringTemp, RestoringTempForgets, RestoringOrigin, externalVars
    <3> QED BY <1>2, <1>3, <3>1
  <2>2. CASE HeadStep
    <3>1. restore' = restore
      BY <2>2
      DEF HeadStep, Begin, ReconcileTerminal, Initial, Timeout, Validate, ReadFaults,
          vars, externalVars
    <3> QED BY <1>2, <3>1
  <2>3. CASE PodStep
    <3>1. restore' = restore
      BY <2>3
      DEF PodStep, DeleteStagePod, EnsureStagePodDeleted, DeleteStagePodDone,
          DeletingStagePod, PodsDeleted, Panic, Restart, DeletingStagePodBlind,
          DeletingStagePodDone, externalVars
    <3> QED BY <1>2, <3>1
  <2> QED BY <1>4, <2>1, <2>2, <2>3 DEF Worker
<1>5. CASE World \/ Unreachable \/ Crash
  <2>1. CASE EnvironmentStep
    <3>1. ASSUME NEW r \in Restores, VeleroStarts(r) \/ VeleroEnds(r)
          PROVE  FALSE
      <4>1. restore[r].phase \in {"new", "running"}
        BY <3>1 DEF VeleroStarts, VeleroEnds
      <4>2. /\ restore \in [Restores -> [phase : RestorePhases,
                                        into : SUBSET TargetNamespaces]]
            /\ \E e : restore' = [restore EXCEPT ![r].phase = e]
        BY <1>1, <3>1 DEF VeleroStarts, VeleroEnds, ExternalTypeOK
      <4>3. \A s \in Restores \ {r} : restore'[s] = restore[s]
        BY <4>2
      <4> QED BY <1>1, <1>2, <4>1, <4>3 DEF name
    <3>2. CASE CopyProceeds \/ \E n \in TargetNamespaces : PodGone(n)
      BY <1>2, <3>2 DEF CopyProceeds, PodGone
    <3> QED BY <2>1, <3>1, <3>2 DEF EnvironmentStep
  <2>2. CASE \/ Expire \/ UNCHANGED vars \/ Unreachable \/ Crash
             \/ \E j \in Imports : CacheSync(j) \/ UserTouch(j) \/ TimePasses(j)
    <3>1. restore' = restore
      BY <2>2 DEF Expire, vars, Unreachable, GiveUp, Wait, Crash, Restart, CacheSync,
         UserTouch, TimePasses, externalVars
    <3> QED BY <1>2, <3>1
  <2> QED BY <1>5, <2>1, <2>2 DEF World
<1> QED BY <1>4, <1>5, NextIsWorldOrWorker

(* No import, however late what its worker reads, asks for the original    *)
(* namespaces while stage pods of the temporary ones hold their volumes.   *)
THEOREM OriginsFollowStagePods ==
  ASSUME KeysDiffer, OneTarget, OwnTargets
  PROVE  Spec => OriginAfterStagePods
<1> DEFINE Safe == \A i \in Imports :
             LET r == restore[<<Key[i], "orig">>]
             IN  r.phase = "absent" /\ restore'[<<Key[i], "orig">>].phase = "new" =>
                   \A n \in Targets[i] \ blind : pods[n] = "absent"
<1>1. Told /\ [Next]_vars => [Safe]_vars
  BY OriginIsLate DEF Apart, Clear
<1> HIDE DEF Safe
<1>2. Spec => [][Safe]_vars
  BY <1>1, ToldHolds, PTL DEF Spec
<1> QED BY <1>2 DEF Safe, OriginAfterStagePods
=============================================================================
