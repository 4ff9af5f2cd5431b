------------------------- MODULE VeleroExportProofs --------------------------
(***************************************************************************)
(* Proofs about the export controller, for every set of namespaces and     *)
(* volumes and every bound on the disturbances.                            *)
(*                                                                         *)
(* The first part is about the resource: its versions, its phase and its   *)
(* state.  The second is about its copies: how old a copy can be that the  *)
(* export's worker acts on, and what its older copies agree on with the    *)
(* resource.  A worker with an old copy repeats the calls of an old phase  *)
(* on the cluster.  What makes this harmless is that the copy is at most   *)
(* one reconcile old: a worker that can write has begun with the last      *)
(* version, so all the older ones have left the informer by then.          *)
(***************************************************************************)
EXTENDS VeleroExportProperties, SequenceTheorems, Integers, TLAPS

-----------------------------------------------------------------------------
(* The step list and GetNextPhase (status.go).                             *)

(* The positions of the list. *)
LEMMA StepsDomain == DOMAIN VeleroExportSteps = 1..29 /\ Len(VeleroExportSteps) = 29
BY DEF VeleroExportSteps

(* The phase at each position. *)
LEMMA StepsAre ==
  /\ VeleroExportSteps[1] = PhaseCreated
  /\ VeleroExportSteps[2] = "Precheck"
  /\ VeleroExportSteps[3] = "Prepare"
  /\ VeleroExportSteps[4] = "WaitPrepareComplete"
  /\ VeleroExportSteps[5] = "CreateTempNamespace"
  /\ VeleroExportSteps[6] = "CreateVolumeSnapshot"
  /\ VeleroExportSteps[7] = "UpdateSnapshotContent"
  /\ VeleroExportSteps[8] = "CheckSnapshotReady"
  /\ VeleroExportSteps[9] = "CreatePvc"
  /\ VeleroExportSteps[10] = "CreatePvcPod"
  /\ VeleroExportSteps[11] = "WaitPvcPodRunning"
  /\ VeleroExportSteps[12] = "CheckPvcReady"
  /\ VeleroExportSteps[13] = "CleanPvcPod"
  /\ VeleroExportSteps[14] = "EnsurePvcPodCleaned"
  /\ VeleroExportSteps[15] = "UpdatePvClaimRetain"
  /\ VeleroExportSteps[16] = "DeletePvc"
  /\ VeleroExportSteps[17] = "EnsurePvcDeleted"
  /\ VeleroExportSteps[18] = "RecreatePvc"
  /\ VeleroExportSteps[19] = "UpdatePvClaimRef"
  /\ VeleroExportSteps[20] = "EnsureRecreatePvcReady"
  /\ VeleroExportSteps[21] = "UpdatePvClaimDelete"
  /\ VeleroExportSteps[22] = "UpdateSnapshotContentBack"
  /\ VeleroExportSteps[23] = "DeleteVolumeSnapshot"
  /\ VeleroExportSteps[24] = "CreateStagePod"
  /\ VeleroExportSteps[25] = "WaitStagePodRunning"
  /\ VeleroExportSteps[26] = "StartFileSystemCopy"
  /\ VeleroExportSteps[27] = "WaitFileSystemCopyComplete"
  /\ VeleroExportSteps[28] = "CleanUp"
  /\ VeleroExportSteps[29] = PhaseCompleted
BY DEF VeleroExportSteps

(* No phase occurs twice: every phase has one successor. *)
LEMMA StepsAreDistinct ==
  \A i, j \in 1..29 :
     VeleroExportSteps[i] = VeleroExportSteps[j] => i = j
BY StepsAre, SMT DEF PhaseCreated, PhaseCompleted

(* The place of a phase is the only position that holds it. *)
LEMMA RankIs ==
  ASSUME NEW i \in 1..29
  PROVE  Rank(VeleroExportSteps[i]) = i
<1> DEFINE p == VeleroExportSteps[i]
<1>1. \A k \in DOMAIN VeleroExportSteps :
         VeleroExportSteps[k] = p <=> k = i
  BY StepsDomain, StepsAreDistinct
<1>2. IndexOf(p, VeleroExportSteps) = i
  BY <1>1, StepsDomain DEF IndexOf
<1> QED BY <1>2 DEF Rank

(* Every phase but the last is followed by the phase at the next position. *)
LEMMA NextPhase ==
  ASSUME NEW i \in 1..28
  PROVE  GetNextPhase(VeleroExportSteps[i], VeleroExportSteps)
           = VeleroExportSteps[i + 1]
<1>1. i \in 1..29 /\ i \in DOMAIN VeleroExportSteps
  BY StepsDomain
<1>2. IndexOf(VeleroExportSteps[i], VeleroExportSteps) = i
  BY <1>1, RankIs DEF Rank
<1> QED BY <1>1, <1>2 DEF GetNextPhase

(* updateStatus(nil) takes any phase but Completed to a phase, one place   *)
(* further on.                                                             *)
LEMMA NextPhaseAdvances ==
  ASSUME NEW p \in ExportPhases, p # PhaseCompleted
  PROVE  /\ GetNextPhase(p, VeleroExportSteps) \in ExportPhases
         /\ Rank(GetNextPhase(p, VeleroExportSteps)) = Rank(p) + 1
<1>1. PICK i \in 1..29 : p = VeleroExportSteps[i]
  BY StepsDomain DEF ExportPhases
<1>2. i \in 1..28
  BY <1>1, StepsAre
<1>3. GetNextPhase(p, VeleroExportSteps) = VeleroExportSteps[i + 1]
  BY <1>1, <1>2, NextPhase
<1>4. i + 1 \in 1..29
  BY <1>2
<1>5. Rank(p) = i /\ Rank(VeleroExportSteps[i + 1]) = i + 1
  BY <1>1, <1>4, RankIs
<1> QED BY <1>3, <1>4, <1>5, StepsDomain DEF ExportPhases

(* Only CleanUp is followed by Completed. *)
LEMMA NextIsNotCompleted ==
  ASSUME NEW p \in ExportPhases, p \notin {"CleanUp", PhaseCompleted}
  PROVE  GetNextPhase(p, VeleroExportSteps) # PhaseCompleted
<1>1. PICK i \in 1..29 : p = VeleroExportSteps[i]
  BY StepsDomain DEF ExportPhases
<1>2. i \in 1..27
  BY <1>1, StepsAre
<1>3. i + 1 \in 1..28 /\ GetNextPhase(p, VeleroExportSteps) = VeleroExportSteps[i + 1]
  BY <1>1, <1>2, NextPhase
<1> QED BY <1>2, <1>3, StepsAre, StepsAreDistinct

(* The successors of the two phases whose update error is ignored. *)
LEMMA NextOfPrecheck == GetNextPhase("Precheck", VeleroExportSteps) = "Prepare"
BY NextPhase, StepsAre, 2 \in 1..28

LEMMA NextOfCopy ==
  GetNextPhase("WaitFileSystemCopyComplete", VeleroExportSteps) = "CleanUp"
BY NextPhase, StepsAre, 27 \in 1..28

-----------------------------------------------------------------------------
(* The cluster's variables keep their types.                               *)

(* Whatever VolumeSnapshot and PVC go, what remains is well typed. *)
LEMMA RemovalTyped ==
  /\ \A s \in Snapshots : WithoutSnapshot(s) \in Snapshots
  /\ \A w \in VolumeClaims : WithoutClaim(w) \in VolumeClaims
BY DEF Snapshots, VolumeClaims, WithoutSnapshot, WithoutClaim

(* The steps of the external controllers. *)
LEMMA EnvironmentTyped == ClusterTypeOK /\ Environment => ClusterTypeOK'
<1> SUFFICES ASSUME ClusterTypeOK, Environment PROVE ClusterTypeOK'
  OBVIOUS
<1> USE ClusterAssumption DEF ClusterTypeOK
<1>1. ASSUME NEW v \in Volumes, SnapshotReady(v) PROVE ClusterTypeOK'
  BY <1>1 DEF SnapshotReady, Snapshots
<1>2. ASSUME NEW v \in Volumes, Provision(v) PROVE ClusterTypeOK'
  BY <1>2 DEF Provision, VolumeClaims
<1>3. ASSUME NEW v \in Volumes, Bind(v) PROVE ClusterTypeOK'
  BY <1>3 DEF Bind, VolumeClaims
<1>4. ASSUME NEW v \in Volumes, PvcGone(v) PROVE ClusterTypeOK'
  BY <1>4, RemovalTyped DEF PvcGone
<1>5. ASSUME NEW n \in Namespaces, PodRuns(n) PROVE ClusterTypeOK'
  BY <1>5 DEF PodRuns, PodStates
<1>6. ASSUME NEW n \in Namespaces, PodGone(n) PROVE ClusterTypeOK'
  BY <1>6 DEF PodGone, PodStates
<1>7. ASSUME NEW n \in Namespaces, NsGone(n) PROVE ClusterTypeOK'
  BY <1>7, RemovalTyped DEF NsGone, NsStates, PodStates
<1>8. ASSUME NEW n \in Namespaces, OldNsGone(n) PROVE ClusterTypeOK'
  BY <1>8 DEF OldNsGone, NsStates
<1>9. ASSUME VeleroFinishes PROVE ClusterTypeOK'
  BY <1>9 DEF VeleroFinishes
<1>10. ASSUME NEW v \in Volumes, Fill(v) PROVE ClusterTypeOK'
  BY <1>10 DEF Fill, VolumeClaims
<1> QED
  BY <1>1, <1>2, <1>3, <1>4, <1>5, <1>6, <1>7, <1>8, <1>9, <1>10 DEF Environment

(* A call that changes one volume, or one snapshot, to a well typed one. *)
LEMMA VolumeTyped ==
  ASSUME ClusterTypeOK, NEW v, NEW w, v \in Volumes => w \in VolumeClaims,
         vol' = [vol EXCEPT ![v] = w],
         UNCHANGED <<temp, oldNs, snap, pod, backup, copied>>
  PROVE  ClusterTypeOK'
BY DEF ClusterTypeOK

LEMMA SnapshotTyped ==
  ASSUME ClusterTypeOK, NEW v, NEW s, v \in Volumes => s \in Snapshots,
         snap' = [snap EXCEPT ![v] = s],
         UNCHANGED <<temp, oldNs, vol, pod, backup, copied>>
  PROVE  ClusterTypeOK'
BY DEF ClusterTypeOK

(* The fields of a volume and of a snapshot can be set to any value of     *)
(* their range.                                                            *)
LEMMA FieldsTyped ==
  /\ \A w \in VolumeClaims :
       /\ \A c \in {"absent", "restoring", "restored", "deleting",
                    "recreated", "rebound", "blank", "filled"} :
             [w EXCEPT !.pvc = c] \in VolumeClaims
       /\ \A p \in {"none", "bound", "released", "claimed", "doomed", "gone",
                    "leaked"} :
             [w EXCEPT !.pv = p] \in VolumeClaims
       /\ \A d \in {"Delete", "Retain"} :
             [w EXCEPT !.policy = d] \in VolumeClaims
  /\ \A s \in Snapshots :
       /\ \A r \in {"orig", "temp", "lost"}, h \in BOOLEAN :
             [s EXCEPT !.ref = r, !.handle = h] \in Snapshots
       /\ \A r \in {"orig", "temp", "lost"} : [s EXCEPT !.ref = r] \in Snapshots
       /\ \A h \in BOOLEAN : [s EXCEPT !.handle = h] \in Snapshots
       /\ [s EXCEPT !.vs = "created"] \in Snapshots
BY DEF VolumeClaims, Snapshots

(* The fields of a volume, and of a snapshot, have their types. *)
LEMMA FieldsAre ==
  /\ \A w \in VolumeClaims :
       /\ w.pvc \in {"absent", "restoring", "restored", "deleting",
                     "recreated", "rebound", "blank", "filled"}
       /\ w.pv \in {"none", "bound", "released", "claimed", "doomed", "gone",
                    "leaked"}
       /\ w.policy \in {"Delete", "Retain"}
  /\ \A s \in Snapshots : s.handle \in BOOLEAN
BY DEF VolumeClaims, Snapshots

(* The calls on one object, by a handler's loop. *)
LEMMA CallTyped ==
  ASSUME ClusterTypeOK, NEW i, Call(i)
  PROVE  ClusterTypeOK'
<1>1. CASE AsyncDeleteOldNamespace(i)
  BY <1>1 DEF AsyncDeleteOldNamespace, Deleted, NsStates, ClusterTypeOK
<1>2. CASE CreateNamespace(i)
  BY <1>2 DEF CreateNamespace, NsStates, ClusterTypeOK
<1>3. CASE CreateSnapshot(i)
  <2> DEFINE s == [snap[i] EXCEPT !.vs = "created"]
  <2>1. i \in Volumes => s \in Snapshots
    BY FieldsTyped DEF ClusterTypeOK
  <2> HIDE DEF s
  <2>2. snap' = [snap EXCEPT ![i] = s]
    BY <1>3 DEF CreateSnapshot, s
  <2> QED BY <1>3, <2>1, <2>2, SnapshotTyped DEF CreateSnapshot
<1>4. ASSUME NEW recover \in BOOLEAN, UpdateContent(i, recover)
      PROVE  ClusterTypeOK'
  <2> DEFINE r == IF recover THEN "orig" ELSE "temp"
             h == snap[i].handle \/ ~recover
             s == [snap[i] EXCEPT !.ref = r, !.handle = h]
  <2>1. i \in Volumes => s \in Snapshots
    <3> SUFFICES ASSUME i \in Volumes PROVE s \in Snapshots
      OBVIOUS
    <3>1. r \in {"orig", "temp", "lost"} /\ h \in BOOLEAN
      BY FieldsAre DEF ClusterTypeOK
    <3>2. snap[i] \in Snapshots
      BY DEF ClusterTypeOK
    <3> HIDE DEF r, h
    <3> QED BY <3>1, <3>2, FieldsTyped
  <2>2. snap' = [snap EXCEPT ![i] = s]
    BY <1>4 DEF UpdateContent
  <2> HIDE DEF s
  <2> QED BY <1>4, <2>1, <2>2, SnapshotTyped DEF UpdateContent
<1>5. CASE CreatePvcWithVs(i)
  <2> DEFINE w == [vol[i] EXCEPT !.pvc = IF @ = "absent" THEN "restoring" ELSE @]
  <2>1. i \in Volumes => w \in VolumeClaims
    BY FieldsTyped, FieldsAre DEF ClusterTypeOK
  <2>2. vol' = [vol EXCEPT ![i] = w]
    BY <1>5 DEF CreatePvcWithVs
  <2> HIDE DEF w
  <2> QED BY <1>5, <2>1, <2>2, VolumeTyped DEF CreatePvcWithVs
<1>6. CASE BuildStagePod(i)
  BY <1>6 DEF BuildStagePod, PodStates, ClusterTypeOK
<1>7. CASE EnsureStagePodDeleted(i)
  BY <1>7 DEF EnsureStagePodDeleted, PodStates, ClusterTypeOK
<1>8. ASSUME NEW policy \in {"Delete", "Retain"}, UpdatePvPolicy(i, policy)
      PROVE  ClusterTypeOK'
  <2> DEFINE w == [vol[i] EXCEPT
                     !.policy = IF vol[i].pvc = "filled" THEN @ ELSE policy]
  <2>1. i \in Volumes => w \in VolumeClaims
    BY FieldsTyped, FieldsAre DEF ClusterTypeOK
  <2>2. vol' = [vol EXCEPT ![i] = w]
    BY <1>8 DEF UpdatePvPolicy
  <2> HIDE DEF w
  <2> QED BY <1>8, <2>1, <2>2, VolumeTyped DEF UpdatePvPolicy
<1>9. CASE DeletePvc(i)
  <2> DEFINE w == [vol[i] EXCEPT !.pvc = IF @ = "absent" THEN "absent" ELSE "deleting"]
  <2>1. i \in Volumes => w \in VolumeClaims
    BY FieldsTyped DEF ClusterTypeOK
  <2>2. vol' = [vol EXCEPT ![i] = w]
    BY <1>9 DEF DeletePvc
  <2> HIDE DEF w
  <2> QED BY <1>9, <2>1, <2>2, VolumeTyped DEF DeletePvc
<1>10. ASSUME NEW named \in BOOLEAN, CreatePvcWithPv(i, named)
       PROVE  ClusterTypeOK'
  <2> DEFINE w == [vol[i] EXCEPT !.pvc = IF @ # "absent" THEN @
                                   ELSE IF named THEN "recreated" ELSE "blank"]
  <2>1. i \in Volumes => w \in VolumeClaims
    BY FieldsTyped, FieldsAre DEF ClusterTypeOK
  <2>2. vol' = [vol EXCEPT ![i] = w]
    BY <1>10 DEF CreatePvcWithPv
  <2> HIDE DEF w
  <2> QED BY <1>10, <2>1, <2>2, VolumeTyped DEF CreatePvcWithPv
<1>11. ASSUME NEW named \in BOOLEAN, UpdatePvClaimRef(i, named)
       PROVE  ClusterTypeOK'
  <2> DEFINE w == [vol[i] EXCEPT !.pv = IF @ = "released" THEN "claimed" ELSE @]
  <2>1. i \in Volumes => w \in VolumeClaims
    BY FieldsTyped, FieldsAre DEF ClusterTypeOK
  <2>2. vol' = [vol EXCEPT ![i] = w]
    BY <1>11 DEF UpdatePvClaimRef
  <2> HIDE DEF w
  <2> QED BY <1>11, <2>1, <2>2, VolumeTyped DEF UpdatePvClaimRef
<1>12. CASE DeleteSnapshot(i)
  BY <1>12, RemovalTyped DEF DeleteSnapshot, ClusterTypeOK
<1>13. CASE AsyncDeleteNamespace(i)
  BY <1>13 DEF AsyncDeleteNamespace, Deleted, NsStates, ClusterTypeOK
<1> QED
  BY <1>1, <1>2, <1>3, <1>4, <1>5, <1>6, <1>7, <1>8, <1>9, <1>10, <1>11,
     <1>12, <1>13 DEF Call

(* The other calls. *)
LEMMA OtherCallsTyped ==
  ASSUME ClusterTypeOK, NEW i, NEW recover \in BOOLEAN,
         \/ AsyncDeleteNamespace(i) \/ ClearPV(i) \/ EnsureVeleroBackup
         \/ UpdateContentRef(i, recover) \/ UpdateContentSwallowed(i, recover)
         \/ UNCHANGED clusterVars
  PROVE  ClusterTypeOK'
<1>1. CASE AsyncDeleteNamespace(i)
  BY <1>1 DEF AsyncDeleteNamespace, Deleted, NsStates, ClusterTypeOK
<1>2. CASE ClearPV(i)
  <2> DEFINE w == [vol[i] EXCEPT !.pv =
                     CASE @ = "bound" -> "doomed"
                       [] @ \in {"released", "claimed"} -> "leaked"
                       [] OTHER -> @]
  <2>1. i \in Volumes => w \in VolumeClaims
    BY FieldsTyped, FieldsAre DEF ClusterTypeOK
  <2>2. vol' = [vol EXCEPT ![i] = w]
    BY <1>2 DEF ClearPV
  <2> HIDE DEF w
  <2> QED BY <1>2, <2>1, <2>2, VolumeTyped DEF ClearPV
<1>3. CASE EnsureVeleroBackup
  BY <1>3 DEF EnsureVeleroBackup, ClusterTypeOK
<1>4. CASE UpdateContentRef(i, recover)
  <2> DEFINE s == [snap[i] EXCEPT !.ref = IF recover THEN "orig" ELSE "temp"]
  <2>1. i \in Volumes => s \in Snapshots
    BY FieldsTyped DEF ClusterTypeOK
  <2>2. snap' = [snap EXCEPT ![i] = s]
    BY <1>4 DEF UpdateContentRef
  <2> HIDE DEF s
  <2> QED BY <1>4, <2>1, <2>2, SnapshotTyped DEF UpdateContentRef
<1>5. CASE UpdateContentSwallowed(i, recover)
  <2> DEFINE h == snap[i].handle \/ ~recover
             s == [snap[i] EXCEPT !.handle = h]
  <2>1. i \in Volumes => h \in BOOLEAN /\ snap[i] \in Snapshots
    BY FieldsAre DEF ClusterTypeOK
  <2>2. snap' = [snap EXCEPT ![i] = s]
    BY <1>5 DEF UpdateContentSwallowed
  <2> HIDE DEF h
  <2>3. i \in Volumes => s \in Snapshots
    BY <2>1, FieldsTyped
  <2> HIDE DEF s
  <2> QED BY <1>5, <2>2, <2>3, SnapshotTyped DEF UpdateContentSwallowed
<1>6. CASE UNCHANGED clusterVars
  BY <1>6 DEF clusterVars, ClusterTypeOK
<1> QED BY <1>1, <1>2, <1>3, <1>4, <1>5, <1>6

-----------------------------------------------------------------------------
(* The resource.                                                           *)

(* updateStatus(nil) gives a well typed resource one phase further on,     *)
(* which is not terminal where the handler falls through to the next one.  *)
LEMMA SucceededIs ==
  ASSUME NEW c \in Resources, ~Terminal(c)
  PROVE  /\ Succeeded(c) \in Resources
         /\ Rank(Succeeded(c).phase) = Rank(c.phase) + 1
         /\ c.phase \in FallThrough => ~Terminal(Succeeded(c))
<1> DEFINE next == GetNextPhase(c.phase, VeleroExportSteps)
<1>1. c.phase \in ExportPhases /\ c.phase # PhaseCompleted
  BY DEF Resources, Terminal
<1>2. next \in ExportPhases /\ Rank(next) = Rank(c.phase) + 1
  BY <1>1, NextPhaseAdvances
<1>3. GetLastPhase(VeleroExportSteps) = PhaseCompleted
  BY StepsDomain, StepsAre DEF GetLastPhase
<1>4. Succeeded(c) = [c EXCEPT !.phase = next, !.since = "nil",
                        !.state = IF next = PhaseCompleted
                                    THEN StateCompleted ELSE StateInProgress]
  BY <1>3 DEF Succeeded
<1> HIDE DEF next
<1>5. Succeeded(c) \in Resources /\ Succeeded(c).phase = next
  BY <1>2, <1>4 DEF Resources, StateCompleted, StateInProgress
<1>6. ASSUME c.phase \in FallThrough PROVE ~Terminal(Succeeded(c))
  <2>1. next # PhaseCompleted
    BY <1>1, <1>6, NextIsNotCompleted DEF FallThrough, PhaseCreated, next
  <2>2. Succeeded(c).state = StateInProgress
    BY <1>4, <2>1 DEF Resources, StateInProgress, StateCompleted
  <2> QED
    BY <1>5, <2>1, <2>2
    DEF Terminal, StateInProgress, StateCanceled, StateVeleroFailed
<1> QED BY <1>2, <1>5, <1>6

(* updateStatus(err), and the other changes of a handler's copy, keep its  *)
(* phase; ageing also keeps its state.                                     *)
LEMMA FailedIs ==
  ASSUME NEW c \in Resources
  PROVE  /\ FailedOn(c) \in Resources
         /\ FailedOn(c).phase = c.phase
         /\ ~Terminal(c) => ~Terminal(FailedOn(c))
BY DEF FailedOn, Resources, Terminal, StateFailed, StateVeleroFailed, StateCanceled

LEMMA AgedIs ==
  ASSUME NEW c \in Resources
  PROVE  /\ Aged(c) \in Resources
         /\ Aged(c).phase = c.phase /\ Aged(c).state = c.state
BY DEF Aged, Resources

(* A resource in its first state. *)
LEMMA NewExportIs == NewExport \in Resources /\ ~Terminal(NewExport)
<1>1. PhaseCreated \in ExportPhases
  BY StepsAre, StepsDomain DEF ExportPhases
<1> QED
  BY <1>1 DEF NewExport, Resources, Terminal, StateNone, PhaseCreated,
     PhaseCompleted, StateCanceled, StateVeleroFailed

-----------------------------------------------------------------------------
(* What every step guarantees: the two action properties, ...              *)
Forward ==
  cr'.phase # cr.phase =>
    \/ Rank(cr'.phase) = Rank(cr.phase) + 1
    \/ /\ cr.phase \in IgnoreUpdateError
       /\ Rank(cr'.phase) = Rank(cr.phase) + 2

Final == Terminal(cr) => cr' \in {cr, Aged(cr)}

(* ... and the control half of the inductive invariant TypeOK /\ Coherent. *)
Control == ControlTypeOK /\ Coherent

StepOK == ControlTypeOK' /\ Coherent' /\ Forward /\ Final

(* The part of Control about the resource and its informer. *)
Delivered ==
  /\ cr \in Resources /\ cached \in Resources /\ watch \in Seq(Resources)
  /\ cr = IF watch = <<>> THEN cached ELSE watch[Len(watch)]

(* Appending a version to those the informer has to receive. *)
LEMMA AppendIs ==
  ASSUME NEW w \in Seq(Resources), NEW c \in Resources
  PROVE  /\ Append(w, c) \in Seq(Resources)
         /\ Append(w, c) # <<>>
         /\ Append(w, c)[Len(Append(w, c))] = c
OBVIOUS

(* Receiving the first of them. *)
LEMMA TailIs ==
  ASSUME NEW w \in Seq(Resources), w # <<>>
  PROVE  /\ Head(w) \in Resources /\ Tail(w) \in Seq(Resources)
         /\ w[Len(w)] = IF Tail(w) = <<>> THEN Head(w) ELSE Tail(w)[Len(Tail(w))]
<1> DEFINE t == Tail(w)
<1>1. /\ Len(w) \in Nat /\ Len(t) \in Nat /\ Len(w) = Len(t) + 1
      /\ Head(w) = w[1] /\ Head(w) \in Resources /\ t \in Seq(Resources)
      /\ \A i \in 1..Len(t) : t[i] = w[i + 1]
  OBVIOUS
<1>2. Len(t) = 0 <=> t = <<>>
  BY <1>1, EmptySeq
<1> HIDE DEF t
<1>3. w[Len(w)] = IF t = <<>> THEN Head(w) ELSE t[Len(t)]
  <2>1. CASE Len(t) = 0
    <3>1. w[Len(w)] = Head(w)
      BY <1>1, <2>1
    <3> QED BY <1>2, <2>1, <3>1, Zenon
  <2>2. CASE Len(t) # 0
    <3>1. w[Len(w)] = t[Len(t)]
      BY <1>1, <2>2
    <3> QED BY <1>2, <2>2, <3>1, Zenon
  <2> QED BY <2>1, <2>2
<1> QED BY <1>1, <1>3 DEF t

(* A write takes the resource to a successor of the worker's copy, or      *)
(* leaves it as it is, and the informer will receive what it wrote.        *)
LEMMA WriteSafe ==
  ASSUME Control, pc # "idle", UNCHANGED cached,
         NEW c \in Resources, Write(c),
         c.phase = mem.phase \/ c = Succeeded(mem)
  PROVE  /\ Delivered' /\ Forward /\ Final
         /\ fresh => cr' = c
         /\ ~fresh => cr' = cr
<1>1. CASE ~fresh
  <2>1. cr' = cr /\ watch' = watch /\ cached' = cached
    BY <1>1 DEF Write
  <2>2. Delivered'
    BY <2>1 DEF Control, ControlTypeOK, Coherent, Delivered
  <2> QED BY <1>1, <2>1, <2>2 DEF Forward, Final
<1>2. CASE fresh
  <2>1. cr' = c /\ watch' = (IF c = cr THEN watch ELSE Append(watch, c))
    BY <1>2 DEF Write
  <2>2. Delivered'
    <3>1. CASE c = cr
      BY <2>1, <3>1 DEF Control, ControlTypeOK, Coherent, Delivered
    <3>2. CASE c # cr
      BY <2>1, <3>2, AppendIs DEF Control, ControlTypeOK, Delivered
    <3> QED BY <3>1, <3>2
  <2>3. ~Terminal(cr) /\ ~Terminal(mem) /\ mem \in Resources /\ cr \in Resources
    BY <1>2 DEF Control, ControlTypeOK, Coherent
  <2>4. Final
    BY <2>3 DEF Final
  <2>5. Rank(Succeeded(mem).phase) = Rank(mem.phase) + 1
        /\ Rank(Succeeded(cr).phase) = Rank(cr.phase) + 1
    BY <2>3, SucceededIs
  <2>6. Rank(cr.phase) \in Int
    <3>1. PICK i \in 1..29 : cr.phase = VeleroExportSteps[i]
      BY <2>3, StepsDomain DEF Resources, ExportPhases
    <3> QED BY <3>1, RankIs
  <2>7. Forward
    <3>1. mem = cr \/ (cr.phase \in IgnoreUpdateError /\ mem = Succeeded(cr))
      BY <1>2 DEF Control, Coherent
    <3> QED BY <2>1, <2>5, <2>6, <3>1 DEF Forward
  <2> QED BY <1>2, <2>1, <2>2, <2>4, <2>7
<1> QED BY <1>1, <1>2 DEF Control, ControlTypeOK

(* The end of a reconcile, once the resource has been written or not. *)
LEMMA ReturnSafe ==
  ASSUME Control, Return, Delivered', Forward, Final,
         budget' \in [Disturbances -> Nat],
         UNCHANGED historyVars
  PROVE  StepOK
<1>1. mem' \in Resources /\ ~Terminal(mem')
  BY NewExportIs DEF Return
<1>2. ControlTypeOK'
  BY <1>1 DEF Return, Delivered, Control, ControlTypeOK, historyVars
<1>3. Coherent'
  BY DEF Return, Delivered, Coherent
<1> QED BY <1>2, <1>3 DEF StepOK

(* The objects of a loop are namespaces or volumes. *)
LEMMA ItemsTyped ==
  ASSUME NEW c \in Resources
  PROVE  Items(c) \in SUBSET (Namespaces \union Volumes)
BY DEF Items, Annotated

(* A disturbance spends one of those allowed. *)
LEMMA SpendTyped ==
  ASSUME Control, NEW what \in Disturbances, Spend(what)
  PROVE  budget' \in [Disturbances -> Nat]
BY DEF Control, ControlTypeOK, Spend

-----------------------------------------------------------------------------
(* The ways a step of a handler ends.                                      *)

LEMMA AdvanceSafe == Control /\ pc # "idle" /\ Advance => StepOK
<1> SUFFICES ASSUME Control, pc # "idle", Advance PROVE StepOK
  OBVIOUS
<1> DEFINE c == Succeeded(mem)
<1>1. mem \in Resources /\ ~Terminal(mem)
  BY DEF Control, ControlTypeOK, Coherent
<1>2. c \in Resources /\ (mem.phase \in FallThrough => ~Terminal(c))
  BY <1>1, SucceededIs
<1> HIDE DEF c
<1>3. Write(c) /\ UNCHANGED <<cached, budget, historyVars>>
  BY DEF Advance, c
<1>4. /\ Delivered' /\ Forward /\ Final
      /\ fresh => cr' = c
  BY <1>2, <1>3, WriteSafe DEF c
<1>5. budget' \in [Disturbances -> Nat]
  BY <1>3 DEF Control, ControlTypeOK
<1>6. CASE Return
  BY <1>3, <1>4, <1>5, <1>6, ReturnSafe
<1>7. CASE mem.phase \in FallThrough /\ Enter(c) /\ UNCHANGED fresh
  <2>1. /\ pc' = "phase" /\ mem' = c /\ fresh' = fresh /\ todo' = Items(c)
        /\ todo' \in SUBSET (Namespaces \union Volumes)
    BY <1>2, <1>7, ItemsTyped DEF Enter
  <2>2. ControlTypeOK'
    BY <1>2, <1>3, <1>4, <1>5, <2>1
    DEF Control, ControlTypeOK, Delivered, historyVars
  <2>3. Coherent'
    <3>1. todo' \subseteq Items(mem)'
      BY <2>1 DEF Items, Annotated
    <3> QED BY <1>2, <1>4, <1>7, <2>1, <3>1 DEF Coherent, Delivered, Terminal
  <2> QED BY <1>4, <2>2, <2>3 DEF StepOK
<1> QED BY <1>6, <1>7 DEF Advance, c

LEMMA AdvanceForgetsSafe == Control /\ pc # "idle" /\ AdvanceForgets => StepOK
<1> SUFFICES ASSUME Control, pc # "idle", AdvanceForgets PROVE StepOK
  OBVIOUS
<1> DEFINE c == Succeeded(mem)
<1>1. mem \in Resources /\ ~Terminal(mem) /\ cr \in Resources /\ fresh
      /\ mem.phase \in IgnoreUpdateError
  BY DEF Control, ControlTypeOK, Coherent, AdvanceForgets
<1>2. mem.phase \in FallThrough
  BY <1>1 DEF IgnoreUpdateError, FallThrough
<1>3. c \in Resources /\ ~Terminal(c)
  BY <1>1, <1>2, SucceededIs
<1>4. mem = cr
  <2>1. ASSUME cr.phase \in IgnoreUpdateError, mem = Succeeded(cr)
        PROVE  FALSE
    <3>1. mem.phase = GetNextPhase(cr.phase, VeleroExportSteps)
      BY <1>1, <2>1 DEF Succeeded, Resources
    <3>2. mem.phase \in {"Prepare", "CleanUp"}
      BY <2>1, <3>1, NextOfPrecheck, NextOfCopy DEF IgnoreUpdateError
    <3> QED BY <1>1, <3>2 DEF IgnoreUpdateError
  <2> QED BY <1>1, <2>1 DEF Control, Coherent
<1>5. /\ pc' = "phase" /\ mem' = c /\ todo' \subseteq Items(mem)'
      /\ todo' \in SUBSET (Namespaces \union Volumes)
      /\ budget' \in [Disturbances -> Nat]
      /\ UNCHANGED <<cached, historyVars>>
  <2>1. todo' = Items(c) /\ mem' = c /\ pc' = "phase" /\ Spend("faults")
        /\ UNCHANGED <<cached, historyVars>>
    BY DEF AdvanceForgets, Enter, c
  <2>2. todo' \subseteq Items(mem)'
    BY <2>1 DEF Items, Annotated
  <2> QED BY <1>3, <2>1, <2>2, ItemsTyped, SpendTyped DEF Disturbances
<1>6. CASE UNCHANGED <<cr, watch, fresh>>
  <2>1. ControlTypeOK'
    BY <1>3, <1>5, <1>6 DEF Control, ControlTypeOK, historyVars
  <2>2. Coherent'
    BY <1>1, <1>3, <1>4, <1>5, <1>6 DEF Control, Coherent, c, Terminal, Succeeded
  <2> QED BY <1>6, <2>1, <2>2 DEF StepOK, Forward, Final
<1>7. CASE Write(c) /\ fresh' = FALSE
  <2>1. Delivered' /\ Forward /\ Final
    BY <1>3, <1>5, <1>7, WriteSafe DEF c
  <2>2. ControlTypeOK'
    BY <1>3, <1>5, <1>7, <2>1
    DEF Control, ControlTypeOK, Delivered, historyVars
  <2>3. Coherent'
    BY <1>3, <1>5, <1>7, <2>1 DEF Coherent, Delivered, Terminal
  <2> QED BY <2>1, <2>2, <2>3 DEF StepOK
<1> QED BY <1>6, <1>7 DEF AdvanceForgets, c

LEMMA FailSafe ==
  ASSUME Control, pc # "idle", Fail, budget' \in [Disturbances -> Nat]
  PROVE  StepOK
<1>1. FailedOn(mem) \in Resources /\ FailedOn(mem).phase = mem.phase
  BY FailedIs DEF Control, ControlTypeOK
<1>2. Write(FailedOn(mem)) /\ Return /\ UNCHANGED <<cached, historyVars>>
  BY DEF Fail
<1>3. Delivered' /\ Forward /\ Final
  BY <1>1, <1>2, WriteSafe
<1> QED BY <1>2, <1>3, ReturnSafe

LEMMA RequeueSafe ==
  ASSUME Control, Requeue, budget' \in [Disturbances -> Nat]
  PROVE  StepOK
<1>1. Return /\ UNCHANGED <<cr, cached, watch, historyVars>>
  BY DEF Requeue, resourceVars
<1>2. Delivered' /\ Forward /\ Final
  BY <1>1 DEF Control, ControlTypeOK, Coherent, Delivered, Forward, Final
<1> QED BY <1>1, <1>2, ReturnSafe

LEMMA SaveSafe ==
  ASSUME Control, pc # "idle", budget' \in [Disturbances -> Nat],
         NEW c \in Resources, c.phase = mem.phase, c.state = mem.state, Save(c)
  PROVE  StepOK
<1>1. CASE fresh
  <2>1. /\ Write(c) /\ mem' = c /\ pc' = "saved"
        /\ UNCHANGED <<cached, fresh, todo, historyVars>>
    BY <1>1 DEF Save
  <2>2. Delivered' /\ Forward /\ Final /\ cr' = c
    BY <1>1, <2>1, WriteSafe
  <2>3. ControlTypeOK'
    BY <2>1, <2>2 DEF Control, ControlTypeOK, Delivered, historyVars
  <2>4. Coherent'
    BY <2>1, <2>2 DEF Control, Coherent, Delivered, Terminal
  <2> QED BY <2>2, <2>3, <2>4 DEF StepOK
<1>2. CASE ~fresh
  BY <1>2, RequeueSafe DEF Save
<1> QED BY <1>1, <1>2 DEF Control, ControlTypeOK

(* The handler goes on, the resource and the worker's copy stay.           *)
LEMMA ContinueSafe ==
  ASSUME Control, pc # "idle", UNCHANGED <<cr, cached, watch, mem, fresh>>,
         pc' \in {"phase", "saved", "label", "timeout", "abort"},
         todo' \in SUBSET (Namespaces \union Volumes),
         pc' = "phase" => pc = "phase" /\ todo' \subseteq todo,
         budget' \in [Disturbances -> Nat],
         cleanedFrom' \in ExportPhases \union {"none", "stale"},
         swallowed' \in SUBSET Volumes
  PROVE  StepOK
<1>1. ControlTypeOK'
  BY DEF Control, ControlTypeOK
<1>2. Coherent'
  BY DEF Control, Coherent, Terminal, Items, Annotated
<1> QED BY <1>1, <1>2 DEF StepOK, Forward, Final

-----------------------------------------------------------------------------
(* The actions, on the control variables.                                  *)

(* The budget stays typed whether a step spends from it or not. *)
LEMMA BudgetTyped ==
  ASSUME Control,
         \/ UNCHANGED budget \/ Spend("faults")
         \/ Spend("conflicts") \/ Spend("crashes") \/ Spend("lags")
  PROVE  budget' \in [Disturbances -> Nat]
<1>1. {"faults", "conflicts", "crashes", "lags"} = Disturbances
  BY DEF Disturbances
<1> QED BY <1>1, SpendTyped DEF Control, ControlTypeOK

LEMMA PollStepSafe == Control /\ PollStep => StepOK
<1> SUFFICES ASSUME Control, PollStep PROVE StepOK
  OBVIOUS
<1> USE BudgetTyped
<1>1. CASE Created
  BY <1>1, AdvanceSafe, FailSafe DEF Created, At
<1>2. CASE Precheck
  BY <1>2, AdvanceSafe, AdvanceForgetsSafe, FailSafe DEF Precheck, At
<1>3. CASE WaitPrepareComplete
  BY <1>3, AdvanceSafe, RequeueSafe DEF WaitPrepareComplete, At
<1>4. ASSUME NEW phase, NEW test, Poll(phase, test) PROVE StepOK
  BY <1>4, AdvanceSafe, FailSafe DEF Poll, At
<1>5. CASE ReadFaults \/ ReadLags
  BY <1>5, FailSafe DEF ReadFaults, ReadLags
<1> QED
  BY <1>1, <1>2, <1>3, <1>4, <1>5
  DEF PollStep, CheckSnapshotReady, WaitPvcPodRunning, EnsurePvcPodCleaned,
      EnsurePvcsDeleted, EnsureRecreatePvcReady, WaitStagePodRunning

(* A call is made in the phase its handler is for. *)
LEMMA CallInPhase == \A i : Call(i) \/ Refused(i) => pc = "phase"
BY DEF Call, Refused, At

LEMMA LoopStepSafe == Control /\ LoopStep => StepOK
<1> SUFFICES ASSUME Control, NEW i \in todo,
                    \/ CallSucceeds(i) \/ CallRefused(i) \/ CallFaults(i) \/ CallLags(i)
                    \/ DeleteConflicts(i) \/ ContentConflicts(i)
                    \/ RetrySwallowed(i)
             PROVE  StepOK
  BY DEF LoopStep
<1> USE BudgetTyped
<1>1. todo \ {i} \in SUBSET (Namespaces \union Volumes)
  BY DEF Control, ControlTypeOK
<1>2. CASE CallSucceeds(i)
  <2>1. /\ pc = "phase" /\ pc' = pc /\ todo' = todo \ {i}
        /\ UNCHANGED <<cr, cached, watch, mem, fresh, budget, cleanedFrom, swallowed>>
    BY <1>2, CallInPhase DEF CallSucceeds, resourceVars, historyVars
  <2> QED BY <1>1, <2>1, ContinueSafe DEF Control, ControlTypeOK
<1>3. CASE CallRefused(i)
  BY <1>3, CallInPhase, FailSafe DEF CallRefused
<1>4. CASE CallFaults(i) \/ CallLags(i)
  BY <1>4, FailSafe DEF CallFaults, CallLags, At
<1>5. CASE DeleteConflicts(i)
  BY <1>5, FailSafe, RequeueSafe DEF DeleteConflicts, At
<1>6. CASE ContentConflicts(i)
  BY <1>6, RequeueSafe DEF ContentConflicts
<1>7. CASE RetrySwallowed(i)
  <2>1. /\ pc = "phase" /\ pc' = pc /\ todo' = todo \ {i}
        /\ swallowed' = swallowed \union {i} /\ cleanedFrom' = cleanedFrom
        /\ UNCHANGED <<cr, cached, watch, mem, fresh>>
    BY <1>7 DEF RetrySwallowed, At, resourceVars
  <2>2. i \in Volumes
    <3>1. mem.phase \in {"UpdateSnapshotContent", "UpdateSnapshotContentBack"}
      BY <1>7 DEF RetrySwallowed, At
    <3>2. Items(mem) \subseteq Volumes
      BY <3>1 DEF Items, Annotated, NamespacePhases, VolumePhases
    <3> QED BY <2>1, <3>2 DEF Control, Coherent
  <2> QED BY <1>1, <1>7, <2>1, <2>2, ContinueSafe
          DEF Control, ControlTypeOK, RetrySwallowed
<1> QED BY <1>2, <1>3, <1>4, <1>5, <1>6, <1>7

LEMMA LoopDoneSafe == Control /\ LoopDone => StepOK
BY AdvanceSafe DEF LoopDone

(* The annotations that CreateVolumeSnapshot and CheckPvcReady save, and   *)
(* the label that StartFileSystemCopy saves.                               *)
LEMMA SaveStepSafe == Control /\ SaveStep => StepOK
<1> SUFFICES ASSUME Control, SaveStep PROVE StepOK
  OBVIOUS
<1> USE BudgetTyped
<1>1. mem \in Resources
  BY DEF Control, ControlTypeOK
<1>2. ASSUME NEW ann \in [Namespaces -> {"none", "vs", "pv"}], pc # "idle",
             Save([mem EXCEPT !.ann = ann]), UNCHANGED budget
      PROVE  StepOK
  <2> DEFINE c == [mem EXCEPT !.ann = ann]
  <2>1. c \in Resources /\ c.phase = mem.phase /\ c.state = mem.state
    BY <1>1 DEF Resources
  <2> QED BY <1>2, <2>1, SaveSafe
<1>3. CASE SaveSnapshots
  <2> DEFINE ann == [n \in Namespaces |->
                       IF mem.ann[n] = "none" /\ VolumesIn(n) # {}
                         THEN "vs" ELSE mem.ann[n]]
  <2>1. ann \in [Namespaces -> {"none", "vs", "pv"}]
    BY <1>1 DEF Resources
  <2>2. CASE Save([mem EXCEPT !.ann = ann]) /\ UNCHANGED budget
    BY <1>2, <1>3, <2>1, <2>2 DEF SaveSnapshots, At
  <2>3. CASE Spend("faults") /\ Fail
    BY <1>3, <2>3, FailSafe DEF SaveSnapshots, At
  <2> QED BY <1>3, <2>2, <2>3 DEF SaveSnapshots
<1>4. CASE CheckPvcReady
  <2> DEFINE ann == [n \in Namespaces |->
                       IF mem.ann[n] = "none" THEN "none" ELSE "pv"]
  <2>1. ann \in [Namespaces -> {"none", "vs", "pv"}]
    OBVIOUS
  <2>2. CASE Save([mem EXCEPT !.ann = ann])
    BY <1>2, <1>4, <2>1, <2>2 DEF CheckPvcReady, At
  <2>3. CASE Fail
    BY <1>4, <2>3, FailSafe DEF CheckPvcReady, At
  <2> QED BY <1>4, <2>2, <2>3 DEF CheckPvcReady
<1>5. CASE CheckPvcReadyForgets
  <2> DEFINE failed == FailedOn(mem)
             done   == Succeeded(failed)
  <2>1. /\ pc # "idle" /\ fresh /\ Return
        /\ cr' = done /\ watch' = Append(Append(watch, failed), done)
        /\ UNCHANGED <<cached, historyVars>>
        /\ budget' \in [Disturbances -> Nat]
    BY <1>5 DEF CheckPvcReadyForgets, At
  <2>2. /\ failed \in Resources /\ failed.phase = mem.phase
        /\ ~Terminal(failed) /\ ~Terminal(cr)
        /\ cr \in Resources /\ cached \in Resources
    BY <1>1, <2>1, FailedIs DEF Control, Coherent, ControlTypeOK
  <2>3. done \in Resources /\ Rank(done.phase) = Rank(mem.phase) + 1
    BY <2>2, SucceededIs
  <2>4. Delivered'
    <3>1. Append(watch, failed) \in Seq(Resources)
      BY <2>2, AppendIs DEF Control, ControlTypeOK
    <3> HIDE DEF failed, done
    <3> QED BY <2>1, <2>2, <2>3, <3>1, AppendIs DEF Delivered
  <2>5. mem = cr
    <3>1. ASSUME cr.phase \in IgnoreUpdateError, mem = Succeeded(cr)
          PROVE  FALSE
      <4>1. mem.phase = GetNextPhase(cr.phase, VeleroExportSteps)
        BY <2>2, <3>1 DEF Succeeded, Resources
      <4>2. mem.phase = "CheckPvcReady"
        BY <1>5 DEF CheckPvcReadyForgets, At
      <4> QED BY <3>1, <4>1, <4>2, NextOfPrecheck, NextOfCopy
              DEF IgnoreUpdateError
    <3> QED BY <2>1, <3>1 DEF Control, Coherent
  <2>6. Forward
    BY <2>1, <2>3, <2>5 DEF Forward
  <2>7. Final
    BY <2>2 DEF Final
  <2> QED BY <2>1, <2>4, <2>6, <2>7, ReturnSafe
<1>6. CASE StartFileSystemCopy
  <2>1. /\ pc = "phase" /\ pc' = "label"
        /\ UNCHANGED <<cr, cached, watch, mem, fresh, todo, budget,
                       cleanedFrom, swallowed>>
    BY <1>6 DEF StartFileSystemCopy, At, resourceVars, historyVars
  <2> QED BY <2>1, ContinueSafe DEF Control, ControlTypeOK
<1>7. CASE SaveLabel
  <2> DEFINE c == [mem EXCEPT !.label = TRUE]
  <2>1. c \in Resources /\ c.phase = mem.phase /\ c.state = mem.state
    BY <1>1 DEF Resources
  <2> QED BY <1>7, <2>1, SaveSafe, FailSafe DEF SaveLabel
<1> QED BY <1>3, <1>4, <1>5, <1>6, <1>7 DEF SaveStep

LEMMA WaitCopySafe == Control /\ WaitFileSystemCopyComplete => StepOK
<1> SUFFICES ASSUME Control, WaitFileSystemCopyComplete PROVE StepOK
  OBVIOUS
<1>1. pc = "phase"
  BY DEF WaitFileSystemCopyComplete, At
<1>2. CASE Advance \/ AdvanceForgets
  BY <1>1, <1>2, AdvanceSafe, AdvanceForgetsSafe
<1>3. CASE Requeue /\ UNCHANGED budget
  BY <1>3, RequeueSafe, BudgetTyped
<1>4. CASE /\ pc' = "abort" /\ todo' = Namespaces \union Volumes
           /\ UNCHANGED <<resourceVars, mem, fresh, budget, historyVars>>
  BY <1>1, <1>4, ContinueSafe
  DEF Control, ControlTypeOK, resourceVars, historyVars
<1> QED BY <1>2, <1>3, <1>4 DEF WaitFileSystemCopyComplete

LEMMA CleanUpStepSafe == Control /\ CleanUpStep => StepOK
<1> SUFFICES ASSUME Control, CleanUpStep PROVE StepOK
  OBVIOUS
<1>1. ASSUME NEW n \in todo, CleanUpNamespace(n) PROVE StepOK
  BY <1>1, ContinueSafe
  DEF CleanUpNamespace, Control, ControlTypeOK, resourceVars, historyVars
<1>2. ASSUME NEW n \in todo, CleanUpConflicts(n) PROVE StepOK
  BY <1>2, RequeueSafe, BudgetTyped DEF CleanUpConflicts
<1>3. ASSUME NEW v \in todo, CleanUpVolume(v) PROVE StepOK
  BY <1>3, ContinueSafe
  DEF CleanUpVolume, Control, ControlTypeOK, resourceVars, historyVars
<1>4. CASE Cancel
  <2>1. ASSUME NEW c \in Resources, c.phase = mem.phase, Write(c), pc # "idle"
        PROVE  StepOK
    BY <1>4, <2>1, WriteSafe, ReturnSafe, BudgetTyped DEF Cancel
  <2>2. mem \in Resources
    BY DEF Control, ControlTypeOK
  <2>3. CASE pc = "timeout" /\ Write([mem EXCEPT !.state = StateCanceled])
    BY <2>1, <2>2, <2>3 DEF Resources
  <2>4. CASE pc = "abort" /\ Write(VeleroFailedOn(mem))
    <3>1. [mem EXCEPT !.state = StateVeleroFailed] \in Resources
      BY <2>2 DEF Resources
    <3>2. VeleroFailedOn(mem) \in Resources /\ VeleroFailedOn(mem).phase = mem.phase
      BY <2>2, <3>1, FailedIs DEF VeleroFailedOn, Resources
    <3> QED BY <2>1, <2>4, <3>2
  <2> QED BY <1>4, <2>3, <2>4 DEF Cancel
<1> QED BY <1>1, <1>2, <1>3, <1>4 DEF CleanUpStep

(* Reconcile starts from the informer's copy. *)
LEMMA BeginSafe == Control /\ (Begin \/ BeginTimeout) => StepOK
<1> SUFFICES ASSUME Control, Begin \/ BeginTimeout PROVE StepOK
  OBVIOUS
<1>1. /\ mem' = cached /\ ~Terminal(cached) /\ cached \in Resources
      /\ fresh' = (watch = <<>>) /\ pc' # "idle"
      /\ UNCHANGED <<cr, cached, watch, budget, swallowed>>
  BY DEF Begin, BeginTimeout, Enter, resourceVars, historyVars, Control, ControlTypeOK
<1>2. fresh' => mem' = cr'
  BY <1>1 DEF Control, Coherent
<1>3. /\ pc' \in {"phase", "timeout"}
      /\ todo' \in SUBSET (Namespaces \union Volumes)
      /\ pc' = "phase" => todo' = Items(cached)
      /\ cleanedFrom' \in ExportPhases \union {"none", "stale"}
  <2>1. CASE Begin
    BY <1>1, <2>1, ItemsTyped DEF Begin, Enter, historyVars, Control, ControlTypeOK
  <2>2. CASE BeginTimeout
    BY <1>1, <2>2 DEF BeginTimeout, Control, ControlTypeOK, Resources
  <2> QED BY <2>1, <2>2
<1>4. ControlTypeOK'
  BY <1>1, <1>3 DEF Control, ControlTypeOK
<1>5. Coherent'
  <2>1. todo' = Items(cached) => todo' \subseteq Items(mem)'
    BY <1>1 DEF Items, Annotated
  <2> QED BY <1>1, <1>2, <1>3, <2>1 DEF Control, Coherent, Terminal
<1> QED BY <1>1, <1>4, <1>5 DEF StepOK, Forward, Final

(* The informer and the other clients of the API server. *)
LEMMA OthersSafe ==
  Control /\ (CacheSync \/ UserTouch \/ Crash \/ Unreachable) => StepOK
<1> SUFFICES ASSUME Control, CacheSync \/ UserTouch \/ Crash \/ Unreachable
             PROVE  StepOK
  OBVIOUS
<1> USE BudgetTyped
<1>1. CASE CacheSync
  <2>1. /\ cached' = Head(watch) /\ watch' = Tail(watch) /\ watch # <<>>
        /\ UNCHANGED <<cr, pc, mem, fresh, todo, budget, cleanedFrom, swallowed>>
    BY <1>1 DEF CacheSync, workerVars, historyVars
  <2>2. watch \in Seq(Resources) /\ cr = watch[Len(watch)]
    BY <2>1 DEF Control, ControlTypeOK, Coherent
  <2>3. /\ cached' \in Resources /\ watch' \in Seq(Resources)
        /\ cr' = IF watch' = <<>> THEN cached' ELSE watch'[Len(watch')]
    BY <2>1, <2>2, TailIs
  <2>4. ControlTypeOK'
    BY <2>1, <2>3 DEF Control, ControlTypeOK
  <2>5. Coherent'
    BY <2>1, <2>3 DEF Control, Coherent, Terminal, Items, Annotated
  <2> QED BY <2>1, <2>4, <2>5 DEF StepOK, Forward, Final
<1>2. CASE UserTouch
  <2>1. /\ watch' = Append(watch, cr) /\ fresh' = FALSE
        /\ UNCHANGED <<cr, cached, pc, mem, todo, cleanedFrom, swallowed>>
        /\ budget' \in [Disturbances -> Nat]
    BY <1>2 DEF UserTouch, historyVars
  <2>2. /\ watch' \in Seq(Resources)
        /\ cr' = IF watch' = <<>> THEN cached' ELSE watch'[Len(watch')]
    BY <2>1, AppendIs DEF Control, ControlTypeOK
  <2>3. ControlTypeOK'
    BY <2>1, <2>2 DEF Control, ControlTypeOK
  <2>4. Coherent'
    BY <2>1, <2>2 DEF Control, Coherent, Terminal, Items, Annotated
  <2> QED BY <2>1, <2>3, <2>4 DEF StepOK, Forward, Final
<1>3. CASE Crash
  <2>1. /\ Return /\ UNCHANGED <<cr, historyVars>>
        /\ cached' = cr /\ watch' = <<>>
        /\ budget' \in [Disturbances -> Nat]
    BY <1>3 DEF Crash
  <2>2. Delivered' /\ Forward /\ Final
    BY <2>1 DEF Control, ControlTypeOK, Delivered, Forward, Final
  <2> QED BY <2>1, <2>2, ReturnSafe
<1>4. CASE Unreachable
  BY <1>4, RequeueSafe DEF Unreachable
<1> QED BY <1>1, <1>2, <1>3, <1>4

(* The clock ages every copy alike. *)
LEMMA TimePassesSafe == Control /\ TimePasses => StepOK
<1> SUFFICES ASSUME Control, TimePasses PROVE StepOK
  OBVIOUS
<1>1. /\ cr' = Aged(cr) /\ cached' = Aged(cached) /\ mem' = Aged(mem)
      /\ watch' = [i \in DOMAIN watch |-> Aged(watch[i])]
      /\ UNCHANGED <<pc, fresh, todo, budget, cleanedFrom, swallowed>>
  BY DEF TimePasses, historyVars
<1>2. /\ cr \in Resources /\ cached \in Resources /\ mem \in Resources
      /\ watch \in Seq(Resources)
  BY DEF Control, ControlTypeOK
<1>3. /\ cr' \in Resources /\ cached' \in Resources /\ mem' \in Resources
      /\ cr'.phase = cr.phase /\ cr'.state = cr.state
      /\ mem'.phase = mem.phase /\ mem'.state = mem.state
  BY <1>1, <1>2, AgedIs
<1>4. /\ watch' \in Seq(Resources) /\ Len(watch') = Len(watch)
      /\ watch # <<>> => watch' # <<>> /\ watch'[Len(watch')] = Aged(watch[Len(watch)])
      /\ watch = <<>> => watch' = <<>>
  <2>1. DOMAIN watch = 1..Len(watch) /\ Len(watch) \in Nat
    BY <1>2
  <2>2. \A i \in 1..Len(watch) : watch[i] \in Resources
    BY <1>2
  <2>3. \A i \in 1..Len(watch) : Aged(watch[i]) \in Resources
    BY <2>2, AgedIs
  <2>4. watch' = [i \in 1..Len(watch) |-> Aged(watch[i])]
    BY <1>1, <2>1
  <2>5. watch' \in Seq(Resources) /\ Len(watch') = Len(watch)
    BY <2>1, <2>3, <2>4
  <2> QED BY <1>2, <2>1, <2>4, <2>5
<1>5. ControlTypeOK'
  BY <1>1, <1>3, <1>4 DEF Control, ControlTypeOK
<1>6. Coherent'
  <2>1. cr' = IF watch' = <<>> THEN cached' ELSE watch'[Len(watch')]
    BY <1>1, <1>4 DEF Control, Coherent
  <2>2. Items(mem)' = Items(mem)
    BY <1>1, <1>2 DEF Items, Annotated, Aged, Resources
  <2>3. Aged(Succeeded(cr)) = Succeeded(cr) /\ Succeeded(Aged(cr)) = Succeeded(cr)
    BY <1>2 DEF Aged, Succeeded, Resources
  <2>4. fresh' => \/ mem' = cr'
                  \/ cr'.phase \in IgnoreUpdateError /\ mem' = Succeeded(cr')
    BY <1>1, <1>3, <2>3 DEF Control, Coherent
  <2> QED BY <1>1, <1>3, <2>1, <2>2, <2>4 DEF Control, Coherent, Terminal
<1> QED BY <1>1, <1>3, <1>5, <1>6 DEF StepOK, Forward, Final

(* A step that leaves the control variables alone. *)
LEMMA StutterSafe ==
  Control /\ UNCHANGED <<resourceVars, workerVars, budget, historyVars>> => StepOK
BY DEF Control, ControlTypeOK, Coherent, StepOK, Forward, Final, Terminal,
   Items, Annotated, resourceVars, workerVars, historyVars

LEMMA ControlStep == Control /\ [Next]_vars => StepOK
<1> SUFFICES ASSUME Control, [Next]_vars PROVE StepOK
  OBVIOUS
<1>1. CASE Worker
  <2>1. CASE ReconcileTerminal
    BY <2>1, StutterSafe DEF ReconcileTerminal, vars
  <2> QED
    BY <1>1, <2>1, BeginSafe, PollStepSafe, LoopStepSafe, LoopDoneSafe,
       SaveStepSafe, WaitCopySafe, CleanUpStepSafe DEF Worker
<1>2. CASE EnvironmentStep
  BY <1>2, StutterSafe DEF EnvironmentStep
<1>3. CASE UNCHANGED vars
  BY <1>3, StutterSafe DEF vars
<1> QED BY <1>1, <1>2, <1>3, OthersSafe, TimePassesSafe DEF Next

-----------------------------------------------------------------------------
(* The actions, on the cluster.                                            *)
LEMMA ClusterStep == ClusterTypeOK /\ [Next]_vars => ClusterTypeOK'
<1> SUFFICES ASSUME ClusterTypeOK, [Next]_vars PROVE ClusterTypeOK'
  OBVIOUS
<1>1. ASSUME UNCHANGED clusterVars PROVE ClusterTypeOK'
  BY <1>1, OtherCallsTyped, TRUE \in BOOLEAN
<1>2. ASSUME NEW i, Call(i) PROVE ClusterTypeOK'
  BY <1>2, CallTyped
<1>3. ASSUME NEW i, NEW recover \in BOOLEAN,
             \/ AsyncDeleteNamespace(i) \/ ClearPV(i) \/ EnsureVeleroBackup
             \/ UpdateContentRef(i, recover) \/ UpdateContentSwallowed(i, recover)
      PROVE  ClusterTypeOK'
  BY <1>3, OtherCallsTyped
<1>4. CASE Begin \/ BeginTimeout \/ ReconcileTerminal \/ PollStep \/ LoopDone
           \/ WaitFileSystemCopyComplete
  BY <1>1, <1>4
  DEF Begin, BeginTimeout, ReconcileTerminal, vars, PollStep, LoopDone,
      WaitFileSystemCopyComplete
<1>5. CASE LoopStep
  <2>1. PICK i \in todo :
          \/ CallSucceeds(i) \/ CallRefused(i) \/ CallFaults(i) \/ CallLags(i)
          \/ DeleteConflicts(i) \/ ContentConflicts(i) \/ RetrySwallowed(i)
    BY <1>5 DEF LoopStep
  <2> QED
    BY <1>1, <1>2, <1>3, <2>1
    DEF CallSucceeds, CallRefused, CallFaults, CallLags, DeleteConflicts,
        ContentConflicts, RetrySwallowed
<1>6. CASE SaveStep
  BY <1>1, <1>3, <1>6
  DEF SaveStep, SaveSnapshots, CheckPvcReady, CheckPvcReadyForgets,
      StartFileSystemCopy, SaveLabel
<1>7. CASE CleanUpStep
  BY <1>1, <1>3, <1>7
  DEF CleanUpStep, CleanUpNamespace, CleanUpConflicts, CleanUpVolume, Cancel
<1>8. CASE EnvironmentStep
  BY <1>8, EnvironmentTyped DEF EnvironmentStep
<1>9. CASE Unreachable \/ CacheSync \/ UserTouch \/ Crash \/ TimePasses
  BY <1>1, <1>9 DEF Unreachable, CacheSync, UserTouch, Crash, TimePasses
<1>10. CASE UNCHANGED vars
  BY <1>1, <1>10 DEF vars
<1> QED
  BY <1>4, <1>5, <1>6, <1>7, <1>8, <1>9, <1>10 DEF Next, Worker

-----------------------------------------------------------------------------
(* The initial states.                                                     *)
LEMMA InitTyped == Init => ClusterTypeOK /\ Control
<1> SUFFICES ASSUME Init PROVE ClusterTypeOK /\ Control
  OBVIOUS
<1>1. ClusterTypeOK
  BY DEF Init, ClusterInit, ClusterTypeOK, NsStates, PodStates, Snapshots,
     VolumeClaims
<1>2. budget \in [Disturbances -> Nat]
  BY BoundsAssumption DEF Init, Disturbances
<1>3. ControlTypeOK
  BY <1>2, NewExportIs, EmptySeq DEF Init, ControlTypeOK
<1>4. Coherent
  BY DEF Init, Coherent
<1> QED BY <1>1, <1>3, <1>4 DEF Control

(* The inductive invariant: the types of all the variables, and the        *)
(* agreement of the worker's and the informer's copies with the resource   *)
(* (without which a write could make any change to the resource).          *)
THEOREM Invariance == Spec => [](ClusterTypeOK /\ Control)
<1>1. ClusterTypeOK /\ Control /\ [Next]_vars => (ClusterTypeOK /\ Control)'
  BY ControlStep, ClusterStep DEF StepOK, Control
<1> QED BY <1>1, InitTyped, PTL DEF Spec

(* Every variable keeps its type, whatever the cluster, the API server and *)
(* the clock do.                                                           *)
THEOREM TypeCorrect == Spec => []TypeOK
<1>1. ClusterTypeOK /\ Control => TypeOK
  BY DEF Control, TypeOK
<1> QED BY <1>1, Invariance, PTL

(* A copy of the resource with a current resourceVersion is the resource   *)
(* (or one forgotten update ahead), and what the informer will have        *)
(* received is the resource: optimistic concurrency in r.Status().Update.  *)
THEOREM CopiesAreCoherent == Spec => []Coherent
<1>1. ClusterTypeOK /\ Control => Coherent
  BY DEF Control
<1> QED BY <1>1, Invariance, PTL

(* No handler, whatever stale copy it works on, takes the resource back to *)
(* an earlier phase or past a phase whose handler has not run (nextPhase). *)
THEOREM PhasesAdvance == Spec => PhaseNeverRegresses
<1>1. Control /\ [Next]_vars =>
        [cr'.phase # cr.phase =>
           \/ Rank(cr'.phase) = Rank(cr.phase) + 1
           \/ /\ cr.phase \in IgnoreUpdateError
              /\ Rank(cr'.phase) = Rank(cr.phase) + 2]_vars
  BY ControlStep DEF StepOK, Forward
<1> QED BY <1>1, Invariance, PTL DEF Spec, PhaseNeverRegresses

(* No handler changes a completed, canceled or VeleroFailed resource.      *)
THEOREM TerminalStays == Spec => TerminalIsFinal
<1>1. Control /\ [Next]_vars => [Terminal(cr) => cr' \in {cr, Aged(cr)}]_vars
  BY ControlStep DEF StepOK, Final
<1> QED BY <1>1, Invariance, PTL DEF Spec, TerminalIsFinal

-----------------------------------------------------------------------------
(* The copies of the resource.                                             *)

-----------------------------------------------------------------------------
(* Places of the phases.                                                   *)

(* Where each phase is in the list of steps. *)
LEMMA RankTable ==
  /\ Rank(PhaseCreated) = 1
  /\ Rank("Precheck") = 2
  /\ Rank("Prepare") = 3
  /\ Rank("WaitPrepareComplete") = 4
  /\ Rank("CreateTempNamespace") = 5
  /\ Rank("CreateVolumeSnapshot") = 6
  /\ Rank("UpdateSnapshotContent") = 7
  /\ Rank("CheckSnapshotReady") = 8
  /\ Rank("CreatePvc") = 9
  /\ Rank("CreatePvcPod") = 10
  /\ Rank("WaitPvcPodRunning") = 11
  /\ Rank("CheckPvcReady") = 12
  /\ Rank("CleanPvcPod") = 13
  /\ Rank("EnsurePvcPodCleaned") = 14
  /\ Rank("UpdatePvClaimRetain") = 15
  /\ Rank("DeletePvc") = 16
  /\ Rank("EnsurePvcDeleted") = 17
  /\ Rank("RecreatePvc") = 18
  /\ Rank("UpdatePvClaimRef") = 19
  /\ Rank("EnsureRecreatePvcReady") = 20
  /\ Rank("UpdatePvClaimDelete") = 21
  /\ Rank("UpdateSnapshotContentBack") = 22
  /\ Rank("DeleteVolumeSnapshot") = 23
  /\ Rank("CreateStagePod") = 24
  /\ Rank("WaitStagePodRunning") = 25
  /\ Rank("StartFileSystemCopy") = 26
  /\ Rank("WaitFileSystemCopyComplete") = 27
  /\ Rank("CleanUp") = 28
  /\ Rank(PhaseCompleted) = 29
<1>1. \A i \in 1..29 : Rank(VeleroExportSteps[i]) = i
  BY RankIs
<1> QED BY <1>1, StepsAre

(* Every phase has a place, and no two phases have the same one. *)
LEMMA RankTyped ==
  /\ \A p \in ExportPhases : Rank(p) \in 1..29
  /\ \A p, q \in ExportPhases : Rank(p) = Rank(q) => p = q
<1>1. \A p \in ExportPhases :
        Rank(p) \in 1..29 /\ p = VeleroExportSteps[Rank(p)]
  <2> SUFFICES ASSUME NEW p \in ExportPhases
               PROVE  Rank(p) \in 1..29 /\ p = VeleroExportSteps[Rank(p)]
    OBVIOUS
  <2>1. PICK i \in 1..29 : p = VeleroExportSteps[i]
    BY StepsDomain DEF ExportPhases
  <2> QED BY <2>1, RankIs
<1> QED BY <1>1

(* The phases a reconcile cannot go beyond. *)
Stops == ExportPhases \ FallThrough

LEMMA StopsAre ==
  /\ {"CreateVolumeSnapshot", "CreatePvc", "CreatePvcPod", "CheckPvcReady",
      "CleanPvcPod", "EnsurePvcPodCleaned", "UpdatePvClaimRetain", "DeletePvc",
      "EnsurePvcDeleted", "RecreatePvc", "UpdatePvClaimRef",
      "EnsureRecreatePvcReady", "UpdatePvClaimDelete", "CreateStagePod",
      "StartFileSystemCopy", "CleanUp"} \subseteq Stops
  /\ Stops \subseteq ExportPhases
  /\ IgnoreUpdateError \subseteq ExportPhases \ Stops
<1>1. \A i \in 1..29 : VeleroExportSteps[i] \in ExportPhases
  BY StepsDomain DEF ExportPhases
<1>2. {"Precheck", "WaitFileSystemCopyComplete", "CreateVolumeSnapshot",
       "CreatePvc", "CreatePvcPod", "CheckPvcReady",
      "CleanPvcPod", "EnsurePvcPodCleaned", "UpdatePvClaimRetain", "DeletePvc",
      "EnsurePvcDeleted", "RecreatePvc", "UpdatePvClaimRef",
      "EnsureRecreatePvcReady", "UpdatePvClaimDelete", "CreateStagePod",
      "StartFileSystemCopy", "CleanUp"} \subseteq ExportPhases
  BY <1>1, StepsAre
<1> QED BY <1>2 DEF Stops, FallThrough, PhaseCreated, IgnoreUpdateError

(* A reconcile that begins in phase p can come to a status update in phase *)
(* q, ...                                                                  *)
Reaches(p, q) == \A s \in Stops : Rank(p) <= Rank(s) => Rank(q) <= Rank(s)

(* ... and can leave the resource in phase q. *)
Lags(p, q) ==
  /\ Rank(p) <= Rank(q)
  /\ \A s \in Stops : Rank(p) <= Rank(s) => Rank(q) <= Rank(s) + 1

(* No copy is more than one reconcile old. *)
LEMMA LagsAre ==
  ASSUME NEW p, NEW q, Lags(p, q)
  PROVE  /\ Rank(p) <= Rank(q)
         /\ \A k \in {6, 9, 10, 24, 26, 28} \union 12..21 :
              Rank(p) <= k => Rank(q) <= k + 1
<1>1. \A k \in {6, 9, 10, 24, 26, 28} \union 12..21 :
        \E s \in Stops : Rank(s) = k
  BY RankTable, StopsAre
<1> QED BY <1>1 DEF Lags

-----------------------------------------------------------------------------
(* What a step does to the resource and to the worker.                     *)

(* The condition under which the handler of the worker's phase reports     *)
(* success.                                                                *)
HandlerDone ==
  /\ mem.phase \in {"CreateVolumeSnapshot", "CheckPvcReady", "StartFileSystemCopy"}
       => \/ pc = "saved"
          \/ mem.phase = "CheckPvcReady" /\ \A v \in Annotated(mem) : CheckPVCReady(v)
  /\ pc \in {"phase", "saved"}
  /\ pc = "phase" /\ mem.phase \in NamespacePhases \union VolumePhases => todo = {}
  /\ mem.phase = "EnsurePvcPodCleaned" =>
       \A n \in Namespaces : EnsureStagePodCleaned(n)
  /\ mem.phase = "EnsurePvcDeleted" =>
       \A n \in Namespaces : mem.ann[n] # "none" => EnsurePvcDeleted(n)
  /\ mem.phase = "EnsureRecreatePvcReady" =>
       \A v \in Annotated(mem) : CheckPVCReady(v)
  /\ mem.phase = "WaitStagePodRunning" =>
       \A n \in Namespaces : GetStagePodStatus(n)
  /\ mem.phase = "WaitFileSystemCopyComplete" => backup = "completed"

Advancing == Advance /\ HandlerDone /\ UNCHANGED clusterVars

Forgetting == AdvanceForgets /\ HandlerDone /\ UNCHANGED clusterVars

Failing == pc \in {"phase", "label"} /\ Fail

Requeueing == pc # "idle" /\ Requeue

(* A handler saves annotations, or the label, in the resource. *)
Saving ==
  /\ fresh /\ UNCHANGED clusterVars
  /\ \/ /\ At("CreateVolumeSnapshot") /\ todo = {}
        /\ Save([mem EXCEPT !.ann =
                   [n \in Namespaces |-> IF @[n] = "none" /\ VolumesIn(n) # {}
                                           THEN "vs" ELSE @[n]]])
     \/ /\ At("CheckPvcReady") /\ \A v \in Annotated(mem) : CheckPVCReady(v)
        /\ Save([mem EXCEPT !.ann = [n \in Namespaces |->
                    IF @[n] = "none" THEN "none" ELSE "pv"]])
     \/ pc = "label" /\ Save([mem EXCEPT !.label = TRUE])

(* The handler goes on with the same copy. *)
Continuing ==
  /\ UNCHANGED <<cr, cached, watch, mem, fresh, cleanedFrom>>
  /\ swallowed \subseteq swallowed'
  /\ \/ /\ pc = "phase" /\ pc' = "phase" /\ mem.phase \in NamespacePhases \union VolumePhases
        /\ \E i \in todo : todo' = todo \ {i}
     \/ pc \in {"timeout", "abort"} /\ pc' = pc /\ \E i \in todo : todo' = todo \ {i}
     \/ At("StartFileSystemCopy") /\ pc' = "label" /\ UNCHANGED todo
     \/ /\ At("WaitFileSystemCopyComplete") /\ pc' = "abort"
        /\ backup = "failed" /\ UNCHANGED backup

Resting == UNCHANGED <<resourceVars, workerVars, historyVars>>

StepKind ==
  \/ Advancing \/ Forgetting \/ Failing \/ Requeueing \/ Saving \/ Continuing
  \/ CheckPvcReadyForgets \/ Cancel \/ Begin \/ BeginTimeout
  \/ CacheSync \/ UserTouch \/ Crash \/ TimePasses \/ Resting

(* Which phases are loops, and which are not. *)
LEMMA LoopPhases ==
  /\ {PhaseCreated, "Precheck", "WaitPrepareComplete", "CheckSnapshotReady",
      "WaitPvcPodRunning", "EnsurePvcPodCleaned", "EnsurePvcDeleted",
      "EnsureRecreatePvcReady", "WaitStagePodRunning",
      "WaitFileSystemCopyComplete", "CheckPvcReady", "StartFileSystemCopy"}
        \cap (NamespacePhases \union VolumePhases) = {}
  /\ "CreateVolumeSnapshot" \in VolumePhases
BY DEF NamespacePhases, VolumePhases, PhaseCreated

(* A copy with the worker is saved only in the three phases that save. *)
SavedPhases ==
  /\ pc = "label" => mem.phase = "StartFileSystemCopy"
  /\ pc = "saved" => mem.phase \in {"CreateVolumeSnapshot", "CheckPvcReady",
                                    "StartFileSystemCopy"}
  /\ pc = "abort" => mem.phase = "WaitFileSystemCopyComplete"

LEMMA PollKind == PollStep => StepKind
<1> SUFFICES ASSUME PollStep PROVE StepKind
  OBVIOUS
<1>1. UNCHANGED clusterVars
  BY DEF PollStep
<1>2. ASSUME NEW phase \in {PhaseCreated, "WaitPrepareComplete", "CheckSnapshotReady",
                            "WaitPvcPodRunning"},
             At(phase), Advance
      PROVE  StepKind
  BY <1>1, <1>2, LoopPhases
  DEF At, StepKind, Advancing, HandlerDone, PhaseCreated
<1>3. CASE Created
  BY <1>2, <1>3 DEF Created, At, StepKind, Failing
<1>4. CASE Precheck
  <2>1. ASSUME Advance \/ AdvanceForgets PROVE HandlerDone
    BY <1>4, LoopPhases DEF Precheck, At, HandlerDone
  <2> QED BY <1>1, <1>4, <2>1 DEF Precheck, At, StepKind, Failing, Advancing, Forgetting
<1>5. CASE WaitPrepareComplete
  BY <1>2, <1>5 DEF WaitPrepareComplete, At, StepKind, Requeueing
<1>6. CASE CheckSnapshotReady
  BY <1>2, <1>6 DEF CheckSnapshotReady, Poll, At, StepKind, Failing
<1>7. CASE WaitPvcPodRunning
  BY <1>2, <1>7 DEF WaitPvcPodRunning, Poll, At, StepKind, Failing
<1>8. CASE EnsurePvcPodCleaned
  <2>1. CASE Advance /\ \A n \in Namespaces : EnsureStagePodCleaned(n)
    <3>1. HandlerDone
      BY <1>8, <2>1, LoopPhases DEF EnsurePvcPodCleaned, Poll, At, HandlerDone
    <3> QED BY <1>1, <2>1, <3>1 DEF StepKind, Advancing
  <2> QED BY <1>8, <2>1 DEF EnsurePvcPodCleaned, Poll, At, StepKind, Failing
<1>9. CASE EnsurePvcsDeleted
  <2>1. CASE Advance /\ \A n \in Namespaces : mem.ann[n] # "none" => EnsurePvcDeleted(n)
    <3>1. HandlerDone
      BY <1>9, <2>1, LoopPhases DEF EnsurePvcsDeleted, Poll, At, HandlerDone
    <3> QED BY <1>1, <2>1, <3>1 DEF StepKind, Advancing
  <2> QED BY <1>9, <2>1 DEF EnsurePvcsDeleted, Poll, At, StepKind, Failing
<1>10. CASE EnsureRecreatePvcReady
  <2>1. CASE Advance /\ \A v \in Annotated(mem) : CheckPVCReady(v)
    <3>1. HandlerDone
      BY <1>10, <2>1, LoopPhases DEF EnsureRecreatePvcReady, Poll, At, HandlerDone
    <3> QED BY <1>1, <2>1, <3>1 DEF StepKind, Advancing
  <2> QED BY <1>10, <2>1 DEF EnsureRecreatePvcReady, Poll, At, StepKind, Failing
<1>11. CASE WaitStagePodRunning
  <2>1. CASE Advance /\ \A n \in Namespaces : GetStagePodStatus(n)
    <3>1. HandlerDone
      BY <1>11, <2>1, LoopPhases DEF WaitStagePodRunning, Poll, At, HandlerDone
    <3> QED BY <1>1, <2>1, <3>1 DEF StepKind, Advancing
  <2> QED BY <1>11, <2>1 DEF WaitStagePodRunning, Poll, At, StepKind, Failing
<1>12. CASE ReadFaults \/ ReadLags
  BY <1>12 DEF ReadFaults, ReadLags, StepKind, Failing
<1> QED
  BY <1>3, <1>4, <1>5, <1>6, <1>7, <1>8, <1>9, <1>10, <1>11, <1>12 DEF PollStep

(* Calls are made in the loops. *)
LEMMA CallInLoop ==
  \A i : Call(i) \/ Refused(i) =>
    pc = "phase" /\ mem.phase \in NamespacePhases \union VolumePhases
BY DEF Call, Refused, At, NamespacePhases, VolumePhases

LEMMA LoopKind == LoopStep => StepKind
<1> SUFFICES ASSUME NEW i \in todo,
                    \/ CallSucceeds(i) \/ CallRefused(i) \/ CallFaults(i) \/ CallLags(i)
                    \/ DeleteConflicts(i) \/ ContentConflicts(i)
                    \/ RetrySwallowed(i)
             PROVE  StepKind
  BY DEF LoopStep
<1>1. CASE CallSucceeds(i)
  <2>1. Continuing
    BY <1>1, CallInLoop DEF CallSucceeds, Continuing, resourceVars, historyVars
  <2> QED BY <2>1 DEF StepKind
<1>2. CASE CallRefused(i) \/ CallFaults(i) \/ CallLags(i)
  BY <1>2, CallInLoop DEF CallRefused, CallFaults, CallLags, At, StepKind, Failing
<1>3. CASE DeleteConflicts(i) \/ ContentConflicts(i)
  BY <1>3 DEF DeleteConflicts, ContentConflicts, At, StepKind, Failing, Requeueing
<1>4. CASE RetrySwallowed(i)
  <2>1. pc = "phase" /\ mem.phase \in VolumePhases
    BY <1>4 DEF RetrySwallowed, At, VolumePhases
  <2>2. Continuing
    BY <1>4, <2>1 DEF RetrySwallowed, Continuing, resourceVars
  <2> QED BY <2>2 DEF StepKind
<1> QED BY <1>1, <1>2, <1>3, <1>4

LEMMA LoopDoneKind == SavedPhases /\ LoopDone => StepKind
<1> SUFFICES ASSUME SavedPhases, LoopDone PROVE HandlerDone
  BY DEF LoopDone, StepKind, Advancing
<1> QED BY LoopPhases DEF LoopDone, HandlerDone, SavedPhases

LEMMA SaveKind == SaveStep => StepKind
<1> SUFFICES ASSUME SaveStep PROVE StepKind
  OBVIOUS
<1>1. ASSUME NEW c, Save(c), ~fresh, pc # "idle" PROVE StepKind
  BY <1>1 DEF Save, StepKind, Requeueing
<1>2. CASE SaveSnapshots
  <2>1. CASE fresh
    BY <1>2, <2>1 DEF SaveSnapshots, At, StepKind, Saving, Failing
  <2>2. CASE ~fresh
    BY <1>1, <1>2, <2>2 DEF SaveSnapshots, At, StepKind, Failing
  <2> QED BY <2>1, <2>2
<1>3. CASE CheckPvcReady
  <2>1. CASE fresh
    BY <1>3, <2>1 DEF CheckPvcReady, At, StepKind, Saving, Failing
  <2>2. CASE ~fresh
    BY <1>1, <1>3, <2>2 DEF CheckPvcReady, At, StepKind, Failing
  <2> QED BY <2>1, <2>2
<1>4. CASE StartFileSystemCopy
  BY <1>4 DEF StartFileSystemCopy, At, StepKind, Continuing, resourceVars, historyVars
<1>5. CASE SaveLabel
  <2>1. CASE fresh
    BY <1>5, <2>1 DEF SaveLabel, StepKind, Saving, Failing
  <2>2. CASE ~fresh
    BY <1>1, <1>5, <2>2 DEF SaveLabel, StepKind, Failing
  <2> QED BY <2>1, <2>2
<1> QED BY <1>2, <1>3, <1>4, <1>5 DEF SaveStep, StepKind

LEMMA WaitCopyKind == WaitFileSystemCopyComplete => StepKind
<1> SUFFICES ASSUME WaitFileSystemCopyComplete PROVE StepKind
  OBVIOUS
<1>1. CASE backup = "completed" /\ (Advance \/ AdvanceForgets)
  <2>1. HandlerDone
    BY <1>1, LoopPhases DEF WaitFileSystemCopyComplete, At, HandlerDone
  <2> QED BY <1>1, <2>1 DEF WaitFileSystemCopyComplete, StepKind, Advancing, Forgetting
<1>2. CASE backup = "failed" /\ pc' = "abort" /\ UNCHANGED <<resourceVars, mem, fresh, historyVars>>
  BY <1>2 DEF WaitFileSystemCopyComplete, At, StepKind, Continuing, resourceVars,
              historyVars, clusterVars
<1>3. CASE Requeue
  BY <1>3 DEF WaitFileSystemCopyComplete, At, StepKind, Requeueing
<1> QED BY <1>1, <1>2, <1>3 DEF WaitFileSystemCopyComplete

LEMMA CleanUpKind == CleanUpStep => StepKind
BY DEF CleanUpStep, CleanUpNamespace, CleanUpConflicts, CleanUpVolume,
       StepKind, Requeueing, Continuing, resourceVars, historyVars

LEMMA StepKinds == SavedPhases /\ [Next]_vars => StepKind
<1> SUFFICES ASSUME SavedPhases, [Next]_vars PROVE StepKind
  OBVIOUS
<1>1. CASE Worker
  BY <1>1, PollKind, LoopKind, LoopDoneKind, SaveKind, WaitCopyKind, CleanUpKind
  DEF Worker, StepKind, ReconcileTerminal, vars, Resting
<1>2. CASE EnvironmentStep
  BY <1>2 DEF EnvironmentStep, StepKind, Resting
<1>3. CASE UNCHANGED vars
  BY <1>3 DEF vars, StepKind, Resting
<1>4. CASE Unreachable
  BY <1>4 DEF Unreachable, StepKind, Requeueing
<1> QED BY <1>1, <1>2, <1>3, <1>4 DEF Next, StepKind

-----------------------------------------------------------------------------
(* The invariant of the copies.                                            *)

(* The versions of the resource that the informer has or will have. *)
Versions(h, w) == {h} \union {w[i] : i \in DOMAIN w}

Held == Versions(cached, watch)

(* The worker is past a phase whose status update it has not made. *)
Ahead ==
  cr.phase \in IgnoreUpdateError /\ Rank(mem.phase) = Rank(cr.phase) + 1

(* No copy is more than a reconcile old; when the worker can write, the    *)
(* others are not older than the start of its own reconcile.               *)
CopiesLag ==
  /\ \A h \in Held : Lags(h.phase, cr.phase)
  /\ pc # "idle" => Lags(mem.phase, cr.phase) \/ Ahead
  /\ fresh => \A h \in Held : Reaches(h.phase, mem.phase)

(* What a copy records of the volumes. *)
RecordedIn(c, ann) ==
  /\ Rank("UpdateSnapshotContent") <= Rank(c.phase) => Annotated(c) = Volumes
  /\ Rank("CleanPvcPod") <= Rank(c.phase) => c.ann = ann

(* Past CreateVolumeSnapshot every copy names all the VolumeSnapshots, and *)
(* past CheckPvcReady every copy has the same annotations.                 *)
Recorded ==
  /\ RecordedIn(cr, cr.ann)
  /\ \A h \in Held : RecordedIn(h, cr.ann)
  /\ pc # "idle" => RecordedIn(mem, cr.ann)
  /\ pc = "saved" /\ mem.phase = "CreateVolumeSnapshot" => Annotated(mem) = Volumes

(* Once the timeout of the resource itself cleans up, the resource stays   *)
(* in its phase, and once it is canceled every copy is given up.           *)
GivenUp ==
  /\ cleanedFrom \in ExportPhases =>
       /\ cr.phase = cleanedFrom
       /\ TimedOut(cr) \/ cr.state = StateCanceled
       /\ fresh => pc = "timeout"
  /\ pc = "timeout" => TimedOut(mem) /\ (cleanedFrom = "none" => todo = {})
  /\ pc = "timeout" /\ fresh => watch = <<>> /\ TimedOut(cached)
  /\ cr.state = StateCanceled =>
       /\ \A h \in Held : TimedOut(h) \/ Terminal(h)
       /\ pc \in {"idle", "timeout"}

(* Only the last phase is a completed state. *)
CompletedLast == cr.state = StateCompleted => cr.phase = PhaseCompleted

Resource == CopiesLag /\ Recorded /\ GivenUp /\ SavedPhases /\ CompletedLast

-----------------------------------------------------------------------------
(* Facts about phases, and about the copies.                               *)

LEMMA ReachesLags ==
  ASSUME NEW p \in ExportPhases, NEW q \in ExportPhases, NEW d \in ExportPhases,
         Reaches(p, q), Rank(p) <= Rank(q), Rank(d) \in {Rank(q), Rank(q) + 1}
  PROVE  Lags(p, d)
BY RankTyped, StopsAre DEF Reaches, Lags

LEMMA ReachesOn ==
  ASSUME NEW p \in ExportPhases, NEW q \in ExportPhases, NEW d \in ExportPhases,
         Reaches(p, q), q \in FallThrough, Rank(d) = Rank(q) + 1
  PROVE  Reaches(p, d)
<1>1. \A s \in Stops : Rank(s) \in Int /\ Rank(s) # Rank(q)
  BY RankTyped DEF Stops
<1> QED BY <1>1, RankTyped DEF Reaches

LEMMA ReachesSelf ==
  ASSUME NEW p \in ExportPhases, NEW q \in ExportPhases, Rank(q) <= Rank(p)
  PROVE  Reaches(p, q)
BY RankTyped, StopsAre DEF Reaches

LEMMA LagsSelf == \A p \in ExportPhases : Lags(p, p)
BY RankTyped, StopsAre DEF Lags

LEMMA LagsOn ==
  ASSUME NEW p \in ExportPhases, NEW q \in ExportPhases, NEW d \in ExportPhases,
         Lags(p, q), Rank(p) # Rank(q), Rank(d) = Rank(p) + 1
  PROVE  Lags(d, q)
BY RankTyped, StopsAre DEF Lags

(* The phases of the copies are phases. *)
LEMMA PhasesTyped ==
  ASSUME Control
  PROVE  /\ cr.phase \in ExportPhases /\ mem.phase \in ExportPhases
         /\ cached.phase \in ExportPhases
         /\ \A h \in Held : h \in Resources /\ h.phase \in ExportPhases
<1>1. \A i \in DOMAIN watch : watch[i] \in Resources
  BY DEF Control, ControlTypeOK
<1>2. \A h \in Held : h \in Resources
  BY <1>1 DEF Held, Versions, Control, ControlTypeOK
<1> QED BY <1>2 DEF Control, ControlTypeOK, Resources

(* What a worker that can write has. *)
LEMMA FreshIs ==
  ASSUME Control, fresh
  PROVE  /\ mem = cr \/ (Ahead /\ mem = Succeeded(cr))
         /\ mem.ann = cr.ann
         /\ Rank(cr.phase) <= Rank(mem.phase)
         /\ Lags(mem.phase, cr.phase) \/ Ahead
<1>1. cr \in Resources /\ ~Terminal(cr) /\ cr.phase \in ExportPhases
  BY PhasesTyped DEF Control, ControlTypeOK, Coherent
<1>2. CASE mem = cr
  <2>1. Rank(cr.phase) \in 1..29 /\ Lags(cr.phase, cr.phase)
    BY <1>1, LagsSelf, RankTyped
  <2> QED BY <1>2, <2>1
<1>3. CASE cr.phase \in IgnoreUpdateError /\ mem = Succeeded(cr)
  <2>1. Rank(mem.phase) = Rank(cr.phase) + 1
    BY <1>1, <1>3, SucceededIs
  <2>2. mem.ann = cr.ann
    BY <1>1, <1>3 DEF Succeeded, Resources
  <2> QED BY <1>1, <1>3, <2>1, <2>2, RankTyped DEF Ahead
<1> QED BY <1>2, <1>3 DEF Control, Coherent

(* A version that is appended to those under way. *)
LEMMA AppendHolds ==
  ASSUME NEW h, NEW w \in Seq(Resources), NEW c \in Resources
  PROVE  Versions(h, Append(w, c)) = Versions(h, w) \union {c}
<1>1. /\ DOMAIN w = 1..Len(w) /\ Len(w) \in Nat
      /\ DOMAIN Append(w, c) = 1..(Len(w) + 1)
      /\ \A i \in 1..Len(w) : Append(w, c)[i] = w[i]
      /\ Append(w, c)[Len(w) + 1] = c
  OBVIOUS
<1>2. {Append(w, c)[i] : i \in DOMAIN Append(w, c)}
        = {w[i] : i \in DOMAIN w} \union {c}
  <2> DEFINE a == Append(w, c)
  <2> HIDE DEF a
  <2>1. /\ DOMAIN a = 1..(Len(w) + 1) /\ a[Len(w) + 1] = c
        /\ \A i \in 1..Len(w) : a[i] = w[i]
    BY <1>1 DEF a
  <2>2. DOMAIN a = DOMAIN w \union {Len(w) + 1} /\ \A i \in DOMAIN w : a[i] = w[i]
    BY <1>1, <2>1
  <2>3. {a[i] : i \in DOMAIN a} = {w[i] : i \in DOMAIN w} \union {c}
    BY <2>1, <2>2, Zenon
  <2> QED BY <2>3 DEF a
<1> QED BY <1>2 DEF Versions

(* A write, seen from the copies. *)
LEMMA WriteHolds ==
  ASSUME Control, NEW c \in Resources, Write(c), UNCHANGED cached
  PROVE  /\ fresh => cr' = c /\ Held' \subseteq Held \union {c}
         /\ ~fresh => cr' = cr /\ Held' = Held
         /\ watch' = <<>> => Held' = {cached}
<1>1. watch \in Seq(Resources) /\ Held' = Versions(cached, watch')
  BY DEF Control, ControlTypeOK, Held, Versions
<1>3. ASSUME fresh PROVE cr' = c /\ Held' \subseteq Held \union {c}
  <2>1. cr' = c /\ (watch' = watch \/ watch' = Append(watch, c))
    BY <1>3 DEF Write
  <2>2. Versions(cached, Append(watch, c)) = Held \union {c}
    BY <1>1, AppendHolds DEF Held
  <2>3. CASE watch' = watch
    BY <1>1, <1>3, <2>1, <2>3 DEF Held
  <2>4. CASE watch' = Append(watch, c)
    BY <1>1, <1>3, <2>1, <2>2, <2>4
  <2> QED BY <1>3, <2>1, <2>3, <2>4
<1>4. watch' = <<>> => Held' = {cached}
  <2> SUFFICES ASSUME watch' = <<>> PROVE Held' = {cached}
    OBVIOUS
  <2>1. DOMAIN watch' = {}
    OBVIOUS
  <2> QED BY <2>1 DEF Held, Versions
<1>5. /\ fresh => cr' = c /\ Held' \subseteq Held \union {c}
      /\ ~fresh => cr' = cr /\ Held' = Held
  <2>1. CASE ~fresh
    BY <1>1, <2>1 DEF Write, Held
  <2> QED BY <1>3, <2>1
<1> QED BY <1>4, <1>5

(* A status update leaves no copy more than a reconcile behind. *)
LEMMA WriteLags ==
  ASSUME Control, Resource, pc # "idle", NEW c \in Resources, Write(c),
         UNCHANGED cached, c.phase = mem.phase \/ c = Succeeded(mem)
  PROVE  /\ \A h \in Held' : Lags(h.phase, cr'.phase)
         /\ fresh => \A h \in Held' : Reaches(h.phase, mem.phase)
<1>1. CASE ~fresh
  BY <1>1, WriteHolds DEF Resource, CopiesLag
<1>2. CASE fresh
  <2>1. cr' = c /\ Held' \subseteq Held \union {c}
    BY <1>2, WriteHolds
  <2>2. /\ mem \in Resources /\ ~Terminal(mem)
        /\ mem.phase \in ExportPhases /\ cr.phase \in ExportPhases
        /\ c.phase \in ExportPhases
    BY PhasesTyped DEF Control, ControlTypeOK, Coherent, Resources
  <2>3. Rank(c.phase) \in {Rank(mem.phase), Rank(mem.phase) + 1}
    BY <2>2, SucceededIs
  <2>4. Rank(cr.phase) <= Rank(mem.phase)
    BY <1>2, FreshIs
  <2>5. \A h \in Held : /\ h.phase \in ExportPhases
                        /\ Rank(h.phase) <= Rank(cr.phase)
                        /\ Reaches(h.phase, mem.phase)
    BY <1>2, PhasesTyped DEF Resource, CopiesLag, Lags
  <2>6. \A h \in Held : Lags(h.phase, c.phase)
    <3> SUFFICES ASSUME NEW h \in Held PROVE Lags(h.phase, c.phase)
      OBVIOUS
    <3>1. Rank(h.phase) <= Rank(mem.phase)
      BY <2>2, <2>4, <2>5, RankTyped
    <3> QED BY <2>2, <2>3, <2>5, <3>1, ReachesLags
  <2>7. Lags(c.phase, c.phase) /\ Reaches(c.phase, mem.phase)
    BY <2>2, <2>3, LagsSelf, ReachesSelf, RankTyped
  <2> QED BY <1>2, <2>1, <2>5, <2>6, <2>7
<1> QED BY <1>1, <1>2 DEF Control, ControlTypeOK

-----------------------------------------------------------------------------
(* No copy is more than a reconcile old: the steps.                        *)

(* A worker whose status update may fail unnoticed has not gone ahead yet. *)
LEMMA NotAhead == mem.phase \in IgnoreUpdateError => ~Ahead
BY RankTable DEF Ahead, IgnoreUpdateError

LEMMA IgnoredFallThrough == IgnoreUpdateError \subseteq FallThrough
BY DEF IgnoreUpdateError, FallThrough

LEMMA AdvancingLags == Control /\ Resource /\ Advancing => CopiesLag'
<1> SUFFICES ASSUME Control, Resource, Advancing PROVE CopiesLag'
  OBVIOUS
<1> DEFINE c == Succeeded(mem)
<1>1. /\ pc # "idle" /\ mem \in Resources /\ ~Terminal(mem) /\ mem.phase \in ExportPhases
      /\ cr.phase \in ExportPhases
  BY PhasesTyped DEF Advancing, HandlerDone, Control, ControlTypeOK, Coherent
<1>2. /\ c \in Resources /\ c.phase \in ExportPhases
      /\ Rank(c.phase) = Rank(mem.phase) + 1
  BY <1>1, SucceededIs DEF Resources
<1>3. Write(c) /\ UNCHANGED cached
  BY DEF Advancing, Advance
<1>4. /\ \A h \in Held' : Lags(h.phase, cr'.phase)
      /\ fresh => \A h \in Held' : Reaches(h.phase, mem.phase)
      /\ fresh => cr' = c
      /\ ~fresh => cr' = cr
  BY <1>1, <1>2, <1>3, WriteLags, WriteHolds
<1>5. CASE Return
  BY <1>4, <1>5 DEF Return, CopiesLag
<1>6. CASE /\ mem.phase \in FallThrough /\ (fresh \/ mem.phase \in IgnoreUpdateError)
           /\ Enter(c) /\ UNCHANGED fresh
  <2>1. mem' = c /\ fresh' = fresh
    BY <1>6 DEF Enter
  <2>2. CASE fresh
    <3>1. \A h \in Held' : h.phase \in ExportPhases
      BY <1>2, <1>3, <2>2, WriteHolds, PhasesTyped
    <3>2. \A h \in Held' : Reaches(h.phase, c.phase)
      BY <1>1, <1>2, <1>4, <1>6, <2>2, <3>1, ReachesOn
    <3>3. Lags(c.phase, c.phase)
      BY <1>2, LagsSelf
    <3> QED BY <1>4, <2>1, <2>2, <3>2, <3>3 DEF CopiesLag
  <2>3. CASE ~fresh
    <3>1. mem.phase \in IgnoreUpdateError /\ Lags(mem.phase, cr.phase)
      BY <1>1, <1>6, <2>3, NotAhead DEF Resource, CopiesLag
    <3>2. CASE Rank(mem.phase) = Rank(cr.phase)
      <4>1. mem.phase = cr.phase
        BY <1>1, <3>2, RankTyped
      <4> QED BY <1>2, <1>4, <2>1, <2>3, <3>1, <4>1 DEF CopiesLag, Ahead
    <3>3. CASE Rank(mem.phase) # Rank(cr.phase)
      <4>1. Lags(c.phase, cr.phase)
        BY <1>1, <1>2, <3>1, <3>3, LagsOn
      <4> QED BY <1>4, <2>1, <2>3, <4>1 DEF CopiesLag
    <3> QED BY <3>2, <3>3
  <2> QED BY <2>2, <2>3 DEF Control, ControlTypeOK
<1> QED BY <1>5, <1>6 DEF Advancing, Advance

LEMMA ForgettingLags == Control /\ Resource /\ Forgetting => CopiesLag'
<1> SUFFICES ASSUME Control, Resource, Forgetting PROVE CopiesLag'
  OBVIOUS
<1> DEFINE c == Succeeded(mem)
<1>1. /\ pc # "idle" /\ mem \in Resources /\ ~Terminal(mem) /\ mem.phase \in ExportPhases
      /\ fresh /\ mem.phase \in IgnoreUpdateError /\ mem.phase \in FallThrough
  BY PhasesTyped, IgnoredFallThrough
  DEF Forgetting, AdvanceForgets, HandlerDone, Control, ControlTypeOK, Coherent
<1>2. /\ c \in Resources /\ c.phase \in ExportPhases
      /\ Rank(c.phase) = Rank(mem.phase) + 1
  BY <1>1, SucceededIs DEF Resources
<1>3. mem = cr
  BY <1>1, NotAhead, FreshIs
<1>4. mem' = c /\ UNCHANGED cached
  BY DEF Forgetting, AdvanceForgets, Enter
<1>5. CASE UNCHANGED <<cr, watch, fresh>>
  <2>1. Held' = Held
    BY <1>4, <1>5 DEF Held
  <2>2. \A h \in Held : Reaches(h.phase, c.phase)
    BY <1>1, <1>2, PhasesTyped, ReachesOn DEF Resource, CopiesLag
  <2>3. Ahead'
    BY <1>1, <1>2, <1>3, <1>4, <1>5 DEF Ahead
  <2> QED BY <1>4, <1>5, <2>1, <2>2, <2>3 DEF Resource, CopiesLag
<1>6. CASE Write(c) /\ fresh' = FALSE
  <2>1. cr' = c /\ \A h \in Held' : Lags(h.phase, cr'.phase)
    BY <1>1, <1>2, <1>4, <1>6, WriteLags, WriteHolds
  <2>2. Lags(c.phase, c.phase)
    BY <1>2, LagsSelf
  <2> QED BY <1>4, <1>6, <2>1, <2>2 DEF CopiesLag
<1> QED BY <1>5, <1>6 DEF Forgetting, AdvanceForgets

(* A write of a copy in the same phase, and the worker returns or saves.   *)
LEMMA SamePhaseLags ==
  ASSUME Control, Resource, pc # "idle", UNCHANGED cached,
         NEW c \in Resources, c.phase = mem.phase, Write(c),
         \/ pc' = "idle" /\ fresh' = FALSE
         \/ fresh /\ mem' = c /\ fresh' = fresh
  PROVE  CopiesLag'
<1>1. /\ \A h \in Held' : Lags(h.phase, cr'.phase)
      /\ fresh => \A h \in Held' : Reaches(h.phase, mem.phase)
  BY WriteLags
<1>2. CASE pc' = "idle" /\ fresh' = FALSE
  BY <1>1, <1>2 DEF CopiesLag
<1>3. CASE fresh /\ mem' = c /\ fresh' = fresh
  <2>1. cr' = c
    BY <1>3, WriteHolds
  <2>2. Lags(c.phase, c.phase)
    BY LagsSelf DEF Resources
  <2> QED BY <1>1, <1>3, <2>1, <2>2 DEF CopiesLag
<1> QED BY <1>2, <1>3

LEMMA FailingLags == Control /\ Resource /\ Failing => CopiesLag'
<1> SUFFICES ASSUME Control, Resource, Failing PROVE CopiesLag'
  OBVIOUS
<1>1. FailedOn(mem) \in Resources /\ FailedOn(mem).phase = mem.phase
  BY FailedIs DEF Control, ControlTypeOK
<1> QED BY <1>1, SamePhaseLags DEF Failing, Fail, Return

(* What a handler saves. *)
LEMMA SavesIs ==
  ASSUME Control, Saving
  PROVE  \E c \in Resources :
           /\ c.phase = mem.phase /\ c.state = mem.state /\ c.since = mem.since
           /\ Write(c) /\ cr' = c /\ mem' = c /\ pc' = "saved"
           /\ UNCHANGED <<cached, fresh, todo, historyVars>>
           /\ \/ /\ At("CreateVolumeSnapshot") /\ todo = {}
                 /\ Annotated(c) = Volumes
              \/ /\ At("CheckPvcReady") /\ \A v \in Annotated(mem) : CheckPVCReady(v)
                 /\ Annotated(c) = Annotated(mem)
              \/ pc = "label" /\ c.ann = mem.ann
<1>1. mem \in Resources /\ fresh
  BY DEF Control, ControlTypeOK, Saving
<1>2. ASSUME NEW ann \in [Namespaces -> {"none", "vs", "pv"}]
      PROVE  LET c == [mem EXCEPT !.ann = ann]
             IN  /\ c \in Resources /\ c.ann = ann
                 /\ c.phase = mem.phase /\ c.state = mem.state /\ c.since = mem.since
  BY <1>1 DEF Resources
<1>3. ASSUME NEW c, Save(c)
      PROVE  /\ Write(c) /\ cr' = c /\ mem' = c /\ pc' = "saved"
             /\ UNCHANGED <<cached, fresh, todo, historyVars>>
  BY <1>1, <1>3 DEF Save, Write
<1>4. CASE /\ At("CreateVolumeSnapshot") /\ todo = {}
           /\ Save([mem EXCEPT !.ann =
                   [n \in Namespaces |-> IF @[n] = "none" /\ VolumesIn(n) # {}
                                           THEN "vs" ELSE @[n]]])
  <2> DEFINE ann == [n \in Namespaces |->
                       IF mem.ann[n] = "none" /\ VolumesIn(n) # {}
                         THEN "vs" ELSE mem.ann[n]]
             c == [mem EXCEPT !.ann = ann]
  <2>1. ann \in [Namespaces -> {"none", "vs", "pv"}]
    BY <1>1 DEF Resources
  <2>2. \A v \in Volumes : ann[NsOf[v]] # "none"
    BY ClusterAssumption DEF VolumesIn
  <2> HIDE DEF ann
  <2>3. /\ c \in Resources /\ c.ann = ann
        /\ c.phase = mem.phase /\ c.state = mem.state /\ c.since = mem.since
    BY <1>2, <2>1
  <2>4. Annotated(c) = Volumes
    BY <2>2, <2>3 DEF Annotated
  <2>5. Save(c)
    BY <1>4 DEF ann
  <2> HIDE DEF c
  <2> QED BY <1>3, <1>4, <2>3, <2>4, <2>5
<1>5. CASE /\ At("CheckPvcReady") /\ \A v \in Annotated(mem) : CheckPVCReady(v)
           /\ Save([mem EXCEPT !.ann = [n \in Namespaces |->
                    IF @[n] = "none" THEN "none" ELSE "pv"]])
  <2> DEFINE ann == [n \in Namespaces |-> IF mem.ann[n] = "none" THEN "none" ELSE "pv"]
             c == [mem EXCEPT !.ann = ann]
  <2>1. ann \in [Namespaces -> {"none", "vs", "pv"}]
    OBVIOUS
  <2>2. \A v \in Volumes : ann[NsOf[v]] # "none" <=> mem.ann[NsOf[v]] # "none"
    BY ClusterAssumption
  <2> HIDE DEF ann
  <2>3. /\ c \in Resources /\ c.ann = ann
        /\ c.phase = mem.phase /\ c.state = mem.state /\ c.since = mem.since
    BY <1>2, <2>1
  <2>4. Annotated(c) = Annotated(mem)
    BY <2>2, <2>3 DEF Annotated
  <2>5. Save(c)
    BY <1>5 DEF ann
  <2> HIDE DEF c
  <2> QED BY <1>3, <1>5, <2>3, <2>4, <2>5
<1>6. CASE pc = "label" /\ Save([mem EXCEPT !.label = TRUE])
  <2> DEFINE c == [mem EXCEPT !.label = TRUE]
  <2>1. /\ c \in Resources /\ c.ann = mem.ann
        /\ c.phase = mem.phase /\ c.state = mem.state /\ c.since = mem.since
    BY <1>1 DEF Resources
  <2> HIDE DEF c
  <2> QED BY <1>3, <1>6, <2>1 DEF c
<1> QED BY <1>4, <1>5, <1>6 DEF Saving

LEMMA SavingLags == Control /\ Resource /\ Saving => CopiesLag'
<1> SUFFICES ASSUME Control, Resource, Saving PROVE CopiesLag'
  OBVIOUS
<1>1. pc # "idle" /\ fresh
  BY DEF Saving, At
<1> QED BY <1>1, SavesIs, SamePhaseLags

(* The two status updates of CheckPvcReady, one after the other.           *)
LEMMA TwoUpdatesAre ==
  ASSUME Control, CheckPvcReadyForgets
  PROVE  LET failed == FailedOn(mem)
             done   == Succeeded(failed)
         IN  /\ failed \in Resources /\ done \in Resources /\ mem = cr
             /\ failed.phase = mem.phase /\ Rank(done.phase) = Rank(mem.phase) + 1
             /\ failed.ann = mem.ann /\ done.ann = mem.ann
             /\ done.state = StateCompleted => done.phase = PhaseCompleted
             /\ done.state # StateCanceled
             /\ cr' = done /\ Held' = Held \union {failed, done}
             /\ pc = "phase" /\ fresh /\ mem.phase = "CheckPvcReady"
             /\ pc' = "idle" /\ fresh' = FALSE
<1> DEFINE failed == FailedOn(mem)
           done   == Succeeded(failed)
<1>1. /\ pc = "phase" /\ fresh /\ mem.phase = "CheckPvcReady" /\ Return
      /\ cr' = done /\ watch' = Append(Append(watch, failed), done)
      /\ UNCHANGED cached
  BY DEF CheckPvcReadyForgets, At
<1>2. mem \in Resources /\ ~Terminal(mem) /\ watch \in Seq(Resources)
  BY <1>1 DEF Control, ControlTypeOK, Coherent
<1>3. /\ failed \in Resources /\ failed.phase = mem.phase /\ ~Terminal(failed)
      /\ failed.ann = mem.ann
  BY <1>2, FailedIs DEF FailedOn, Resources
<1>4. done \in Resources /\ Rank(done.phase) = Rank(mem.phase) + 1
  BY <1>3, SucceededIs
<1>5. /\ done.ann = mem.ann
      /\ done.state = StateCompleted => done.phase = PhaseCompleted
      /\ done.state # StateCanceled
  BY <1>3, StepsAre, StepsDomain
  DEF Succeeded, Resources, GetLastPhase, StateCompleted, StateInProgress, StateCanceled
<1>6. mem = cr
  <2>1. mem.phase = "CheckPvcReady" /\ fresh
    BY <1>1
  <2>2. ~Ahead
    BY <2>1, RankTable DEF Ahead, IgnoreUpdateError
  <2> QED BY <2>1, <2>2, FreshIs
<1>7. Held' = Held \union {failed, done}
  <2> DEFINE w == Append(watch, failed)
  <2> HIDE DEF failed, done
  <2>1. w \in Seq(Resources)
    BY <1>2, <1>3
  <2>2. Held' = Versions(cached, Append(w, done))
    BY <1>1 DEF Held, Versions
  <2> HIDE DEF w
  <2>3. Held' = Versions(cached, w) \union {done}
    <3>1. done \in Resources
      BY <1>4
    <3>2. Versions(cached, Append(w, done)) = Versions(cached, w) \union {done}
      BY <2>1, <3>1, AppendHolds
    <3> QED BY <2>2, <3>2
  <2>4. Versions(cached, w) = Held \union {failed}
    <3>1. watch \in Seq(Resources) /\ failed \in Resources
      BY <1>2, <1>3
    <3>2. Versions(cached, Append(watch, failed)) = Versions(cached, watch) \union {failed}
      BY <3>1, AppendHolds
    <3> QED BY <3>2 DEF Held, w
  <2> QED BY <2>3, <2>4
<1> QED BY <1>1, <1>3, <1>4, <1>5, <1>6, <1>7 DEF Return

LEMMA TwoUpdatesLag == Control /\ Resource /\ CheckPvcReadyForgets => CopiesLag'
<1> SUFFICES ASSUME Control, Resource, CheckPvcReadyForgets PROVE CopiesLag'
  OBVIOUS
<1> DEFINE failed == FailedOn(mem)
           done   == Succeeded(failed)
<1> HIDE DEF failed, done
<1>1. /\ failed \in Resources /\ done \in Resources /\ mem = cr
      /\ failed.phase = mem.phase /\ Rank(done.phase) = Rank(mem.phase) + 1
      /\ cr' = done /\ Held' = Held \union {failed, done}
      /\ fresh /\ pc' = "idle" /\ fresh' = FALSE
  BY TwoUpdatesAre DEF failed, done
<1>2. mem.phase \in ExportPhases /\ done.phase \in ExportPhases
  BY <1>1, PhasesTyped DEF Resources
<1>3. \A h \in Held : /\ h.phase \in ExportPhases
                      /\ Rank(h.phase) <= Rank(mem.phase)
                      /\ Reaches(h.phase, mem.phase)
  BY <1>1, PhasesTyped DEF Resource, CopiesLag, Lags
<1>4. Reaches(mem.phase, mem.phase) /\ Rank(mem.phase) \in Int
  BY <1>2, ReachesSelf, RankTyped
<1>5. Lags(done.phase, done.phase)
  BY <1>2, LagsSelf
<1>6. Lags(failed.phase, done.phase)
  BY <1>1, <1>2, <1>4, ReachesLags
<1>7. \A h \in Held : Lags(h.phase, done.phase)
  BY <1>1, <1>2, <1>3, ReachesLags
<1> QED BY <1>1, <1>5, <1>6, <1>7 DEF CopiesLag

LEMMA CancelLags == Control /\ Resource /\ Cancel => CopiesLag'
<1> SUFFICES ASSUME Control, Resource, Cancel PROVE CopiesLag'
  OBVIOUS
<1>1. mem \in Resources
  BY DEF Control, ControlTypeOK
<1>2. [mem EXCEPT !.state = StateCanceled] \in Resources
      /\ [mem EXCEPT !.state = StateCanceled].phase = mem.phase
  BY <1>1 DEF Resources
<1>3. VeleroFailedOn(mem) \in Resources /\ VeleroFailedOn(mem).phase = mem.phase
  <2>1. [mem EXCEPT !.state = StateVeleroFailed] \in Resources
    BY <1>1 DEF Resources
  <2> QED BY <1>1, <2>1, FailedIs DEF VeleroFailedOn, Resources
<1> QED BY <1>2, <1>3, SamePhaseLags DEF Cancel, Return

(* The steps that make no status update.                                   *)
LEMMA OtherLags ==
  Control /\ Resource /\ (Requeueing \/ Continuing \/ Resting \/ Begin \/ BeginTimeout)
    => CopiesLag'
<1> SUFFICES ASSUME Control, Resource,
                    Requeueing \/ Continuing \/ Resting \/ Begin \/ BeginTimeout
             PROVE  CopiesLag'
  OBVIOUS
<1>1. cr' = cr /\ cached' = cached /\ watch' = watch
  BY DEF Requeueing, Requeue, Continuing, Resting, Begin, BeginTimeout, resourceVars
<1>2. Held' = Held
  BY <1>1 DEF Held
<1>3. CASE Requeueing
  BY <1>1, <1>2, <1>3 DEF Requeueing, Requeue, Return, Resource, CopiesLag
<1>4. CASE Continuing
  <2>1. mem' = mem /\ fresh' = fresh /\ pc # "idle"
    BY <1>4 DEF Continuing, At
  <2> QED BY <1>1, <1>2, <2>1 DEF Resource, CopiesLag, Ahead
<1>5. CASE Resting
  BY <1>1, <1>2, <1>5 DEF Resting, workerVars, Resource, CopiesLag, Ahead
<1>6. CASE Begin \/ BeginTimeout
  <2>1. mem' = cached /\ fresh' = (watch = <<>>) /\ cached \in Held
    BY <1>6 DEF Begin, BeginTimeout, Enter, Held, Versions
  <2>2. watch = <<>> => Held = {cached}
    <3>1. watch = <<>> => DOMAIN watch = {}
      OBVIOUS
    <3> QED BY <3>1 DEF Held, Versions
  <2>3. Reaches(cached.phase, cached.phase)
    BY PhasesTyped, ReachesSelf, RankTyped
  <2> QED BY <1>1, <1>2, <2>1, <2>2, <2>3 DEF Resource, CopiesLag
<1> QED BY <1>3, <1>4, <1>5, <1>6

(* The informer receives a version it will not have again. *)
LEMMA SyncHolds == Control /\ CacheSync => Held' \subseteq Held
<1> SUFFICES ASSUME Control, CacheSync PROVE Held' \subseteq Held
  OBVIOUS
<1>1. /\ watch \in Seq(Resources) /\ watch # <<>>
      /\ cached' = Head(watch) /\ watch' = Tail(watch)
  BY DEF CacheSync, Control, ControlTypeOK
<1>2. /\ DOMAIN watch = 1..Len(watch) /\ Len(watch) \in Nat /\ Len(watch) # 0
      /\ Head(watch) = watch[1]
      /\ DOMAIN Tail(watch) = 1..(Len(watch) - 1)
      /\ \A i \in 1..(Len(watch) - 1) : Tail(watch)[i] = watch[i + 1]
  <2>1. Len(watch) # 0
    BY <1>1, EmptySeq
  <2> QED BY <1>1, <2>1
<1>3. 1 \in DOMAIN watch /\ \A i \in DOMAIN Tail(watch) : i + 1 \in DOMAIN watch
  BY <1>2
<1> DEFINE t == Tail(watch)
<1> HIDE DEF t
<1>4. cached' \in Held
  BY <1>1, <1>2, <1>3 DEF Held, Versions
<1>5. \A i \in DOMAIN t : t[i] \in Held
  BY <1>2, <1>3 DEF Held, Versions, t
<1>6. watch' = t
  BY <1>1 DEF t
<1> QED BY <1>4, <1>5, <1>6 DEF Held, Versions

(* Another actor's write. *)
LEMMA TouchHolds == Control /\ UserTouch => Held' \subseteq Held \union {cr}
<1> SUFFICES ASSUME Control, UserTouch PROVE Held' \subseteq Held \union {cr}
  OBVIOUS
<1>1. watch' = Append(watch, cr) /\ cached' = cached
      /\ watch \in Seq(Resources) /\ cr \in Resources
  BY DEF UserTouch, Control, ControlTypeOK
<1>2. Held' = Versions(cached, Append(watch, cr))
  BY <1>1 DEF Held, Versions
<1> QED BY <1>1, <1>2, AppendHolds DEF Held

(* A restart. *)
LEMMA CrashHolds == Crash => Held' = {cr}
<1> SUFFICES ASSUME Crash PROVE Held' = {cr}
  OBVIOUS
<1>1. cached' = cr /\ watch' = <<>>
  BY DEF Crash
<1>2. DOMAIN watch' = {}
  BY <1>1
<1> QED BY <1>1, <1>2 DEF Held, Versions

(* Time ages the copies. *)
LEMMA AgedHolds == TimePasses => Held' = {Aged(h) : h \in Held}
<1> SUFFICES ASSUME TimePasses PROVE Held' = {Aged(h) : h \in Held}
  OBVIOUS
<1>1. cached' = Aged(cached) /\ watch' = [i \in DOMAIN watch |-> Aged(watch[i])]
  BY DEF TimePasses
<1> QED BY <1>1 DEF Held, Versions

LEMMA OutsideLags ==
  Control /\ Resource /\ (CacheSync \/ UserTouch \/ Crash \/ TimePasses) => CopiesLag'
<1> SUFFICES ASSUME Control, Resource, CacheSync \/ UserTouch \/ Crash \/ TimePasses
             PROVE  CopiesLag'
  OBVIOUS
<1>1. CASE CacheSync
  <2>1. Held' \subseteq Held /\ UNCHANGED <<cr, pc, mem, fresh>>
    BY <1>1, SyncHolds DEF CacheSync, workerVars
  <2> QED BY <2>1 DEF Resource, CopiesLag, Ahead
<1>2. CASE UserTouch
  <2>1. /\ Held' \subseteq Held \union {cr} /\ UNCHANGED <<cr, pc, mem>>
        /\ fresh' = FALSE
    BY <1>2, TouchHolds DEF UserTouch
  <2>2. Lags(cr.phase, cr.phase)
    BY PhasesTyped, LagsSelf
  <2> QED BY <2>1, <2>2 DEF Resource, CopiesLag, Ahead
<1>3. CASE Crash
  <2>1. Held' = {cr} /\ cr' = cr /\ pc' = "idle" /\ fresh' = FALSE
    BY <1>3, CrashHolds DEF Crash, Return
  <2>2. Lags(cr.phase, cr.phase)
    BY PhasesTyped, LagsSelf
  <2> QED BY <2>1, <2>2 DEF CopiesLag
<1>4. CASE TimePasses
  <2>1. /\ Held' = {Aged(h) : h \in Held} /\ cr' = Aged(cr) /\ mem' = Aged(mem)
        /\ pc' = pc /\ fresh' = fresh
    BY <1>4, AgedHolds DEF TimePasses
  <2>2. \A h \in Held \union {cr, mem} : Aged(h).phase = h.phase
    BY PhasesTyped, AgedIs DEF Control, ControlTypeOK
  <2> QED BY <2>1, <2>2 DEF Resource, CopiesLag, Ahead
<1> QED BY <1>1, <1>2, <1>3, <1>4

LEMMA LagStep == Control /\ Resource /\ [Next]_vars => CopiesLag'
BY StepKinds, AdvancingLags, ForgettingLags, FailingLags, SavingLags, TwoUpdatesLag,
   CancelLags, OtherLags, OutsideLags
DEF StepKind, Resource

-----------------------------------------------------------------------------
(* Where a copy is saved, and what only the last phase is: the steps.      *)

LEMMA SavedStep == Control /\ SavedPhases /\ [Next]_vars => SavedPhases'
<1> SUFFICES ASSUME Control, SavedPhases, StepKind PROVE SavedPhases'
  BY StepKinds
<1>1. CASE Advancing \/ Forgetting
  BY <1>1 DEF Advancing, Forgetting, Advance, AdvanceForgets, Enter, Return, SavedPhases
<1>2. CASE Failing \/ Requeueing \/ Cancel \/ CheckPvcReadyForgets \/ Crash
  BY <1>2 DEF Failing, Fail, Requeueing, Requeue, Cancel, CheckPvcReadyForgets, Crash,
              Return, SavedPhases
<1>3. CASE Saving
  <2>1. mem'.phase = mem.phase /\ pc' = "saved"
        /\ (pc = "label" \/ At("CreateVolumeSnapshot") \/ At("CheckPvcReady"))
    BY <1>3, SavesIs
  <2> QED BY <2>1 DEF SavedPhases, At
<1>4. CASE Continuing
  BY <1>4 DEF Continuing, At, SavedPhases
<1>5. CASE Begin \/ BeginTimeout
  BY <1>5 DEF Begin, BeginTimeout, Enter, SavedPhases
<1>6. CASE CacheSync \/ UserTouch \/ Resting
  BY <1>6 DEF CacheSync, UserTouch, Resting, workerVars, SavedPhases
<1>7. CASE TimePasses
  <2>1. mem'.phase = mem.phase /\ pc' = pc
    BY <1>7, AgedIs DEF TimePasses, Control, ControlTypeOK
  <2> QED BY <2>1 DEF SavedPhases
<1> QED BY <1>1, <1>2, <1>3, <1>4, <1>5, <1>6, <1>7 DEF StepKind

(* The states that updateStatus gives, and what it leaves. *)
LEMMA StatesAre ==
  ASSUME NEW c \in Resources, ~Terminal(c)
  PROVE  /\ Succeeded(c).state = StateCompleted => Succeeded(c).phase = PhaseCompleted
         /\ Succeeded(c).state # StateCanceled /\ Succeeded(c).since = "nil"
         /\ Succeeded(c).ann = c.ann
         /\ FailedOn(c).state \notin {StateCompleted, StateCanceled}
         /\ FailedOn(c).ann = c.ann
<1>1. Succeeded(c).state = StateCompleted => Succeeded(c).phase = PhaseCompleted
  BY StepsAre, StepsDomain DEF Succeeded, Resources, GetLastPhase, StateCompleted, StateInProgress
<1>2. Succeeded(c).state # StateCanceled /\ Succeeded(c).since = "nil"
      /\ Succeeded(c).ann = c.ann
  BY DEF Succeeded, Resources, StateCompleted, StateInProgress, StateCanceled
<1> QED BY <1>1, <1>2 DEF FailedOn, Resources, StateCompleted, StateCanceled, StateFailed, StateVeleroFailed

(* The last writes of a canceled and of an aborted export. *)
LEMMA LastWritesAre ==
  ASSUME NEW c \in Resources
  PROVE  LET canceled == [c EXCEPT !.state = StateCanceled]
             aborted  == VeleroFailedOn(c)
         IN  /\ canceled \in Resources /\ canceled.phase = c.phase
             /\ canceled.ann = c.ann /\ canceled.state = StateCanceled
             /\ aborted \in Resources /\ aborted.phase = c.phase
             /\ aborted.ann = c.ann /\ aborted.state = StateVeleroFailed
<1> DEFINE d == [c EXCEPT !.state = StateVeleroFailed]
<1>1. d \in Resources /\ d.phase = c.phase /\ d.ann = c.ann /\ d.state = StateVeleroFailed
  BY DEF Resources
<1> HIDE DEF d
<1>2. /\ FailedOn(d) \in Resources /\ FailedOn(d).phase = d.phase
      /\ FailedOn(d).ann = d.ann /\ FailedOn(d).state = StateVeleroFailed
  BY <1>1 DEF FailedOn, Resources
<1>3. VeleroFailedOn(c) = FailedOn(d)
  BY DEF VeleroFailedOn, d
<1> QED BY <1>1, <1>2, <1>3 DEF Resources

(* What a step writes in the resource, whatever copies it is made from: an *)
(* update that has a current resourceVersion, or none.                     *)
Written(c) ==
  /\ Write(c) /\ UNCHANGED cached
  /\ c \in Resources /\ c.ann = mem.ann
  /\ \/ c.phase = mem.phase /\ c.state # StateCompleted
     \/ c = Succeeded(mem) /\ HandlerDone

LEMMA WritesAre ==
  ASSUME Control, SavedPhases
  PROVE  /\ Advancing => Written(Succeeded(mem)) /\ Succeeded(mem).state # StateCanceled
         /\ Failing => Written(FailedOn(mem)) /\ FailedOn(mem).state # StateCanceled
         /\ Cancel => \/ /\ pc = "timeout"
                         /\ Written([mem EXCEPT !.state = StateCanceled])
                      \/ /\ pc = "abort"
                         /\ Written(VeleroFailedOn(mem))
<1>1. mem \in Resources /\ (pc # "idle" => ~Terminal(mem))
  BY DEF Control, ControlTypeOK, Coherent
<1>2. ASSUME Advancing
      PROVE  Written(Succeeded(mem)) /\ Succeeded(mem).state # StateCanceled
  <2>1. HandlerDone /\ pc # "idle" /\ Write(Succeeded(mem)) /\ UNCHANGED cached
    BY <1>2 DEF Advancing, Advance, HandlerDone
  <2> QED BY <1>1, <2>1, StatesAre, SucceededIs DEF Written
<1>3. ASSUME Failing
      PROVE  Written(FailedOn(mem)) /\ FailedOn(mem).state # StateCanceled
  <2>1. pc # "idle" /\ Write(FailedOn(mem)) /\ UNCHANGED cached
    BY <1>3 DEF Failing, Fail
  <2> QED BY <1>1, <2>1, StatesAre, FailedIs DEF Written
<1>4. ASSUME Cancel
      PROVE  \/ /\ pc = "timeout"
                /\ Written([mem EXCEPT !.state = StateCanceled])
             \/ /\ pc = "abort"
                /\ Written(VeleroFailedOn(mem))
  <2> DEFINE canceled == [mem EXCEPT !.state = StateCanceled]
             aborted  == VeleroFailedOn(mem)
  <2>1. /\ canceled \in Resources /\ canceled.phase = mem.phase
        /\ canceled.ann = mem.ann /\ canceled.state = StateCanceled
        /\ aborted \in Resources /\ aborted.phase = mem.phase
        /\ aborted.ann = mem.ann /\ aborted.state = StateVeleroFailed
    BY <1>1, LastWritesAre
  <2>2. /\ UNCHANGED cached
        /\ \/ pc = "timeout" /\ Write(canceled)
           \/ pc = "abort" /\ Write(aborted)
    BY <1>4 DEF Cancel
  <2> HIDE DEF canceled, aborted
  <2>3. (pc = "timeout" /\ Written(canceled)) \/ (pc = "abort" /\ Written(aborted))
    BY <2>1, <2>2 DEF Written, StateCompleted, StateCanceled, StateVeleroFailed
  <2> QED BY <2>3 DEF canceled, aborted
<1> QED BY <1>2, <1>3, <1>4

(* A status update that fails unnoticed. *)
LEMMA ForgettingIs ==
  ASSUME Control, Forgetting
  PROVE  /\ mem = cr /\ fresh /\ HandlerDone /\ pc # "idle"
         /\ mem.phase \in IgnoreUpdateError /\ mem.phase \in FallThrough
         /\ pc' = "phase" /\ mem' = Succeeded(mem) /\ todo' = Items(Succeeded(mem))
         /\ UNCHANGED <<cached, historyVars, clusterVars>>
         /\ Succeeded(mem) \in Resources /\ ~Terminal(Succeeded(mem))
         /\ \/ UNCHANGED <<cr, watch, fresh>>
            \/ Written(Succeeded(mem)) /\ fresh' = FALSE
<1>1. /\ fresh /\ HandlerDone /\ pc # "idle" /\ mem.phase \in IgnoreUpdateError
      /\ pc' = "phase" /\ mem' = Succeeded(mem) /\ todo' = Items(Succeeded(mem))
      /\ UNCHANGED <<cached, historyVars, clusterVars>>
      /\ UNCHANGED <<cr, watch, fresh>> \/ (Write(Succeeded(mem)) /\ fresh' = FALSE)
  BY DEF Forgetting, AdvanceForgets, Enter, HandlerDone
<1>2. mem = cr
  BY <1>1, NotAhead, FreshIs
<1>3. mem \in Resources /\ ~Terminal(mem) /\ mem.phase \in FallThrough
  BY <1>1, IgnoredFallThrough DEF Control, ControlTypeOK, Coherent
<1>4. /\ Succeeded(mem) \in Resources /\ ~Terminal(Succeeded(mem))
      /\ Succeeded(mem).ann = mem.ann
  BY <1>3, SucceededIs, StatesAre
<1> QED BY <1>1, <1>2, <1>3, <1>4 DEF Written

(* A worker that can write has no completed copy. *)
LEMMA OpenCopy == Control /\ Resource /\ fresh => mem.state # StateCompleted
<1> SUFFICES ASSUME Control, Resource, fresh, mem.state = StateCompleted PROVE FALSE
  OBVIOUS
<1>1. cr \in Resources /\ ~Terminal(cr) /\ ~Terminal(mem)
  BY DEF Control, ControlTypeOK, Coherent
<1>2. mem.phase = PhaseCompleted
  BY <1>1, FreshIs, StatesAre DEF Resource, CompletedLast
<1> QED BY <1>1, <1>2 DEF Terminal

LEMMA CompletedStep == Control /\ Resource /\ [Next]_vars => CompletedLast'
<1> SUFFICES ASSUME Control, Resource, StepKind PROVE CompletedLast'
  BY StepKinds DEF Resource
<1>1. ASSUME NEW c, Written(c) PROVE CompletedLast'
  <2>1. mem \in Resources /\ (c = Succeeded(mem) => ~Terminal(mem) \/ c.state # StateCompleted)
    <3>1. c = Succeeded(mem) /\ pc # "idle" => ~Terminal(mem)
      BY DEF Control, Coherent
    <3> QED BY <1>1, <3>1 DEF Written, HandlerDone, Control, ControlTypeOK
  <2>2. c.state = StateCompleted => c.phase = PhaseCompleted
    BY <1>1, <2>1, StatesAre DEF Written
  <2>3. cr' = c \/ cr' = cr
    BY <1>1, WriteHolds DEF Written
  <2> QED BY <2>2, <2>3 DEF Resource, CompletedLast
<1>2. ASSUME cr' = cr PROVE CompletedLast'
  BY <1>2 DEF Resource, CompletedLast
<1>3. CASE Advancing \/ Failing \/ Cancel
  BY <1>1, <1>3, WritesAre DEF Resource
<1>4. CASE Forgetting
  BY <1>1, <1>2, <1>4, ForgettingIs
<1>5. CASE Saving
  <2>1. fresh
    BY <1>5 DEF Saving
  <2>2. cr'.state = mem.state
    BY <1>5, SavesIs
  <2> QED BY <2>1, <2>2, OpenCopy DEF CompletedLast
<1>6. CASE CheckPvcReadyForgets
  BY <1>6, TwoUpdatesAre DEF CompletedLast
<1>7. CASE TimePasses
  <2>1. cr'.phase = cr.phase /\ cr'.state = cr.state
    BY <1>7, AgedIs DEF TimePasses, Control, ControlTypeOK
  <2> QED BY <2>1 DEF Resource, CompletedLast
<1>8. CASE Requeueing \/ Continuing \/ Begin \/ BeginTimeout \/ CacheSync \/ UserTouch
           \/ Crash \/ Resting
  BY <1>2, <1>8 DEF Requeueing, Requeue, Continuing, Begin, BeginTimeout, CacheSync,
     UserTouch, Crash, Resting, resourceVars
<1> QED BY <1>3, <1>4, <1>5, <1>6, <1>7, <1>8 DEF StepKind

-----------------------------------------------------------------------------
(* What the copies record: the steps.                                      *)

LEMMA RecordedSame ==
  ASSUME NEW c, NEW d, NEW ann, c.phase = d.phase, c.ann = d.ann, RecordedIn(d, ann)
  PROVE  RecordedIn(c, ann) /\ Annotated(c) = Annotated(d)
BY DEF RecordedIn, Annotated

(* What a handler has recorded when it reports success. *)
LEMMA DoneRecorded ==
  ASSUME Control, Resource, HandlerDone, fresh \/ mem.phase \in IgnoreUpdateError,
         NEW c, c = Succeeded(mem)
  PROVE  RecordedIn(c, cr.ann)
<1>1. /\ mem \in Resources /\ ~Terminal(mem) /\ pc # "idle" /\ mem.phase \in ExportPhases
      /\ c.ann = mem.ann /\ Rank(c.phase) = Rank(mem.phase) + 1
  BY SucceededIs, StatesAre, PhasesTyped
  DEF HandlerDone, Control, ControlTypeOK, Coherent
<1>2. RecordedIn(mem, cr.ann) /\ Rank(mem.phase) \in 1..29
  BY <1>1, RankTyped DEF Resource, Recorded
<1>3. Annotated(c) = Annotated(mem)
  BY <1>1 DEF Annotated
<1>4. Rank(mem.phase) = 6 => Annotated(mem) = Volumes
  <2>1. Rank(mem.phase) = 6 => mem.phase = "CreateVolumeSnapshot"
    <3>1. "CreateVolumeSnapshot" \in ExportPhases /\ Rank("CreateVolumeSnapshot") = 6
      BY StopsAre, RankTable
    <3> QED BY <1>1, <3>1, RankTyped
  <2> QED BY <2>1 DEF HandlerDone, Resource, Recorded
<1>5. Rank(mem.phase) = 12 => mem.ann = cr.ann
  <2>1. mem.phase \in IgnoreUpdateError => Rank(mem.phase) \in {2, 27}
    BY RankTable DEF IgnoreUpdateError
  <2> QED BY <2>1, FreshIs
<1>6. Rank("UpdateSnapshotContent") = 7 /\ Rank("CleanPvcPod") = 13
  BY RankTable
<1> QED BY <1>1, <1>2, <1>3, <1>4, <1>5, <1>6 DEF RecordedIn

(* A write that leaves the annotations alone. *)
LEMMA WrittenRecorded ==
  ASSUME Control, Resource, pc # "idle", NEW c, Written(c)
  PROVE  /\ cr'.ann = cr.ann
         /\ RecordedIn(cr', cr.ann) /\ \A h \in Held' : RecordedIn(h, cr.ann)
         /\ fresh => RecordedIn(c, cr.ann)
<1>1. RecordedIn(cr, cr.ann) /\ \A h \in Held : RecordedIn(h, cr.ann)
  BY DEF Resource, Recorded
<1>2. CASE ~fresh
  BY <1>1, <1>2, WriteHolds DEF Written
<1>3. CASE fresh
  <2>1. cr' = c /\ Held' \subseteq Held \union {c} /\ c.ann = cr.ann
    BY <1>3, WriteHolds, FreshIs DEF Written
  <2>2. RecordedIn(mem, cr.ann)
    BY DEF Resource, Recorded
  <2>3. RecordedIn(c, cr.ann)
    <3>1. CASE c.phase = mem.phase
      BY <2>2, <3>1, RecordedSame DEF Written
    <3>2. CASE c = Succeeded(mem) /\ HandlerDone
      BY <1>3, <3>2, DoneRecorded
    <3> QED BY <3>1, <3>2 DEF Written
  <2> QED BY <1>1, <2>1, <2>3
<1> QED BY <1>2, <1>3 DEF Control, ControlTypeOK

(* The annotations a handler saves. *)
LEMMA SavingRecorded == Control /\ Resource /\ Saving => Recorded'
<1> SUFFICES ASSUME Control, Resource, Saving PROVE Recorded'
  OBVIOUS
<1>1. PICK c \in Resources :
           /\ c.phase = mem.phase
           /\ Write(c) /\ cr' = c /\ mem' = c /\ pc' = "saved"
           /\ UNCHANGED <<cached, fresh, todo, historyVars>>
           /\ \/ At("CreateVolumeSnapshot") /\ Annotated(c) = Volumes
              \/ At("CheckPvcReady") /\ Annotated(c) = Annotated(mem)
              \/ pc = "label" /\ c.ann = mem.ann
  BY SavesIs
<1>2. fresh /\ pc # "idle"
  BY DEF Saving, At
<1>3. Held' \subseteq Held \union {c}
  BY <1>1, <1>2, WriteHolds
<1>4. Rank("UpdateSnapshotContent") = 7 /\ Rank("CleanPvcPod") = 13
      /\ Rank("CreateVolumeSnapshot") = 6 /\ Rank("CheckPvcReady") = 12
  BY RankTable
<1>5. /\ RecordedIn(cr, cr.ann) /\ \A h \in Held : RecordedIn(h, cr.ann)
      /\ RecordedIn(mem, cr.ann)
  BY <1>2 DEF Resource, Recorded
<1>6. mem.phase \in {"CreateVolumeSnapshot", "StartFileSystemCopy"} =>
        Annotated(c) = Volumes
  <2>1. mem.phase = "StartFileSystemCopy" => Annotated(mem) = Volumes
    BY <1>4, <1>5, RankTable DEF RecordedIn
  <2>2. pc = "label" => mem.phase = "StartFileSystemCopy" /\ Annotated(c) = Annotated(mem)
    BY <1>1 DEF Resource, SavedPhases, Annotated, At
  <2> QED BY <1>1, <2>1, <2>2 DEF At
<1>7. CASE Rank(mem.phase) \in {6, 12} /\ (Rank(mem.phase) = 12 => Annotated(c) = Annotated(mem))
  <2>1. \A h \in Held : Rank(h.phase) <= 12 /\ Rank(h.phase) \in 1..29
    <3> SUFFICES ASSUME NEW h \in Held PROVE Rank(h.phase) <= 12 /\ Rank(h.phase) \in 1..29
      OBVIOUS
    <3>1. Lags(h.phase, cr.phase) /\ Rank(h.phase) \in 1..29 /\ Rank(cr.phase) \in 1..29
      BY PhasesTyped, RankTyped DEF Resource, CopiesLag
    <3>2. Rank(cr.phase) <= Rank(mem.phase)
      BY <1>2, FreshIs
    <3> QED BY <1>7, <3>1, <3>2 DEF Lags
  <2>2. \A h \in Held : RecordedIn(h, c.ann)
    BY <1>4, <1>5, <2>1 DEF RecordedIn
  <2>3. RecordedIn(c, c.ann)
    <3>1. Rank(c.phase) = Rank(mem.phase)
      BY <1>1
    <3>2. Rank(mem.phase) = 12 => Annotated(c) = Volumes
      BY <1>4, <1>5, <1>7 DEF RecordedIn
    <3> QED BY <1>4, <1>7, <3>1, <3>2 DEF RecordedIn
  <2> QED BY <1>1, <1>3, <1>6, <2>2, <2>3 DEF Recorded
<1>8. CASE pc = "label" /\ c.ann = mem.ann
  <2>1. c.ann = cr.ann
    BY <1>2, <1>8, FreshIs
  <2>2. RecordedIn(c, cr.ann)
    BY <1>1, <1>5, <1>8, RecordedSame
  <2> QED BY <1>1, <1>3, <1>5, <1>6, <2>1, <2>2 DEF Recorded
<1> QED BY <1>1, <1>4, <1>7, <1>8 DEF At

LEMMA TwoUpdatesRecorded == Control /\ Resource /\ CheckPvcReadyForgets => Recorded'
<1> SUFFICES ASSUME Control, Resource, CheckPvcReadyForgets PROVE Recorded'
  OBVIOUS
<1> DEFINE failed == FailedOn(mem)
           done   == Succeeded(failed)
<1> HIDE DEF failed, done
<1>1. /\ mem = cr /\ failed.phase = mem.phase /\ Rank(done.phase) = Rank(mem.phase) + 1
      /\ failed.ann = mem.ann /\ done.ann = mem.ann
      /\ cr' = done /\ Held' = Held \union {failed, done}
      /\ pc = "phase" /\ mem.phase = "CheckPvcReady" /\ pc' = "idle"
  BY TwoUpdatesAre DEF failed, done
<1>2. /\ \A h \in Held : RecordedIn(h, cr.ann)
      /\ RecordedIn(mem, cr.ann)
  BY <1>1 DEF Resource, Recorded
<1>3. RecordedIn(failed, cr.ann)
  BY <1>1, <1>2, RecordedSame
<1>4. RecordedIn(done, cr.ann)
  <2>1. Annotated(done) = Annotated(mem)
    BY <1>1 DEF Annotated
  <2>2. Annotated(mem) = Volumes
    BY <1>1, <1>2, RankTable DEF RecordedIn
  <2> QED BY <1>1, <2>1, <2>2 DEF RecordedIn
<1> QED BY <1>1, <1>2, <1>3, <1>4 DEF Recorded

LEMMA RecordedStep == Control /\ Resource /\ [Next]_vars => Recorded'
<1> SUFFICES ASSUME Control, Resource, StepKind PROVE Recorded'
  BY StepKinds DEF Resource
<1>1. /\ RecordedIn(cr, cr.ann) /\ \A h \in Held : RecordedIn(h, cr.ann)
      /\ pc # "idle" => RecordedIn(mem, cr.ann)
      /\ pc = "saved" /\ mem.phase = "CreateVolumeSnapshot" => Annotated(mem) = Volumes
  BY DEF Resource, Recorded
<1>2. ASSUME NEW c, pc # "idle", Written(c), pc' = "idle" PROVE Recorded'
  BY <1>2, WrittenRecorded DEF Recorded
<1>3. CASE Failing \/ Cancel
  <2>1. pc # "idle" /\ pc' = "idle"
    BY <1>3 DEF Failing, Cancel, Fail, Return
  <2>2. \E c : Written(c)
    BY <1>3, WritesAre DEF Resource
  <2> QED BY <1>2, <2>1, <2>2
<1>4. CASE Advancing
  <2> DEFINE c == Succeeded(mem)
  <2>1. Written(c) /\ pc # "idle" /\ HandlerDone
    BY <1>4, WritesAre DEF Resource, Advancing, HandlerDone
  <2>2. CASE pc' = "idle"
    BY <1>2, <2>1, <2>2
  <2>3. CASE /\ fresh \/ mem.phase \in IgnoreUpdateError
             /\ pc' = "phase" /\ mem' = c
    <3>1. RecordedIn(c, cr.ann)
      BY <2>1, <2>3, DoneRecorded
    <3> HIDE DEF c
    <3>2. /\ cr'.ann = cr.ann
          /\ RecordedIn(cr', cr.ann) /\ \A h \in Held' : RecordedIn(h, cr.ann)
      BY <2>1, WrittenRecorded
    <3> QED BY <2>3, <3>1, <3>2 DEF Recorded
  <2> QED BY <1>4, <2>2, <2>3 DEF Advancing, Advance, Return, Enter
<1>5. CASE Forgetting
  <2> DEFINE c == Succeeded(mem)
  <2>1. /\ fresh /\ HandlerDone /\ pc # "idle" /\ pc' = "phase" /\ mem' = c
        /\ UNCHANGED cached
        /\ UNCHANGED <<cr, watch>> \/ Written(c)
    BY <1>5, ForgettingIs
  <2>2. RecordedIn(c, cr.ann)
    BY <2>1, DoneRecorded
  <2> HIDE DEF c
  <2>3. /\ cr'.ann = cr.ann
        /\ RecordedIn(cr', cr.ann) /\ \A h \in Held' : RecordedIn(h, cr.ann)
    <3>1. CASE UNCHANGED <<cr, watch>>
      BY <1>1, <2>1, <3>1 DEF Held
    <3> QED BY <2>1, <3>1, WrittenRecorded
  <2> QED BY <2>1, <2>2, <2>3 DEF Recorded
<1>6. CASE Requeueing \/ Continuing \/ Resting
  <2>1. /\ cr' = cr /\ Held' = Held
        /\ pc' = "idle" \/ (mem' = mem /\ pc # "idle" /\ pc' # "saved") \/ (mem' = mem /\ pc' = pc)
    BY <1>6 DEF Requeueing, Requeue, Return, Continuing, Resting, resourceVars, workerVars,
       Held, At
  <2>2. mem' = mem => Annotated(mem)' = Annotated(mem)
    BY DEF Annotated
  <2> QED BY <1>1, <2>1, <2>2 DEF Recorded
<1>7. CASE Begin \/ BeginTimeout
  <2>1. /\ cr' = cr /\ Held' = Held /\ mem' = cached /\ cached \in Held
        /\ pc' \in {"phase", "timeout"}
    BY <1>7 DEF Begin, BeginTimeout, Enter, Held, Versions, resourceVars
  <2> QED BY <1>1, <2>1 DEF Recorded
<1>8. CASE CacheSync \/ UserTouch
  <2>1. /\ cr' = cr /\ Held' \subseteq Held \union {cr} /\ mem' = mem /\ pc' = pc
    BY <1>8, SyncHolds, TouchHolds DEF CacheSync, UserTouch, workerVars
  <2>2. Annotated(mem)' = Annotated(mem)
    BY <2>1 DEF Annotated
  <2> QED BY <1>1, <2>1, <2>2 DEF Recorded
<1>9. CASE Crash
  <2>1. cr' = cr /\ Held' = {cr} /\ pc' = "idle"
    BY <1>9, CrashHolds DEF Crash, Return
  <2> QED BY <1>1, <2>1 DEF Recorded
<1>10. CASE TimePasses
  <2>1. /\ Held' = {Aged(h) : h \in Held} /\ cr' = Aged(cr) /\ mem' = Aged(mem)
        /\ pc' = pc
    BY <1>10, AgedHolds DEF TimePasses
  <2>2. \A h \in Held \union {cr, mem} : Aged(h).phase = h.phase /\ Aged(h).ann = h.ann
    BY PhasesTyped DEF Control, ControlTypeOK, Aged, Resources
  <2>3. /\ RecordedIn(cr', cr.ann) /\ \A h \in Held' : RecordedIn(h, cr.ann)
        /\ pc # "idle" => RecordedIn(mem', cr.ann)
        /\ Annotated(mem') = Annotated(mem)
    BY <1>1, <2>1, <2>2, RecordedSame DEF Annotated
  <2> QED BY <1>1, <2>1, <2>2, <2>3 DEF Recorded, Annotated
<1> QED
  BY <1>3, <1>4, <1>5, <1>6, <1>7, <1>8, <1>9, <1>10, SavingRecorded, TwoUpdatesRecorded
  DEF StepKind

-----------------------------------------------------------------------------
(* What happens after the timeout has cleaned up: the steps.               *)

LEMMA NotPhases == "none" \notin ExportPhases /\ "stale" \notin ExportPhases
BY StepsDomain, StepsAre DEF ExportPhases, PhaseCreated, PhaseCompleted

(* Nothing is written once the resource itself is given up, but by the     *)
(* timeout; nor in a canceled resource.                                    *)
LEMMA WorkGivesUp ==
  ASSUME Control, Resource, pc \in {"phase", "saved", "label", "abort"}
  PROVE  /\ cleanedFrom \in ExportPhases => ~fresh
         /\ cr.state # StateCanceled
BY DEF Resource, GivenUp

(* Steps of the worker outside the timeout that leave it there. *)
LEMMA WorkGivenUp ==
  ASSUME Control, Resource, pc \in {"phase", "saved", "label", "abort"},
         UNCHANGED cleanedFrom, ~fresh => cr' = cr /\ ~fresh',
         cr' = cr \/ cr'.state # StateCanceled,
         pc' # "timeout"
  PROVE  GivenUp'
<1>1. cleanedFrom \in ExportPhases => ~fresh' /\ cr' = cr
  BY WorkGivesUp
<1>2. cr'.state # StateCanceled
  BY WorkGivesUp
<1>3. cleanedFrom \in ExportPhases =>
        cr.phase = cleanedFrom /\ (TimedOut(cr) \/ cr.state = StateCanceled)
  BY DEF Resource, GivenUp
<1>4. cleanedFrom' \in ExportPhases =>
        cr'.phase = cleanedFrom' /\ (TimedOut(cr)' \/ cr'.state = StateCanceled)
  BY <1>1, <1>3 DEF TimedOut
<1> QED BY <1>1, <1>2, <1>4 DEF GivenUp

(* The last write of the timeout. *)
LEMMA CancelGivenUp == Control /\ Resource /\ pc = "timeout" /\ Cancel => GivenUp'
<1> SUFFICES ASSUME Control, Resource, pc = "timeout", Cancel PROVE GivenUp'
  OBVIOUS
<1> DEFINE c == [mem EXCEPT !.state = StateCanceled]
<1>1. /\ c.phase = mem.phase /\ c.state = StateCanceled
  BY LastWritesAre DEF Control, ControlTypeOK
<1>2. Written(c) /\ pc' = "idle" /\ fresh' = FALSE /\ cleanedFrom' = cleanedFrom
  BY WritesAre DEF Resource, Cancel, Return, historyVars
<1>3. Terminal(c)
  BY <1>1 DEF Terminal
<1> HIDE DEF c
<1>4. CASE ~fresh
  <2>1. cr' = cr /\ Held' = Held
    BY <1>2, <1>4, WriteHolds DEF Written
  <2>2. TimedOut(cr)' = TimedOut(cr)
    BY <2>1 DEF TimedOut
  <2>3. /\ cleanedFrom \in ExportPhases =>
             cr.phase = cleanedFrom /\ (TimedOut(cr) \/ cr.state = StateCanceled)
        /\ cr.state = StateCanceled => \A h \in Held : TimedOut(h) \/ Terminal(h)
    BY DEF Resource, GivenUp
  <2> QED BY <1>2, <2>1, <2>2, <2>3 DEF GivenUp
<1>5. CASE fresh
  <2>1. watch = <<>> /\ TimedOut(cached) /\ TimedOut(mem)
    BY <1>5 DEF Resource, GivenUp
  <2>2. mem = cr
    <3>1. cr \in Resources /\ ~Terminal(cr)
      BY <1>5 DEF Control, ControlTypeOK, Coherent
    <3>2. ~TimedOut(Succeeded(cr))
      BY <3>1, StatesAre DEF TimedOut
    <3> QED BY <1>5, <2>1, <3>2, FreshIs
  <2>3. cr' = c /\ Held' \subseteq Held \union {c}
    BY <1>2, <1>5, WriteHolds DEF Written
  <2>4. Held = {cached}
    <3>1. DOMAIN watch = {}
      BY <2>1
    <3> QED BY <3>1 DEF Held, Versions
  <2>5. \A h \in Held' : TimedOut(h) \/ Terminal(h)
    BY <1>3, <2>1, <2>3, <2>4
  <2>6. cleanedFrom \in ExportPhases => cr.phase = cleanedFrom
    BY DEF Resource, GivenUp
  <2> QED BY <1>1, <1>2, <2>2, <2>3, <2>5, <2>6 DEF GivenUp
<1> QED BY <1>4, <1>5 DEF Control, ControlTypeOK

LEMMA GivenUpStep == Control /\ Resource /\ [Next]_vars => GivenUp'
<1> SUFFICES ASSUME Control, Resource, StepKind PROVE GivenUp'
  BY StepKinds DEF Resource
<1>1. CASE Advancing \/ Failing
  <2>1. /\ pc \in {"phase", "saved", "label"} /\ UNCHANGED cleanedFrom
        /\ pc' \in {"idle", "phase"} /\ (~fresh => ~fresh')
    BY <1>1 DEF Advancing, HandlerDone, Failing, Advance, Fail, Return, Enter, historyVars
  <2>2. \E c : Written(c) /\ c.state # StateCanceled
    BY <1>1, WritesAre DEF Resource
  <2>3. (~fresh => cr' = cr) /\ (cr' = cr \/ cr'.state # StateCanceled)
    BY <2>2, WriteHolds DEF Written
  <2> QED BY <2>1, <2>3, WorkGivenUp
<1>2. CASE Forgetting
  <2>1. /\ pc \in {"phase", "saved"} /\ fresh /\ UNCHANGED cleanedFrom /\ pc' = "phase"
        /\ cr' = cr \/ Written(Succeeded(mem))
    BY <1>2, ForgettingIs DEF HandlerDone, historyVars
  <2>2. Succeeded(mem).state # StateCanceled
    BY <2>1, StatesAre DEF Control, ControlTypeOK, Coherent
  <2>3. cr' = cr \/ cr'.state # StateCanceled
    BY <2>1, <2>2, WriteHolds DEF Written
  <2> QED BY <2>1, <2>3, WorkGivenUp
<1>3. CASE Saving
  <2>1. /\ pc \in {"phase", "label"} /\ fresh /\ pc' = "saved" /\ UNCHANGED cleanedFrom
        /\ cr'.state = mem.state
    BY <1>3, SavesIs DEF Saving, At, historyVars
  <2>2. mem.state # StateCanceled
    BY <2>1 DEF Control, Coherent, Terminal
  <2> QED BY <2>1, <2>2, WorkGivenUp
<1>4. CASE CheckPvcReadyForgets
  <2>1. pc = "phase" /\ fresh /\ pc' = "idle" /\ cr'.state # StateCanceled
        /\ UNCHANGED cleanedFrom
    BY <1>4, TwoUpdatesAre DEF CheckPvcReadyForgets, historyVars
  <2> QED BY <2>1, WorkGivenUp
<1>5. CASE Cancel /\ pc = "abort"
  <2>1. pc' = "idle" /\ fresh' = FALSE /\ UNCHANGED cleanedFrom /\ Written(VeleroFailedOn(mem))
    BY <1>5, WritesAre DEF Resource, Cancel, Return, historyVars
  <2>2. VeleroFailedOn(mem).state = StateVeleroFailed
    BY LastWritesAre DEF Control, ControlTypeOK
  <2>3. /\ ~fresh => cr' = cr
        /\ cr' = cr \/ cr'.state # StateCanceled
    BY <2>1, <2>2, WriteHolds DEF Written, StateVeleroFailed, StateCanceled
  <2> QED BY <1>5, <2>1, <2>3, WorkGivenUp
<1>6. CASE Continuing /\ pc # "timeout"
  <2>1. /\ pc \in {"phase", "abort"} /\ UNCHANGED <<cr, cleanedFrom, fresh>>
        /\ pc' # "timeout"
    BY <1>6 DEF Continuing, At
  <2> QED BY <2>1, WorkGivenUp
<1>7. CASE (Continuing /\ pc = "timeout") \/ Requeueing \/ Resting
  <2>1. /\ UNCHANGED <<cr, cached, watch, cleanedFrom>>
        /\ \/ UNCHANGED <<mem, fresh, pc, todo>>
           \/ UNCHANGED <<mem, fresh, pc>> /\ todo # {} /\ pc = "timeout"
           \/ pc' = "idle" /\ fresh' = FALSE
    BY <1>7 DEF Continuing, At, Requeueing, Requeue, Return, Resting, resourceVars,
       workerVars, historyVars
  <2>2. Held' = Held /\ TimedOut(cr)' = TimedOut(cr) /\ TimedOut(cached)' = TimedOut(cached)
    BY <2>1 DEF Held, TimedOut
  <2>3. mem' = mem => TimedOut(mem)' = TimedOut(mem)
    BY DEF TimedOut
  <2> QED BY <2>1, <2>2, <2>3 DEF Resource, GivenUp
<1>8. CASE Begin
  <2>1. /\ UNCHANGED <<cr, cached, watch, cleanedFrom>> /\ pc' = "phase"
        /\ fresh' = (watch = <<>>) /\ ~Terminal(cached) /\ ~TimedOut(cached)
        /\ cached \in Held
    BY <1>8 DEF Begin, Enter, resourceVars, historyVars, Held, Versions
  <2>2. watch = <<>> => cached = cr
    BY DEF Control, Coherent
  <2>3. cr.state # StateCanceled
    BY <2>1 DEF Resource, GivenUp
  <2>4. cleanedFrom \in ExportPhases =>
          cr.phase = cleanedFrom /\ TimedOut(cr) /\ ~fresh'
    BY <2>1, <2>2, <2>3 DEF Resource, GivenUp
  <2>5. TimedOut(cr)' = TimedOut(cr)
    BY <2>1 DEF TimedOut
  <2> QED BY <2>1, <2>3, <2>4, <2>5 DEF GivenUp
<1>9. CASE BeginTimeout
  <2>1. /\ UNCHANGED <<cr, cached, watch>> /\ pc' = "timeout" /\ mem' = cached
        /\ fresh' = (watch = <<>>) /\ TimedOut(cached)
        /\ todo' = IF cached.phase = PhaseCreated THEN {} ELSE Namespaces \union Volumes
        /\ cleanedFrom' = IF cached.phase = PhaseCreated \/ cleanedFrom # "none"
                      THEN cleanedFrom
                      ELSE IF TimedOut(cr) THEN cr.phase ELSE "stale"
    BY <1>9 DEF BeginTimeout, resourceVars
  <2>2. Held' = Held /\ TimedOut(cr)' = TimedOut(cr) /\ TimedOut(cached)' = TimedOut(cached)
        /\ TimedOut(mem)' = TimedOut(cached)
    BY <2>1 DEF Held, TimedOut
  <2>3. cr.phase \in ExportPhases
    BY PhasesTyped
  <2>4. cleanedFrom' \in ExportPhases =>
          cr.phase = cleanedFrom' /\ (TimedOut(cr) \/ cr.state = StateCanceled)
    BY <2>1, <2>3, NotPhases DEF Resource, GivenUp
  <2>5. cleanedFrom' = "none" => todo' = {}
    BY <2>1, <2>3, NotPhases
  <2>6. cr.state = StateCanceled => \A h \in Held : TimedOut(h) \/ Terminal(h)
    BY DEF Resource, GivenUp
  <2> QED BY <2>1, <2>2, <2>4, <2>5, <2>6 DEF GivenUp
<1>10. CASE CacheSync
  <2>1. /\ UNCHANGED <<cr, pc, mem, fresh, todo, cleanedFrom>>
        /\ watch # <<>> /\ Held' \subseteq Held
    BY <1>10, SyncHolds DEF CacheSync, workerVars, historyVars
  <2>2. TimedOut(cr)' = TimedOut(cr) /\ TimedOut(mem)' = TimedOut(mem)
    BY <2>1 DEF TimedOut
  <2> QED BY <2>1, <2>2 DEF Resource, GivenUp
<1>11. CASE UserTouch \/ Crash
  <2>1. /\ UNCHANGED <<cr, cleanedFrom>> /\ fresh' = FALSE
        /\ UNCHANGED <<pc, mem, todo>> \/ pc' = "idle"
        /\ cr.state = StateCanceled => Held' = {cr} /\ pc' = "idle" /\ Terminal(cr)
    BY <1>11, CrashHolds DEF UserTouch, Crash, Return, historyVars, Terminal
  <2>2. TimedOut(cr)' = TimedOut(cr) /\ (mem' = mem => TimedOut(mem)' = TimedOut(mem))
    BY <2>1 DEF TimedOut
  <2> QED BY <2>1, <2>2 DEF Resource, GivenUp
<1>12. CASE TimePasses
  <2>1. /\ Held' = {Aged(h) : h \in Held} /\ cr' = Aged(cr) /\ mem' = Aged(mem)
        /\ cached' = Aged(cached) /\ UNCHANGED <<pc, fresh, todo, cleanedFrom>>
        /\ watch' = [i \in DOMAIN watch |-> Aged(watch[i])]
    BY <1>12, AgedHolds DEF TimePasses, historyVars
  <2>2. \A h \in Held \union {cr, mem, cached} :
          /\ Aged(h).phase = h.phase /\ Aged(h).state = h.state
          /\ TimedOut(h) => TimedOut(Aged(h))
          /\ Terminal(h) => Terminal(Aged(h))
    BY PhasesTyped DEF Control, ControlTypeOK, Aged, Resources, TimedOut, Terminal
  <2>3. watch = <<>> => watch' = <<>>
    BY <2>1, EmptySeq
  <2>5. TimedOut(mem) => TimedOut(mem)'
    BY <2>1, <2>2 DEF TimedOut
  <2>6. TimedOut(cached) => TimedOut(cached)'
    BY <2>1, <2>2 DEF TimedOut
  <2>7. TimedOut(cr) => TimedOut(cr)'
    BY <2>1, <2>2 DEF TimedOut
  <2>8. cr'.state = StateCanceled => \A h \in Held' : TimedOut(h) \/ Terminal(h)
    BY <2>1, <2>2 DEF Resource, GivenUp
  <2> QED BY <2>1, <2>2, <2>3, <2>5, <2>6, <2>7, <2>8 DEF Resource, GivenUp
<1> QED
  BY <1>1, <1>2, <1>3, <1>4, <1>5, <1>6, <1>7, <1>8, <1>9, <1>10, <1>11, <1>12,
     CancelGivenUp DEF StepKind, Cancel

-----------------------------------------------------------------------------
(* The invariant.                                                          *)

LEMMA ResourceStep == Control /\ Resource /\ [Next]_vars => Resource'
BY LagStep, RecordedStep, GivenUpStep, SavedStep, CompletedStep DEF Resource

LEMMA ResourceInit == Init => Resource
<1> SUFFICES ASSUME Init PROVE Resource
  OBVIOUS
<1>1. /\ cr = NewExport /\ cached = NewExport /\ watch = <<>> /\ pc = "idle"
      /\ fresh = FALSE /\ cleanedFrom = "none"
  BY DEF Init
<1>2. NewExport.phase = PhaseCreated /\ NewExport.state = StateNone
      /\ PhaseCreated \in ExportPhases
  BY NewExportIs DEF NewExport, Resources
<1>3. Held = {NewExport}
  <2>1. DOMAIN watch = {}
    BY <1>1
  <2> QED BY <1>1, <2>1 DEF Held, Versions
<1>4. CopiesLag
  BY <1>1, <1>2, <1>3, LagsSelf DEF CopiesLag
<1>5. RecordedIn(NewExport, NewExport.ann)
  BY <1>2, RankTable DEF RecordedIn
<1>6. Recorded
  BY <1>1, <1>3, <1>5 DEF Recorded
<1>7. GivenUp /\ SavedPhases /\ CompletedLast
  BY <1>1, <1>2, NotPhases
  DEF GivenUp, SavedPhases, CompletedLast, StateNone, StateCanceled, StateCompleted
<1> QED BY <1>4, <1>6, <1>7 DEF Resource

(* No handler acts on a copy more than one reconcile old, every copy past  *)
(* the creation of the snapshots names all of them, and a canceled export  *)
(* has no copy left that a handler would work on.                          *)
THEOREM CopiesAreRecent == Spec => []Resource
<1>1. ClusterTypeOK /\ Control /\ Resource /\ [Next]_vars
        => (ClusterTypeOK /\ Control /\ Resource)'
  BY ControlStep, ClusterStep, ResourceStep DEF StepOK, Control
<1> QED BY <1>1, InitTyped, ResourceInit, PTL DEF Spec
=============================================================================
