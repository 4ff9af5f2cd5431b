---------------------- MODULE VeleroExportClusterProofs ----------------------
(***************************************************************************)
(* What the calls of an export leave on the cluster, for every set of      *)
(* namespaces and volumes and every number of failures: the snapshots, the *)
(* restored volumes, the stage pods and the copied data, as a function of  *)
(* the phase of the resource.                                              *)
(*                                                                         *)
(* The worker that makes a call may act on an old copy.  By                *)
(* CopiesAreRecent the phase of its copy is close behind the phase of the  *)
(* resource, and what the resource's phase promises is what makes the late *)
(* call harmless, or impossible.                                           *)
(***************************************************************************)
EXTENDS VeleroExportProofs

-----------------------------------------------------------------------------
(* The invariant.                                                          *)

Reached(p) == Rank(p) <= Rank(cr.phase)
Before(p)  == Rank(cr.phase) < Rank(p)

(* The loop of a worker that can write has been over object i. *)
Visited(p, i) == At(p) /\ fresh /\ i \notin todo

Finished == backup \in {"completed", "failed"}

(* The Velero backup is made in StartFileSystemCopy, and only a completed  *)
(* one is followed by CleanUp.                                             *)
BackupOf ==
  /\ backup # "absent" => Reached("StartFileSystemCopy")
  /\ \/ Reached("WaitFileSystemCopyComplete") \/ pc = "label"
     \/ pc = "saved" /\ mem.phase = "StartFileSystemCopy"
     => backup # "absent"
  /\ Reached("CleanUp") \/ At("CleanUp") => backup = "completed"
  /\ pc = "abort" => backup = "failed"

(* The content of a snapshot: borrowed after UpdateSnapshotContent, handed *)
(* back in UpdateSnapshotContentBack.                                      *)
ContentOf(v) ==
  /\ Before("UpdateSnapshotContent") => snap[v].ref = "orig"
  /\ Reached("DeleteVolumeSnapshot") \/ Visited("UpdateSnapshotContentBack", v)
       => snap[v].ref = "orig" \/ v \in swallowed

(* The policy of a restored PV: Retain only while its PVC is recreated.    *)
PolicyOf(v) ==
  /\ Before("UpdatePvClaimRetain") =>
       /\ vol[v].policy = "Delete"
       /\ vol[v].pv \notin {"released", "claimed", "leaked"}
  /\ Reached("UpdateSnapshotContentBack") \/ Visited("UpdatePvClaimDelete", v)
       => vol[v].policy = "Delete"
  /\ Reached("UpdateSnapshotContentBack") /\ cleanedFrom # "stale"
       => vol[v].pv \notin {"released", "claimed", "leaked"}

(* A claim is created with no volume name only where CheckPvcReady has not *)
(* recorded the PV's, and UpdatePvClaimRef lets no such export go on.      *)
NamedOf(v) ==
  /\ vol[v].pvc \in {"blank", "filled"} =>
       Reached("RecreatePvc") /\ cr.ann[NsOf[v]] # "pv"
  /\ Reached("EnsureRecreatePvcReady") \/ Visited("UpdatePvClaimRef", v)
       => cr.ann[NsOf[v]] = "pv"

(* CleanUp leaves no namespace that nobody deletes. *)
CleanedOf(n) ==
  Reached(PhaseCompleted) \/ Visited("CleanUp", n) => temp[n] # "active"

Always ==
  /\ BackupOf
  /\ \A v \in Volumes : ContentOf(v) /\ PolicyOf(v) /\ NamedOf(v)
  /\ \A n \in Namespaces : CleanedOf(n)

(* As long as no timeout has cleaned up: the temporary namespace is there  *)
(* until the copy is over, ...                                             *)
TempOf(n) ==
  /\ temp[n] = "terminating" => Finished
  /\ Reached("CreateVolumeSnapshot") \/ Visited("CreateTempNamespace", n)
       => temp[n] = "active" \/ Finished

(* ... and the temporary snapshot until it is deleted, ...                 *)
SnapOf(v) ==
  /\ \/ Reached("UpdateSnapshotContent") \/ cr.ann[NsOf[v]] # "none"
     \/ Visited("CreateVolumeSnapshot", v)
     => snap[v].vs # "absent" \/ Reached("DeleteVolumeSnapshot")
  /\ Before("DeleteVolumeSnapshot") => snap[v].ref # "lost"

Restored(w) == w.pvc = "restored" /\ w.pv = "bound"

(* ... the PVC is restored from it, ...                                    *)
RestoredOf(v) ==
  /\ Before("CreatePvc") => vol[v].pvc = "absent" /\ vol[v].pv = "none"
  /\ Before("CleanPvcPod") =>
       \/ vol[v].pvc \in {"absent", "restoring"} /\ vol[v].pv = "none"
       \/ Restored(vol[v])
  /\ \/ Reached("CleanPvcPod")
     \/ pc = "saved" /\ fresh /\ mem.phase = "CheckPvcReady"
     => Reached("DeletePvc") \/ Restored(vol[v])

(* ... and deleted and recreated on the same PV, ...                       *)
RecreatedOf(v) ==
  /\ Reached("DeletePvc") /\ Before("RecreatePvc") =>
       \/ vol[v].pvc \in {"restored", "deleting"} /\ vol[v].pv = "bound"
       \/ vol[v].pvc = "absent" /\ vol[v].pv = "released"
  /\ Reached("RecreatePvc") /\ Before("UpdatePvClaimDelete") =>
       \/ vol[v].pvc = "absent" /\ vol[v].pv = "released"
       \/ /\ vol[v].pvc = "recreated" /\ vol[v].pv \in {"released", "claimed"}
          /\ cr.ann[NsOf[v]] = "pv"
       \/ /\ vol[v].pvc = "rebound" /\ vol[v].pv = "bound"
          /\ cr.ann[NsOf[v]] = "pv"
       \/ /\ vol[v].pvc \in {"blank", "filled"} /\ vol[v].pv = "released"
          /\ cr.ann[NsOf[v]] # "pv"
  /\ Reached("RecreatePvc") /\ Before("UpdatePvClaimRef") => vol[v].pv = "released"
  /\ Reached("UpdatePvClaimRef") \/ Visited("RecreatePvc", v)
       => Reached("UpdatePvClaimDelete") \/ vol[v].pvc # "absent"
  /\ Reached("UpdatePvClaimDelete") =>
       Finished \/ (vol[v].pvc = "rebound" /\ vol[v].pv = "bound")
  /\ Reached("DeletePvc") \/ Visited("UpdatePvClaimRetain", v)
       => Reached("UpdatePvClaimDelete") \/ vol[v].policy = "Retain"

MountsIn(n) == VolumesIn(n) \cap Mounted # {}

(* ... the stage pods of the snapshots go, and those of the copy run, ...  *)
PodOf(n) ==
  /\ Reached("UpdatePvClaimRetain") /\ Before("CreateStagePod") => pod[n] = "absent"
  /\ Reached("CreateStagePod") /\ Before("WaitStagePodRunning") => pod[n] # "terminating"
  /\ (Reached("WaitStagePodRunning") \/ Visited("CreateStagePod", n)) /\ MountsIn(n)
       => Finished \/ pod[n] \in {"pending", "running"}
  /\ Reached("StartFileSystemCopy") /\ MountsIn(n) => Finished \/ pod[n] = "running"

(* ... so that a completed backup holds what the pods mount.               *)
CopiedOf == backup = "completed" => Mounted \subseteq copied

WhileRunning ==
  cleanedFrom = "none" =>
    /\ \A n \in Namespaces : TempOf(n) /\ PodOf(n)
    /\ \A v \in Volumes : SnapOf(v) /\ RestoredOf(v) /\ RecreatedOf(v)
    /\ CopiedOf

Invariant == ClusterTypeOK /\ Control /\ Resource /\ Always /\ WhileRunning

-----------------------------------------------------------------------------
(* How the resource's phase moves.                                         *)

(* The facts about the places of the phases that the steps use. *)
LEMMA NowTyped ==
  ASSUME Control
  PROVE  Rank(cr.phase) \in 1..29 /\ Rank(mem.phase) \in 1..29
BY PhasesTyped, RankTyped

(* How far behind the resource a worker's copy can be. *)
LEMMA Windows ==
  ASSUME Control, Resource, pc # "idle"
  PROVE  LET r == Rank(cr.phase)
         IN  /\ mem.phase = "CreateTempNamespace" => r \in 5..7
             /\ mem.phase = "CreateVolumeSnapshot" => r \in 6..7
             /\ mem.phase = "UpdateSnapshotContent" => r \in 7..10
             /\ mem.phase = "CreatePvc" => r \in 9..10
             /\ mem.phase = "CreatePvcPod" => r \in 10..11
             /\ mem.phase = "CheckPvcReady" => r \in 12..13
             /\ mem.phase = "CleanPvcPod" => r \in 13..14
             /\ mem.phase = "UpdatePvClaimRetain" => r \in 15..16
             /\ mem.phase = "DeletePvc" => r \in 16..17
             /\ mem.phase = "RecreatePvc" => r \in 18..19
             /\ mem.phase = "UpdatePvClaimRef" => r \in 19..20
             /\ mem.phase = "UpdatePvClaimDelete" => r \in 21..22
             /\ mem.phase = "UpdateSnapshotContentBack" => r \in 22..25
             /\ mem.phase = "DeleteVolumeSnapshot" => r \in 23..25
             /\ mem.phase = "CreateStagePod" => r \in 24..25
             /\ mem.phase = "StartFileSystemCopy" => r \in 26..27
             /\ mem.phase = "CleanUp" => r \in 27..29
<1>1. Rank(cr.phase) \in 1..29
  BY NowTyped
<1>2. CASE Ahead
  BY <1>1, <1>2, RankTable DEF Ahead, IgnoreUpdateError
<1>3. CASE Lags(mem.phase, cr.phase)
  <2>1. /\ Rank(mem.phase) <= Rank(cr.phase)
        /\ \A k \in {6, 9, 10, 24, 26, 28} \union 12..21 :
              Rank(mem.phase) <= k => Rank(cr.phase) <= k + 1
    BY <1>3, LagsAre
  <2>2. \A k \in {6, 9, 10, 12, 13, 15, 16, 18, 19, 21, 24, 26, 28} :
              Rank(mem.phase) <= k => Rank(cr.phase) <= k + 1
    BY <2>1
  <2> HIDE DEF Resource
  <2> QED BY <1>1, <2>1, <2>2, RankTable
<1> QED BY <1>2, <1>3 DEF Resource, CopiesLag

(* The resource stays in its phase, or a worker that can write takes it to *)
(* the worker's phase (when that is ahead) or to the next one.             *)
LEMMA Moves ==
  ASSUME Control, Resource, [Next]_vars
  PROVE  \/ cr'.phase = cr.phase
         \/ fresh /\ Ahead /\ pc = "phase" /\ cr'.phase = mem.phase
         \/ /\ fresh /\ HandlerDone /\ Rank(cr'.phase) = Rank(mem.phase) + 1
            /\ UNCHANGED <<clusterVars, historyVars>>
<1>1. StepKind
  BY StepKinds DEF Resource
<1>2. mem \in Resources /\ cr \in Resources /\ (pc # "idle" => ~Terminal(mem))
      /\ (fresh => mem = cr \/ Ahead)
  BY FreshIs DEF Control, ControlTypeOK, Coherent
<1>3. ASSUME NEW c, Written(c), c.phase = mem.phase, pc # "idle",
             pc # "phase" => mem.phase \notin {"Prepare", "CleanUp"}
      PROVE  cr'.phase = cr.phase \/ (fresh /\ Ahead /\ pc = "phase" /\ cr'.phase = mem.phase)
  <2>1. Ahead => mem.phase \in {"Prepare", "CleanUp"}
    <3>1. {"Prepare", "CleanUp"} \subseteq ExportPhases
      <4>1. \A i \in 1..29 : VeleroExportSteps[i] \in ExportPhases
        BY StepsDomain DEF ExportPhases
      <4> QED BY <4>1, StepsAre
    <3> QED BY <3>1, RankTable, RankTyped, PhasesTyped DEF Ahead, IgnoreUpdateError
  <2>2. (fresh /\ cr' = c) \/ cr' = cr
    BY <1>3, WriteHolds DEF Written
  <2> QED BY <1>2, <1>3, <2>1, <2>2
<1>4. ASSUME Write(Succeeded(mem)), HandlerDone, UNCHANGED <<clusterVars, historyVars>>
      PROVE  \/ cr'.phase = cr.phase
             \/ /\ fresh /\ HandlerDone /\ Rank(cr'.phase) = Rank(mem.phase) + 1
                /\ UNCHANGED <<clusterVars, historyVars>>
  <2>1. Rank(Succeeded(mem).phase) = Rank(mem.phase) + 1
    BY <1>2, <1>4, SucceededIs DEF HandlerDone
  <2> QED BY <1>4, <2>1 DEF Write
<1>5. CASE Advancing
  BY <1>4, <1>5 DEF Advancing, Advance
<1>6. CASE Forgetting
  BY <1>4, <1>6 DEF Forgetting, AdvanceForgets
<1>7. CASE Failing
  <2>1. Written(FailedOn(mem)) /\ pc \in {"phase", "label"}
    BY <1>7, WritesAre DEF Failing, Resource
  <2>2. FailedOn(mem).phase = mem.phase
    BY <1>2, FailedIs
  <2> QED BY <1>3, <2>1, <2>2 DEF Resource, SavedPhases
<1>8. CASE Cancel
  <2>1. \E c : Written(c) /\ c.phase = mem.phase
    BY <1>2, <1>8, WritesAre, LastWritesAre DEF Resource
  <2>2. pc = "timeout" => cr'.phase = cr.phase
    <3>1. pc = "timeout" /\ fresh => mem = cr
      <4>1. pc = "timeout" => TimedOut(mem)
        BY DEF Resource, GivenUp
      <4>2. fresh => ~TimedOut(Succeeded(cr))
        BY <1>2, StatesAre DEF Control, Coherent, TimedOut
      <4> QED BY <4>1, <4>2, FreshIs
    <3> QED BY <2>1, <3>1, WriteHolds DEF Written
  <2>3. pc = "abort" => mem.phase \notin {"Prepare", "CleanUp"} /\ ~Ahead
    BY NotAhead DEF Resource, SavedPhases, IgnoreUpdateError
  <2> QED BY <1>3, <1>8, <2>1, <2>2, <2>3 DEF Cancel
<1>9. CASE Saving
  <2>1. cr'.phase = mem.phase /\ fresh
        /\ mem.phase \in {"CreateVolumeSnapshot", "CheckPvcReady", "StartFileSystemCopy"}
    BY <1>9, SavesIs DEF Saving, At, Resource, SavedPhases
  <2>2. ~Ahead
    BY <2>1, RankTable DEF Ahead, IgnoreUpdateError
  <2> QED BY <1>2, <2>1, <2>2
<1>10. CASE CheckPvcReadyForgets
  <2>1. /\ fresh /\ Rank(cr'.phase) = Rank(mem.phase) + 1 /\ pc = "phase"
        /\ mem.phase = "CheckPvcReady"
    BY <1>10, TwoUpdatesAre
  <2>2. /\ \A v \in Annotated(mem) : CheckPVCReady(v)
        /\ UNCHANGED <<clusterVars, historyVars>>
    BY <1>10 DEF CheckPvcReadyForgets
  <2>3. HandlerDone
    BY <2>1, <2>2, LoopPhases DEF HandlerDone
  <2> QED BY <2>1, <2>2, <2>3
<1>11. CASE TimePasses
  BY <1>2, <1>11, AgedIs DEF TimePasses
<1>12. CASE Requeueing \/ Continuing \/ Begin \/ BeginTimeout \/ CacheSync \/ UserTouch
            \/ Crash \/ Resting
  BY <1>12 DEF Requeueing, Requeue, Continuing, Begin, BeginTimeout, CacheSync,
     UserTouch, Crash, Resting, resourceVars
<1> QED
  BY <1>1, <1>5, <1>6, <1>7, <1>8, <1>9, <1>10, <1>11, <1>12 DEF StepKind

(* When the resource goes beyond phase p, a worker that can write has      *)
(* finished the handler of p.                                              *)
LEMMA Crossing ==
  ASSUME Control, Resource, [Next]_vars,
         NEW p \in ExportPhases \ {"Precheck", "WaitFileSystemCopyComplete"},
         Rank(cr.phase) <= Rank(p), Rank(p) < Rank(cr'.phase)
  PROVE  /\ fresh /\ mem.phase = p /\ HandlerDone
         /\ UNCHANGED <<clusterVars, historyVars>>
<1>1. /\ Rank(cr.phase) \in 1..29 /\ Rank(mem.phase) \in 1..29 /\ Rank(p) \in 1..29
      /\ cr.phase \in ExportPhases /\ mem.phase \in ExportPhases
  BY NowTyped, RankTyped, PhasesTyped
<1>2. Ahead => Rank(cr.phase) # Rank(p)
  BY <1>1, RankTyped DEF Ahead, IgnoreUpdateError
<1>3. Ahead => Rank(mem.phase) = Rank(cr.phase) + 1
  BY DEF Ahead
<1>4. cr'.phase # cr.phase
  BY <1>1
<1>5. CASE fresh /\ Ahead /\ pc = "phase" /\ cr'.phase = mem.phase
  BY <1>1, <1>2, <1>3, <1>5
<1>6. CASE /\ fresh /\ HandlerDone /\ Rank(cr'.phase) = Rank(mem.phase) + 1
           /\ UNCHANGED <<clusterVars, historyVars>>
  <2>1. Rank(mem.phase) = Rank(p)
    <3>1. mem = cr \/ Ahead
      BY <1>6, FreshIs
    <3> QED BY <1>1, <1>2, <1>3, <1>6, <3>1
  <2> QED BY <1>1, <1>6, <2>1, RankTyped
<1> QED BY <1>4, <1>5, <1>6, Moves

(* The resource does not go back. *)
LEMMA OnlyForward ==
  ASSUME Control, Resource, [Next]_vars
  PROVE  Rank(cr.phase) <= Rank(cr'.phase) /\ Rank(cr'.phase) \in 1..29
<1>1. Rank(cr.phase) \in 1..29 /\ Rank(mem.phase) \in 1..29
  BY NowTyped
<1>2. fresh => Rank(cr.phase) <= Rank(mem.phase)
  BY FreshIs
<1>3. cr' \in Resources
  BY ControlStep DEF StepOK, ControlTypeOK
<1>4. Rank(cr'.phase) \in 1..29
  BY <1>3, RankTyped DEF Resources
<1> QED BY <1>1, <1>2, <1>4, Moves

(* What is reached stays so. *)
LEMMA StaysReached ==
  ASSUME Control, Resource, [Next]_vars, NEW p \in ExportPhases
  PROVE  /\ Reached(p) => Reached(p)'
         /\ Before(p)' => Before(p)
         /\ Reached(p) <=> ~Before(p)
<1>1. Rank(p) \in 1..29 /\ Rank(cr.phase) \in 1..29
  BY NowTyped, RankTyped
<1> QED BY <1>1, OnlyForward DEF Reached, Before

(* The handlers with a loop have visited every object. *)
LEMMA AllVisited ==
  ASSUME Resource, HandlerDone, fresh,
         mem.phase \in NamespacePhases \union VolumePhases,
         mem.phase # "CreateVolumeSnapshot"
  PROVE  \A i : Visited(mem.phase, i)
<1>1. pc # "saved"
  BY LoopPhases DEF Resource, SavedPhases
<1> QED BY <1>1 DEF HandlerDone, Visited, At

(* The annotations are saved after all the snapshots have been created,    *)
(* and after all the PVCs have been bound.                                 *)
LEMMA AnnMoves ==
  ASSUME Control, Resource, [Next]_vars
  PROVE  \/ cr'.ann = cr.ann
         \/ /\ fresh /\ UNCHANGED <<clusterVars, historyVars>> /\ cr'.phase = cr.phase
            /\ \/ At("CreateVolumeSnapshot") /\ todo = {}
               \/ At("CheckPvcReady")
            /\ mem.phase = cr.phase /\ pc' = "saved"
<1>1. StepKind
  BY StepKinds DEF Resource
<1>2. ASSUME NEW c, Written(c) PROVE cr'.ann = cr.ann
  <2>1. (fresh /\ cr' = c) \/ cr' = cr
    BY <1>2, WriteHolds DEF Written
  <2> QED BY <1>2, <2>1, FreshIs DEF Written
<1>3. CASE Advancing \/ Failing \/ Cancel
  BY <1>2, <1>3, WritesAre DEF Resource
<1>4. CASE Forgetting
  BY <1>2, <1>4, ForgettingIs
<1>5. CASE Saving
  <2>1. /\ fresh /\ cr'.phase = mem.phase /\ UNCHANGED <<clusterVars, historyVars>>
        /\ pc' = "saved"
        /\ \/ At("CreateVolumeSnapshot") /\ todo = {}
           \/ At("CheckPvcReady")
           \/ pc = "label" /\ cr'.ann = mem.ann
    BY <1>5, SavesIs DEF Saving
  <2>2. mem.phase \in {"CreateVolumeSnapshot", "CheckPvcReady"} => ~Ahead
    BY RankTable DEF Ahead, IgnoreUpdateError
  <2>3. (mem = cr \/ Ahead) /\ mem.ann = cr.ann
    BY <2>1, FreshIs
  <2>4. CASE pc = "label" /\ cr'.ann = mem.ann
    BY <2>3, <2>4
  <2>5. CASE At("CreateVolumeSnapshot") \/ At("CheckPvcReady")
    <3>1. mem = cr
      BY <2>2, <2>3, <2>5 DEF At
    <3> QED BY <2>1, <2>5, <3>1 DEF At
  <2> QED BY <2>1, <2>4, <2>5
<1>6. CASE CheckPvcReadyForgets
  BY <1>6, TwoUpdatesAre
<1>7. CASE TimePasses
  BY <1>7 DEF TimePasses, Aged, Control, ControlTypeOK, Resources
<1>8. CASE Requeueing \/ Continuing \/ Begin \/ BeginTimeout \/ CacheSync \/ UserTouch
           \/ Crash \/ Resting
  BY <1>8 DEF Requeueing, Requeue, Continuing, Begin, BeginTimeout, CacheSync,
     UserTouch, Crash, Resting, resourceVars
<1> QED BY <1>1, <1>3, <1>4, <1>5, <1>6, <1>7, <1>8 DEF StepKind

-----------------------------------------------------------------------------
(* What a step does on the cluster.                                        *)

(* A loop's call on object i takes effect. *)
Called(i) == pc = "phase" /\ i \in todo /\ Call(i)

(* Updates of a content that do only a part of their work. *)
CalledInPart(i) ==
  /\ i \in todo
  /\ \/ At("UpdateSnapshotContent") /\ UpdateContentRef(i, FALSE)
     \/ /\ \/ At("UpdateSnapshotContent") /\ UpdateContentSwallowed(i, FALSE)
           \/ At("UpdateSnapshotContentBack") /\ UpdateContentSwallowed(i, TRUE)
        /\ swallowed' = swallowed \union {i}

CleansUp(i) ==
  /\ pc \in {"timeout", "abort"} /\ i \in todo
  /\ (i \in Namespaces /\ AsyncDeleteNamespace(i)) \/ ClearPV(i)

ClusterMove ==
  \/ UNCHANGED clusterVars
  \/ Environment
  \/ \E i : Called(i) \/ CalledInPart(i) \/ CleansUp(i)
  \/ At("StartFileSystemCopy") /\ EnsureVeleroBackup

LEMMA ClusterMoves ==
  ASSUME [Next]_vars
  PROVE  ClusterMove
<1>1. CASE Begin \/ BeginTimeout \/ ReconcileTerminal \/ PollStep \/ LoopDone
           \/ WaitFileSystemCopyComplete
  BY <1>1
  DEF Begin, BeginTimeout, ReconcileTerminal, vars, PollStep, LoopDone,
      WaitFileSystemCopyComplete, ClusterMove
<1>2. CASE LoopStep
  <2>1. PICK i \in todo :
          \/ CallSucceeds(i) \/ CallRefused(i) \/ CallFaults(i) \/ CallLags(i)
          \/ DeleteConflicts(i) \/ ContentConflicts(i) \/ RetrySwallowed(i)
    BY <1>2 DEF LoopStep
  <2>2. CASE CallSucceeds(i)
    BY <2>1, <2>2, CallInLoop DEF CallSucceeds, ClusterMove, Called
  <2>3. CASE CallFaults(i)
    BY <2>1, <2>3 DEF CallFaults, ClusterMove, Called, CalledInPart
  <2>4. CASE ContentConflicts(i) \/ RetrySwallowed(i)
    BY <2>1, <2>4 DEF ContentConflicts, RetrySwallowed, ClusterMove, CalledInPart
  <2>5. CASE CallRefused(i) \/ CallLags(i) \/ DeleteConflicts(i)
    BY <2>5 DEF CallRefused, CallLags, DeleteConflicts, ClusterMove
  <2> QED BY <2>1, <2>2, <2>3, <2>4, <2>5
<1>3. CASE SaveStep
  BY <1>3
  DEF SaveStep, SaveSnapshots, CheckPvcReady, CheckPvcReadyForgets,
      StartFileSystemCopy, SaveLabel, ClusterMove
<1>4. CASE CleanUpStep
  BY <1>4
  DEF CleanUpStep, CleanUpNamespace, CleanUpConflicts, CleanUpVolume, Cancel,
      ClusterMove, CleansUp
<1>5. CASE EnvironmentStep
  BY <1>5 DEF EnvironmentStep, ClusterMove
<1>6. CASE Unreachable \/ CacheSync \/ UserTouch \/ Crash \/ TimePasses \/ UNCHANGED vars
  BY <1>6 DEF Unreachable, CacheSync, UserTouch, Crash, TimePasses, vars, ClusterMove
<1> QED BY <1>1, <1>2, <1>3, <1>4, <1>5, <1>6 DEF Next, Worker

(* The history grows, and the timeout's part of it is written when the     *)
(* timeout begins.                                                         *)
LEMMA HistoryMoves ==
  ASSUME Resource, [Next]_vars
  PROVE  /\ swallowed \subseteq swallowed'
         /\ \/ cleanedFrom' = cleanedFrom
            \/ cleanedFrom = "none" /\ UNCHANGED <<clusterVars, swallowed>> /\ cr' = cr
               /\ ~(pc' = "phase")
<1>1. StepKind
  BY StepKinds DEF Resource
<1>2. CASE BeginTimeout
  BY <1>2 DEF BeginTimeout, resourceVars
<1>3. CASE ~BeginTimeout
  BY <1>1, <1>3
  DEF StepKind, Advancing, Advance, Forgetting, AdvanceForgets, Failing, Fail, Requeueing,
      Requeue, Saving, Save, Continuing, CheckPvcReadyForgets, Cancel, Begin, CacheSync,
      UserTouch, Crash, TimePasses, Resting, historyVars
<1> QED BY <1>2, <1>3

(* A worker that can write has the resource's annotations. *)
LEMMA FreshAnn == Control /\ fresh => mem.ann = cr.ann
BY FreshIs, Zenon

LEMMA FreshAnnNext == (Control /\ fresh => mem.ann = cr.ann)'
BY FreshAnn, PTL

(* How an object comes to be visited: by a call, unless it is not one of   *)
(* those of the loop.                                                      *)
LEMMA Visits ==
  ASSUME Control, Resource, [Next]_vars, NEW p, NEW i, Visited(p, i)'
  PROVE  \/ Visited(p, i)
         \/ /\ At(p) /\ fresh /\ cr' = cr
            /\ Called(i) \/ (CalledInPart(i) /\ i \in swallowed')
         \/ i \notin Items(mem') /\ UNCHANGED clusterVars
<1>1. pc' = "phase" /\ fresh' /\ mem'.phase = p /\ i \notin todo'
  BY DEF Visited, At
<1>2. ASSUME Advance \/ AdvanceForgets, UNCHANGED clusterVars
      PROVE  i \notin Items(mem') /\ UNCHANGED clusterVars
  BY <1>1, <1>2 DEF Advance, AdvanceForgets, Return, Enter
<1>3. ASSUME UNCHANGED <<pc, fresh, todo>>, mem'.phase = mem.phase
      PROVE  Visited(p, i)
  BY <1>1, <1>3 DEF Visited, At
<1>4. ASSUME Fail \/ Requeue \/ Return PROVE FALSE
  BY <1>1, <1>4 DEF Fail, Requeue, Return
<1>5. CASE PollStep
  BY <1>2, <1>4, <1>5 DEF PollStep, Created, Precheck, WaitPrepareComplete,
     CheckSnapshotReady, WaitPvcPodRunning, EnsurePvcPodCleaned, EnsurePvcsDeleted,
     EnsureRecreatePvcReady, WaitStagePodRunning, ReadFaults, ReadLags, Poll
<1>6. CASE LoopDone \/ WaitFileSystemCopyComplete
  BY <1>1, <1>2, <1>4, <1>6 DEF LoopDone, WaitFileSystemCopyComplete
<1>7. CASE LoopStep
  <2>1. PICK j \in todo :
          \/ CallSucceeds(j) \/ CallRefused(j) \/ CallFaults(j) \/ CallLags(j)
          \/ DeleteConflicts(j) \/ ContentConflicts(j) \/ RetrySwallowed(j)
    BY <1>7 DEF LoopStep
  <2>2. CASE CallSucceeds(j) \/ RetrySwallowed(j)
    <3>1. UNCHANGED <<pc, mem, fresh, cr>> /\ todo' = todo \ {j}
      BY <2>2 DEF CallSucceeds, RetrySwallowed, resourceVars
    <3>2. CASE i \notin todo
      BY <1>1, <3>1, <3>2 DEF Visited, At
    <3>3. CASE i \in todo
      <4>1. i = j /\ At(p) /\ fresh
        BY <1>1, <3>1, <3>3 DEF At
      <4>2. CallSucceeds(j) => Called(j)
        BY <2>1, CallInLoop DEF CallSucceeds, Called
      <4>3. RetrySwallowed(j) => CalledInPart(j) /\ j \in swallowed'
        BY <2>1 DEF RetrySwallowed, CalledInPart
      <4> QED BY <2>2, <3>1, <4>1, <4>2, <4>3
    <3> QED BY <3>2, <3>3
  <2>3. CASE CallRefused(j) \/ CallFaults(j) \/ CallLags(j) \/ DeleteConflicts(j)
             \/ ContentConflicts(j)
    BY <1>4, <2>3 DEF CallRefused, CallFaults, CallLags, DeleteConflicts, ContentConflicts
  <2> QED BY <2>1, <2>2, <2>3
<1>8. CASE SaveStep
  BY <1>1, <1>4, <1>8 DEF SaveStep, SaveSnapshots, CheckPvcReady, CheckPvcReadyForgets,
     StartFileSystemCopy, SaveLabel, Save
<1>9. CASE CleanUpStep
  BY <1>1, <1>4, <1>9 DEF CleanUpStep, CleanUpNamespace, CleanUpConflicts, CleanUpVolume,
     Cancel
<1>10. CASE Begin \/ BeginTimeout
  BY <1>1, <1>10 DEF Begin, BeginTimeout, Enter
<1>11. CASE ReconcileTerminal \/ EnvironmentStep \/ CacheSync \/ UNCHANGED vars
  BY <1>3, <1>11 DEF ReconcileTerminal, EnvironmentStep, CacheSync, vars, workerVars
<1>12. CASE Unreachable \/ UserTouch \/ Crash
  BY <1>1, <1>4, <1>12 DEF Unreachable, UserTouch, Crash
<1>13. CASE TimePasses
  BY <1>3, <1>13, AgedIs DEF TimePasses, Control, ControlTypeOK
<1> QED
  BY <1>5, <1>6, <1>7, <1>8, <1>9, <1>10, <1>11, <1>12, <1>13 DEF Next, Worker

(* In a loop over the namespaces or over the volumes none is left out, but *)
(* the snapshots a former reconcile has recorded.                          *)
LEMMA Visiting ==
  ASSUME Control, Resource, [Next]_vars, NEW p, NEW i, Visited(p, i)',
         \/ p \in NamespacePhases /\ i \in Namespaces
         \/ p \in VolumePhases /\ i \in Volumes
  PROVE  \/ Visited(p, i)
         \/ /\ At(p) /\ fresh /\ cr' = cr
            /\ Called(i) \/ (CalledInPart(i) /\ i \in swallowed')
         \/ /\ p = "CreateVolumeSnapshot" /\ i \in Volumes
            /\ UNCHANGED clusterVars /\ cr'.ann[NsOf[i]] # "none"
<1>1. Control' /\ Resource'
  BY ControlStep, ResourceStep DEF StepOK, Control
<1>2. pc' = "phase" /\ fresh' /\ mem'.phase = p
  BY DEF Visited, At
<1>3. RecordedIn(mem', cr'.ann) /\ mem'.ann = cr'.ann
  BY <1>1, <1>2, FreshAnnNext DEF Resource, Recorded
<1>4. p \in VolumePhases \ {"CreateVolumeSnapshot"} => Rank("UpdateSnapshotContent") <= Rank(p)
  BY RankTable DEF VolumePhases
<1>5. ASSUME p \in VolumePhases \ {"CreateVolumeSnapshot"} PROVE Annotated(mem') = Volumes
  BY <1>2, <1>3, <1>4, <1>5 DEF RecordedIn
<1>6. NamespacePhases \cap VolumePhases = {}
  BY DEF NamespacePhases, VolumePhases
<1>7. ASSUME i \notin Items(mem')
      PROVE  p = "CreateVolumeSnapshot" /\ i \in Volumes /\ cr'.ann[NsOf[i]] # "none"
  <2>1. p \notin NamespacePhases
    <3> SUFFICES ASSUME p \in NamespacePhases PROVE FALSE
      OBVIOUS
    <3>1. i \in Namespaces
      BY <1>6, Zenon
    <3>2. Items(mem') = Namespaces
      <4>1. p \notin VolumePhases /\ p # "CreateVolumeSnapshot"
        BY <1>6, LoopPhases
      <4> QED BY <1>2, <4>1 DEF Items
    <3> QED BY <1>7, <3>1, <3>2
  <2>2. p \in VolumePhases /\ i \in Volumes
    BY <2>1, Zenon
  <2>3. p = "CreateVolumeSnapshot"
    BY <1>2, <1>5, <1>7, <2>1, <2>2 DEF Items
  <2>4. Items(mem') = Volumes \ Annotated(mem')
    BY <1>2, <2>1, <2>3 DEF Items
  <2>5. i \in Annotated(mem')
    BY <1>7, <2>2, <2>4
  <2> QED BY <1>3, <2>2, <2>3, <2>5 DEF Annotated
<1> QED BY <1>7, Visits

-----------------------------------------------------------------------------
(* What a step does to one object of the cluster.                          *)

(* Each phase of a loop makes its own call. *)
LEMMA CalledAt ==
  ASSUME NEW i, Called(i)
  PROVE  /\ mem.phase = "CreateTempNamespace" => CreateNamespace(i)
         /\ mem.phase = "CreateVolumeSnapshot" => CreateSnapshot(i)
         /\ mem.phase = "UpdateSnapshotContent" => UpdateContent(i, FALSE)
         /\ mem.phase = "CreatePvc" => CreatePvcWithVs(i)
         /\ mem.phase \in {"CreatePvcPod", "CreateStagePod"} => BuildStagePod(i)
         /\ mem.phase = "UpdatePvClaimRetain" => UpdatePvPolicy(i, "Retain")
         /\ mem.phase = "RecreatePvc" => CreatePvcWithPv(i, mem.ann[NsOf[i]] = "pv")
         /\ mem.phase = "UpdatePvClaimRef" =>
              UpdatePvClaimRef(i, mem.ann[NsOf[i]] = "pv")
         /\ mem.phase = "UpdatePvClaimDelete" => UpdatePvPolicy(i, "Delete")
         /\ mem.phase = "UpdateSnapshotContentBack" => UpdateContent(i, TRUE)
         /\ mem.phase = "CleanUp" => AsyncDeleteNamespace(i)
BY DEF Called, Call, At

LEMMA SnapMoves ==
  ASSUME ClusterTypeOK, ClusterMove, NEW v \in Volumes
  PROVE  LET s == snap[v]
             t == snap'[v]
         IN  \/ t.vs = s.vs /\ t.ref = s.ref
             \/ /\ At("CreateVolumeSnapshot") /\ s.vs = "absent"
                /\ t.vs = "created" /\ t.ref = s.ref
             \/ /\ At("UpdateSnapshotContent") /\ s.ref # "lost"
                /\ t.vs = s.vs /\ t.ref = "temp"
             \/ /\ At("UpdateSnapshotContentBack") /\ s.ref # "lost"
                /\ t.vs = s.vs /\ t.ref = "orig"
             \/ /\ s.vs = "created" /\ s.ref = "temp" /\ temp' = temp
                /\ t.vs = "ready" /\ t.ref = s.ref
             \/ /\ At("DeleteVolumeSnapshot") \/ temp[NsOf[v]] = "terminating"
                /\ t = WithoutSnapshot(s)
<1> DEFINE Goal ==
         LET s == snap[v]
             t == snap'[v]
         IN  \/ t.vs = s.vs /\ t.ref = s.ref
             \/ /\ At("CreateVolumeSnapshot") /\ s.vs = "absent"
                /\ t.vs = "created" /\ t.ref = s.ref
             \/ /\ At("UpdateSnapshotContent") /\ s.ref # "lost"
                /\ t.vs = s.vs /\ t.ref = "temp"
             \/ /\ At("UpdateSnapshotContentBack") /\ s.ref # "lost"
                /\ t.vs = s.vs /\ t.ref = "orig"
             \/ /\ s.vs = "created" /\ s.ref = "temp" /\ temp' = temp
                /\ t.vs = "ready" /\ t.ref = s.ref
             \/ /\ At("DeleteVolumeSnapshot") \/ temp[NsOf[v]] = "terminating"
                /\ t = WithoutSnapshot(s)
<1>1. snap \in [Volumes -> Snapshots] /\ snap[v] \in Snapshots
  BY DEF ClusterTypeOK
<1>2. ASSUME snap' = snap PROVE Goal
  BY <1>2
<1>3. ASSUME NEW i, NEW recover \in BOOLEAN,
             UpdateContent(i, recover) \/ UpdateContentRef(i, recover)
      PROVE  \/ snap'[v] = snap[v]
             \/ /\ snap[v].ref # "lost" /\ snap'[v].vs = snap[v].vs
                /\ snap'[v].ref = IF recover THEN "orig" ELSE "temp"
  BY <1>1, <1>3 DEF UpdateContent, UpdateContentRef, CannotUpdateContent, Snapshots
<1>4. ASSUME NEW i, NEW recover \in BOOLEAN, UpdateContentSwallowed(i, recover)
      PROVE  Goal
  BY <1>1, <1>4 DEF UpdateContentSwallowed, Snapshots
<1>5. CASE Environment
  <2>1. ASSUME NEW w, SnapshotReady(w) PROVE Goal
    BY <1>1, <2>1 DEF SnapshotReady, Snapshots
  <2>2. ASSUME NEW n, NsGone(n) PROVE Goal
    BY <1>1, <2>2 DEF NsGone
  <2> QED BY <1>2, <1>5, <2>1, <2>2 DEF Environment, Provision, Bind, Fill, PvcGone, PodRuns,
          PodGone, OldNsGone, VeleroFinishes
<1>6. ASSUME NEW i, Called(i) PROVE Goal
  <2>1. CASE At("CreateVolumeSnapshot") /\ CreateSnapshot(i)
    BY <1>1, <2>1 DEF CreateSnapshot, CannotCreateSnapshot, Snapshots
  <2>2. CASE At("UpdateSnapshotContent") /\ UpdateContent(i, FALSE)
    BY <1>3, <2>2
  <2>3. CASE At("UpdateSnapshotContentBack") /\ UpdateContent(i, TRUE)
    BY <1>3, <2>3
  <2>4. CASE At("DeleteVolumeSnapshot") /\ DeleteSnapshot(i)
    BY <1>1, <2>4 DEF DeleteSnapshot
  <2> QED
    BY <1>2, <1>6, <2>1, <2>2, <2>3, <2>4
    DEF Called, Call, AsyncDeleteOldNamespace, CreateNamespace, CreatePvcWithVs,
        BuildStagePod, EnsureStagePodDeleted, UpdatePvPolicy, DeletePvc, CreatePvcWithPv,
        UpdatePvClaimRef, AsyncDeleteNamespace
<1>7. ASSUME NEW i, CalledInPart(i) PROVE Goal
  BY <1>3, <1>4, <1>7 DEF CalledInPart
<1> QED
  BY <1>2, <1>5, <1>6, <1>7
  DEF ClusterMove, clusterVars, CleansUp, AsyncDeleteNamespace, ClearPV, EnsureVeleroBackup

LEMMA TempMoves ==
  ASSUME ClusterTypeOK, ClusterMove, NEW n \in Namespaces
  PROVE  \/ temp'[n] = temp[n]
         \/ /\ At("CreateTempNamespace") /\ temp[n] = "absent" /\ temp'[n] = "active"
         \/ /\ At("CleanUp") \/ (pc \in {"timeout", "abort"} /\ todo # {})
            /\ temp[n] # "absent" /\ temp'[n] = "terminating"
         \/ temp[n] = "terminating" /\ temp'[n] = "absent"
<1>1. temp \in [Namespaces -> NsStates]
  BY DEF ClusterTypeOK
<1>2. CASE Environment
  BY <1>1, <1>2 DEF Environment, SnapshotReady, Provision, Bind, Fill, PvcGone, PodRuns,
     PodGone, NsGone, OldNsGone, VeleroFinishes
<1>3. ASSUME NEW i, AsyncDeleteNamespace(i)
      PROVE  temp'[n] = temp[n] \/ (temp[n] # "absent" /\ temp'[n] = "terminating")
  BY <1>1, <1>3 DEF AsyncDeleteNamespace, Deleted
<1>4. ASSUME NEW i, CreateNamespace(i)
      PROVE  temp'[n] = temp[n] \/ (temp[n] = "absent" /\ temp'[n] = "active")
  BY <1>1, <1>4 DEF CreateNamespace
<1>5. ASSUME NEW i, Called(i)
      PROVE  \/ temp' = temp
             \/ At("CreateTempNamespace") /\ CreateNamespace(i)
             \/ At("CleanUp") /\ AsyncDeleteNamespace(i)
  BY <1>5 DEF Called, Call, AsyncDeleteOldNamespace, CreateSnapshot, UpdateContent,
     CreatePvcWithVs, BuildStagePod, EnsureStagePodDeleted, UpdatePvPolicy, DeletePvc,
     CreatePvcWithPv, UpdatePvClaimRef, DeleteSnapshot
<1>6. ASSUME NEW i, CalledInPart(i) PROVE temp' = temp
  BY <1>6 DEF CalledInPart, UpdateContentRef, UpdateContentSwallowed
<1>7. ASSUME NEW i, CleansUp(i)
      PROVE  \/ temp' = temp
             \/ pc \in {"timeout", "abort"} /\ todo # {} /\ AsyncDeleteNamespace(i)
  BY <1>7 DEF CleansUp, ClearPV
<1> QED BY <1>2, <1>3, <1>4, <1>5, <1>6, <1>7 DEF ClusterMove, clusterVars, EnsureVeleroBackup

LEMMA PodMoves ==
  ASSUME ClusterTypeOK, ClusterMove, NEW n \in Namespaces
  PROVE  \/ pod'[n] = pod[n]
         \/ /\ At("CreatePvcPod") \/ At("CreateStagePod")
            /\ pod[n] = "absent" /\ pod'[n] = "pending"
         \/ pod[n] = "pending" /\ pod'[n] = "running"
         \/ At("CleanPvcPod") /\ pod'[n] = "terminating"
         \/ pod[n] = "terminating" /\ pod'[n] = "absent"
         \/ temp[n] = "terminating" /\ pod'[n] = "absent"
<1>1. pod \in [Namespaces -> PodStates]
  BY DEF ClusterTypeOK
<1>2. CASE Environment
  BY <1>1, <1>2 DEF Environment, SnapshotReady, Provision, Bind, Fill, PvcGone, PodRuns,
     PodGone, NsGone, OldNsGone, VeleroFinishes
<1>3. ASSUME NEW i, BuildStagePod(i)
      PROVE  pod'[n] = pod[n] \/ (pod[n] = "absent" /\ pod'[n] = "pending")
  BY <1>1, <1>3 DEF BuildStagePod, StagePodWanted
<1>4. ASSUME NEW i, EnsureStagePodDeleted(i)
      PROVE  pod'[n] = pod[n] \/ pod'[n] = "terminating"
  BY <1>1, <1>4 DEF EnsureStagePodDeleted
<1>5. ASSUME NEW i, Called(i)
      PROVE  \/ pod' = pod
             \/ (At("CreatePvcPod") \/ At("CreateStagePod")) /\ BuildStagePod(i)
             \/ At("CleanPvcPod") /\ EnsureStagePodDeleted(i)
  BY <1>5 DEF Called, Call, AsyncDeleteOldNamespace, CreateNamespace, CreateSnapshot,
     UpdateContent, CreatePvcWithVs, UpdatePvPolicy, DeletePvc,
     CreatePvcWithPv, UpdatePvClaimRef, DeleteSnapshot, AsyncDeleteNamespace
<1>6. ASSUME NEW i, CalledInPart(i) \/ CleansUp(i) PROVE pod' = pod
  BY <1>6 DEF CalledInPart, UpdateContentRef, UpdateContentSwallowed, CleansUp,
     AsyncDeleteNamespace, ClearPV
<1> QED BY <1>2, <1>3, <1>4, <1>5, <1>6 DEF ClusterMove, clusterVars, EnsureVeleroBackup

(* A volume's claim, PV and policy. *)
Is(w, claim, pv, policy) == w.pvc = claim /\ w.pv = pv /\ w.policy = policy

VolMove(v, w, x) ==
  \/ x = w
  \/ At("CreatePvc") /\ w.pvc = "absent" /\ Is(x, "restoring", w.pv, w.policy)
  \/ w.pvc = "restoring" /\ Is(x, "restored", "bound", "Delete")
  \/ w.pvc = "recreated" /\ w.pv = "claimed" /\ Is(x, "rebound", "bound", w.policy)
  \/ w.pvc = "blank" /\ Is(x, "filled", w.pv, w.policy)
  \/ /\ w.pvc = "deleting" \/ temp[NsOf[v]] = "terminating"
     /\ x = WithoutClaim(w)
  \/ At("UpdatePvClaimRetain") /\ Is(x, w.pvc, w.pv, "Retain")
  \/ At("UpdatePvClaimDelete") /\ Is(x, w.pvc, w.pv, "Delete")
  \/ At("DeletePvc") /\ w.pvc # "absent" /\ Is(x, "deleting", w.pv, w.policy)
  \/ /\ At("RecreatePvc") /\ w.pvc = "absent"
     /\ Is(x, IF mem.ann[NsOf[v]] = "pv" THEN "recreated" ELSE "blank", w.pv, w.policy)
  \/ /\ At("UpdatePvClaimRef") /\ w.pvc # "absent" /\ mem.ann[NsOf[v]] = "pv"
     /\ w.pv = "released" /\ Is(x, w.pvc, "claimed", w.policy)
  \/ /\ pc \in {"timeout", "abort"} /\ todo # {}
     /\ \/ w.pv = "bound" /\ Is(x, w.pvc, "doomed", w.policy)
        \/ w.pv \in {"released", "claimed"} /\ Is(x, w.pvc, "leaked", w.policy)

LEMMA VolMoves ==
  ASSUME ClusterTypeOK, ClusterMove, NEW v \in Volumes
  PROVE  VolMove(v, vol[v], vol'[v])
<1> DEFINE Goal == VolMove(v, vol[v], vol'[v])
<1>1. vol \in [Volumes -> VolumeClaims] /\ vol[v] \in VolumeClaims
  BY DEF ClusterTypeOK
<1>2. ASSUME vol' = vol PROVE Goal
  BY <1>2 DEF VolMove
<1>3. CASE Environment
  <2>1. ASSUME NEW u, Provision(u) PROVE Goal
    BY <1>1, <2>1 DEF Provision, VolMove, Is
  <2>2. ASSUME NEW u, Bind(u) PROVE Goal
    BY <1>1, <2>2 DEF Bind, VolMove, Is, VolumeClaims
  <2>3. ASSUME NEW u, PvcGone(u) PROVE Goal
    BY <1>1, <2>3 DEF PvcGone, VolMove
  <2>4. ASSUME NEW n, NsGone(n) PROVE Goal
    BY <1>1, <2>4 DEF NsGone, VolMove
  <2>5. ASSUME NEW u, Fill(u) PROVE Goal
    BY <1>1, <2>5 DEF Fill, VolMove, Is, VolumeClaims
  <2> QED BY <1>2, <1>3, <2>1, <2>2, <2>3, <2>4, <2>5 DEF Environment, SnapshotReady, PodRuns,
          PodGone, OldNsGone, VeleroFinishes
<1>4. ASSUME NEW i, Called(i) PROVE Goal
  <2>1. CASE At("CreatePvc") /\ CreatePvcWithVs(i)
    BY <1>1, <2>1 DEF CreatePvcWithVs, VolMove, Is, VolumeClaims
  <2>2. CASE At("UpdatePvClaimRetain") /\ UpdatePvPolicy(i, "Retain")
    BY <1>1, <2>2 DEF UpdatePvPolicy, VolMove, Is, VolumeClaims
  <2>3. CASE At("UpdatePvClaimDelete") /\ UpdatePvPolicy(i, "Delete")
    BY <1>1, <2>3 DEF UpdatePvPolicy, VolMove, Is, VolumeClaims
  <2>4. CASE At("DeletePvc") /\ DeletePvc(i)
    BY <1>1, <2>4 DEF DeletePvc, VolMove, Is, VolumeClaims
  <2>5. CASE At("RecreatePvc") /\ CreatePvcWithPv(i, mem.ann[NsOf[i]] = "pv")
    BY <1>1, <2>5 DEF CreatePvcWithPv, VolMove, Is, VolumeClaims
  <2>6. CASE At("UpdatePvClaimRef") /\ UpdatePvClaimRef(i, mem.ann[NsOf[i]] = "pv")
    BY <1>1, <2>6 DEF UpdatePvClaimRef, CannotUpdatePvClaimRef, VolMove, Is, VolumeClaims
  <2> QED
    BY <1>2, <1>4, <2>1, <2>2, <2>3, <2>4, <2>5, <2>6
    DEF Called, Call, AsyncDeleteOldNamespace, CreateNamespace, CreateSnapshot, UpdateContent,
        BuildStagePod, EnsureStagePodDeleted, DeleteSnapshot, AsyncDeleteNamespace
<1>5. ASSUME NEW i, ClearPV(i), pc \in {"timeout", "abort"}, todo # {} PROVE Goal
  <2>1. \/ vol'[v] = [vol[v] EXCEPT !.pv = CASE @ = "bound" -> "doomed"
                                    [] @ \in {"released", "claimed"} -> "leaked"
                                    [] OTHER -> @]
        \/ vol'[v] = vol[v]
    BY <1>1, <1>5 DEF ClearPV
  <2> QED BY <1>1, <1>5, <2>1 DEF VolMove, Is, VolumeClaims
<1> QED
  BY <1>2, <1>3, <1>4, <1>5
  DEF ClusterMove, clusterVars, CalledInPart, UpdateContentRef, UpdateContentSwallowed,
      CleansUp, AsyncDeleteNamespace, EnsureVeleroBackup

LEMMA BackupMoves ==
  ASSUME ClusterTypeOK, ClusterMove
  PROVE  \/ UNCHANGED <<backup, copied>>
         \/ /\ At("StartFileSystemCopy") /\ backup = "absent"
            /\ backup' = "new" /\ UNCHANGED copied
         \/ /\ backup = "new" /\ UNCHANGED <<snap, vol, pod>>
            /\ \/ /\ backup' = "completed"
                  /\ copied' = {v \in Mounted : pod[NsOf[v]] = "running"
                                                /\ vol[v].pvc = "rebound"}
               \/ backup' = "failed" /\ UNCHANGED copied
<1>1. CASE Environment
  BY <1>1 DEF Environment, SnapshotReady, Provision, Bind, Fill, PvcGone, PodRuns,
     PodGone, NsGone, OldNsGone, VeleroFinishes
<1>2. ASSUME NEW i, Called(i) PROVE UNCHANGED <<backup, copied>>
  BY <1>2 DEF Called, Call, AsyncDeleteOldNamespace, CreateNamespace, CreateSnapshot,
     UpdateContent, CreatePvcWithVs, BuildStagePod, EnsureStagePodDeleted, UpdatePvPolicy,
     DeletePvc, CreatePvcWithPv, UpdatePvClaimRef, DeleteSnapshot, AsyncDeleteNamespace
<1>3. ASSUME NEW i, CalledInPart(i) \/ CleansUp(i) PROVE UNCHANGED <<backup, copied>>
  BY <1>3 DEF CalledInPart, UpdateContentRef, UpdateContentSwallowed, CleansUp,
     AsyncDeleteNamespace, ClearPV
<1> QED BY <1>1, <1>2, <1>3 DEF ClusterMove, clusterVars, EnsureVeleroBackup

-----------------------------------------------------------------------------
(* How a handler begins, and how a loop comes to its end.                  *)

(* A handler is entered from the one before it, when that is done, or at   *)
(* the beginning of a reconcile, with a copy that may be old.              *)
LEMMA AtMoves ==
  ASSUME Control, Resource, [Next]_vars, NEW p, At(p)'
  PROVE  \/ At(p)
         \/ Lags(p, cr.phase) /\ cr' = cr /\ UNCHANGED clusterVars
         \/ HandlerDone /\ Rank(p) = Rank(mem.phase) + 1 /\ UNCHANGED clusterVars
<1>1. StepKind
  BY StepKinds DEF Resource
<1>2. pc' = "phase" /\ mem'.phase = p
  BY DEF At
<1>3. mem \in Resources /\ (pc # "idle" => ~Terminal(mem))
  BY DEF Control, ControlTypeOK, Coherent
<1>4. CASE Advancing \/ Forgetting
  <2>1. HandlerDone /\ UNCHANGED clusterVars /\ mem' = Succeeded(mem)
    BY <1>2, <1>4 DEF Advancing, Forgetting, Advance, AdvanceForgets, Enter, Return
  <2>2. Rank(Succeeded(mem).phase) = Rank(mem.phase) + 1
    BY <1>3, <2>1, SucceededIs DEF HandlerDone
  <2> QED BY <1>2, <2>1, <2>2
<1>5. CASE Begin
  <2>1. mem' = cached /\ cr' = cr /\ UNCHANGED clusterVars
    BY <1>5 DEF Begin, Enter, resourceVars
  <2>2. Lags(cached.phase, cr.phase)
    BY DEF Resource, CopiesLag, Held, Versions
  <2> QED BY <1>2, <2>1, <2>2
<1>6. CASE TimePasses
  BY <1>2, <1>3, <1>6, AgedIs DEF TimePasses, At
<1>7. CASE Continuing \/ CacheSync \/ UserTouch \/ Resting
  BY <1>2, <1>7 DEF Continuing, CacheSync, UserTouch, Resting, workerVars, At
<1>8. CASE Failing \/ Requeueing \/ Saving \/ CheckPvcReadyForgets \/ Cancel \/ Crash
           \/ BeginTimeout
  BY <1>2, <1>8 DEF Failing, Fail, Requeueing, Requeue, Saving, Save, CheckPvcReadyForgets,
     Cancel, Crash, BeginTimeout, Return
<1> QED BY <1>1, <1>4, <1>5, <1>6, <1>7, <1>8 DEF StepKind

(* The handlers that save go on with what they have saved. *)
LEMMA SavedMoves ==
  ASSUME Control, Resource, [Next]_vars, pc' = "saved"
  PROVE  \/ pc = "saved" /\ mem'.phase = mem.phase /\ (fresh' => fresh)
         \/ Saving /\ mem'.phase = mem.phase /\ fresh
<1>1. StepKind
  BY StepKinds DEF Resource
<1>2. mem \in Resources
  BY DEF Control, ControlTypeOK
<1>3. CASE Saving
  BY <1>3, SavesIs DEF Saving
<1>4. CASE TimePasses
  BY <1>2, <1>4, AgedIs DEF TimePasses
<1>5. CASE CacheSync \/ UserTouch \/ Resting
  BY <1>5 DEF CacheSync, UserTouch, Resting, workerVars
<1>6. CASE Advancing \/ Forgetting \/ Failing \/ Requeueing \/ Continuing
           \/ CheckPvcReadyForgets \/ Cancel \/ Crash \/ Begin \/ BeginTimeout
  BY <1>6 DEF Advancing, Advance, Forgetting, AdvanceForgets, Failing, Fail, Requeueing,
     Requeue, Continuing, CheckPvcReadyForgets, Cancel, Crash, Begin, BeginTimeout, Return,
     Enter
<1> QED BY <1>1, <1>3, <1>4, <1>5, <1>6 DEF StepKind

(* The label follows the creation of the backup, the abort its failure.    *)
LEMMA LabelMoves ==
  ASSUME Resource, [Next]_vars, pc' = "label"
  PROVE  pc = "label" \/ EnsureVeleroBackup
<1>1. CASE LoopStep
  <2>1. PICK i \in todo :
          \/ CallSucceeds(i) \/ CallRefused(i) \/ CallFaults(i) \/ CallLags(i)
          \/ DeleteConflicts(i) \/ ContentConflicts(i) \/ RetrySwallowed(i)
    BY <1>1 DEF LoopStep
  <2> QED BY <2>1 DEF CallSucceeds, CallRefused, CallFaults, CallLags, DeleteConflicts,
          ContentConflicts, RetrySwallowed, Fail, Requeue, Return
<1>2. CASE SaveStep
  BY <1>2 DEF SaveStep, SaveSnapshots, CheckPvcReady, CheckPvcReadyForgets,
     StartFileSystemCopy, SaveLabel, Save, Requeue, Fail, Return
<1>3. CASE PollStep \/ LoopDone \/ WaitFileSystemCopyComplete
  BY <1>3 DEF PollStep, Created, Precheck, WaitPrepareComplete, CheckSnapshotReady,
     WaitPvcPodRunning, EnsurePvcPodCleaned, EnsurePvcsDeleted, EnsureRecreatePvcReady,
     WaitStagePodRunning, ReadFaults, ReadLags, Poll, LoopDone, WaitFileSystemCopyComplete,
     Advance, AdvanceForgets, Fail, Requeue, Enter, Return
<1>4. CASE CleanUpStep
  BY <1>4 DEF CleanUpStep, CleanUpNamespace, CleanUpConflicts, CleanUpVolume, Cancel,
     Requeue, Return
<1>5. CASE Begin \/ BeginTimeout \/ ReconcileTerminal \/ Unreachable \/ EnvironmentStep
           \/ CacheSync \/ UserTouch \/ Crash \/ TimePasses \/ UNCHANGED vars
  BY <1>5 DEF Begin, BeginTimeout, ReconcileTerminal, Unreachable, EnvironmentStep,
     CacheSync, UserTouch, Crash, TimePasses, Requeue, Return, Enter, vars, workerVars
<1> QED BY <1>1, <1>2, <1>3, <1>4, <1>5 DEF Next, Worker

LEMMA AbortMoves ==
  ASSUME Resource, [Next]_vars, pc' = "abort"
  PROVE  pc = "abort" \/ (backup = "failed" /\ backup' = backup)
<1>1. StepKind
  BY StepKinds DEF Resource
<1> QED
  BY <1>1 DEF StepKind, Advancing, Advance, Forgetting, AdvanceForgets, Failing, Fail,
     Requeueing, Requeue, Saving, Save, Continuing, CheckPvcReadyForgets, Cancel, Begin,
     BeginTimeout, CacheSync, UserTouch, Crash, TimePasses, Resting, Return, Enter, workerVars

(* The phase after a loop is reached, or the loop gets over one more       *)
(* object, by a call on that object.                                       *)
LEMMA LoopReaches ==
  ASSUME Control, Resource, [Next]_vars,
         NEW p \in (NamespacePhases \union VolumePhases) \ {"CreateVolumeSnapshot"},
         NEW q, Rank(q) = Rank(p) + 1, NEW i,
         \/ p \in NamespacePhases /\ i \in Namespaces
         \/ p \in VolumePhases /\ i \in Volumes,
         Reached(q)' \/ Visited(p, i)'
  PROVE  \/ Reached(q) \/ Visited(p, i)
         \/ /\ At(p) /\ fresh /\ cr' = cr
            /\ Called(i) \/ (CalledInPart(i) /\ i \in swallowed')
<1>1. CASE Visited(p, i)'
  BY <1>1, Visiting
<1>2. CASE Reached(q)'
  <2> SUFFICES ASSUME ~Reached(q) PROVE Visited(p, i)
    OBVIOUS
  <2>1. Rank(cr.phase) \in 1..29 /\ Rank(cr'.phase) \in 1..29
    BY NowTyped, OnlyForward
  <2>2. p \in ExportPhases \ {"Precheck", "WaitFileSystemCopyComplete"} /\ Rank(p) \in 1..29
    <3>1. NamespacePhases \union VolumePhases \subseteq ExportPhases
      <4>1. \A k \in 1..29 : VeleroExportSteps[k] \in ExportPhases
        BY StepsDomain DEF ExportPhases
      <4> QED BY <4>1, StepsAre DEF NamespacePhases, VolumePhases
    <3> QED BY <3>1, RankTyped, LoopPhases
  <2>3. Rank(cr.phase) <= Rank(p) /\ Rank(p) < Rank(cr'.phase)
    BY <1>2, <2>1, <2>2 DEF Reached
  <2>4. fresh /\ mem.phase = p /\ HandlerDone
    BY <2>2, <2>3, Crossing
  <2> QED BY <2>4, AllVisited
<1> QED BY <1>1, <1>2

-----------------------------------------------------------------------------
(* The invariant is preserved, clause by clause: what always holds.        *)

(* What every step below starts from. *)
LEMMA Beginning ==
  ASSUME Invariant, [Next]_vars
  PROVE  /\ ClusterTypeOK /\ Control /\ Resource /\ Always /\ ClusterMove
         /\ Rank(cr.phase) \in 1..29 /\ Rank(mem.phase) \in 1..29
         /\ Rank(cr'.phase) \in 1..29 /\ Rank(cr.phase) <= Rank(cr'.phase)
BY NowTyped, OnlyForward, ClusterMoves DEF Invariant

LEMMA BackupStep == Invariant /\ [Next]_vars => BackupOf'
<1> SUFFICES ASSUME Invariant, [Next]_vars PROVE BackupOf'
  OBVIOUS
<1> DEFINE r == Rank(cr.phase)
           s == Rank(cr'.phase)
           m == Rank(mem.phase)
<1>1. ClusterTypeOK /\ Control /\ Resource /\ ClusterMove /\ BackupOf
  BY Beginning DEF Always
<1>2. r \in 1..29 /\ s \in 1..29 /\ r <= s /\ m \in 1..29
  BY Beginning
<1>3. \/ backup' = backup
      \/ At("StartFileSystemCopy") /\ backup = "absent" /\ backup' = "new"
      \/ backup = "new" /\ backup' \in {"completed", "failed"}
  BY <1>1, BackupMoves
<1>4. backup # "absent" => r >= 26
  BY <1>1, <1>2, RankTable DEF BackupOf, Reached
<1>5. At("StartFileSystemCopy") => r >= 26
  BY <1>1, Windows DEF At
<1>6. backup' # "absent" => s >= 26
  BY <1>2, <1>3, <1>4, <1>5
<1>7. s >= 27 \/ pc' = "label" \/ (pc' = "saved" /\ mem'.phase = "StartFileSystemCopy")
        => backup' # "absent"
  <2>1. ASSUME backup # "absent" PROVE backup' # "absent"
    BY <1>3, <2>1
  <2>2. ASSUME s >= 27 PROVE backup # "absent"
    <3>1. CASE r >= 27
      BY <1>1, <3>1, RankTable DEF BackupOf, Reached
    <3>2. CASE r <= 26
      <4>1. "StartFileSystemCopy" \in ExportPhases \ {"Precheck", "WaitFileSystemCopyComplete"}
        BY StopsAre
      <4>2. mem.phase = "StartFileSystemCopy" /\ HandlerDone
        BY <1>1, <1>2, <2>2, <3>2, <4>1, RankTable, Crossing
      <4> QED BY <1>1, <4>2 DEF HandlerDone, BackupOf
    <3> QED BY <1>2, <3>1, <3>2
  <2>3. ASSUME pc' = "label" PROVE backup' # "absent"
    <3>1. CASE pc = "label"
      BY <1>1, <2>1, <3>1 DEF BackupOf
    <3>2. CASE EnsureVeleroBackup
      BY <3>2 DEF EnsureVeleroBackup
    <3> QED BY <1>1, <2>3, <3>1, <3>2, LabelMoves
  <2>4. ASSUME pc' = "saved", mem'.phase = "StartFileSystemCopy" PROVE backup # "absent"
    <3>1. \/ pc = "saved" /\ mem.phase = "StartFileSystemCopy"
          \/ Saving /\ mem.phase = "StartFileSystemCopy"
      BY <1>1, <2>4, SavedMoves
    <3>2. Saving /\ mem.phase = "StartFileSystemCopy" => pc = "label"
      BY DEF Saving, At
    <3> QED BY <1>1, <3>1, <3>2 DEF BackupOf
  <2> QED BY <2>1, <2>2, <2>3, <2>4
<1>8. ASSUME backup = "completed" PROVE backup' = "completed"
  BY <1>3, <1>8
<1>9. ASSUME HandlerDone, m = 27 PROVE backup = "completed"
  <2>1. mem.phase = "WaitFileSystemCopyComplete"
    <3>1. mem.phase \in ExportPhases /\ "WaitFileSystemCopyComplete" \in ExportPhases
      BY <1>1, PhasesTyped, StopsAre DEF IgnoreUpdateError
    <3> QED BY <1>9, <3>1, RankTyped, RankTable
  <2> QED BY <1>9, <2>1 DEF HandlerDone
<1>10. ASSUME pc \in {"phase", "saved"}, m = 28 PROVE backup = "completed"
  <2>1. mem.phase = "CleanUp"
    <3>1. mem.phase \in ExportPhases /\ "CleanUp" \in ExportPhases
      BY <1>1, PhasesTyped, StopsAre
    <3> QED BY <1>10, <3>1, RankTyped, RankTable
  <2>2. pc = "phase"
    BY <1>1, <1>10, <2>1 DEF Resource, SavedPhases
  <2> QED BY <1>1, <2>1, <2>2 DEF BackupOf, At
<1>11. ASSUME s >= 28 PROVE backup = "completed"
  <2>1. CASE r >= 28
    BY <1>1, <2>1, RankTable DEF BackupOf, Reached
  <2>2. CASE r <= 27
    <3>1. \/ Ahead /\ pc = "phase" /\ s = m
          \/ HandlerDone /\ s = m + 1
      BY <1>1, <1>2, <1>11, <2>2, Moves
    <3>2. CASE Ahead /\ pc = "phase" /\ s = m
      <4>1. m = 28
        BY <1>2, <1>11, <2>2, <3>2 DEF Ahead
      <4> QED BY <1>10, <3>2, <4>1
    <3>3. CASE HandlerDone /\ s = m + 1
      <4>1. m \in 27..28
        BY <1>2, <1>11, <3>3
      <4>2. pc \in {"phase", "saved"}
        BY <3>3 DEF HandlerDone
      <4> QED BY <1>9, <1>10, <3>3, <4>1, <4>2
    <3> QED BY <3>1, <3>2, <3>3
  <2> QED BY <1>2, <2>1, <2>2
<1>12. ASSUME At("CleanUp")' PROVE backup = "completed"
  <2>1. \/ At("CleanUp")
        \/ Lags("CleanUp", cr.phase)
        \/ HandlerDone /\ Rank("CleanUp") = m + 1
    BY <1>1, <1>12, AtMoves
  <2>2. CASE At("CleanUp")
    BY <1>1, <2>2 DEF BackupOf
  <2>3. CASE Lags("CleanUp", cr.phase)
    <3>1. r >= 28
      BY <1>2, <2>3, LagsAre, RankTable
    <3> QED BY <1>1, <3>1, RankTable DEF BackupOf, Reached
  <2>4. CASE HandlerDone /\ Rank("CleanUp") = m + 1
    BY <1>2, <1>9, <2>4, RankTable
  <2> QED BY <2>1, <2>2, <2>3, <2>4
<1>13. ASSUME pc' = "abort" PROVE backup' = "failed"
  <2>1. CASE pc = "abort"
    BY <1>1, <1>3, <2>1 DEF BackupOf
  <2> QED BY <1>1, <1>13, <2>1, AbortMoves
<1> QED
  BY <1>6, <1>7, <1>8, <1>11, <1>12, <1>13, <1>2, RankTable DEF BackupOf, Reached

LEMMA ContentStep ==
  ASSUME Invariant, [Next]_vars, NEW v \in Volumes
  PROVE  ContentOf(v)'
<1> DEFINE r == Rank(cr.phase)
           s == Rank(cr'.phase)
           back == Reached("DeleteVolumeSnapshot") \/ Visited("UpdateSnapshotContentBack", v)
<1>1. ClusterTypeOK /\ Control /\ Resource /\ ClusterMove /\ ContentOf(v)
  BY Beginning DEF Always
<1>2. r \in 1..29 /\ s \in 1..29 /\ r <= s
  BY Beginning
<1>3. swallowed \subseteq swallowed'
  BY <1>1, HistoryMoves
<1>4. \/ snap'[v].ref = snap[v].ref
      \/ At("UpdateSnapshotContent")
      \/ snap'[v].ref = "orig"
      \/ snap'[v] = WithoutSnapshot(snap[v])
      \/ snap[v].ref = "temp"
  BY <1>1, SnapMoves
<1>5. snap[v].ref = "orig" /\ snap'[v] = WithoutSnapshot(snap[v]) => snap'[v].ref = "orig"
  <2>1. snap[v] \in Snapshots
    BY <1>1 DEF ClusterTypeOK
  <2> QED BY <2>1 DEF WithoutSnapshot, Snapshots
<1>6. ASSUME snap[v].ref = "orig", ~At("UpdateSnapshotContent") PROVE snap'[v].ref = "orig"
  BY <1>4, <1>5, <1>6
<1>7. At("UpdateSnapshotContent") => r \in 7..10
  BY <1>1, Windows DEF At
<1>8. ASSUME s < 7 PROVE snap'[v].ref = "orig"
  <2>1. snap[v].ref = "orig"
    BY <1>1, <1>2, <1>8, RankTable DEF ContentOf, Before
  <2> QED BY <1>2, <1>6, <1>7, <1>8, <2>1
<1>9. ASSUME back' PROVE snap'[v].ref = "orig" \/ v \in swallowed'
  <2>1. \/ back
        \/ /\ At("UpdateSnapshotContentBack")
           /\ Called(v) \/ (CalledInPart(v) /\ v \in swallowed')
    <3>1. "UpdateSnapshotContentBack" \in VolumePhases \ {"CreateVolumeSnapshot"}
      BY DEF VolumePhases
    <3>2. Rank("DeleteVolumeSnapshot") = Rank("UpdateSnapshotContentBack") + 1
      BY RankTable
    <3>3. Reached("DeleteVolumeSnapshot")' \/ Visited("UpdateSnapshotContentBack", v)'
      BY <1>9
    <3> QED BY <1>1, <3>1, <3>2, <3>3, LoopReaches
  <2>2. CASE back
    <3>1. snap[v].ref = "orig" \/ v \in swallowed
      BY <1>1, <2>2 DEF ContentOf
    <3>2. ~At("UpdateSnapshotContent")
      BY <1>2, <1>7, <2>2, RankTable DEF Reached, Visited, At
    <3> QED BY <1>3, <1>6, <3>1, <3>2
  <2>3. CASE At("UpdateSnapshotContentBack") /\ Called(v)
    <3>1. UpdateContent(v, TRUE)
      BY <2>3, CalledAt DEF At
    <3> QED BY <1>1, <3>1 DEF UpdateContent, ClusterTypeOK, Snapshots
  <2> QED BY <2>1, <2>2, <2>3
<1> QED BY <1>2, <1>8, <1>9, RankTable DEF ContentOf, Before

LEMMA CleanedStep ==
  ASSUME Invariant, [Next]_vars, NEW n \in Namespaces
  PROVE  CleanedOf(n)'
<1> SUFFICES ASSUME (Reached(PhaseCompleted) \/ Visited("CleanUp", n))'
             PROVE  temp'[n] # "active"
  BY DEF CleanedOf
<1>1. ClusterTypeOK /\ Control /\ Resource /\ ClusterMove /\ CleanedOf(n)
  BY Beginning DEF Always
<1>2. \/ Reached(PhaseCompleted) \/ Visited("CleanUp", n)
      \/ At("CleanUp") /\ (Called(n) \/ CalledInPart(n))
  <2>1. "CleanUp" \in NamespacePhases \ {"CreateVolumeSnapshot"}
    BY DEF NamespacePhases
  <2>2. Rank(PhaseCompleted) = Rank("CleanUp") + 1
    BY RankTable
  <2>3. Reached(PhaseCompleted)' \/ Visited("CleanUp", n)'
    OBVIOUS
  <2> QED BY <1>1, <2>1, <2>2, <2>3, LoopReaches
<1>3. CASE Reached(PhaseCompleted) \/ Visited("CleanUp", n)
  <2>1. temp[n] # "active"
    BY <1>1, <1>3 DEF CleanedOf
  <2>2. ~At("CreateTempNamespace")
    <3>1. At("CreateTempNamespace") => Rank(cr.phase) \in 5..7
      BY <1>1, Windows DEF At
    <3> QED BY <1>3, <3>1, RankTable DEF Reached, Visited, At
  <2> QED BY <1>1, <2>1, <2>2, TempMoves
<1>4. CASE At("CleanUp") /\ (Called(n) \/ CalledInPart(n))
  <2>1. Called(n)
    BY <1>4 DEF CalledInPart, At
  <2>2. AsyncDeleteNamespace(n)
    BY <1>4, <2>1, CalledAt DEF At
  <2> QED BY <1>1, <2>2 DEF AsyncDeleteNamespace, Deleted, ClusterTypeOK
<1> QED BY <1>2, <1>3, <1>4

LEMMA VolumeNameStep ==
  ASSUME Invariant, [Next]_vars, NEW v \in Volumes
  PROVE  NamedOf(v)'
<1> DEFINE r == Rank(cr.phase)
           s == Rank(cr'.phase)
           ann == cr.ann[NsOf[v]]
           known == Reached("EnsureRecreatePvcReady") \/ Visited("UpdatePvClaimRef", v)
<1>1. ClusterTypeOK /\ Control /\ Resource /\ ClusterMove /\ NamedOf(v)
  BY Beginning DEF Always
<1>2. r \in 1..29 /\ s \in 1..29 /\ r <= s
  BY Beginning
<1>3. 13 <= r => cr'.ann = cr.ann
  BY <1>1, AnnMoves, RankTable DEF At
<1>4. /\ At("RecreatePvc") => r \in 18..19
      /\ At("UpdatePvClaimRef") => r \in 19..20
  BY <1>1, Windows DEF At
<1>5. At("RecreatePvc") \/ At("UpdatePvClaimRef") => mem.ann = cr.ann
  <2>1. pc # "idle" => RecordedIn(mem, cr.ann)
    BY <1>1 DEF Resource, Recorded
  <2> QED BY <2>1, RankTable DEF At, RecordedIn
<1>6. ASSUME vol'[v].pvc \in {"blank", "filled"} PROVE s >= 18 /\ ann' # "pv"
  <2>1. \/ vol[v].pvc \in {"blank", "filled"}
        \/ At("RecreatePvc") /\ mem.ann[NsOf[v]] # "pv"
    <3>1. VolMove(v, vol[v], vol'[v]) /\ vol[v] \in VolumeClaims
      BY <1>1, VolMoves DEF ClusterTypeOK
    <3> QED BY <1>6, <3>1 DEF VolMove, Is, WithoutClaim, VolumeClaims
  <2>2. r >= 18 /\ ann # "pv"
    BY <1>1, <1>4, <1>5, <2>1, RankTable DEF NamedOf, Reached
  <2> QED BY <1>2, <1>3, <2>2
<1>7. ASSUME known' PROVE ann' = "pv"
  <2>1. \/ known
        \/ At("UpdatePvClaimRef") /\ (Called(v) \/ CalledInPart(v))
    <3>1. "UpdatePvClaimRef" \in VolumePhases \ {"CreateVolumeSnapshot"}
      BY DEF VolumePhases
    <3>2. Rank("EnsureRecreatePvcReady") = Rank("UpdatePvClaimRef") + 1
      BY RankTable
    <3>3. Reached("EnsureRecreatePvcReady")' \/ Visited("UpdatePvClaimRef", v)'
      BY <1>7
    <3> QED BY <1>1, <3>1, <3>2, <3>3, LoopReaches
  <2>2. r >= 19
    BY <1>2, <1>4, <2>1, RankTable DEF Reached, Visited
  <2>3. ann = "pv"
    <3>1. CASE known
      BY <1>1, <3>1 DEF NamedOf
    <3>2. CASE At("UpdatePvClaimRef") /\ (Called(v) \/ CalledInPart(v))
      <4>1. UpdatePvClaimRef(v, mem.ann[NsOf[v]] = "pv")
        BY <3>2, CalledAt DEF At, CalledInPart
      <4> QED BY <1>5, <3>2, <4>1 DEF UpdatePvClaimRef, CannotUpdatePvClaimRef
    <3> QED BY <2>1, <3>1, <3>2
  <2> QED BY <1>2, <1>3, <2>2, <2>3
<1> QED BY <1>6, <1>7, RankTable DEF NamedOf, Reached

(* A claim whose PV's name is known is not filled with an empty volume. *)
LEMMA NotFilled ==
  ASSUME Control, Resource, Always, NEW v \in Volumes,
         Rank(cr.phase) < 18 \/ Rank(cr.phase) >= 20
  PROVE  vol[v].pvc \notin {"blank", "filled"}
<1>1. NamedOf(v) /\ Rank(cr.phase) \in 1..29
  BY NowTyped DEF Always
<1> QED BY <1>1, RankTable DEF NamedOf, Reached

LEMMA PolicyStep ==
  ASSUME Invariant, [Next]_vars, NEW v \in Volumes
  PROVE  PolicyOf(v)'
<1> DEFINE r == Rank(cr.phase)
           s == Rank(cr'.phase)
           w == vol[v]
           x == vol'[v]
           strays == {"released", "claimed", "leaked"}
           deleted == Reached("UpdateSnapshotContentBack") \/ Visited("UpdatePvClaimDelete", v)
<1>1. ClusterTypeOK /\ Control /\ Resource /\ ClusterMove /\ PolicyOf(v)
  BY Beginning DEF Always
<1>2. r \in 1..29 /\ s \in 1..29 /\ r <= s
  BY Beginning
<1>3. VolMove(v, w, x) /\ w \in VolumeClaims
  BY <1>1, VolMoves DEF ClusterTypeOK
<1>4. /\ At("UpdatePvClaimRetain") => r \in 15..16
      /\ At("UpdatePvClaimRef") => r \in 19..20
  BY <1>1, Windows DEF At
<1>5. WithoutClaim(w).policy = w.policy
      /\ (w.policy = "Delete" /\ w.pv \notin strays => WithoutClaim(w).pv \notin strays)
  BY <1>3 DEF WithoutClaim, VolumeClaims
<1>6. ASSUME ~At("UpdatePvClaimRetain"), w.policy = "Delete"
      PROVE  /\ x.policy = "Delete"
             /\ w.pv \notin strays => x.pv \notin strays
  BY <1>3, <1>5, <1>6 DEF VolMove, Is
<1>7. ASSUME s < 15 PROVE x.policy = "Delete" /\ x.pv \notin strays
  <2>1. w.policy = "Delete" /\ w.pv \notin strays
    BY <1>1, <1>2, <1>7, RankTable DEF PolicyOf, Before
  <2> QED BY <1>2, <1>4, <1>6, <1>7, <2>1
<1>8. ASSUME deleted' PROVE x.policy = "Delete"
  <2>1. \/ deleted
        \/ At("UpdatePvClaimDelete") /\ (Called(v) \/ CalledInPart(v))
    <3>1. "UpdatePvClaimDelete" \in VolumePhases \ {"CreateVolumeSnapshot"}
      BY DEF VolumePhases
    <3>2. Rank("UpdateSnapshotContentBack") = Rank("UpdatePvClaimDelete") + 1
      BY RankTable
    <3>3. Reached("UpdateSnapshotContentBack")' \/ Visited("UpdatePvClaimDelete", v)'
      BY <1>8
    <3> QED BY <1>1, <3>1, <3>2, <3>3, LoopReaches
  <2>2. CASE deleted
    <3>1. w.policy = "Delete" /\ ~At("UpdatePvClaimRetain")
      BY <1>1, <1>2, <1>4, <2>2, RankTable DEF PolicyOf, Reached, Visited, At
    <3> QED BY <1>6, <3>1
  <2>3. CASE At("UpdatePvClaimDelete") /\ (Called(v) \/ CalledInPart(v))
    <3>1. UpdatePvPolicy(v, "Delete")
      BY <2>3, CalledAt DEF At, CalledInPart
    <3>2. r \in 21..22
      BY <1>1, <2>3, Windows DEF At
    <3>3. w.pvc # "filled"
      BY <1>1, <3>2, Beginning, NotFilled
    <3> QED BY <1>1, <3>1, <3>3 DEF UpdatePvPolicy, ClusterTypeOK, VolumeClaims
  <2> QED BY <2>1, <2>2, <2>3
<1>9. ASSUME s >= 22, cleanedFrom' # "stale" PROVE x.pv \notin strays
  <2>1. cleanedFrom # "stale"
    BY <1>1, <1>9, HistoryMoves
  <2>2. CASE r >= 22
    <3>1. w.policy = "Delete" /\ w.pv \notin strays
      BY <1>1, <2>1, <2>2, RankTable DEF PolicyOf, Reached
    <3> QED BY <1>4, <1>6, <2>2, <3>1
  <2>3. CASE r <= 21
    <3>1. "UpdatePvClaimDelete" \in ExportPhases \ {"Precheck", "WaitFileSystemCopyComplete"}
      BY StopsAre
    <3>2. fresh /\ mem.phase = "UpdatePvClaimDelete" /\ HandlerDone /\ UNCHANGED clusterVars
      BY <1>1, <1>2, <1>9, <2>3, <3>1, RankTable, Crossing
    <3>3. cleanedFrom = "none"
      BY <1>1, <2>1, <3>2 DEF Control, ControlTypeOK, Resource, GivenUp, HandlerDone
    <3>4. r = 21
      <4>1. mem = cr \/ Ahead
        BY <1>1, <3>2, FreshIs
      <4> QED BY <3>2, <4>1, RankTable DEF Ahead, IgnoreUpdateError
    <3>5. backup = "absent"
      BY <1>2, <3>4, RankTable, Beginning DEF Always, BackupOf, Reached
    <3>6. w.pvc = "rebound" /\ w.pv = "bound"
      BY <3>3, <3>4, <3>5, RankTable DEF Invariant, WhileRunning, RecreatedOf, Reached, Finished
    <3> QED BY <3>2, <3>6 DEF clusterVars
  <2> QED BY <1>2, <2>2, <2>3
<1> QED BY <1>2, <1>7, <1>8, <1>9, RankTable DEF PolicyOf, Before, Reached

-----------------------------------------------------------------------------
(* What holds while no timeout has cleaned up.                             *)

(* Nothing is deleted but by the handlers, until the copy is over. *)
LEMMA Running ==
  ASSUME Invariant, [Next]_vars, cleanedFrom' = "none"
  PROVE  /\ cleanedFrom = "none"
         /\ \A n \in Namespaces : TempOf(n) /\ PodOf(n)
         /\ \A v \in Volumes : SnapOf(v) /\ RestoredOf(v) /\ RecreatedOf(v)
         /\ CopiedOf
         /\ Finished => Finished' /\ 26 <= Rank(cr.phase)
         /\ pc \in {"timeout", "abort"} /\ todo # {} => Finished
         /\ \A n \in Namespaces : temp[n] = "terminating" => Finished
<1>1. ClusterTypeOK /\ Control /\ Resource /\ ClusterMove /\ BackupOf
  BY Beginning DEF Always
<1>2. cleanedFrom = "none"
  BY <1>1, HistoryMoves
<1>3. /\ \A n \in Namespaces : TempOf(n) /\ PodOf(n)
      /\ \A v \in Volumes : SnapOf(v) /\ RestoredOf(v) /\ RecreatedOf(v)
      /\ CopiedOf
  BY <1>2 DEF Invariant, WhileRunning
<1>4. Finished => Finished'
  BY <1>1, BackupMoves DEF Finished
<1>5. Finished => 26 <= Rank(cr.phase)
  BY <1>1, RankTable DEF Finished, BackupOf, Reached
<1>6. pc \in {"timeout", "abort"} /\ todo # {} => Finished
  BY <1>1, <1>2 DEF Resource, GivenUp, BackupOf, Finished
<1>7. \A n \in Namespaces : temp[n] = "terminating" => Finished
  BY <1>3 DEF TempOf
<1> QED BY <1>2, <1>3, <1>4, <1>5, <1>6, <1>7

LEMMA TempStep ==
  ASSUME Invariant, [Next]_vars, cleanedFrom' = "none", NEW n \in Namespaces
  PROVE  TempOf(n)'
<1> DEFINE made == Reached("CreateVolumeSnapshot") \/ Visited("CreateTempNamespace", n)
<1>1. ClusterTypeOK /\ Control /\ Resource /\ ClusterMove /\ BackupOf
  BY Beginning DEF Always
<1>2. /\ TempOf(n) /\ (Finished => Finished')
      /\ pc \in {"timeout", "abort"} /\ todo # {} => Finished
  BY Running
<1>3. At("CleanUp") => Finished
  BY <1>1 DEF BackupOf, Finished
<1>4. temp'[n] = "terminating" => Finished'
  BY <1>1, <1>2, <1>3, TempMoves DEF TempOf
<1>5. ASSUME made' PROVE temp'[n] = "active" \/ Finished'
  <2>1. \/ made
        \/ At("CreateTempNamespace") /\ (Called(n) \/ CalledInPart(n))
    <3>1. "CreateTempNamespace" \in NamespacePhases \ {"CreateVolumeSnapshot"}
      BY DEF NamespacePhases
    <3>2. Rank("CreateVolumeSnapshot") = Rank("CreateTempNamespace") + 1
      BY RankTable
    <3>3. Reached("CreateVolumeSnapshot")' \/ Visited("CreateTempNamespace", n)'
      BY <1>5
    <3> QED BY <1>1, <3>1, <3>2, <3>3, LoopReaches
  <2>2. CASE made
    <3>1. temp[n] = "active" \/ Finished
      BY <1>2, <2>2 DEF TempOf
    <3> QED BY <1>1, <1>2, <1>3, <3>1, TempMoves
  <2>3. CASE At("CreateTempNamespace") /\ (Called(n) \/ CalledInPart(n))
    <3>1. CreateNamespace(n)
      BY <2>3, CalledAt DEF At, CalledInPart
    <3>2. temp'[n] = IF temp[n] = "absent" THEN "active" ELSE temp[n]
      BY <1>1, <3>1 DEF CreateNamespace, ClusterTypeOK
    <3>3. temp[n] \in NsStates
      BY <1>1 DEF ClusterTypeOK
    <3> QED BY <1>2, <3>2, <3>3 DEF TempOf, NsStates
  <2> QED BY <2>1, <2>2, <2>3
<1> QED BY <1>4, <1>5 DEF TempOf

LEMMA SnapStep ==
  ASSUME Invariant, [Next]_vars, cleanedFrom' = "none", NEW v \in Volumes
  PROVE  SnapOf(v)'
<1> DEFINE r == Rank(cr.phase)
           s == Rank(cr'.phase)
           ann == cr.ann[NsOf[v]]
<1>1. ClusterTypeOK /\ Control /\ Resource /\ ClusterMove
  BY Beginning
<1>2. r \in 1..29 /\ s \in 1..29 /\ r <= s
  BY Beginning
<1>3. NsOf[v] \in Namespaces
  BY ClusterAssumption
<1>4. /\ SnapOf(v) /\ (Finished => 26 <= r)
      /\ temp[NsOf[v]] = "terminating" => Finished
  BY <1>3, Running
<1>5. At("DeleteVolumeSnapshot") => r \in 23..25
  BY <1>1, Windows DEF At
<1>6. ASSUME s < 23
      PROVE  /\ snap[v].vs # "absent" => snap'[v].vs # "absent"
             /\ snap'[v].ref # "lost"
  <2>1. ~At("DeleteVolumeSnapshot") /\ temp[NsOf[v]] # "terminating"
    BY <1>2, <1>4, <1>5, <1>6
  <2>2. snap[v].ref # "lost"
    BY <1>2, <1>4, <1>6, RankTable DEF SnapOf, Before
  <2> QED BY <1>1, <2>1, <2>2, SnapMoves
<1>7. ASSUME s < 23, ann # "none" \/ 7 <= r \/ Visited("CreateVolumeSnapshot", v)
      PROVE  snap[v].vs # "absent" /\ snap'[v].vs # "absent"
  <2>1. snap[v].vs # "absent"
    BY <1>2, <1>4, <1>7, RankTable DEF SnapOf, Reached
  <2> QED BY <1>6, <1>7, <2>1
<1>8. ASSUME s < 23, ann' # "none" PROVE snap'[v].vs # "absent"
  <2>1. CASE cr'.ann = cr.ann
    BY <1>7, <1>8, <2>1
  <2>2. CASE fresh /\ At("CreateVolumeSnapshot") /\ todo = {}
    BY <1>7, <1>8, <2>2 DEF Visited
  <2>3. CASE mem.phase = cr.phase /\ At("CheckPvcReady")
    BY <1>7, <1>8, <2>3, RankTable DEF At
  <2> QED BY <1>1, <2>1, <2>2, <2>3, AnnMoves
<1>9. ASSUME s < 23, 7 <= s PROVE snap'[v].vs # "absent"
  <2>1. CASE 7 <= r
    BY <1>7, <1>9, <2>1
  <2>2. CASE r <= 6
    <3>1. "CreateVolumeSnapshot" \in ExportPhases \ {"Precheck", "WaitFileSystemCopyComplete"}
      BY StopsAre
    <3>2. fresh /\ mem.phase = "CreateVolumeSnapshot" /\ HandlerDone
      BY <1>1, <1>2, <1>9, <2>2, <3>1, RankTable, Crossing
    <3>3. pc = "saved"
      BY <3>2 DEF HandlerDone
    <3>4. Annotated(mem) = Volumes /\ mem.ann = cr.ann
      BY <1>1, <3>2, <3>3, FreshAnn DEF Resource, Recorded
    <3>5. ann # "none"
      BY <3>4 DEF Annotated
    <3> QED BY <1>7, <1>9, <3>5
  <2> QED BY <1>2, <2>1, <2>2
<1>10. ASSUME s < 23, Visited("CreateVolumeSnapshot", v)' PROVE snap'[v].vs # "absent"
  <2>1. \/ Visited("CreateVolumeSnapshot", v)
        \/ At("CreateVolumeSnapshot") /\ (Called(v) \/ CalledInPart(v))
        \/ ann' # "none"
    <3>1. "CreateVolumeSnapshot" \in VolumePhases
      BY LoopPhases
    <3> QED BY <1>1, <1>10, <3>1, Visiting
  <2>2. CASE Visited("CreateVolumeSnapshot", v)
    BY <1>7, <1>10, <2>2
  <2>3. CASE At("CreateVolumeSnapshot") /\ (Called(v) \/ CalledInPart(v))
    <3>1. CreateSnapshot(v)
      BY <2>3, CalledAt DEF At, CalledInPart
    <3> QED BY <1>1, <3>1 DEF CreateSnapshot, ClusterTypeOK, Snapshots
  <2>4. CASE ann' # "none"
    BY <1>8, <1>10, <2>4
  <2> QED BY <2>1, <2>2, <2>3, <2>4
<1> QED
  BY <1>2, <1>6, <1>8, <1>9, <1>10, RankTable DEF SnapOf, Reached, Before

(* What happens to a volume before the copy is over, and in which phases.  *)
LEMMA RunningMoves ==
  ASSUME Invariant, [Next]_vars, cleanedFrom' = "none", ~Finished, NEW v \in Volumes
  PROVE  LET r == Rank(cr.phase)
             w == vol[v]
             x == vol'[v]
         IN  \/ x = w
             \/ r \in 9..10 /\ w.pvc = "absent" /\ Is(x, "restoring", w.pv, w.policy)
             \/ w.pvc = "restoring" /\ Is(x, "restored", "bound", "Delete")
             \/ /\ w.pvc = "recreated" /\ w.pv = "claimed"
                /\ Is(x, "rebound", "bound", w.policy)
             \/ w.pvc = "blank" /\ Is(x, "filled", w.pv, w.policy)
             \/ w.pvc = "deleting" /\ x = WithoutClaim(w)
             \/ r \in 15..16 /\ Is(x, w.pvc, w.pv, "Retain")
             \/ r \in 21..22 /\ Is(x, w.pvc, w.pv, "Delete")
             \/ r \in 16..17 /\ w.pvc # "absent" /\ Is(x, "deleting", w.pv, w.policy)
             \/ /\ r \in 18..19 /\ w.pvc = "absent"
                /\ Is(x, IF cr.ann[NsOf[v]] = "pv" THEN "recreated" ELSE "blank",
                      w.pv, w.policy)
             \/ /\ r \in 19..20 /\ w.pvc # "absent" /\ cr.ann[NsOf[v]] = "pv"
                /\ w.pv = "released" /\ Is(x, w.pvc, "claimed", w.policy)
<1>1. ClusterTypeOK /\ Control /\ Resource /\ ClusterMove
  BY Beginning
<1>2. VolMove(v, vol[v], vol'[v])
  BY <1>1, VolMoves
<1>3. NsOf[v] \in Namespaces
  BY ClusterAssumption
<1>4. temp[NsOf[v]] # "terminating" /\ ~(pc \in {"timeout", "abort"} /\ todo # {})
  BY <1>3, Running
<1>5. LET r == Rank(cr.phase)
      IN  /\ At("CreatePvc") => r \in 9..10
          /\ At("UpdatePvClaimRetain") => r \in 15..16
          /\ At("UpdatePvClaimDelete") => r \in 21..22
          /\ At("DeletePvc") => r \in 16..17
          /\ At("RecreatePvc") => r \in 18..19
          /\ At("UpdatePvClaimRef") => r \in 19..20
  BY <1>1, Windows DEF At
<1>6. At("RecreatePvc") \/ At("UpdatePvClaimRef") => mem.ann = cr.ann
  <2>1. pc # "idle" => RecordedIn(mem, cr.ann)
    BY <1>1 DEF Resource, Recorded
  <2> QED BY <2>1, RankTable DEF At, RecordedIn
<1> QED BY <1>2, <1>4, <1>5, <1>6 DEF VolMove

(* A worker that can write is in the phase it writes in. *)
LEMMA FreshAt ==
  ASSUME Control, fresh,
         mem.phase \in {"CheckPvcReady", "UpdatePvClaimRetain", "EnsurePvcDeleted",
                        "EnsureRecreatePvcReady", "EnsurePvcPodCleaned",
                        "DeleteVolumeSnapshot", "WaitStagePodRunning", "CreateStagePod"}
  PROVE  Rank(cr.phase) = Rank(mem.phase)
BY FreshIs, RankTable DEF Ahead, IgnoreUpdateError

LEMMA RestoredStep ==
  ASSUME Invariant, [Next]_vars, cleanedFrom' = "none", NEW v \in Volumes
  PROVE  RestoredOf(v)'
<1> DEFINE r == Rank(cr.phase)
           s == Rank(cr'.phase)
           w == vol[v]
           x == vol'[v]
           ready == pc = "saved" /\ fresh /\ mem.phase = "CheckPvcReady"
<1>1. ClusterTypeOK /\ Control /\ Resource /\ ClusterMove
  BY Beginning
<1>2. r \in 1..29 /\ s \in 1..29 /\ r <= s
  BY Beginning
<1>3. RestoredOf(v) /\ (Finished => 26 <= r)
  BY Running
<1>4. CASE s >= 16
  BY <1>2, <1>4, RankTable DEF RestoredOf, Before, Reached
<1>5. CASE s < 16
  <2>1. ~Finished
    BY <1>2, <1>3, <1>5
  <2>2. \/ x = w
        \/ r \in 9..10 /\ w.pvc = "absent" /\ Is(x, "restoring", w.pv, w.policy)
        \/ w.pvc = "restoring" /\ Is(x, "restored", "bound", "Delete")
        \/ w.pvc \in {"recreated", "blank"}
        \/ w.pvc = "deleting"
        \/ r >= 15 /\ x.pvc = w.pvc /\ x.pv = w.pv
        \/ r >= 16
    BY <2>1, RunningMoves DEF Is
  <2>3. ASSUME s < 9 PROVE x.pvc = "absent" /\ x.pv = "none"
    <3>1. w.pvc = "absent" /\ w.pv = "none"
      BY <1>2, <1>3, <2>3, RankTable DEF RestoredOf, Before
    <3> QED BY <1>2, <2>2, <2>3, <3>1
  <2>4. ASSUME s < 13
        PROVE  \/ x.pvc \in {"absent", "restoring"} /\ x.pv = "none"
               \/ Restored(x)
    <3>1. \/ w.pvc \in {"absent", "restoring"} /\ w.pv = "none"
          \/ Restored(w)
      BY <1>2, <1>3, <2>4, RankTable DEF RestoredOf, Before
    <3> QED BY <1>2, <2>2, <2>4, <3>1 DEF Restored, Is
  <2>5. ASSUME 13 <= r \/ ready PROVE Restored(w) /\ Restored(x)
    <3>1. Restored(w)
      BY <1>2, <1>3, <1>5, <2>5, RankTable DEF RestoredOf, Reached
    <3>2. Restored(x)
      BY <1>2, <1>5, <2>2, <3>1 DEF Restored
    <3> QED BY <3>1, <3>2
  <2>6. ASSUME fresh, mem.phase = "CheckPvcReady", \A u \in Annotated(mem) : CheckPVCReady(u),
               pc # "idle"
        PROVE  Restored(w)
    <3>1. r = 12
      BY <1>1, <2>6, FreshAt, RankTable
    <3>2. Annotated(mem) = Volumes
      <4>1. RecordedIn(mem, cr.ann)
        BY <1>1, <2>6 DEF Resource, Recorded
      <4> QED BY <2>6, <4>1, RankTable DEF RecordedIn
    <3>3. w.pvc \in {"restored", "rebound", "filled"}
      BY <2>6, <3>2 DEF CheckPVCReady
    <3> QED BY <1>3, <3>1, <3>3, RankTable DEF RestoredOf, Before, Restored
  <2>7. ASSUME 13 <= s PROVE Restored(x)
    <3>1. CASE 13 <= r
      BY <2>5, <3>1
    <3>2. CASE r <= 12
      <4>1. "CheckPvcReady" \in ExportPhases \ {"Precheck", "WaitFileSystemCopyComplete"}
        BY StopsAre
      <4>2. fresh /\ mem.phase = "CheckPvcReady" /\ HandlerDone /\ UNCHANGED clusterVars
        BY <1>1, <1>2, <2>7, <3>2, <4>1, RankTable, Crossing
      <4>3. \/ pc = "saved"
            \/ \A u \in Annotated(mem) : CheckPVCReady(u)
        BY <4>2 DEF HandlerDone
      <4>4. Restored(w)
        BY <2>5, <2>6, <4>2, <4>3 DEF HandlerDone
      <4> QED BY <4>2, <4>4 DEF clusterVars
    <3> QED BY <1>2, <3>1, <3>2
  <2>8. ASSUME ready' PROVE Restored(x)
    <3>1. \/ ready
          \/ Saving /\ mem.phase = "CheckPvcReady" /\ fresh
      BY <1>1, <2>8, SavedMoves
    <3>2. CASE Saving /\ mem.phase = "CheckPvcReady" /\ fresh
      <4>1. pc # "label"
        BY <1>1, <3>2 DEF Resource, SavedPhases
      <4>2. UNCHANGED clusterVars /\ pc # "idle"
            /\ \A u \in Annotated(mem) : CheckPVCReady(u)
        BY <3>2, <4>1 DEF Saving, At
      <4> QED BY <2>6, <3>2, <4>2 DEF clusterVars
    <3> QED BY <2>5, <3>1, <3>2
  <2> QED
    BY <1>2, <2>3, <2>4, <2>7, <2>8, RankTable DEF RestoredOf, Before, Reached
<1> QED BY <1>2, <1>4, <1>5

LEMMA RecreatedStep ==
  ASSUME Invariant, [Next]_vars, cleanedFrom' = "none", NEW v \in Volumes
  PROVE  RecreatedOf(v)'
<1> DEFINE r == Rank(cr.phase)
           s == Rank(cr'.phase)
           w == vol[v]
           x == vol'[v]
           ann == cr.ann[NsOf[v]]
<1>1. ClusterTypeOK /\ Control /\ Resource /\ ClusterMove
  BY Beginning
<1>2. r \in 1..29 /\ s \in 1..29 /\ r <= s
  BY Beginning
<1>3. RestoredOf(v) /\ RecreatedOf(v) /\ (Finished => Finished' /\ 26 <= r)
  BY Running
<1>4. w \in VolumeClaims
  BY <1>1 DEF ClusterTypeOK
(* The clauses, as they stand before the step. *)
<1>5. /\ r \in 13..15 => Restored(w)
      /\ r \in 16..17 => \/ w.pvc \in {"restored", "deleting"} /\ w.pv = "bound"
                         \/ w.pvc = "absent" /\ w.pv = "released"
      /\ r \in 18..20 => \/ w.pvc = "absent" /\ w.pv = "released"
                         \/ /\ w.pvc = "recreated" /\ w.pv \in {"released", "claimed"}
                            /\ ann = "pv"
                         \/ w.pvc = "rebound" /\ w.pv = "bound" /\ ann = "pv"
                         \/ /\ w.pvc \in {"blank", "filled"} /\ w.pv = "released"
                            /\ ann # "pv"
      /\ r = 18 => w.pv = "released"
      /\ r \in 19..20 \/ (Visited("RecreatePvc", v) /\ r < 21) => w.pvc # "absent"
      /\ r >= 21 => Finished \/ (w.pvc = "rebound" /\ w.pv = "bound")
      /\ r \in 16..20 \/ (Visited("UpdatePvClaimRetain", v) /\ r < 21)
           => w.policy = "Retain"
  BY <1>2, <1>3, RankTable DEF RestoredOf, RecreatedOf, Reached, Before
<1>6. CASE Finished
  BY <1>2, <1>3, <1>6, RankTable DEF RecreatedOf, Reached, Before
<1>7. CASE ~Finished
  <2>1. \/ x = w
        \/ r \in 9..10 /\ w.pvc = "absent" /\ Is(x, "restoring", w.pv, w.policy)
        \/ w.pvc = "restoring" /\ Is(x, "restored", "bound", "Delete")
        \/ /\ w.pvc = "recreated" /\ w.pv = "claimed"
           /\ Is(x, "rebound", "bound", w.policy)
        \/ w.pvc = "blank" /\ Is(x, "filled", w.pv, w.policy)
        \/ w.pvc = "deleting" /\ x = WithoutClaim(w)
        \/ r \in 15..16 /\ Is(x, w.pvc, w.pv, "Retain")
        \/ r \in 21..22 /\ Is(x, w.pvc, w.pv, "Delete")
        \/ r \in 16..17 /\ w.pvc # "absent" /\ Is(x, "deleting", w.pv, w.policy)
        \/ /\ r \in 18..19 /\ w.pvc = "absent"
           /\ Is(x, IF ann = "pv" THEN "recreated" ELSE "blank", w.pv, w.policy)
        \/ /\ r \in 19..20 /\ w.pvc # "absent" /\ ann = "pv"
           /\ w.pv = "released" /\ Is(x, w.pvc, "claimed", w.policy)
    BY <1>7, RunningMoves
  <2>2. /\ WithoutClaim(w).pvc = "absent" /\ WithoutClaim(w).policy = w.policy
        /\ w.pv = "bound" /\ w.policy = "Retain" => WithoutClaim(w).pv = "released"
    BY <1>4 DEF WithoutClaim, VolumeClaims
  <2>3. 13 <= r => cr'.ann = cr.ann
    BY <1>1, AnnMoves, RankTable DEF At
  (* The steps in which the resource goes from one clause to the next. *)
  <2>4. ASSUME NEW p \in {"UpdatePvClaimRetain", "EnsurePvcDeleted", "EnsureRecreatePvcReady"},
               r <= Rank(p), Rank(p) < s
        PROVE  r = Rank(p) /\ mem.phase = p /\ HandlerDone /\ x = w /\ cr'.ann = cr.ann
               /\ Annotated(mem) = Volumes
    <3>1. p \in ExportPhases \ {"Precheck", "WaitFileSystemCopyComplete"}
      BY StopsAre
    <3>2. fresh /\ mem.phase = p /\ HandlerDone /\ UNCHANGED clusterVars
      BY <1>1, <2>4, <3>1, Crossing
    <3>3. r = Rank(p) /\ Rank(p) >= 15
      BY <1>1, <3>2, FreshAt, RankTable
    <3>4. RecordedIn(mem, cr.ann)
      BY <1>1, <3>2 DEF Resource, Recorded, HandlerDone
    <3>5. Annotated(mem) = Volumes
      BY <3>2, <3>3, <3>4, RankTable DEF RecordedIn
    <3> QED BY <1>2, <2>3, <3>2, <3>3, <3>5 DEF clusterVars
  <2>5. ASSUME s \in 16..17
        PROVE  \/ x.pvc \in {"restored", "deleting"} /\ x.pv = "bound"
               \/ x.pvc = "absent" /\ x.pv = "released"
    <3>1. CASE r >= 16
      BY <1>2, <1>5, <2>1, <2>2, <2>5, <3>1 DEF Is
    <3>2. CASE r <= 15
      <4>1. r = 15 /\ x = w
        BY <1>2, <2>4, <2>5, <3>2, RankTable
      <4> QED BY <1>5, <4>1 DEF Restored
    <3> QED BY <1>2, <3>1, <3>2
  <2>6. ASSUME s >= 18, r <= 17
        PROVE  r = 17 /\ x = w /\ cr'.ann = cr.ann /\ w.pvc = "absent" /\ w.pv = "released"
    <3>1. r = 17 /\ mem.phase = "EnsurePvcDeleted" /\ HandlerDone /\ x = w
          /\ cr'.ann = cr.ann /\ Annotated(mem) = Volumes
      BY <1>2, <2>4, <2>6, RankTable
    <3>2. v \in VolumesIn(NsOf[v]) /\ NsOf[v] \in Namespaces /\ mem.ann[NsOf[v]] # "none"
      BY <3>1, ClusterAssumption DEF VolumesIn, Annotated
    <3>3. w.pvc = "absent"
      BY <3>1, <3>2 DEF HandlerDone, EnsurePvcDeleted
    <3> QED BY <1>5, <3>1, <3>3
  <2>7. ASSUME s \in 18..20
        PROVE  LET a == cr'.ann[NsOf[v]]
               IN  \/ x.pvc = "absent" /\ x.pv = "released"
                   \/ x.pvc = "recreated" /\ x.pv \in {"released", "claimed"} /\ a = "pv"
                   \/ x.pvc = "rebound" /\ x.pv = "bound" /\ a = "pv"
                   \/ x.pvc \in {"blank", "filled"} /\ x.pv = "released" /\ a # "pv"
    <3>1. CASE r >= 18
      <4>1. cr'.ann = cr.ann /\ r \in 18..20
        BY <1>2, <2>3, <2>7, <3>1
      <4> QED BY <1>5, <2>1, <4>1 DEF Is
    <3>2. CASE r <= 17
      BY <2>6, <2>7, <3>2
    <3> QED BY <1>2, <3>1, <3>2
  <2>8. ASSUME s = 18 PROVE x.pv = "released"
    <3>1. CASE r >= 18
      BY <1>2, <1>5, <2>1, <2>8, <3>1 DEF Is
    <3>2. CASE r <= 17
      BY <2>6, <2>8, <3>2
    <3> QED BY <1>2, <3>1, <3>2
  <2>9. ASSUME 19 <= s \/ Visited("RecreatePvc", v)', s < 21 PROVE x.pvc # "absent"
    <3>1. \/ Reached("UpdatePvClaimRef") \/ Visited("RecreatePvc", v)
          \/ At("RecreatePvc") /\ (Called(v) \/ CalledInPart(v))
      <4>1. "RecreatePvc" \in VolumePhases \ {"CreateVolumeSnapshot"}
        BY DEF VolumePhases
      <4>2. Rank("UpdatePvClaimRef") = Rank("RecreatePvc") + 1
        BY RankTable
      <4>3. Reached("UpdatePvClaimRef")' \/ Visited("RecreatePvc", v)'
        BY <2>9, RankTable DEF Reached
      <4> QED BY <1>1, <4>1, <4>2, <4>3, LoopReaches
    <3>2. CASE Reached("UpdatePvClaimRef") \/ Visited("RecreatePvc", v)
      <4>1. r \in 18..20
        <5>1. At("RecreatePvc") => r \in 18..19
          BY <1>1, Windows DEF At
        <5> QED BY <1>2, <2>9, <3>2, <5>1, RankTable DEF Reached, Visited
      <4>2. w.pvc # "absent"
        BY <1>5, <2>9, <3>2, <4>1, RankTable DEF Reached
      <4> QED BY <1>5, <2>1, <4>1, <4>2 DEF Is
    <3>3. CASE At("RecreatePvc") /\ (Called(v) \/ CalledInPart(v))
      <4>1. CreatePvcWithPv(v, mem.ann[NsOf[v]] = "pv")
        BY <3>3, CalledAt DEF At, CalledInPart
      <4> QED BY <1>1, <4>1 DEF CreatePvcWithPv, ClusterTypeOK, VolumeClaims
    <3> QED BY <3>1, <3>2, <3>3
  <2>10. ASSUME s >= 21 PROVE x.pvc = "rebound" /\ x.pv = "bound"
    <3>1. CASE r >= 21
      BY <1>5, <1>7, <2>1, <3>1 DEF Is
    <3>2. CASE r <= 20
      <4>1. r = 20 /\ mem.phase = "EnsureRecreatePvcReady" /\ HandlerDone /\ x = w
            /\ Annotated(mem) = Volumes
        BY <1>2, <2>4, <2>10, <3>2, RankTable
      <4>2. w.pvc \in {"restored", "rebound"}
        <5>1. w.pvc \in {"restored", "rebound", "filled"}
          BY <4>1 DEF HandlerDone, CheckPVCReady
        <5>2. w.pvc # "filled"
          BY <1>1, <4>1, Beginning, NotFilled, RankTable
        <5> QED BY <5>1, <5>2
      <4> QED BY <1>5, <4>1, <4>2
    <3> QED BY <1>2, <3>1, <3>2
  <2>11. ASSUME 16 <= s \/ Visited("UpdatePvClaimRetain", v)', s < 21
         PROVE  x.policy = "Retain"
    <3>1. \/ Reached("DeletePvc") \/ Visited("UpdatePvClaimRetain", v)
          \/ At("UpdatePvClaimRetain") /\ (Called(v) \/ CalledInPart(v))
      <4>1. "UpdatePvClaimRetain" \in VolumePhases \ {"CreateVolumeSnapshot"}
        BY DEF VolumePhases
      <4>2. Rank("DeletePvc") = Rank("UpdatePvClaimRetain") + 1
        BY RankTable
      <4>3. Reached("DeletePvc")' \/ Visited("UpdatePvClaimRetain", v)'
        BY <2>11, RankTable DEF Reached
      <4> QED BY <1>1, <4>1, <4>2, <4>3, LoopReaches
    <3>2. CASE Reached("DeletePvc") \/ Visited("UpdatePvClaimRetain", v)
      <4>1. r \in 15..20
        <5>1. At("UpdatePvClaimRetain") => r \in 15..16
          BY <1>1, Windows DEF At
        <5> QED BY <1>2, <2>11, <3>2, <5>1, RankTable DEF Reached, Visited
      <4>2. w.policy = "Retain" /\ w.pvc # "restoring"
        BY <1>5, <2>11, <3>2, <4>1, RankTable DEF Reached, Restored
      <4> QED BY <2>1, <2>2, <4>1, <4>2 DEF Is
    <3>3. CASE At("UpdatePvClaimRetain") /\ (Called(v) \/ CalledInPart(v))
      <4>1. UpdatePvPolicy(v, "Retain")
        BY <3>3, CalledAt DEF At, CalledInPart
      <4>2. r \in 15..16
        BY <1>1, <3>3, Windows DEF At
      <4>3. w.pvc # "filled"
        BY <1>1, <4>2, Beginning, NotFilled
      <4> QED BY <1>1, <4>1, <4>3 DEF UpdatePvPolicy, ClusterTypeOK, VolumeClaims
    <3> QED BY <3>1, <3>2, <3>3
  <2> QED
    BY <1>2, <2>5, <2>7, <2>8, <2>9, <2>10, <2>11, RankTable
    DEF RecreatedOf, Reached, Before
<1> QED BY <1>6, <1>7

LEMMA PodStep ==
  ASSUME Invariant, [Next]_vars, cleanedFrom' = "none", NEW n \in Namespaces
  PROVE  PodOf(n)'
<1> DEFINE r == Rank(cr.phase)
           s == Rank(cr'.phase)
           up == {"pending", "running"}
<1>1. ClusterTypeOK /\ Control /\ Resource /\ ClusterMove
  BY Beginning
<1>2. r \in 1..29 /\ s \in 1..29 /\ r <= s
  BY Beginning
<1>3. PodOf(n) /\ (Finished => Finished' /\ 26 <= r)
      /\ (temp[n] = "terminating" => Finished)
  BY Running
<1>4. MountsIn(n)' = MountsIn(n)
  BY DEF MountsIn, VolumesIn
(* The clauses, as they stand before the step. *)
<1>5. /\ r \in 15..23 => pod[n] = "absent"
      /\ r = 24 => pod[n] # "terminating"
      /\ (r >= 25 \/ Visited("CreateStagePod", n)) /\ MountsIn(n) => Finished \/ pod[n] \in up
      /\ r >= 26 /\ MountsIn(n) => Finished \/ pod[n] = "running"
  BY <1>2, <1>3, RankTable DEF PodOf, Reached, Before
<1>6. CASE Finished
  <2>1. 26 <= s /\ Finished'
    BY <1>2, <1>3, <1>6
  <2> QED BY <2>1, <1>2, RankTable DEF PodOf, Reached, Before
<1>7. CASE ~Finished
  <2>1. pod[n] \in PodStates
    BY <1>1 DEF ClusterTypeOK
  <2>2. ASSUME r >= 15
        PROVE  \/ pod'[n] = pod[n]
               \/ r \in 24..25 /\ pod[n] = "absent" /\ pod'[n] = "pending"
               \/ pod[n] = "pending" /\ pod'[n] = "running"
               \/ pod[n] = "terminating" /\ pod'[n] = "absent"
    <3>1. At("CreatePvcPod") => r \in 10..11
      BY <1>1, Windows DEF At
    <3>2. At("CleanPvcPod") => r \in 13..14
      BY <1>1, Windows DEF At
    <3>3. At("CreateStagePod") => r \in 24..25
      BY <1>1, Windows DEF At
    <3> QED BY <1>1, <1>3, <1>7, <2>2, <3>1, <3>2, <3>3, PodMoves
  <2>3. ASSUME NEW p \in {"EnsurePvcPodCleaned", "DeleteVolumeSnapshot", "WaitStagePodRunning"},
               r <= Rank(p), Rank(p) < s
        PROVE  r = Rank(p) /\ mem.phase = p /\ HandlerDone /\ pod' = pod
    <3>1. p \in ExportPhases \ {"Precheck", "WaitFileSystemCopyComplete"}
      <4>1. \A k \in 1..29 : VeleroExportSteps[k] \in ExportPhases
        BY StepsDomain DEF ExportPhases
      <4> QED BY <4>1, StepsAre
    <3>2. fresh /\ mem.phase = p /\ HandlerDone /\ UNCHANGED clusterVars
      BY <1>1, <2>3, <3>1, Crossing
    <3> QED BY <1>1, <3>2, FreshAt DEF clusterVars
  <2>4. ASSUME s \in 15..23 PROVE pod'[n] = "absent"
    <3>1. CASE r >= 15
      BY <1>2, <1>5, <2>2, <2>4, <3>1
    <3>2. CASE r <= 14
      <4>1. mem.phase = "EnsurePvcPodCleaned" /\ HandlerDone /\ pod' = pod
        BY <1>2, <2>3, <2>4, <3>2, RankTable
      <4> QED BY <4>1 DEF HandlerDone, EnsureStagePodCleaned
    <3> QED BY <1>2, <3>1, <3>2
  <2>5. ASSUME s = 24 PROVE pod'[n] # "terminating"
    <3>1. CASE r = 24
      BY <1>5, <2>2, <3>1
    <3>2. CASE r <= 23
      <4>1. r = 23 /\ pod' = pod
        BY <1>2, <2>3, <2>5, <3>2, RankTable
      <4> QED BY <1>5, <4>1
    <3> QED BY <1>2, <2>5, <3>1, <3>2
  <2>6. ASSUME 25 <= s \/ Visited("CreateStagePod", n)', MountsIn(n) PROVE pod'[n] \in up
    <3>1. \/ Reached("WaitStagePodRunning") \/ Visited("CreateStagePod", n)
          \/ At("CreateStagePod") /\ fresh /\ (Called(n) \/ CalledInPart(n))
      <4>1. "CreateStagePod" \in NamespacePhases \ {"CreateVolumeSnapshot"}
        BY DEF NamespacePhases
      <4>2. Rank("WaitStagePodRunning") = Rank("CreateStagePod") + 1
        BY RankTable
      <4>3. Reached("WaitStagePodRunning")' \/ Visited("CreateStagePod", n)'
        BY <2>6, RankTable DEF Reached
      <4> QED BY <1>1, <4>1, <4>2, <4>3, LoopReaches
    <3>2. CASE Reached("WaitStagePodRunning") \/ Visited("CreateStagePod", n)
      <4>1. At("CreateStagePod") => r \in 24..25
        BY <1>1, Windows DEF At
      <4>2. r >= 15 /\ pod[n] \in up
        BY <1>2, <1>5, <1>7, <2>6, <3>2, <4>1, RankTable DEF Reached, Visited
      <4> QED BY <2>2, <4>2
    <3>3. CASE At("CreateStagePod") /\ fresh /\ (Called(n) \/ CalledInPart(n))
      <4>1. BuildStagePod(n)
        BY <3>3, CalledAt DEF At, CalledInPart
      <4>2. pod'[n] = IF pod[n] = "absent" THEN "pending" ELSE pod[n]
        BY <1>1, <2>6, <4>1 DEF BuildStagePod, StagePodWanted, MountsIn, ClusterTypeOK
      <4>3. r = 24
        BY <1>1, <3>3, FreshAt, RankTable DEF At
      <4> QED BY <1>5, <2>1, <4>2, <4>3 DEF PodStates
    <3> QED BY <3>1, <3>2, <3>3
  <2>7. ASSUME 26 <= s, MountsIn(n) PROVE pod'[n] = "running"
    <3>1. CASE r >= 26
      BY <1>2, <1>5, <1>7, <2>2, <2>7, <3>1
    <3>2. CASE r <= 25
      <4>1. r = 25 /\ mem.phase = "WaitStagePodRunning" /\ HandlerDone /\ pod' = pod
        BY <1>2, <2>3, <2>7, <3>2, RankTable
      <4> QED BY <1>5, <1>7, <2>7, <4>1 DEF HandlerDone, GetStagePodStatus
    <3> QED BY <1>2, <3>1, <3>2
  <2> QED
    BY <1>2, <1>4, <2>4, <2>5, <2>6, <2>7, RankTable DEF PodOf, Reached, Before
<1> QED BY <1>6, <1>7

LEMMA CopiedStep ==
  ASSUME Invariant, [Next]_vars, cleanedFrom' = "none"
  PROVE  CopiedOf'
<1>1. ClusterTypeOK /\ ClusterMove /\ BackupOf /\ Rank(cr.phase) \in 1..29
  BY Beginning DEF Always
<1>2. CopiedOf
  BY Running
<1>3. CASE backup' = "completed" /\ backup = "new"
            /\ copied' = {v \in Mounted : pod[NsOf[v]] = "running" /\ vol[v].pvc = "rebound"}
  <2>1. ~Finished /\ Reached("StartFileSystemCopy") /\ Reached("UpdatePvClaimDelete")
    BY <1>1, <1>3, RankTable DEF Finished, BackupOf, Reached
  <2>2. ASSUME NEW v \in Mounted
        PROVE  pod[NsOf[v]] = "running" /\ vol[v].pvc = "rebound"
    <3>1. v \in Volumes /\ NsOf[v] \in Namespaces
      BY ClusterAssumption
    <3>2. MountsIn(NsOf[v])
      BY <3>1 DEF MountsIn, VolumesIn
    <3>3. PodOf(NsOf[v]) /\ RecreatedOf(v)
      BY <3>1, Running
    <3> QED BY <2>1, <3>2, <3>3 DEF PodOf, RecreatedOf
  <2> QED BY <1>3, <2>2 DEF CopiedOf
<1> QED BY <1>1, <1>2, <1>3, BackupMoves DEF CopiedOf

-----------------------------------------------------------------------------
(* The invariant holds.                                                    *)

LEMMA InvariantStep == Invariant /\ [Next]_vars => Invariant'
<1> SUFFICES ASSUME Invariant, [Next]_vars PROVE Invariant'
  OBVIOUS
<1>1. ClusterTypeOK' /\ Control' /\ Resource'
  BY ControlStep, ClusterStep, ResourceStep, Beginning DEF StepOK, Control
<1>2. Always'
  <2>1. \A v \in Volumes : ContentOf(v)' /\ PolicyOf(v)' /\ NamedOf(v)'
    BY ContentStep, PolicyStep, VolumeNameStep
  <2>2. \A n \in Namespaces : CleanedOf(n)'
    BY CleanedStep
  <2> QED BY <2>1, <2>2, BackupStep DEF Always
<1>3. WhileRunning'
  <2> SUFFICES ASSUME cleanedFrom' = "none"
               PROVE  /\ \A n \in Namespaces : TempOf(n)' /\ PodOf(n)'
                      /\ \A v \in Volumes : SnapOf(v)' /\ RestoredOf(v)' /\ RecreatedOf(v)'
                      /\ CopiedOf'
    BY DEF WhileRunning
  <2> QED BY TempStep, PodStep, SnapStep, RestoredStep, RecreatedStep, CopiedStep
<1> QED BY <1>1, <1>2, <1>3 DEF Invariant

LEMMA InvariantInit == Init => Invariant
<1> SUFFICES ASSUME Init PROVE Invariant
  OBVIOUS
<1>1. /\ cr = NewExport /\ pc = "idle" /\ fresh = FALSE /\ cleanedFrom = "none"
      /\ backup = "absent" /\ snap = [v \in Volumes |-> [vs |-> "absent", ref |-> "orig", handle |-> FALSE]]
      /\ vol = [v \in Volumes |-> [pvc |-> "absent", pv |-> "none", policy |-> "Delete"]]
      /\ pod = [n \in Namespaces |-> "absent"]
      /\ temp = [n \in Namespaces |-> IF n \in Leftover THEN "active" ELSE "absent"]
  BY DEF Init, ClusterInit
<1>2. Rank(cr.phase) = 1 /\ \A v \in Volumes : cr.ann[NsOf[v]] = "none"
  BY <1>1, RankTable, ClusterAssumption DEF NewExport
<1>3. ~At("CleanUp") /\ \A p, i : ~Visited(p, i)
  BY <1>1 DEF At, Visited
<1>4. BackupOf
  BY <1>1, <1>2, <1>3, RankTable DEF BackupOf, Reached
<1>5. ASSUME NEW v \in Volumes PROVE ContentOf(v) /\ PolicyOf(v) /\ NamedOf(v)
  BY <1>1, <1>2, <1>3, <1>5, RankTable DEF ContentOf, PolicyOf, NamedOf, Reached, Before
<1>6. ASSUME NEW n \in Namespaces PROVE CleanedOf(n) /\ TempOf(n) /\ PodOf(n)
  BY <1>1, <1>2, <1>3, <1>6, RankTable DEF CleanedOf, TempOf, PodOf, Reached, Before
<1>7. ASSUME NEW v \in Volumes PROVE SnapOf(v) /\ RestoredOf(v) /\ RecreatedOf(v)
  <2>1. SnapOf(v)
    BY <1>1, <1>2, <1>3, <1>7, RankTable DEF SnapOf, Reached, Before
  <2>2. RestoredOf(v)
    BY <1>1, <1>2, <1>3, <1>7, RankTable DEF RestoredOf, Reached, Before
  <2>3. RecreatedOf(v)
    BY <1>1, <1>2, <1>3, <1>7, RankTable DEF RecreatedOf, Reached, Before
  <2> QED BY <2>1, <2>2, <2>3
<1>8. CopiedOf
  BY <1>1 DEF CopiedOf
<1> QED
  BY <1>4, <1>5, <1>6, <1>7, <1>8, InitTyped, ResourceInit DEF Invariant, Always, WhileRunning

(* What the resource's phase promises of the cluster, however many calls   *)
(* fail, repeat or come late.                                              *)
THEOREM PhasesKeepTheCluster == Spec => []Invariant
BY InvariantInit, InvariantStep, PTL DEF Spec

-----------------------------------------------------------------------------
(* The promises of the export.                                             *)

(* A completed export holds the data of every volume a pod mounts, if no   *)
(* stale copy of it was canceled: the stage pods ran, with the volumes     *)
(* restored from the backup's snapshots, when Velero copied what they      *)
(* mount.                                                                  *)
THEOREM CompletedHolds == Spec => []CompletedExported
<1>1. Invariant => CompletedExported
  <2> SUFFICES ASSUME Invariant, cr.state = StateCompleted, cleanedFrom # "stale"
               PROVE  Mounted \subseteq copied
    BY DEF CompletedExported
  <2>1. cr.phase = PhaseCompleted
    BY DEF Invariant, Resource, CompletedLast
  <2>2. cleanedFrom = "none"
    <3>1. cr.state # StateFailed /\ cr.state # StateCanceled
      BY DEF StateCompleted, StateFailed, StateCanceled
    <3> QED BY <3>1 DEF Invariant, Control, ControlTypeOK, Resource, GivenUp, TimedOut
  <2>3. Reached("CleanUp")
    BY <2>1, RankTable DEF Reached
  <2> QED
    BY <2>2, <2>3 DEF Invariant, Always, BackupOf, WhileRunning, CopiedOf
<1> QED BY <1>1, PhasesKeepTheCluster, PTL

(* A completed export leaves the original VolumeSnapshots bound to their   *)
(* contents, no active temporary namespace, and no PV that outlives it.    *)
THEOREM CompletedLeavesNothing == Spec => []CompletedClean
<1>1. Invariant => CompletedClean
  <2> SUFFICES ASSUME Invariant, cr.state = StateCompleted
               PROVE  /\ \A n \in Namespaces : temp[n] # "active"
                      /\ \A v \in Volumes \ swallowed : snap[v].ref = "orig"
                      /\ \A v \in Volumes : vol[v].policy = "Delete"
    BY DEF CompletedClean
  <2>1. cr.phase = PhaseCompleted
    BY DEF Invariant, Resource, CompletedLast
  <2>2. /\ Reached(PhaseCompleted) /\ Reached("DeleteVolumeSnapshot")
        /\ Reached("UpdateSnapshotContentBack")
    BY <2>1, RankTable DEF Reached
  <2> QED BY <2>2 DEF Invariant, Always, CleanedOf, ContentOf, PolicyOf
<1> QED BY <1>1, PhasesKeepTheCluster, PTL

(* The PV restored from a snapshot outlives the PVC it was restored for:   *)
(* unless the timeout cleans up, its data is there until the copy is over. *)
THEOREM RestoredSurvives == Spec => []RestoredVolumeSurvives
<1>1. Invariant => RestoredVolumeSurvives
  <2> SUFFICES ASSUME Invariant, NEW v \in Volumes, cleanedFrom = "none", ~Finished
               PROVE  vol[v].pv # "gone"
    BY DEF RestoredVolumeSurvives, Finished
  <2>1. Rank(cr.phase) \in 1..29
    BY NowTyped DEF Invariant
  <2>2. RestoredOf(v) /\ RecreatedOf(v)
    BY DEF Invariant, WhileRunning
  <2> QED BY <2>1, <2>2, RankTable DEF RestoredOf, RecreatedOf, Restored, Reached, Before
<1> QED BY <1>1, PhasesKeepTheCluster, PTL

(* No backend volume is left behind with nothing that names it, except by  *)
(* a timeout while the PVs have the Retain policy.                         *)
THEOREM NothingLeaks == Spec => []NoLeak
<1>1. Invariant => NoLeak
  <2> SUFFICES ASSUME Invariant, NEW v \in Volumes, vol[v].pv = "leaked", cleanedFrom # "stale"
               PROVE  cleanedFrom \in From("UpdatePvClaimRetain", "UpdatePvClaimDelete")
    BY DEF NoLeak
  <2>1. Rank(cr.phase) \in 1..29
    BY NowTyped DEF Invariant
  <2>2. Rank(cr.phase) \in 15..21
    <3>1. PolicyOf(v)
      BY DEF Invariant, Always
    <3> QED BY <2>1, <3>1, RankTable DEF PolicyOf, Reached, Before
  <2>3. CASE cleanedFrom = "none"
    <3>1. ~Finished
      BY <2>2, RankTable DEF Invariant, Always, BackupOf, Finished, Reached
    <3>2. RestoredOf(v) /\ RecreatedOf(v)
      BY <2>3 DEF Invariant, WhileRunning
    <3> QED BY <2>2, <3>1, <3>2, RankTable
            DEF RestoredOf, RecreatedOf, Restored, Reached, Before
  <2>4. CASE cleanedFrom \in ExportPhases
    BY <2>2, <2>4, RankTable DEF Invariant, Resource, GivenUp, From
  <2> QED BY <2>3, <2>4 DEF Invariant, Control, ControlTypeOK
<1> QED BY <1>1, PhasesKeepTheCluster, PTL

(* Deleting things in the temporary namespace never deletes the snapshot   *)
(* the backup took, except when the timeout cleans up before the content   *)
(* is handed back, or when the error of updateVscSnapRef's retry was       *)
(* dropped: what is lost at another moment had been given back.            *)
THEOREM SnapshotsSurvive == Spec => []SnapshotSurvives
<1> DEFINE Excused(v) ==
             \/ v \in swallowed
             \/ cleanedFrom = "stale"
             \/ cleanedFrom \in From("UpdateSnapshotContent", "UpdateSnapshotContentBack")
<1>1. ASSUME Invariant, SnapshotSurvives, [Next]_vars PROVE SnapshotSurvives'
  <2> SUFFICES ASSUME NEW v \in Volumes, snap'[v].ref = "lost" PROVE Excused(v)'
    BY DEF SnapshotSurvives
  <2>1. ClusterTypeOK /\ Control /\ Resource /\ ClusterMove /\ ContentOf(v)
        /\ Rank(cr.phase) \in 1..29
    BY <1>1, Beginning DEF Always
  <2>2. \/ cleanedFrom' = cleanedFrom
        \/ cleanedFrom = "none" /\ UNCHANGED clusterVars
    BY <1>1, <2>1, HistoryMoves
  <2>3. swallowed \subseteq swallowed'
    BY <1>1, <2>1, HistoryMoves
  <2>4. Excused(v) => Excused(v)'
    BY <2>2, <2>3, NotPhases DEF From
  <2>5. CASE snap[v].ref = "lost"
    BY <1>1, <2>4, <2>5 DEF SnapshotSurvives
  <2>6. CASE snap[v].ref # "lost"
    <3>1. /\ At("DeleteVolumeSnapshot") \/ temp[NsOf[v]] = "terminating"
          /\ snap'[v] = WithoutSnapshot(snap[v])
      BY <2>1, <2>6, SnapMoves
    <3>2. snap[v].ref = "temp"
      BY <2>1, <2>6, <3>1 DEF WithoutSnapshot, ClusterTypeOK, Snapshots
    <3>3. cleanedFrom' = cleanedFrom
      BY <2>2, <2>6 DEF clusterVars
    <3>4. Rank(cr.phase) >= 7
      BY <2>1, <3>2, RankTable DEF ContentOf, Before
    <3>5. CASE Rank(cr.phase) >= 23
      BY <2>1, <2>3, <3>2, <3>5, RankTable DEF ContentOf, Reached
    <3>6. CASE Rank(cr.phase) < 23
      <4>1. ~At("DeleteVolumeSnapshot")
        <5>1. At("DeleteVolumeSnapshot") => Rank(cr.phase) \in 23..25
          BY <2>1, Windows DEF At
        <5> QED BY <3>6, <5>1
      <4>2. cleanedFrom # "none"
        <5>1. NsOf[v] \in Namespaces
          BY ClusterAssumption
        <5>2. cleanedFrom = "none" => Finished
          BY <1>1, <3>1, <4>1, <5>1 DEF Invariant, WhileRunning, TempOf
        <5>3. ~Finished
          BY <1>1, <2>1, <3>6, RankTable DEF Invariant, Always, BackupOf, Finished, Reached
        <5> QED BY <5>2, <5>3
      <4>3. CASE cleanedFrom \in ExportPhases
        BY <2>1, <3>3, <3>4, <3>6, <4>3, RankTable DEF Resource, GivenUp, From
      <4> QED BY <2>1, <3>3, <4>2, <4>3 DEF Control, ControlTypeOK
    <3> QED BY <2>1, <3>5, <3>6
  <2> QED BY <2>5, <2>6
<1>2. Init => SnapshotSurvives
  BY DEF Init, ClusterInit, SnapshotSurvives
<1> QED BY <1>1, <1>2, PhasesKeepTheCluster, PTL DEF Spec

(* In a phase of a loop nothing that an earlier attempt has done stands in  *)
(* the way, but the temporary snapshots, and a PV name not recorded: the   *)
(* claim created without it may be filled, and is refused from then on.    *)
LEMMA RetriesHold == Invariant => RetriesAreSafe
<1> SUFFICES ASSUME Invariant, NEW i \in todo, fresh, Refused(i), cleanedFrom = "none",
                    mem.phase \notin {"CreateVolumeSnapshot", "DeleteVolumeSnapshot"}
             PROVE  /\ mem.phase \in {"RecreatePvc", "UpdatePvClaimRef"}
                    /\ mem.ann[NsOf[i]] = "vs"
  BY DEF RetriesAreSafe
<1> DEFINE r == Rank(cr.phase)
           named == mem.ann[NsOf[i]] = "pv"
<1>1. ClusterTypeOK /\ Control /\ Resource /\ pc = "phase" /\ mem.ann = cr.ann
      /\ mem \in Resources
  BY FreshAnn DEF Invariant, Refused, At, Control, ControlTypeOK
<1>2. i \in Items(mem)
  BY <1>1 DEF Control, Coherent
<1>3. r = Rank(mem.phase)
  BY <1>1, FreshIs, RankTable DEF Refused, At, Ahead, IgnoreUpdateError
<1>4. mem.phase \in NamespacePhases => i \in Namespaces
  <2>1. NamespacePhases \cap VolumePhases = {} /\ "CreateVolumeSnapshot" \in VolumePhases
    BY DEF NamespacePhases, VolumePhases
  <2> QED BY <1>2, <2>1 DEF Items
<1>5. mem.phase \in VolumePhases \ NamespacePhases =>
        i \in Volumes /\ NsOf[i] \in Namespaces /\ mem.ann[NsOf[i]] # "none"
  BY <1>2, ClusterAssumption DEF Items, Annotated
<1>6. Finished => 26 <= r
  BY RankTable DEF Invariant, Always, BackupOf, Finished, Reached
<1>7. \A n \in Namespaces : 6 <= r /\ r < 26 => temp[n] = "active"
  <2>1. r \in 1..29
    BY NowTyped DEF Invariant
  <2>2. \A n \in Namespaces : Reached("CreateVolumeSnapshot") => temp[n] = "active" \/ Finished
    BY DEF Invariant, WhileRunning, TempOf
  <2> QED BY <1>6, <2>1, <2>2, RankTable DEF Reached
<1>8. ASSUME NEW v \in Volumes PROVE SnapOf(v) /\ RestoredOf(v) /\ RecreatedOf(v)
  BY DEF Invariant, WhileRunning
<1>9. CASE At("UpdateSnapshotContent") /\ CannotUpdateContent(i)
  <2>1. i \in Volumes /\ r = 7
    BY <1>3, <1>5, <1>9, RankTable DEF At, VolumePhases, NamespacePhases
  <2> QED BY <1>8, <1>9, <2>1, RankTable DEF SnapOf, Before, CannotUpdateContent
<1>10. CASE At("CreatePvc") /\ CannotCreatePvcWithVs(i)
  <2>1. i \in Volumes /\ NsOf[i] \in Namespaces /\ r = 9
    BY <1>3, <1>5, <1>10, RankTable DEF At, VolumePhases, NamespacePhases
  <2> QED BY <1>7, <1>8, <1>10, <2>1, RankTable DEF SnapOf, Reached, CannotCreatePvcWithVs
<1>11. CASE At("CreatePvcPod") /\ CannotBuildStagePod(i)
  <2>1. i \in Namespaces /\ r = 10
    BY <1>3, <1>4, <1>11, RankTable DEF At, NamespacePhases
  <2> QED BY <1>7, <1>11, <2>1 DEF CannotBuildStagePod
<1>12. CASE At("UpdatePvClaimRetain") /\ CannotUpdatePvPolicy(i)
  <2>1. i \in Volumes /\ r = 15
    BY <1>3, <1>5, <1>12, RankTable DEF At, VolumePhases, NamespacePhases
  <2> QED BY <1>8, <1>12, <2>1, RankTable
          DEF RestoredOf, Restored, Reached, CannotUpdatePvPolicy
<1>13. CASE At("RecreatePvc") /\ CannotCreatePvcWithPv(i, named)
  <2>1. i \in Volumes /\ NsOf[i] \in Namespaces /\ r = 18
    BY <1>3, <1>5, <1>13, RankTable DEF At, VolumePhases, NamespacePhases
  <2>2. temp[NsOf[i]] = "active" /\ snap[i].vs # "absent"
    BY <1>7, <1>8, <2>1, RankTable DEF SnapOf, Reached
  <2>3. named => vol[i].pvc \in {"absent", "recreated", "rebound"}
    BY <1>1, <1>8, <2>1, RankTable DEF RecreatedOf, Reached, Before
  <2>4. ~named
    BY <1>13, <2>2, <2>3 DEF CannotCreatePvcWithPv, HasRecordedName
  <2>5. mem.ann[NsOf[i]] \in {"none", "vs", "pv"} /\ mem.ann[NsOf[i]] # "none"
    BY <1>1, <1>5, <1>13, <2>1 DEF Resources, At, VolumePhases, NamespacePhases
  <2> QED BY <1>13, <2>4, <2>5 DEF At
<1>14. CASE At("UpdatePvClaimRef") /\ CannotUpdatePvClaimRef(i, named)
  <2>1. i \in Volumes /\ NsOf[i] \in Namespaces /\ r = 19 /\ mem.ann[NsOf[i]] # "none"
    BY <1>3, <1>5, <1>14, RankTable DEF At, VolumePhases, NamespacePhases
  <2>2. vol[i].pvc # "absent" /\ vol[i].pv \notin {"none", "gone", "leaked"}
    BY <1>8, <2>1, RankTable DEF RecreatedOf, Reached, Before
  <2>3. mem.ann[NsOf[i]] \in {"none", "vs", "pv"}
    BY <1>1, <2>1 DEF Resources
  <2> QED BY <1>14, <2>1, <2>2, <2>3 DEF CannotUpdatePvClaimRef, At
<1>15. CASE At("UpdatePvClaimDelete") /\ CannotUpdatePvPolicy(i)
  <2>1. i \in Volumes /\ r = 21
    BY <1>3, <1>5, <1>15, RankTable DEF At, VolumePhases, NamespacePhases
  <2>2. vol[i].pvc = "rebound" /\ vol[i].pv = "bound"
    BY <1>6, <1>8, <2>1, RankTable DEF RecreatedOf, Reached
  <2> QED BY <1>15, <2>2 DEF CannotUpdatePvPolicy
<1>16. CASE At("UpdateSnapshotContentBack") /\ CannotUpdateContent(i)
  <2>1. i \in Volumes /\ r = 22
    BY <1>3, <1>5, <1>16, RankTable DEF At, VolumePhases, NamespacePhases
  <2> QED BY <1>8, <1>16, <2>1, RankTable DEF SnapOf, Before, CannotUpdateContent
<1>17. CASE At("CreateStagePod") /\ CannotBuildStagePod(i)
  <2>1. i \in Namespaces /\ r = 24
    BY <1>3, <1>4, <1>17, RankTable DEF At, NamespacePhases
  <2> QED BY <1>7, <1>17, <2>1 DEF CannotBuildStagePod
<1> QED
  BY <1>9, <1>10, <1>11, <1>12, <1>13, <1>14, <1>15, <1>16, <1>17 DEF Refused, At

(* A handler that has begun again from any point of its work is not        *)
(* refused, but those that create and delete the temporary snapshots, and  *)
(* the two that use a PV name that was not recorded.                       *)
THEOREM HandlersRepeat == Spec => []RetriesAreSafe
BY RetriesHold, PhasesKeepTheCluster, PTL
=============================================================================
