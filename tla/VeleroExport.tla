---------------------------- MODULE VeleroExport ----------------------------
(***************************************************************************)
(* The export controller (controllers/veleroexport_controller.go): one     *)
(* VeleroExport resource driven through its phases by one worker           *)
(* (MaxConcurrentReconciles = 1) that reads the resource from an informer  *)
(* cache, which may lag, and writes it with optimistic concurrency.        *)
(*                                                                         *)
(* A step makes at most one write to the API server, so that a crash, a    *)
(* failed call, another actor or the clock can come between any two        *)
(* writes of a reconcile.  The reads a handler makes before a write belong *)
(* to the step of that write.                                              *)
(***************************************************************************)
EXTENDS Phases, Operations

CONSTANTS
  Timeouts,      \* whether the failure timeouts can elapse
  MaxFaults,     \* bound on calls the API server fails for no reason of ours
  MaxConflicts,  \* bound on writes of others that meet a write of ours
  MaxCrashes,    \* bound on restarts of the controller
  MaxLags        \* bound on reads of an old copy in the informers' caches

ASSUME BoundsAssumption ==
  /\ Timeouts \in BOOLEAN
  /\ {MaxFaults, MaxConflicts, MaxCrashes, MaxLags} \subseteq Nat

VARIABLES
  cr,      \* the VeleroExport resource in the API server
  cached,  \* the informer's copy of it
  watch,   \* versions of it the informer has not received yet
  pc,      \* where the worker is in Reconcile
  mem,     \* the worker's copy of the resource
  fresh,   \* mem has the resourceVersion of cr
  todo,    \* objects the loop of the current handler has not visited
  budget,  \* faults, conflicts, crashes and lags still to come
  cleanedFrom,  \* history: the phase of the resource when the timeout's
                \* cleanUp began, "stale" if the resource was then not failed
  swallowed     \* history: volumes whose failed content update was lost

resourceVars == <<cr, cached, watch>>
workerVars   == <<pc, mem, fresh, todo>>
historyVars  == <<cleanedFrom, swallowed>>
vars == <<clusterVars, resourceVars, workerVars, budget, historyVars>>

-----------------------------------------------------------------------------
(* The resource.  since: LastFailureTimestamp, nil, or recent, or older    *)
(* than the timeout of its phase.  ann[n]: what the annotation of a        *)
(* namespace records, nothing, its VolumeSnapshots, or also their PVs.     *)
(* label: the label naming the Velero backup of the copy.                  *)
Resources ==
  [phase : ExportPhases,
   state : {StateNone, StateInProgress, StateFailed, StateCompleted,
            StateVeleroFailed, StateCanceled},
   since : {"nil", "recent", "old"},
   ann : [Namespaces -> {"none", "vs", "pv"}],
   label : BOOLEAN]

NewExport == [phase |-> PhaseCreated, state |-> StateNone, since |-> "nil",
              ann |-> [n \in Namespaces |-> "none"], label |-> FALSE]

(* Nothing more is done for a resource in one of these states. *)
Terminal(c) ==
  c.phase = PhaseCompleted \/ c.state \in {StateCanceled, StateVeleroFailed}

TimedOut(c) == c.state = StateFailed /\ c.since = "old"

(* updateStatus(nil) *)
Succeeded(c) ==
  LET next == GetNextPhase(c.phase, VeleroExportSteps)
  IN  [c EXCEPT !.phase = next,
                !.since = "nil",
                !.state = IF next = GetLastPhase(VeleroExportSteps)
                            THEN StateCompleted ELSE StateInProgress]

(* A wrong variant: the timestamp is that of the last failure. *)
FailedOnAgain(c) ==
  [c EXCEPT !.state = IF @ = StateVeleroFailed THEN @ ELSE StateFailed,
            !.since = "recent"]

(* updateStatus(err) *)
FailedOn(c) ==
  [c EXCEPT !.state = IF @ = StateVeleroFailed THEN @ ELSE StateFailed,
            !.since = IF @ = "nil" THEN "recent" ELSE @]

(* updateStatus(err) after the handler has set the state to VeleroFailed. *)
VeleroFailedOn(c) == FailedOn([c EXCEPT !.state = StateVeleroFailed])

(* Phases whose handler loops over the included namespaces, and over the   *)
(* VolumeSnapshotResources of their annotations, with a call for each.     *)
NamespacePhases ==
  {"Prepare", "CreateTempNamespace", "CreatePvcPod", "CleanPvcPod",
   "CreateStagePod", "CleanUp"}
VolumePhases ==
  {"CreateVolumeSnapshot", "UpdateSnapshotContent", "CreatePvc",
   "UpdatePvClaimRetain", "DeletePvc", "RecreatePvc", "UpdatePvClaimRef",
   "UpdatePvClaimDelete", "UpdateSnapshotContentBack", "DeleteVolumeSnapshot"}

Annotated(c) == {v \in Volumes : c.ann[NsOf[v]] # "none"}

Items(c) ==
  CASE c.phase \in NamespacePhases -> Namespaces
    [] c.phase = "CreateVolumeSnapshot" -> Volumes \ Annotated(c)
    [] c.phase \in VolumePhases \ {"CreateVolumeSnapshot"} -> Annotated(c)
    [] OTHER -> {}

(* Phases whose handler goes on to the next one in the same reconcile. *)
FallThrough ==
  {PhaseCreated, "Precheck", "Prepare", "WaitPrepareComplete",
   "CreateTempNamespace", "UpdateSnapshotContent", "CheckSnapshotReady",
   "WaitPvcPodRunning", "UpdateSnapshotContentBack", "DeleteVolumeSnapshot",
   "WaitStagePodRunning", "WaitFileSystemCopyComplete"}

(* Those of them that do so even when their status update has failed. *)
IgnoreUpdateError == {"Precheck", "WaitFileSystemCopyComplete"}

-----------------------------------------------------------------------------
(* Steps of the worker on the resource.                                    *)

(* A wrong variant: the API server does not compare resource versions. *)
WriteBlindly(c) ==
  /\ cr' = c
  /\ watch' = IF c = cr THEN watch ELSE Append(watch, c)

(* A write: rejected when the worker's resourceVersion is not current. *)
Write(c) ==
  IF fresh THEN /\ cr' = c
                /\ watch' = IF c = cr THEN watch ELSE Append(watch, c)
           ELSE UNCHANGED <<cr, watch>>

Return ==
  /\ pc' = "idle" /\ mem' = NewExport /\ fresh' = FALSE /\ todo' = {}

Enter(c) ==
  /\ pc' = "phase" /\ mem' = c /\ todo' = Items(c)

Disturbances == {"faults", "conflicts", "crashes", "lags"}

Spend(what) ==
  /\ budget[what] > 0
  /\ budget' = [budget EXCEPT ![what] = @ - 1]

Advance ==
  /\ Write(Succeeded(mem))
  /\ IF mem.phase \in FallThrough /\ (fresh \/ mem.phase \in IgnoreUpdateError)
       THEN Enter(Succeeded(mem)) /\ UNCHANGED fresh
       ELSE Return
  /\ UNCHANGED <<cached, budget, historyVars>>

(* The same where the error of the status update is ignored: it errs,      *)
(* whether it has been written or not.                                     *)
AdvanceForgets ==
  /\ fresh /\ mem.phase \in IgnoreUpdateError
  /\ \/ UNCHANGED <<cr, watch, fresh>>
     \/ Write(Succeeded(mem)) /\ fresh' = FALSE
  /\ Enter(Succeeded(mem))
  /\ Spend("faults")
  /\ UNCHANGED <<cached, historyVars>>

Fail ==
  /\ Write(FailedOn(mem))
  /\ Return
  /\ UNCHANGED <<cached, historyVars>>

(* Requeue, or an error returned, without a status update. *)
Requeue ==
  /\ Return
  /\ UNCHANGED <<resourceVars, historyVars>>

-----------------------------------------------------------------------------
(* Reconcile: the resource is read from the cache.                         *)

(* A wrong variant: the copy of the cache is taken for current. *)
BeginTrusting ==
  /\ pc = "idle" /\ ~Terminal(cached) /\ ~TimedOut(cached)
  /\ Enter(cached) /\ fresh' = TRUE
  /\ UNCHANGED <<clusterVars, resourceVars, budget, historyVars>>

Begin ==
  /\ pc = "idle" /\ ~Terminal(cached) /\ ~TimedOut(cached)
  /\ Enter(cached) /\ fresh' = (watch = <<>>)
  /\ UNCHANGED <<clusterVars, resourceVars, budget, historyVars>>

(* The resource has been failing for too long in a phase after the queue. *)
BeginTimeout ==
  /\ pc = "idle" /\ ~Terminal(cached) /\ TimedOut(cached)
  /\ pc' = "timeout" /\ mem' = cached /\ fresh' = (watch = <<>>)
  /\ todo' = IF cached.phase = PhaseCreated THEN {} ELSE Namespaces \union Volumes
  /\ cleanedFrom' = IF cached.phase = PhaseCreated \/ cleanedFrom # "none"
                      THEN cleanedFrom
                      ELSE IF TimedOut(cr) THEN cr.phase ELSE "stale"
  /\ UNCHANGED <<clusterVars, resourceVars, budget, swallowed>>

(* A terminal resource is left alone until its retention has elapsed. *)
ReconcileTerminal ==
  /\ pc = "idle" /\ Terminal(cached)
  /\ UNCHANGED vars

At(phase) == pc = "phase" /\ mem.phase = phase

-----------------------------------------------------------------------------
(* Handlers that only look at the cluster.                                 *)

(* PhaseCreated: another export on the same namespaces (see ExportQueue in *)
(* the README) keeps this one in the queue.                                *)
Created ==
  /\ At(PhaseCreated)
  /\ Advance \/ (Fail /\ UNCHANGED budget)

(* The Velero backup and the volume snapshots are valid or not. *)
Precheck ==
  /\ At("Precheck")
  /\ Advance \/ AdvanceForgets \/ (Fail /\ UNCHANGED budget)

WaitPrepareComplete ==
  /\ At("WaitPrepareComplete")
  /\ IF \A n \in Namespaces : temp[n] = "absent"
       THEN Advance ELSE Requeue /\ UNCHANGED budget

(* A handler that fails, with a status update, until its test holds. *)
Poll(phase, test) ==
  /\ At(phase)
  /\ IF test THEN Advance ELSE Fail /\ UNCHANGED budget

CheckSnapshotReady ==
  Poll("CheckSnapshotReady", \A v \in Annotated(mem) : IsVolumeSnapshotReady(v))

WaitPvcPodRunning ==
  Poll("WaitPvcPodRunning", \A n \in Namespaces : GetStagePodStatus(n))

EnsurePvcPodCleaned ==
  Poll("EnsurePvcPodCleaned", \A n \in Namespaces : EnsureStagePodCleaned(n))

EnsurePvcsDeleted ==
  Poll("EnsurePvcDeleted",
       \A n \in Namespaces : mem.ann[n] # "none" => EnsurePvcDeleted(n))

EnsureRecreatePvcReady ==
  Poll("EnsureRecreatePvcReady", \A v \in Annotated(mem) : CheckPVCReady(v))

WaitStagePodRunning ==
  Poll("WaitStagePodRunning", \A n \in Namespaces : GetStagePodStatus(n))

(* One of the reads of such a handler errs. *)
ReadFaults ==
  /\ pc = "phase" /\ mem.phase \notin NamespacePhases \union VolumePhases
  /\ Spend("faults")
  /\ Fail

(* Handlers that read what their own phase, or the one before, is about:   *)
(* the caches may not show it yet.  The others read what an earlier phase  *)
(* has seen, and a cache does not go back.                                 *)
WaitingPhases ==
  {"CheckSnapshotReady", "WaitPvcPodRunning", "CheckPvcReady",
   "EnsurePvcPodCleaned", "EnsurePvcDeleted", "EnsureRecreatePvcReady",
   "WaitStagePodRunning", "WaitFileSystemCopyComplete"}

ReadLags ==
  /\ pc = "phase" /\ mem.phase \in WaitingPhases
  /\ Spend("lags")
  /\ Fail

PollStep ==
  /\ \/ Created \/ Precheck \/ WaitPrepareComplete \/ CheckSnapshotReady
     \/ WaitPvcPodRunning \/ EnsurePvcPodCleaned \/ EnsurePvcsDeleted
     \/ EnsureRecreatePvcReady \/ WaitStagePodRunning \/ ReadFaults \/ ReadLags
  /\ UNCHANGED clusterVars

-----------------------------------------------------------------------------
(* Handlers that loop with a call for each object: the call on object i.   *)

Call(i) ==
  \/ At("Prepare") /\ AsyncDeleteOldNamespace(i)
  \/ At("CreateTempNamespace") /\ CreateNamespace(i)
  \/ At("CreateVolumeSnapshot") /\ CreateSnapshot(i)
  \/ At("UpdateSnapshotContent") /\ UpdateContent(i, FALSE)
  \/ At("CreatePvc") /\ CreatePvcWithVs(i)
  \/ At("CreatePvcPod") /\ BuildStagePod(i)
  \/ At("CleanPvcPod") /\ EnsureStagePodDeleted(i)
  \/ At("UpdatePvClaimRetain") /\ UpdatePvPolicy(i, "Retain")
  \/ At("DeletePvc") /\ DeletePvc(i)
  \/ At("RecreatePvc") /\ CreatePvcWithPv(i, mem.ann[NsOf[i]] = "pv")
  \/ At("UpdatePvClaimRef") /\ UpdatePvClaimRef(i, mem.ann[NsOf[i]] = "pv")
  \/ At("UpdatePvClaimDelete") /\ UpdatePvPolicy(i, "Delete")
  \/ At("UpdateSnapshotContentBack") /\ UpdateContent(i, TRUE)
  \/ At("DeleteVolumeSnapshot") /\ DeleteSnapshot(i)
  \/ At("CreateStagePod") /\ BuildStagePod(i)
  \/ At("CleanUp") /\ AsyncDeleteNamespace(i)

Refused(i) ==
  \/ At("CreateVolumeSnapshot") /\ CannotCreateSnapshot(i)
  \/ At("UpdateSnapshotContent") /\ CannotUpdateContent(i)
  \/ At("CreatePvc") /\ CannotCreatePvcWithVs(i)
  \/ At("CreatePvcPod") /\ CannotBuildStagePod(i)
  \/ At("UpdatePvClaimRetain") /\ CannotUpdatePvPolicy(i)
  \/ At("RecreatePvc") /\ CannotCreatePvcWithPv(i, mem.ann[NsOf[i]] = "pv")
  \/ At("UpdatePvClaimRef") /\ CannotUpdatePvClaimRef(i, mem.ann[NsOf[i]] = "pv")
  \/ At("UpdatePvClaimDelete") /\ CannotUpdatePvPolicy(i)
  \/ At("UpdateSnapshotContentBack") /\ CannotUpdateContent(i)
  \/ At("DeleteVolumeSnapshot") /\ CannotDeleteSnapshot(i)
  \/ At("CreateStagePod") /\ CannotBuildStagePod(i)

CallSucceeds(i) ==
  /\ Call(i)
  /\ todo' = todo \ {i}
  /\ UNCHANGED <<resourceVars, pc, mem, fresh, budget, historyVars>>

(* The API server refuses: the handler reports the error and returns. *)
CallRefused(i) ==
  /\ Refused(i)
  /\ Fail
  /\ UNCHANGED <<clusterVars, budget>>

(* The call errs, whether it has taken effect or not. *)
CallFaults(i) ==
  /\ pc = "phase"
  /\ \/ Call(i)
     \/ At("UpdateSnapshotContent") /\ UpdateContentRef(i, FALSE)
     \/ UNCHANGED clusterVars
  /\ Spend("faults")
  /\ Fail

(* The object has come, changed or gone since the cached copy of it: it is *)
(* not found, or its update conflicts.                                     *)
CallLags(i) ==
  /\ \/ At("Prepare") /\ oldNs[i] = "absent"
     \/ At("CleanUp") /\ temp[i] = "absent"
     \/ At("UpdatePvClaimRetain") \/ At("UpdatePvClaimRef")
     \/ At("UpdatePvClaimDelete")
  /\ Spend("lags")
  /\ Fail
  /\ UNCHANGED clusterVars

(* The namespace to delete is already being deleted, and the API server    *)
(* says Conflict: Prepare tries again later, CleanUp fails.                *)
DeleteConflicts(i) ==
  /\ \/ At("Prepare") /\ oldNs[i] = "terminating" /\ Requeue
     \/ At("CleanUp") /\ temp[i] = "terminating" /\ Fail
  /\ UNCHANGED <<clusterVars, budget>>

(* A wrong variant: a conflict is a failure like any other. *)
ContentConflictsFail(i) ==
  /\ At("UpdateSnapshotContent")
  /\ UpdateContentRef(i, FALSE)
  /\ Spend("conflicts") \/ Spend("lags")
  /\ Fail

(* Another writer of the content comes between the two updates of          *)
(* AsyncUpdateVolumeSnapshotContent, or the copy read between them is old: *)
(* the second update conflicts.                                            *)
ContentConflicts(i) ==
  /\ At("UpdateSnapshotContent")
  /\ UpdateContentRef(i, FALSE)
  /\ Spend("conflicts") \/ Spend("lags")
  /\ Requeue

(* The first update conflicts, and the retry fails without being noticed. *)
RetrySwallowed(i) ==
  /\ \/ At("UpdateSnapshotContent") /\ UpdateContentSwallowed(i, FALSE)
     \/ At("UpdateSnapshotContentBack") /\ UpdateContentSwallowed(i, TRUE)
  /\ Spend("faults")
  /\ todo' = todo \ {i}
  /\ swallowed' = swallowed \union {i}
  /\ UNCHANGED <<resourceVars, pc, mem, fresh, cleanedFrom>>

LoopStep ==
  \E i \in todo :
    \/ CallSucceeds(i) \/ CallRefused(i) \/ CallFaults(i) \/ CallLags(i)
    \/ DeleteConflicts(i) \/ ContentConflicts(i) \/ RetrySwallowed(i)

(* The loop is over: the status update. *)
LoopDone ==
  /\ \/ /\ pc = "phase" /\ todo = {}
        /\ mem.phase \in NamespacePhases \union VolumePhases
        /\ mem.phase # "CreateVolumeSnapshot"
     \/ pc = "saved"
  /\ Advance
  /\ UNCHANGED clusterVars

-----------------------------------------------------------------------------
(* Handlers that also save something in the resource itself.               *)

(* A write of annotations or labels, then the rest of the handler. *)
Save(c) ==
  IF fresh THEN /\ Write(c) /\ mem' = c /\ pc' = "saved"
                /\ UNCHANGED <<cached, fresh, todo, historyVars>>
           ELSE Requeue

(* CreateVolumeSnapshot, after its loop: the annotations of the namespaces *)
(* that had none.  An error fails the phase with the snapshots created.    *)
SaveSnapshots ==
  /\ At("CreateVolumeSnapshot") /\ todo = {}
  /\ \/ /\ Save([mem EXCEPT !.ann =
                   [n \in Namespaces |-> IF @[n] = "none" /\ VolumesIn(n) # {}
                                           THEN "vs" ELSE @[n]]])
        /\ UNCHANGED budget
     \/ Spend("faults") /\ Fail
  /\ UNCHANGED clusterVars

(* CheckPvcReady: fails until every PVC is bound, then records the PVs'    *)
(* names.                                                                  *)
CheckPvcReady ==
  /\ At("CheckPvcReady")
  /\ IF \A v \in Annotated(mem) : CheckPVCReady(v)
       THEN Save([mem EXCEPT !.ann = [n \in Namespaces |->
                    IF @[n] = "none" THEN "none" ELSE "pv"]])
       ELSE Fail
  /\ UNCHANGED <<clusterVars, budget>>

(* An error of that write is reported and then forgotten: the handler does *)
(* not return, and the phase is reported successful as well.               *)
CheckPvcReadyForgets ==
  /\ At("CheckPvcReady") /\ fresh
  /\ \A v \in Annotated(mem) : CheckPVCReady(v)
  /\ Spend("faults")
  /\ cr' = Succeeded(FailedOn(mem))
  /\ watch' = Append(Append(watch, FailedOn(mem)), cr')
  /\ Return
  /\ UNCHANGED <<clusterVars, cached, historyVars>>

(* StartFileSystemCopy: the Velero backup of the temporary namespaces is   *)
(* ensured, then the label naming it is saved.                             *)
StartFileSystemCopy ==
  /\ At("StartFileSystemCopy")
  /\ EnsureVeleroBackup
  /\ pc' = "label"
  /\ UNCHANGED <<resourceVars, mem, fresh, todo, budget, historyVars>>

(* updateVeleroExportLabel; a conflict requeues. *)
SaveLabel ==
  /\ pc = "label"
  /\ \/ Save([mem EXCEPT !.label = TRUE]) /\ UNCHANGED budget
     \/ Spend("faults") /\ Fail
  /\ UNCHANGED clusterVars

SaveStep ==
  \/ SaveSnapshots \/ CheckPvcReady \/ CheckPvcReadyForgets
  \/ StartFileSystemCopy \/ SaveLabel

-----------------------------------------------------------------------------
(* The end of the copy, and cleanUp(deletePv = true).                      *)

(* The backup the label names: a completed one ends the phase, a failed    *)
(* one aborts the export, one in progress requeues with no status update.  *)
WaitFileSystemCopyComplete ==
  /\ At("WaitFileSystemCopyComplete") /\ mem.label
  /\ \/ backup = "completed" /\ (Advance \/ AdvanceForgets)
     \/ /\ backup = "failed"
        /\ pc' = "abort" /\ todo' = Namespaces \union Volumes
        /\ UNCHANGED <<resourceVars, mem, fresh, budget, historyVars>>
     \/ backup = "new" /\ Requeue /\ UNCHANGED budget
  /\ UNCHANGED clusterVars

(* The loop of cleanUp over the temporary namespaces, ... *)
CleanUpNamespace(n) ==
  /\ pc \in {"timeout", "abort"} /\ n \in Namespaces
  /\ AsyncDeleteNamespace(n)
  /\ todo' = todo \ {n}
  /\ UNCHANGED <<resourceVars, pc, mem, fresh, budget, historyVars>>

(* An error of cleanUp is returned: it runs again from the start later. *)
CleanUpConflicts(n) ==
  /\ pc \in {"timeout", "abort"} /\ n \in Namespaces
  /\ temp[n] = "terminating"
  /\ Requeue
  /\ UNCHANGED <<clusterVars, budget>>

(* ... then that of ClearPVs over the PVs. *)
CleanUpVolume(v) ==
  /\ pc \in {"timeout", "abort"} /\ todo \cap Namespaces = {}
  /\ ClearPV(v)
  /\ todo' = todo \ {v}
  /\ UNCHANGED <<resourceVars, pc, mem, fresh, budget, historyVars>>

(* The last write of a timed-out, or aborted, export. *)
Cancel ==
  /\ todo = {}
  /\ \/ pc = "timeout" /\ Write([mem EXCEPT !.state = StateCanceled])
     \/ pc = "abort" /\ Write(VeleroFailedOn(mem))
  /\ Return
  /\ UNCHANGED <<clusterVars, cached, budget, historyVars>>

CleanUpStep ==
  \/ \E i \in todo : CleanUpNamespace(i) \/ CleanUpConflicts(i) \/ CleanUpVolume(i)
  \/ Cancel

-----------------------------------------------------------------------------
(* The rest of the world.                                                  *)

EnvironmentStep ==
  /\ Environment
  /\ UNCHANGED <<resourceVars, workerVars, budget, historyVars>>

(* The informer receives the next version of the resource. *)
CacheSync ==
  /\ watch # <<>>
  /\ cached' = Head(watch) /\ watch' = Tail(watch)
  /\ UNCHANGED <<clusterVars, cr, workerVars, budget, historyVars>>

(* The API server answers nothing more in this reconcile. *)
Unreachable ==
  /\ pc # "idle"
  /\ Spend("faults")
  /\ Requeue
  /\ UNCHANGED clusterVars

(* Someone else updates the resource, in nothing the controller reads. *)
UserTouch ==
  /\ ~Terminal(cr)
  /\ Spend("conflicts")
  /\ watch' = Append(watch, cr) /\ fresh' = FALSE
  /\ UNCHANGED <<clusterVars, cr, cached, pc, mem, todo, historyVars>>

(* The controller restarts: its informer lists the resource anew. *)
Crash ==
  /\ Spend("crashes")
  /\ Return
  /\ cached' = cr /\ watch' = <<>>
  /\ UNCHANGED <<clusterVars, cr, historyVars>>

(* The timeout of the phase (FailureTimeout, or QueuedTimeout in the       *)
(* queue) elapses since the failure timestamp, in every copy that has it.  *)
Aged(c) == [c EXCEPT !.since = IF @ = "recent" THEN "old" ELSE @]

TimePasses ==
  /\ Timeouts
  /\ \E c \in {cr, cached} : c.state = StateFailed /\ c.since = "recent"
  /\ cr' = Aged(cr) /\ cached' = Aged(cached) /\ mem' = Aged(mem)
  /\ watch' = [i \in DOMAIN watch |-> Aged(watch[i])]
  /\ UNCHANGED <<clusterVars, pc, fresh, todo, budget, historyVars>>

-----------------------------------------------------------------------------
Init ==
  /\ ClusterInit
  /\ cr = NewExport /\ cached = NewExport /\ watch = <<>>
  /\ pc = "idle" /\ mem = NewExport /\ fresh = FALSE /\ todo = {}
  /\ budget = [what \in Disturbances |-> CASE what = "faults" -> MaxFaults
                                           [] what = "conflicts" -> MaxConflicts
                                           [] what = "crashes" -> MaxCrashes
                                           [] what = "lags" -> MaxLags]
  /\ cleanedFrom = "none" /\ swallowed = {}

Worker ==
  \/ Begin \/ BeginTimeout \/ ReconcileTerminal \/ PollStep \/ LoopStep
  \/ LoopDone \/ SaveStep \/ WaitFileSystemCopyComplete \/ CleanUpStep

Next ==
  \/ Worker \/ Unreachable \/ EnvironmentStep \/ CacheSync \/ UserTouch
  \/ Crash \/ TimePasses

Spec == Init /\ [][Next]_vars

(* The work queue always has a request for a resource that is not          *)
(* terminal, the informer delivers, and the clock runs.                    *)
ControllerFairness == WF_vars(Worker) /\ WF_vars(CacheSync) /\ WF_vars(TimePasses)

(* The namespace controller and Velero finish what they were asked. *)
Do(action) == action /\ UNCHANGED <<resourceVars, workerVars, budget, historyVars>>

FinishingFairness ==
  /\ \A n \in Namespaces : WF_vars(Do(NsGone(n))) /\ WF_vars(Do(OldNsGone(n)))
  /\ WF_vars(Do(VeleroFinishes))

(* So do the storage controllers and the kubelet. *)
ServingFairness ==
  /\ \A v \in Volumes : /\ WF_vars(Do(SnapshotReady(v)))
                        /\ WF_vars(Do(Provision(v)))
                        /\ WF_vars(Do(Bind(v)))
                        /\ WF_vars(Do(Fill(v)))
                        /\ WF_vars(Do(PvcGone(v)))
  /\ \A n \in Namespaces : WF_vars(Do(PodRuns(n))) /\ WF_vars(Do(PodGone(n)))

(* Whatever the storage and the kubelet do, *)
FairSpec == Spec /\ ControllerFairness /\ FinishingFairness
(* and when they do their part. *)
ServedSpec == FairSpec /\ ServingFairness
=============================================================================
