----------------------- MODULE VeleroExportProperties -----------------------
(***************************************************************************)
(* What the export controller promises.                                    *)
(***************************************************************************)
EXTENDS VeleroExport

(* Every variable has its type. *)
ControlTypeOK ==
  /\ cr \in Resources /\ cached \in Resources /\ watch \in Seq(Resources)
  /\ pc \in {"idle", "phase", "saved", "label", "timeout", "abort"}
  /\ mem \in Resources /\ fresh \in BOOLEAN
  /\ todo \in SUBSET (Namespaces \union Volumes)
  /\ budget \in [Disturbances -> Nat]
  /\ cleanedFrom \in ExportPhases \union {"none", "stale"}
  /\ swallowed \in SUBSET Volumes

TypeOK == ClusterTypeOK /\ ControlTypeOK

(* Optimistic concurrency does its work: a copy with a current             *)
(* resourceVersion is the resource, or one ignored status update ahead of  *)
(* it, and the informer's copy followed by the versions under way ends in  *)
(* the resource.  No handler works on a terminal copy, nor visits objects  *)
(* that are not those of its phase.                                        *)
Coherent ==
  /\ pc # "idle" => ~Terminal(mem)
  /\ pc = "phase" => todo \subseteq Items(mem)
  /\ fresh => /\ pc # "idle" /\ ~Terminal(cr)
              /\ \/ mem = cr
                 \/ cr.phase \in IgnoreUpdateError /\ mem = Succeeded(cr)
  /\ cr = IF watch = <<>> THEN cached ELSE watch[Len(watch)]

(* The resource moves forward through the phases, by one phase a write     *)
(* (nextPhase), whatever stale copies the worker acts on; by two after a   *)
(* status update whose error is ignored.                                   *)
PhaseNeverRegresses ==
  [][cr'.phase # cr.phase =>
       \/ Rank(cr'.phase) = Rank(cr.phase) + 1
       \/ /\ cr.phase \in IgnoreUpdateError
          /\ Rank(cr'.phase) = Rank(cr.phase) + 2]_vars

(* Once the resource is terminal no handler changes it again (it only      *)
(* ages): a stale reconcile cannot revive a canceled, aborted or completed *)
(* export.                                                                 *)
TerminalIsFinal == [][Terminal(cr) => cr' \in {cr, Aged(cr)}]_vars

(* Deleting things in the temporary namespace never deletes the snapshot   *)
(* the backup took, except when the timeout cleans up before the content   *)
(* is handed back (cleanUp does not hand it back), or when the error of    *)
(* updateVscSnapRef's retry was dropped.                                   *)
SnapshotSurvives ==
  \A v \in Volumes : snap[v].ref = "lost" =>
     \/ v \in swallowed
     \/ cleanedFrom = "stale"
     \/ cleanedFrom \in From("UpdateSnapshotContent", "UpdateSnapshotContentBack")

(* The PV restored from a snapshot outlives the PVC it was restored for:   *)
(* unless the timeout cleans up, its data is there until the copy is over. *)
RestoredVolumeSurvives ==
  \A v \in Volumes : vol[v].pv = "gone" =>
     cleanedFrom # "none" \/ backup \in {"completed", "failed"}

(* No backend volume is left behind with nothing that names it, except by  *)
(* a timeout while the PVs have the Retain policy.                         *)
NoLeak ==
  \A v \in Volumes : vol[v].pv = "leaked" =>
     \/ cleanedFrom = "stale"
     \/ cleanedFrom \in From("UpdatePvClaimRetain", "UpdatePvClaimDelete")

(* A completed export holds the data of every volume a pod mounts, if no   *)
(* stale copy of it was canceled.                                          *)
CompletedExported ==
  cr.state = StateCompleted /\ cleanedFrom # "stale" => Mounted \subseteq copied

(* A completed export leaves the original VolumeSnapshots bound to their   *)
(* contents, no active temporary namespace, and no PV that outlives it.    *)
CompletedClean ==
  cr.state = StateCompleted =>
     /\ \A n \in Namespaces : temp[n] # "active"
     /\ \A v \in Volumes \ swallowed : snap[v].ref = "orig"
     /\ \A v \in Volumes : vol[v].policy = "Delete"

(* When nothing goes wrong, an export fails only where it waits by failing *)
(* and where it updates or deletes an object that has just changed, or is  *)
(* being deleted by a reconcile before, and whose cached copy may be old:  *)
(* a handler that can write is never refused what it asks for, so that the *)
(* next reconcile goes on.                                                 *)
NoSpuriousFailure ==
  /\ cr.state = StateFailed =>
       cr.phase \in {PhaseCreated, "Precheck", "Prepare", "UpdatePvClaimRetain",
                     "UpdatePvClaimRef", "UpdatePvClaimDelete", "CleanUp"}
                    \union WaitingPhases
  /\ \A i \in todo : fresh => ~Refused(i)

(* Which handlers a failure, a conflict or a crash can leave unable to     *)
(* succeed: the creation and the deletion of the temporary snapshots,      *)
(* which accept no work already done, and the two that use the name of the *)
(* PV, when it was not recorded (an unnamed claim that an empty PV has     *)
(* filled is not known again).  Every other handler can be repeated from   *)
(* any point.                                                              *)
RetriesAreSafe ==
  \A i \in todo : fresh /\ Refused(i) =>
     \/ mem.phase \in {"CreateVolumeSnapshot", "DeleteVolumeSnapshot"}
     \/ mem.phase \in {"RecreatePvc", "UpdatePvClaimRef"} /\ mem.ann[NsOf[i]] = "vs"
     \/ cleanedFrom # "none"

(* Every export ends, whatever fails and whatever the storage does. *)
Terminates == <>Terminal(cr)

(* A terminal export's temporary namespaces go away. *)
Reclaimed == \A n \in Namespaces : Terminal(cr) ~> temp[n] = "absent"

(* An export that is past its queue and its check, that meets no failure   *)
(* and no timeout, completes, or fails with its Velero backup.             *)
Completes ==
  cr.phase = "Prepare" ~> cr.state \in {StateCompleted, StateVeleroFailed}

-----------------------------------------------------------------------------
(* What the export implements.                                             *)

StageOf(c) ==
  CASE c.state = StateCanceled -> "canceled"
    [] c.state = StateVeleroFailed -> "failed"
    [] c.state \notin {StateCanceled, StateVeleroFailed} ->
         CASE c.phase = PhaseCreated -> "queued"
           [] c.phase = PhaseCompleted -> "completed"
           [] OTHER -> "running"

View == INSTANCE Lifecycle WITH Jobs <- {"export"},
                                stage <- [j \in {"export"} |-> StageOf(cr)]

(* However many phases, retries, restarts and old copies an export goes    *)
(* through, a user sees it wait, run once and end once.                    *)
ImplementsLifecycle == View!Spec

Custody ==
  INSTANCE SnapshotCustody WITH
    holder  <- [v \in Volumes |-> CASE snap[v].ref = "orig" -> "backup"
                                    [] snap[v].ref = "temp" -> "export"
                                    [] snap[v].ref = "lost" -> "nobody"],
    status  <- IF StageOf(cr) \in {"queued", "running"} THEN "open"
               ELSE IF StageOf(cr) = "completed" THEN "completed" ELSE "ended",
    givenUp <- cleanedFrom # "none",
    astray  <- swallowed

(* The calls on the cluster, in the order of the phases, with the          *)
(* controllers that act on their own, keep the promise about the backup's  *)
(* snapshots: borrowed only while the export is open, all given back when  *)
(* it completes, lost only after it gave up or went astray.                *)
KeepsCustody == Custody!Spec

-----------------------------------------------------------------------------
(* "delete the temparory namespace already exists"                         *)
(* (veleroexport_controller.go:226): the phase that waits for the end of   *)
(* the deletion finds no temporary namespace that is not being deleted.    *)
PrepareDeletesTemp ==
  cr.phase = "WaitPrepareComplete" =>
     \A n \in Namespaces : temp[n] # "active"

(* "StateCompleted | Data export is Completed" (README.md:107): a          *)
(* completed export holds the data of every volume a pod mounts.           *)
CompletedHoldsData == cr.state = StateCompleted => Mounted \subseteq copied
=============================================================================
