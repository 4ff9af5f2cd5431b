----------------------------- MODULE CommandLine -----------------------------
(***************************************************************************)
(* The command line (cli/utils): BackupManager and RestoreManager, which   *)
(* do in one process, waiting between the steps, what the controllers do   *)
(* in phases.  An error of a step is a panic, after which the user may run *)
(* the command again.  They share pkg/operation with the controllers, and  *)
(* add its Sync and Monitor calls.                                         *)
(*                                                                         *)
(* One application namespace with one volume, whose snapshot backup exists *)
(* and is completed, and whose snapshot content has either deletion        *)
(* policy.  The client reads the API server directly.                      *)
(***************************************************************************)
EXTENDS Naturals

CONSTANTS
  MaxBackups,  \* bounds on runs of BackupManager
  MaxRestores, \* and, after those, of RestoreManager
  MaxFaults    \* bound on calls the API server fails, and on interrupts

ASSUME CommandAssumption == {MaxBackups, MaxRestores, MaxFaults} \subseteq Nat

VARIABLES
  temp,      \* the temporary namespace "dm-" + backup
  vs, ref,   \* the VolumeSnapshot there; whom the backup's content refers to
  policy,    \* what becomes of that content with the VolumeSnapshot
  pvc,       \* the PVC there
  pods,      \* the stage pods there
  copy,      \* the Velero backup "ve-" + backup
  holds,     \* it holds the volume's data
  app,       \* the application namespace
  data,      \* its volume holds the data
  inApp,     \* stage pods in the application namespace
  restore,   \* the Velero restores of "ve-" + backup, and of backup, of each run
  pc,        \* the step of the command that runs
  runs,      \* commands run so far
  faults,    \* faults still to come
  panics,    \* history: why commands have panicked
  done,      \* history: commands that have ended as they should
  slips      \* history: what commands have gone on in spite of

tempVars    == <<temp, vs, ref, pvc, pods>>
copyVars    == <<copy, holds>>
appVars     == <<app, data, inApp, restore>>
historyVars == <<panics, done, slips>>
vars == <<tempVars, policy, copyVars, appVars, pc, runs, faults, historyVars>>

(* blind: the stage pods could not be listed; adopted: the copy that a run *)
(* which was cut short had asked for; rash: the application's namespace    *)
(* was not gone in this run of RestoreManager.                             *)
Slips == {"blind", "adopted", "rash"}

NsStates == {"absent", "active", "terminating"}
PodStates == {"absent", "pending", "running", "terminating"}
Restored == {"completed", "partial"}
Restores == 1 .. MaxRestores
Parts == {"temp", "orig"}

(* Go on with another step. *)
To(step) == pc' = step /\ UNCHANGED <<policy, runs, faults, historyVars>>

(* A call errs, and the command goes on all the same. *)
ToInSpite(step, slip) ==
  /\ faults > 0 /\ faults' = faults - 1
  /\ pc' = step /\ slips' = slips \union slip
  /\ UNCHANGED <<policy, runs, panics, done>>

Exit(command) ==
  /\ pc' = "none" /\ done' = done \union {command}
  /\ UNCHANGED <<policy, runs, panics, slips>>

Panic(why) ==
  /\ pc' = "none" /\ panics' = panics \union {why}
  /\ UNCHANGED <<tempVars, policy, copyVars, appVars, runs, faults, done, slips>>

-----------------------------------------------------------------------------
(* BackupManager *)

RunBackup ==
  /\ pc = "none" /\ runs.backup < MaxBackups /\ runs.restore = 0
  /\ pc' = "createNamespace"
  /\ runs' = [runs EXCEPT !.backup = @ + 1]
  /\ UNCHANGED <<tempVars, policy, copyVars, appVars, faults, historyVars>>

(* A wrong variant: the loop waits for the namespace to exist. *)
NamespaceThere(state) == state # "absent"

(* What MonitorDeleteNamespace waits for.  It is over with any other error *)
(* of the call as well.                                                    *)
NamespaceGone(state) == state = "absent"

(* A wrong variant: a namespace goes at once. *)
GoneAtOnce(state) == "absent"

Terminating(state) == IF state = "absent" THEN "absent" ELSE "terminating"

(* CreateNamespace(dmNamespace, true): what an earlier run left is deleted. *)
CreateNamespace ==
  /\ pc = "createNamespace"
  /\ IF temp = "absent"
       THEN temp' = "active" /\ To("createSnapshots")
       ELSE temp' = "terminating" /\ To("recreateNamespace")
  /\ UNCHANGED <<vs, ref, pvc, pods, copyVars, appVars>>

(* After a wait that was over with an error the name is refused, which is  *)
(* a panic as any (Interrupted).                                           *)
RecreateNamespace ==
  /\ pc = "recreateNamespace" /\ NamespaceGone(temp)
  /\ temp' = "active" /\ To("createSnapshots")
  /\ UNCHANGED <<vs, ref, pvc, pods, copyVars, appVars>>

CreateVolumeSnapshots ==
  /\ pc = "createSnapshots"
  /\ vs' = "created" /\ To("updateContents")
  /\ UNCHANGED <<temp, ref, pvc, pods, copyVars, appVars>>

(* updateVscSnapRef and the snapshot handle.  The first drops the error of *)
(* the update that it repeats after a conflict.                            *)
UpdateContents ==
  /\ pc = "updateContents"
  /\ \/ ref = "lost" /\ Panic("content is gone")
     \/ /\ ref # "lost"
        /\ \/ ref' = "temp" /\ To("monitorContents")
           \/ ref' = ref /\ ToInSpite("monitorContents", {})
        /\ UNCHANGED <<temp, vs, pvc, pods, copyVars, appVars>>

ReadyToUse == vs = "ready"

(* MonitorUpdateVolumeSnapshotContent follows a pointer that is nil until  *)
(* the snapshot has a status.                                              *)
MonitorContents ==
  /\ pc = "monitorContents"
  /\ \/ vs = "created" /\ Panic("no snapshot status")
     \/ /\ ReadyToUse /\ To("createPvcs")
        /\ UNCHANGED <<tempVars, copyVars, appVars>>

CreatePvcsWithVs ==
  /\ pc = "createPvcs"
  /\ pvc' = IF pvc = "absent" THEN "pending" ELSE pvc
  /\ To("recreatePvcs")
  /\ UNCHANGED <<temp, vs, ref, pods, copyVars, appVars>>

(* CreatePvcsWithPv, with an empty volume name, as no step has read it:    *)
(* that of a PVC which is not bound either, and is left as it is; one that *)
(* is bound is created again, while it exists.                             *)
CreatePvcsWithPv ==
  /\ pc = "recreatePvcs"
  /\ IF pvc = "bound"
       THEN Panic("pvc exists")
       ELSE To("buildStagePod") /\ UNCHANGED <<tempVars, copyVars, appVars>>

BuildStagePod ==
  /\ pc = "buildStagePod"
  /\ pods' = "pending" /\ To("waitStagePod")
  /\ UNCHANGED <<temp, vs, ref, pvc, copyVars, appVars>>

(* A wrong variant: pods that start are taken for running. *)
RunningWhenThere == pods # "absent"

StagePodsRun == pods = "running"

(* The loop of BuildStagePod drops the error of the list: no pods are seen, *)
(* and all of them run.                                                    *)
WaitStagePod ==
  /\ pc = "waitStagePod"
  /\ \/ StagePodsRun /\ To("ensureBackup")
     \/ ToInSpite("ensureBackup", {"blind"})
  /\ UNCHANGED <<tempVars, copyVars, appVars>>

(* EnsureVeleroBackup: an existing one is taken for the one to make. *)
EnsureVeleroBackup ==
  /\ pc = "ensureBackup" /\ pc' = "waitBackup"
  /\ IF copy = "absent"
       THEN copy' = "new" /\ UNCHANGED slips
       ELSE /\ slips' = slips \union (IF "backup" \in done THEN {} ELSE {"adopted"})
            /\ UNCHANGED copy
  /\ UNCHANGED <<tempVars, policy, holds, appVars, runs, faults, panics, done>>

CompletedBackup == copy = "completed"

(* GetCompletedBackup waits for ever on a backup that has failed. *)
GetCompletedBackup ==
  /\ pc = "waitBackup"
  /\ CompletedBackup
  /\ To("deleteNamespace")
  /\ UNCHANGED <<tempVars, copyVars, appVars>>

DeleteNamespace ==
  /\ pc = "deleteNamespace"
  /\ temp' = Terminating(temp) /\ To("monitorDelete")
  /\ UNCHANGED <<vs, ref, pvc, pods, copyVars, appVars>>

(* MonitorDeleteNamespace is over with any error, NotFound or not. *)
MonitorDeleteNamespace ==
  /\ pc = "monitorDelete"
  /\ \/ NamespaceGone(temp) /\ UNCHANGED faults
     \/ faults > 0 /\ faults' = faults - 1
  /\ Exit("backup")
  /\ UNCHANGED <<tempVars, copyVars, appVars>>

BackupManager ==
  \/ CreateNamespace \/ RecreateNamespace \/ CreateVolumeSnapshots
  \/ UpdateContents \/ MonitorContents \/ CreatePvcsWithVs \/ CreatePvcsWithPv
  \/ BuildStagePod \/ WaitStagePod \/ EnsureVeleroBackup \/ GetCompletedBackup
  \/ DeleteNamespace \/ MonitorDeleteNamespace

-----------------------------------------------------------------------------
(* RestoreManager *)

RunRestore ==
  /\ pc = "none" /\ runs.restore < MaxRestores
  /\ pc' = "getBackup"
  /\ runs' = [runs EXCEPT !.restore = @ + 1]
  /\ slips' = slips \ {"rash"}
  /\ UNCHANGED <<tempVars, policy, copyVars, appVars, faults, panics, done>>

(* GetVeleroBackup finds the copy by its label, in whatever phase it is.   *)
GetVeleroBackup ==
  /\ pc = "getBackup"
  /\ IF copy = "absent" THEN Panic("no copy")
                        ELSE To("deleteApp") /\ UNCHANGED <<tempVars, copyVars, appVars>>

DeleteApp ==
  /\ pc = "deleteApp"
  /\ app' = Terminating(app) /\ To("monitorApp")
  /\ UNCHANGED <<tempVars, copyVars, data, inApp, restore>>

(* The same wait: after an error the restore goes on over what is there. *)
MonitorApp ==
  /\ pc = "monitorApp"
  /\ \/ NamespaceGone(app) /\ To("restoreTemp")
     \/ app # "absent" /\ ToInSpite("restoreTemp", {"rash"})
  /\ UNCHANGED <<tempVars, copyVars, appVars>>

(* CreateVeleroRestore, named by the time; of the copy, then of the backup. *)
CreateVeleroRestore(part, next) ==
  /\ restore' = [restore EXCEPT ![runs.restore][part] = "new"]
  /\ To(next)
  /\ UNCHANGED <<tempVars, copyVars, app, data, inApp>>

(* A wrong variant: a restore that has started is taken for a finished one. *)
RestoredEarly(part) == restore[runs.restore][part] \in Restored \union {"running"}

IsNamespaceRestored(part) == restore[runs.restore][part] \in Restored

(* MonitorRestoreNamespace waits for ever on a restore that has failed. *)
RestoreTemp == pc = "restoreTemp" /\ CreateVeleroRestore("temp", "monitorTemp")

MonitorTemp ==
  /\ pc = "monitorTemp"
  /\ IsNamespaceRestored("temp")
  /\ To("deletePods")
  /\ UNCHANGED <<tempVars, copyVars, appVars>>

(* SyncDeleteStagePod drops the error of EnsureStagePodDeleted ...         *)
EnsureStagePodDeleted ==
  /\ pc = "deletePods"
  /\ \/ inApp' = Terminating(inApp) /\ To("pollPods")
     \/ UNCHANGED inApp /\ ToInSpite("pollPods", {})
  /\ UNCHANGED <<tempVars, copyVars, app, data, restore>>

(* ... and goes on as long as the pods are deleted. *)
SyncDeleteStagePod ==
  /\ pc = "pollPods"
  /\ inApp # "absent"
  /\ To("restoreOrig")
  /\ UNCHANGED <<tempVars, copyVars, appVars>>

RestoreOrig == pc = "restoreOrig" /\ CreateVeleroRestore("orig", "monitorOrig")

MonitorOrig ==
  /\ pc = "monitorOrig"
  /\ IsNamespaceRestored("orig")
  /\ Exit("restore")
  /\ UNCHANGED <<tempVars, copyVars, appVars, faults>>

RestoreManager ==
  \/ GetVeleroBackup \/ DeleteApp \/ MonitorApp \/ RestoreTemp \/ MonitorTemp
  \/ EnsureStagePodDeleted \/ SyncDeleteStagePod \/ RestoreOrig \/ MonitorOrig

-----------------------------------------------------------------------------
(* The rest of the world.                                                  *)

Others == UNCHANGED <<policy, pc, runs, faults, historyVars>>

(* With the namespace goes the snapshot in it, and the content that refers *)
(* to that, unless it is to be retained.                                   *)
TempGone ==
  /\ temp = "terminating"
  /\ temp' = "absent" /\ vs' = "absent" /\ pvc' = "absent" /\ pods' = "absent"
  /\ ref' = CASE ref # "temp"       -> ref
              [] policy = "Delete"  -> "lost"
              [] policy = "Retain"  -> "dangling"
  /\ UNCHANGED <<copyVars, appVars>>

(* A snapshot has a status from when it is found bound, or in error, as is *)
(* one whose content refers to another.                                    *)
SnapshotProceeds ==
  /\ temp = "active"
  /\ \/ vs = "created" /\ vs' = "status"
     \/ vs = "status" /\ ref = "temp" /\ vs' = "ready"
  /\ UNCHANGED <<temp, ref, pvc, pods, copyVars, appVars>>

Provision ==
  /\ temp = "active" /\ pvc = "pending" /\ vs = "ready"
  /\ pvc' = "bound"
  /\ UNCHANGED <<temp, vs, ref, pods, copyVars, appVars>>

PodsRun ==
  /\ temp = "active" /\ pods = "pending" /\ pvc = "bound"
  /\ pods' = "running"
  /\ UNCHANGED <<temp, vs, ref, pvc, copyVars, appVars>>

(* Velero copies the volumes of the pods that run in the namespace, and    *)
(* completes a backup of none.                                             *)
VeleroBacksUp ==
  /\ copy = "new"
  /\ \/ copy' = "completed" /\ holds' = (temp = "active" /\ pods = "running")
     \/ copy' = "failed" /\ holds' = FALSE
  /\ UNCHANGED <<tempVars, appVars>>

AppGone ==
  /\ app = "terminating"
  /\ app' = "absent" /\ data' = FALSE /\ inApp' = "absent"
  /\ UNCHANGED <<tempVars, copyVars, restore>>

(* Velero starts the restore of a completed backup, one at a time, and     *)
(* makes the namespace unless there is one.                                *)
VeleroStarts(n, part) ==
  /\ restore[n][part] = "new"
  /\ \A m \in Restores : "running" \notin {restore[m]["temp"], restore[m]["orig"]}
  /\ IF part = "temp" => copy = "completed"
       THEN /\ restore' = [restore EXCEPT ![n][part] = "running"]
            /\ app' = IF app = "absent" THEN "active" ELSE app
            /\ inApp' = IF part = "temp" /\ holds /\ app' = "active"
                          THEN "running" ELSE inApp
       ELSE restore' = [restore EXCEPT ![n][part] = "failed"] /\ UNCHANGED <<app, inApp>>
  /\ UNCHANGED <<tempVars, copyVars, data>>

(* What is restored into a namespace that is going goes with it, whatever  *)
(* the restore says of it.                                                 *)
VeleroEnds(n, part) ==
  /\ restore[n][part] = "running"
  /\ \E end \in Restored \union {"failed"} :
        /\ restore' = [restore EXCEPT ![n][part] = end]
        /\ data' = IF end = "completed" /\ part = "temp" /\ app # "absent"
                     THEN holds ELSE data
  /\ UNCHANGED <<tempVars, copyVars, app, inApp>>

PodsGone ==
  /\ inApp = "terminating"
  /\ inApp' = "absent"
  /\ UNCHANGED <<tempVars, copyVars, app, data, restore>>

EnvironmentStep ==
  \/ TempGone \/ SnapshotProceeds \/ Provision \/ PodsRun \/ VeleroBacksUp
  \/ AppGone \/ PodsGone
  \/ \E n \in Restores, part \in Parts : VeleroStarts(n, part) \/ VeleroEnds(n, part)

(* A call errs, which is a panic nearly everywhere; or the process ends.   *)
Interrupted ==
  /\ pc # "none" /\ faults > 0
  /\ pc' = "none" /\ faults' = faults - 1
  /\ UNCHANGED <<tempVars, policy, copyVars, appVars, runs, historyVars>>

Init ==
  /\ temp = "absent" /\ vs = "absent" /\ ref = "orig" /\ pvc = "absent"
  /\ policy \in {"Delete", "Retain"}
  /\ pods = "absent" /\ copy = "absent" /\ holds = FALSE
  /\ app = "active" /\ data = TRUE /\ inApp = "absent"
  /\ restore = [n \in Restores |-> [part \in Parts |-> "absent"]]
  /\ pc = "none" /\ runs = [backup |-> 0, restore |-> 0]
  /\ faults = MaxFaults
  /\ panics = {} /\ done = {} /\ slips = {}

Next ==
  \/ RunBackup \/ BackupManager \/ RunRestore \/ RestoreManager
  \/ EnvironmentStep /\ Others
  \/ Interrupted

Spec == Init /\ [][Next]_vars

(* A command goes on, and so does the cluster. *)
FairSpec ==
  /\ Spec
  /\ WF_vars(BackupManager) /\ WF_vars(RestoreManager)
  /\ WF_vars(EnvironmentStep /\ Others)
=============================================================================
