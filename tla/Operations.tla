----------------------------- MODULE Operations -----------------------------
(***************************************************************************)
(* pkg/operation: the calls the controllers make on the cluster, one       *)
(* operator per call and per object (the loops over a list of namespaces   *)
(* or of VolumeSnapshotResources are the controller's).                    *)
(*                                                                         *)
(* An operator X(i) is the step in which the call succeeds.  Where the     *)
(* API server can refuse the call for a reason of the cluster's state,     *)
(* CannotX(i) says so and X(i) is not enabled.                             *)
(***************************************************************************)
EXTENDS Cluster

(* namespace_operation.go *)

(* CreateNamespace(ns, false): an existing namespace is left as it is, a   *)
(* terminating one too.                                                    *)
CreateNamespace(n) ==
  /\ temp' = [temp EXCEPT ![n] = IF @ = "absent" THEN "active" ELSE @]
  /\ UNCHANGED <<oldNs, snap, vol, pod, backup, copied>>

Deleted(nsState) == IF nsState = "absent" THEN "absent" ELSE "terminating"

(* A wrong variant: the namespace is looked up and not deleted. *)
AsyncDeleteNamespaceForgotten(n) == UNCHANGED clusterVars

AsyncDeleteNamespace(n) ==
  /\ temp' = [temp EXCEPT ![n] = Deleted(@)]
  /\ UNCHANGED <<oldNs, snap, vol, pod, backup, copied>>

AsyncDeleteOldNamespace(n) ==
  /\ oldNs' = [oldNs EXCEPT ![n] = Deleted(@)]
  /\ UNCHANGED <<temp, snap, vol, pod, backup, copied>>

(* snapshot_operation.go *)

(* CreateVolumeSnapshot does not accept a VolumeSnapshot that is already   *)
(* there (AlreadyExists), and nothing is created in a terminating or       *)
(* absent namespace.                                                       *)
CannotCreateSnapshot(v) == temp[NsOf[v]] # "active" \/ snap[v].vs # "absent"

CreateSnapshot(v) ==
  /\ ~CannotCreateSnapshot(v)
  /\ snap' = [snap EXCEPT ![v].vs = "created"]
  /\ UNCHANGED <<temp, oldNs, vol, pod, backup, copied>>

CannotUpdateContent(v) == snap[v].ref = "lost"

(* updateVscSnapRef: the content's volumeSnapshotRef names the temporary   *)
(* VolumeSnapshot, or (recover) the original one again.                    *)
UpdateContentRef(v, recover) ==
  /\ ~CannotUpdateContent(v)
  /\ snap' = [snap EXCEPT ![v].ref = IF recover THEN "orig" ELSE "temp"]
  /\ UNCHANGED <<temp, oldNs, vol, pod, backup, copied>>

(* A wrong variant: recovering does not hand the content back. *)
UpdateContentKept(v, recover) ==
  /\ ~CannotUpdateContent(v)
  /\ snap' = [snap EXCEPT ![v].ref = "temp", ![v].handle = @ \/ ~recover]
  /\ UNCHANGED <<temp, oldNs, vol, pod, backup, copied>>

(* AsyncUpdateVolumeSnapshotContent: the ref, then, unless recovering, the *)
(* source of the content.                                                  *)
UpdateContent(v, recover) ==
  /\ ~CannotUpdateContent(v)
  /\ snap' = [snap EXCEPT ![v].ref = IF recover THEN "orig" ELSE "temp",
                          ![v].handle = @ \/ ~recover]
  /\ UNCHANGED <<temp, oldNs, vol, pod, backup, copied>>

(* updateVscSnapRef retries itself on a conflict and drops the error of    *)
(* that retry: the ref has not moved, the source is still written, and the *)
(* call reports success.                                                   *)
UpdateContentSwallowed(v, recover) ==
  /\ ~CannotUpdateContent(v)
  /\ snap' = [snap EXCEPT ![v].handle = @ \/ ~recover]
  /\ UNCHANGED <<temp, oldNs, vol, pod, backup, copied>>

IsVolumeSnapshotReady(v) == snap[v].vs = "ready"

(* DeleteVolumeSnapshots does not accept that the object is absent. *)
CannotDeleteSnapshot(v) == snap[v].vs = "absent"

DeleteSnapshot(v) ==
  /\ ~CannotDeleteSnapshot(v)
  /\ snap' = [snap EXCEPT ![v] = WithoutSnapshot(@)]
  /\ UNCHANGED <<temp, oldNs, vol, pod, backup, copied>>

(* pv_operation.go *)

(* A wrong variant: a PVC that is already there is refused. *)
CannotCreatePvcWithVsTwice(v) ==
  \/ vol[v].pvc # "absent"
  \/ temp[NsOf[v]] # "active" \/ snap[v].vs = "absent"

CannotCreatePvcWithVs(v) ==
  /\ vol[v].pvc = "absent"
  /\ temp[NsOf[v]] # "active" \/ snap[v].vs = "absent"

CreatePvcWithVs(v) ==
  /\ ~CannotCreatePvcWithVs(v)
  /\ vol' = [vol EXCEPT ![v].pvc = IF @ = "absent" THEN "restoring" ELSE @]
  /\ UNCHANGED <<temp, oldNs, snap, pod, backup, copied>>

CheckPVCReady(v) == vol[v].pvc \in {"restored", "rebound", "filled"}

(* updatePvClaimPolicy reads the PV's name from the PVC: that of the empty *)
(* PV, not of the restored one, when the PVC is a filled one.              *)
CannotUpdatePvPolicy(v) ==
  \/ vol[v].pvc \in {"absent", "restoring", "blank"}
  \/ vol[v].pvc # "filled" /\ vol[v].pv \in {"none", "gone", "leaked"}

(* Wrong variants: a policy nobody asked for, no update at all, and        *)
(* Retain whatever is asked.                                               *)
UpdatePvPolicyRecycles(v, policy) ==
  /\ ~CannotUpdatePvPolicy(v)
  /\ vol' = [vol EXCEPT ![v].policy = "Recycle"]
  /\ UNCHANGED <<temp, oldNs, snap, pod, backup, copied>>

UpdatePvPolicyForgotten(v, policy) ==
  /\ ~CannotUpdatePvPolicy(v)
  /\ UNCHANGED clusterVars

UpdatePvPolicyRetains(v, policy) ==
  /\ ~CannotUpdatePvPolicy(v)
  /\ vol' = [vol EXCEPT ![v].policy = "Retain"]
  /\ UNCHANGED <<temp, oldNs, snap, pod, backup, copied>>

UpdatePvPolicy(v, policy) ==
  /\ ~CannotUpdatePvPolicy(v)
  /\ vol' = [vol EXCEPT ![v].policy = IF vol[v].pvc = "filled" THEN @ ELSE policy]
  /\ UNCHANGED <<temp, oldNs, snap, pod, backup, copied>>

(* DeletePvc accepts that the PVC is absent. *)
DeletePvc(v) ==
  /\ vol' = [vol EXCEPT ![v].pvc = IF @ = "absent" THEN "absent" ELSE "deleting"]
  /\ UNCHANGED <<temp, oldNs, snap, pod, backup, copied>>

EnsurePvcDeleted(n) == \A v \in VolumesIn(n) : vol[v].pvc = "absent"

(* CreatePvcWithPv: named tells whether the export has recorded the PV's   *)
(* name.  A PVC that has the recorded name, or none when none is recorded, *)
(* is left alone; any other is created again (AlreadyExists).              *)
HasRecordedName(v, named) ==
  vol[v].pvc \in IF named THEN {"restored", "deleting", "recreated", "rebound"}
                          ELSE {"restoring", "blank"}

CannotCreatePvcWithPv(v, named) ==
  IF vol[v].pvc = "absent"
    THEN temp[NsOf[v]] # "active" \/ snap[v].vs = "absent"
    ELSE ~HasRecordedName(v, named)

CreatePvcWithPv(v, named) ==
  /\ ~CannotCreatePvcWithPv(v, named)
  /\ vol' = [vol EXCEPT ![v].pvc =
               IF @ # "absent" THEN @ ELSE IF named THEN "recreated" ELSE "blank"]
  /\ UNCHANGED <<temp, oldNs, snap, pod, backup, copied>>

CannotUpdatePvClaimRef(v, named) ==
  \/ vol[v].pvc = "absent"
  \/ ~named
  \/ vol[v].pv \in {"none", "gone", "leaked"}

(* A wrong variant: the released PV keeps its old claim. *)
UpdatePvClaimRefStale(v, named) ==
  /\ ~CannotUpdatePvClaimRef(v, named)
  /\ UNCHANGED clusterVars

UpdatePvClaimRef(v, named) ==
  /\ ~CannotUpdatePvClaimRef(v, named)
  /\ vol' = [vol EXCEPT ![v].pv = IF @ = "released" THEN "claimed" ELSE @]
  /\ UNCHANGED <<temp, oldNs, snap, pod, backup, copied>>

(* ClearPVs deletes the PVs claimed from the temporary namespaces: at once *)
(* where no PVC is bound, when the PVC goes otherwise.                     *)
ClearPV(v) ==
  /\ vol' = [vol EXCEPT ![v].pv = CASE @ = "bound" -> "doomed"
                                    [] @ \in {"released", "claimed"} -> "leaked"
                                    [] OTHER -> @]
  /\ UNCHANGED <<temp, oldNs, snap, pod, backup, copied>>

(* pod_operation.go *)

(* BuildStagePods makes pods for the application pods that mount a PVC and *)
(* have no stage pod yet.                                                  *)
StagePodWanted(n) == VolumesIn(n) \cap Mounted # {} /\ pod[n] = "absent"

CannotBuildStagePod(n) == StagePodWanted(n) /\ temp[n] # "active"

BuildStagePod(n) ==
  /\ ~CannotBuildStagePod(n)
  /\ pod' = [pod EXCEPT ![n] = IF StagePodWanted(n) THEN "pending" ELSE @]
  /\ UNCHANGED <<temp, oldNs, snap, vol, backup, copied>>

(* A wrong variant: a pod that is there is taken for a running one. *)
GetStagePodStatusEager(n) == pod[n] # "terminating"

(* GetStagePodStatus: no pod at all counts as running. *)
GetStagePodStatus(n) == pod[n] \in {"absent", "running"}

EnsureStagePodDeleted(n) ==
  /\ pod' = [pod EXCEPT ![n] = IF @ = "absent" THEN "absent" ELSE "terminating"]
  /\ UNCHANGED <<temp, oldNs, snap, vol, backup, copied>>

EnsureStagePodCleaned(n) == pod[n] = "absent"

(* velero_operation.go *)

(* EnsureVeleroBackup accepts the backup of that name that is there. *)
EnsureVeleroBackup ==
  /\ backup' = IF backup = "absent" THEN "new" ELSE backup
  /\ UNCHANGED <<temp, oldNs, snap, vol, pod, copied>>
=============================================================================
