------------------------------- MODULE Cluster -------------------------------
(***************************************************************************)
(* The Kubernetes objects an export works on, and the controllers outside  *)
(* this repository that act on them: the namespace, volume-snapshot and    *)
(* persistent-volume controllers, the kubelet and Velero.  They are        *)
(* modelled from how pkg/operation and the export controller use them.     *)
(*                                                                         *)
(* Every volume v stands for one VolumeSnapshot of the Velero backup in    *)
(* the application namespace NsOf[v], with its VolumeSnapshotContent, and  *)
(* for the PVC and PV the export restores from it in "dm-" + NsOf[v].      *)
(***************************************************************************)
EXTENDS Naturals, FiniteSets

CONSTANTS
  Namespaces,  \* Spec.IncludedNamespaces
  Volumes,     \* volume snapshots taken by the Velero backup
  NsOf,        \* the application namespace of a volume
  Mounted,     \* volumes some pod of the application namespace mounts
  Leftover,    \* namespaces n whose "dm-" + n exists before the export starts
  Suffixed     \* namespaces n whose "dm-" + n + <backup suffix> exists

ASSUME ClusterAssumption ==
  /\ NsOf \in [Volumes -> Namespaces]
  /\ Mounted \subseteq Volumes
  /\ Leftover \subseteq Namespaces
  /\ Suffixed \subseteq Namespaces

VARIABLES
  temp,    \* temp[n]: the temporary namespace "dm-" + n
  oldNs,   \* oldNs[n]: the namespace "dm-" + n + <backup suffix>
  snap,    \* snap[v]: temporary VolumeSnapshot and VolumeSnapshotContent of v
  vol,     \* vol[v]: PVC of v in the temporary namespace, and the restored PV
  pod,     \* pod[n]: the stage pods of the temporary namespace of n
  backup,  \* the Velero backup "ve-" + <backup name>
  copied   \* volumes whose data that backup holds

clusterVars == <<temp, oldNs, snap, vol, pod, backup, copied>>

NsStates  == {"absent", "active", "terminating"}
PodStates == {"absent", "pending", "running", "terminating"}

(* vs: the VolumeSnapshot in the temporary namespace.  ref: the object the *)
(* content's volumeSnapshotRef names, the original VolumeSnapshot or the   *)
(* temporary one; "lost" once the content itself has been deleted.         *)
(* handle: the content has been given a source.snapshotHandle.             *)
Snapshots == [vs : {"absent", "created", "ready"},
              ref : {"orig", "temp", "lost"},
              handle : BOOLEAN]

(* pvc: "restoring" from the snapshot, "restored" (bound), "deleting",     *)
(* "recreated" (naming the restored PV, not bound yet), "rebound", "blank" *)
(* (created with no volume name), "filled" (a new, empty PV bound to it).  *)
(* pv, policy: those of the restored PV; an empty one is not followed.     *)
(* pv: "released" after its PVC went, "claimed" by the recreated PVC,      *)
(* "doomed" (deleted while bound), "gone" with its data, "leaked" (the     *)
(* object went and the backend volume stays).                              *)
VolumeClaims ==
  [pvc : {"absent", "restoring", "restored", "deleting", "recreated",
          "rebound", "blank", "filled"},
   pv : {"none", "bound", "released", "claimed", "doomed", "gone", "leaked"},
   policy : {"Delete", "Retain"}]

ClusterTypeOK ==
  /\ temp \in [Namespaces -> NsStates]
  /\ oldNs \in [Namespaces -> NsStates]
  /\ snap \in [Volumes -> Snapshots]
  /\ vol \in [Volumes -> VolumeClaims]
  /\ pod \in [Namespaces -> PodStates]
  /\ backup \in {"absent", "new", "completed", "failed"}
  /\ copied \in SUBSET Volumes

ClusterInit ==
  /\ temp = [n \in Namespaces |-> IF n \in Leftover THEN "active" ELSE "absent"]
  /\ oldNs = [n \in Namespaces |-> IF n \in Suffixed THEN "active" ELSE "absent"]
  /\ snap = [v \in Volumes |-> [vs |-> "absent", ref |-> "orig", handle |-> FALSE]]
  /\ vol = [v \in Volumes |-> [pvc |-> "absent", pv |-> "none", policy |-> "Delete"]]
  /\ pod = [n \in Namespaces |-> "absent"]
  /\ backup = "absent"
  /\ copied = {}

-----------------------------------------------------------------------------
VolumesIn(n) == {v \in Volumes : NsOf[v] = n}

(* A VolumeSnapshot goes: its content goes with it when bound to it        *)
(* (deletionPolicy Delete).                                                *)
WithoutSnapshot(s) ==
  [s EXCEPT !.vs = "absent",
            !.ref = IF s.vs # "absent" /\ s.ref = "temp" THEN "lost" ELSE s.ref]

(* A PVC goes: its PV is reclaimed by its policy. *)
WithoutClaim(w) ==
  [w EXCEPT !.pvc = "absent",
            !.pv = CASE w.pv \in {"bound", "claimed"} ->
                          IF w.policy = "Delete" THEN "gone" ELSE "released"
                     [] w.pv = "doomed" ->
                          IF w.policy = "Delete" THEN "gone" ELSE "leaked"
                     [] OTHER -> w.pv]

(* The snapshot controller binds a VolumeSnapshot to a content that names  *)
(* it and has a snapshot handle, and reports readyToUse.                   *)
SnapshotReady(v) ==
  /\ snap[v].vs = "created" /\ snap[v].ref = "temp" /\ snap[v].handle
  /\ snap' = [snap EXCEPT ![v].vs = "ready"]
  /\ UNCHANGED <<temp, oldNs, vol, pod, backup, copied>>

(* The provisioner restores the snapshot into a PV and binds the PVC. *)
Provision(v) ==
  /\ vol[v].pvc = "restoring" /\ snap[v].vs = "ready" /\ snap[v].ref = "temp"
  /\ vol' = [vol EXCEPT ![v] = [pvc |-> "restored", pv |-> "bound",
                                policy |-> "Delete"]]
  /\ UNCHANGED <<temp, oldNs, snap, pod, backup, copied>>

(* The PV controller binds a recreated PVC to the PV that claims it. *)
Bind(v) ==
  /\ vol[v].pvc = "recreated" /\ vol[v].pv = "claimed"
  /\ vol' = [vol EXCEPT ![v].pvc = "rebound", ![v].pv = "bound"]
  /\ UNCHANGED <<temp, oldNs, snap, pod, backup, copied>>

(* The provisioner makes an empty PV for a PVC that names none. *)
Fill(v) ==
  /\ vol[v].pvc = "blank"
  /\ vol' = [vol EXCEPT ![v].pvc = "filled"]
  /\ UNCHANGED <<temp, oldNs, snap, pod, backup, copied>>

(* A deleted PVC stays while a stage pod uses it (pvc-protection). *)
PvcGone(v) ==
  /\ vol[v].pvc = "deleting"
  /\ v \in Mounted => pod[NsOf[v]] = "absent"
  /\ vol' = [vol EXCEPT ![v] = WithoutClaim(@)]
  /\ UNCHANGED <<temp, oldNs, snap, pod, backup, copied>>

(* The kubelet starts the stage pods once the PVCs they mount are bound. *)
PodRuns(n) ==
  /\ pod[n] = "pending"
  /\ \A v \in VolumesIn(n) \cap Mounted :
        vol[v].pvc \in {"restored", "rebound", "filled"}
  /\ pod' = [pod EXCEPT ![n] = "running"]
  /\ UNCHANGED <<temp, oldNs, snap, vol, backup, copied>>

PodGone(n) ==
  /\ pod[n] = "terminating"
  /\ pod' = [pod EXCEPT ![n] = "absent"]
  /\ UNCHANGED <<temp, oldNs, snap, vol, backup, copied>>

(* The namespace controller empties a terminating namespace and removes it. *)
NsGone(n) ==
  /\ temp[n] = "terminating"
  /\ temp' = [temp EXCEPT ![n] = "absent"]
  /\ snap' = [v \in Volumes |->
                IF NsOf[v] = n THEN WithoutSnapshot(snap[v]) ELSE snap[v]]
  /\ vol' = [v \in Volumes |->
                IF NsOf[v] = n THEN WithoutClaim(vol[v]) ELSE vol[v]]
  /\ pod' = [pod EXCEPT ![n] = "absent"]
  /\ UNCHANGED <<oldNs, backup, copied>>

OldNsGone(n) ==
  /\ oldNs[n] = "terminating"
  /\ oldNs' = [oldNs EXCEPT ![n] = "absent"]
  /\ UNCHANGED <<temp, snap, vol, pod, backup, copied>>

(* Velero copies, file by file, the volumes that running pods mount. *)
VeleroFinishes ==
  /\ backup = "new"
  /\ \/ /\ backup' = "completed"
        /\ copied' = {v \in Mounted : pod[NsOf[v]] = "running"
                                      /\ vol[v].pvc = "rebound"}
     \/ /\ backup' = "failed"
        /\ UNCHANGED copied
  /\ UNCHANGED <<temp, oldNs, snap, vol, pod>>

Environment ==
  \/ \E v \in Volumes :
        SnapshotReady(v) \/ Provision(v) \/ Bind(v) \/ Fill(v) \/ PvcGone(v)
  \/ \E n \in Namespaces : PodRuns(n) \/ PodGone(n) \/ NsGone(n) \/ OldNsGone(n)
  \/ VeleroFinishes
=============================================================================
