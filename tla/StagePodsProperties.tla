------------------------- MODULE StagePodsProperties -------------------------
(***************************************************************************)
(* What the construction of stage pods promises.                           *)
(***************************************************************************)
EXTENDS StagePods

(* Every variable has its type, and pods are created from a list. *)
StageTypeOK ==
  /\ app \subseteq AppPods /\ listed \subseteq AppPods
  /\ status \in [StageNames -> Statuses] /\ cached \in [StageNames -> Statuses]
  /\ built \in [StageNames -> AppPods]
  /\ watch \in Seq([StageNames -> Statuses])
  /\ phase \in {"create", "wait", "copy"} /\ pc \in {"idle", "create"}
  /\ todo \in Seq(listed) /\ (pc = "idle" => todo = <<>>)
  /\ early \in BOOLEAN
  /\ budget \in [{"faults", "changes"} -> Nat]

Staged(s) == status[s] # "absent"

(* When the phase is over, the claims of all pods that the last call has   *)
(* listed are mounted by stage pods, however many calls it took and        *)
(* whatever pods they were merged with or taken for.                       *)
VolumesAreStaged ==
  phase # "create" =>
    \A p \in listed :
       VolumesOf[p] \subseteq UNION {VolumesOf[built[s]] : s \in {t \in StageNames : Staged(t)}}

(* Velero is asked for the copy when every stage pod runs, unless the list *)
(* of pods was behind.                                                     *)
CopiedWhenRunning ==
  phase = "copy" /\ ~early => \A s \in StageNames : status[s] # "pending"

(* However calls fail or the application changes, its pods get staged,     *)
(* unless truncateName altered the name of one: it is built again if it is *)
(* there, and refused, as it is when the name is cut off at a dash.        *)
RefusedForEver(p) == Staged(StageName[p]) \/ StageName[p] \in Invalid

StagingEnds ==
  <>(phase = "copy" \/ \E p \in listed \cap Altered : RefusedForEver(p))
=============================================================================
