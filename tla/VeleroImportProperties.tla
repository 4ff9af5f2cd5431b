----------------------- MODULE VeleroImportProperties -----------------------
(***************************************************************************)
(* What the import controller promises.                                    *)
(***************************************************************************)
EXTENDS VeleroImport

(* Every variable has its type. *)
ExternalTypeOK ==
  /\ restore \in [Restores -> [phase : RestorePhases, into : SUBSET TargetNamespaces]]
  /\ pods \in [TargetNamespaces -> {"absent", "present", "terminating"}]
  /\ data \in SUBSET TargetNamespaces /\ origin \in SUBSET TargetNamespaces
  /\ valid \in BOOLEAN /\ copy \in {"absent", "running", "completed"}

ControlTypeOK ==
  /\ cr \in [Imports -> Resources] /\ cached \in [Imports -> Resources]
  /\ watch \in [Imports -> Seq(Resources)]
  /\ pc \in {"idle", "start", "phase", "loop"} \union Parts
  /\ cur \in Imports \union {NoImport} /\ mem \in Resources
  /\ fresh \in BOOLEAN /\ todo \in SUBSET TargetNamespaces
  /\ steps \in {<<>>, VeleroImportSteps, VeleroImportSnapshotSteps}
  /\ budget \in [Disturbances -> Nat]
  /\ failing \in SUBSET Imports /\ blind \in SUBSET TargetNamespaces
  /\ panics \in SUBSET {"no copy", "no next phase"}

ImportTypeOK == ExternalTypeOK /\ ControlTypeOK

(* The place of a phase in the step list of an import. *)
Place(i, phase) == IndexOf(phase, StepsOf(i))

(* A resource moves forward through its own step list, by one phase a      *)
(* write, two after the ignored update of RestoringTempNamespace, whatever *)
(* copy the worker acts on and whichever import was reconciled before.     *)
ImportNeverRegresses ==
  [][\A i \in Imports : cr'[i].phase # cr[i].phase =>
       /\ cr'[i].phase \in {StepsOf(i)[k] : k \in DOMAIN StepsOf(i)}
       /\ \/ Place(i, cr'[i].phase) = Place(i, cr[i].phase) + 1
          \/ /\ cr[i].phase = "RestoringTempNamespace"
             /\ Place(i, cr'[i].phase) = Place(i, cr[i].phase) + 2]_vars

(* What a user sees of an import. *)
StageOf(c) ==
  CASE c.state = StateCanceled -> "canceled"
    [] c.state = StateVeleroFailed -> "failed"
    [] c.state \notin {StateCanceled, StateVeleroFailed} ->
         CASE c.phase = PhaseInitial -> "queued"
           [] c.phase = PhaseCompleted -> "completed"
           [] OTHER -> "running"

View ==
  INSTANCE Lifecycle WITH Jobs <- Imports,
                          stage <- [i \in Imports |-> StageOf(cr[i])]

(* An import starts once and ends once, for good: a stale reconcile cannot *)
(* restart it, though a resource in its first phase has its status reset.  *)
ImportImplementsLifecycle == View!Spec

(* A completed import has its data in every target namespace and, unless   *)
(* SnapshotOnly, the original objects.  ("StateCompleted | Data import is  *)
(* completed", README.md:123.)                                             *)
CompletedRestored ==
  \A i \in Imports : cr[i].state = StateCompleted =>
     /\ Targets[i] \subseteq data
     /\ ~SnapshotOnly[i] => Targets[i] \subseteq origin

(* An import that asks for snapshots only restores nothing else, whichever *)
(* step list the reconcile before it used.                                 *)
SnapshotOnlyStops ==
  \A i \in Imports : SnapshotOnly[i] =>
     restore[<<Key[i], "orig">>].phase = "absent"

(* The original namespaces are restored only once the stage pods that hold *)
(* their volumes are gone, unless the pods could not be listed.            *)
OriginAfterStagePods ==
  [][\A i \in Imports :
       LET r == restore[<<Key[i], "orig">>]
       IN  r.phase = "absent" /\ restore'[<<Key[i], "orig">>].phase = "new" =>
             \A n \in Targets[i] \ blind : pods[n] = "absent"]_vars

(* The timeout cancels only an import that is failing, or one that waits   *)
(* for a restore: a wait makes no status update, so that the failure       *)
(* before it still counts.  ("Failed veleroImport got timeout",            *)
(* veleroimport_controller.go:201.)                                        *)
CanceledIsFailing ==
  [][\A i \in Imports :
       cr[i].state # StateCanceled /\ cr'[i].state = StateCanceled =>
         \/ i \in failing
         \/ cr[i].phase \in {"RestoringTempNamespace", "RestoringOriginNamespace"}]_vars

(* Every import ends, whatever fails and whatever expires, unless Velero   *)
(* fails to restore its original namespaces, which is waited for all the   *)
(* same, or there is no copy, which stops the controller each time.        *)
ImportEnds ==
  \A i \in Imports :
     <>(\/ Terminal(cr[i])
        \/ restore[<<Key[i], "orig">>].phase = "failed"
        \/ "no copy" \in panics)
=============================================================================
