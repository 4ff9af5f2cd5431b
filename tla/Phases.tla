------------------------------- MODULE Phases -------------------------------
(***************************************************************************)
(* Phases, states and step lists of the custom resources                   *)
(* (api/v1alpha1/status.go) and the step lists of the two controllers.     *)
(* A step list is a sequence of phase names: the only field of dmapi.Step  *)
(* the controllers read.  The code's empty strings, the phase and the      *)
(* state of a resource no handler has touched, are written out here.       *)
(***************************************************************************)
EXTENDS Naturals, Sequences

PhaseCreated   == "Created"
PhaseCompleted == "Completed"

StateNone         == "None"
StateInProgress   == "InProgress"
StateFailed       == "Failed"
StateCompleted    == "Completed"
StateVeleroFailed == "VeleroFailed"
StateCanceled     == "Canceled"

VeleroExportSteps ==
  << PhaseCreated, "Precheck", "Prepare", "WaitPrepareComplete",
     "CreateTempNamespace", "CreateVolumeSnapshot", "UpdateSnapshotContent",
     "CheckSnapshotReady", "CreatePvc", "CreatePvcPod", "WaitPvcPodRunning",
     "CheckPvcReady", "CleanPvcPod", "EnsurePvcPodCleaned",
     "UpdatePvClaimRetain", "DeletePvc", "EnsurePvcDeleted", "RecreatePvc",
     "UpdatePvClaimRef", "EnsureRecreatePvcReady", "UpdatePvClaimDelete",
     "UpdateSnapshotContentBack", "DeleteVolumeSnapshot", "CreateStagePod",
     "WaitStagePodRunning", "StartFileSystemCopy",
     "WaitFileSystemCopyComplete", "CleanUp", PhaseCompleted >>

PhaseInitial == "Initial"

VeleroImportSteps ==
  << PhaseInitial, "RestoreTempNamespace", "RestoringTempNamespace",
     "DeleteStagePod", "DeletingStagePod", "RestoreOriginNamespace",
     "RestoringOriginNamespace", PhaseCompleted >>

VeleroImportSnapshotSteps ==
  << PhaseInitial, "RestoreTempNamespace", "RestoringTempNamespace",
     "DeleteStagePod", "DeletingStagePod", PhaseCompleted >>

(* The place of a phase in a step list: its first occurrence. *)
IndexOf(phase, allSteps) ==
  CHOOSE i \in DOMAIN allSteps :
     /\ allSteps[i] = phase
     /\ \A j \in DOMAIN allSteps : allSteps[j] = phase => i <= j

(* A phase that is not in the list goes straight to Completed. The last    *)
(* phase has no successor: the code would index out of range, and so does  *)
(* this operator.                                                          *)
GetNextPhase(phase, allSteps) ==
  IF \E i \in DOMAIN allSteps : allSteps[i] = phase
    THEN allSteps[IndexOf(phase, allSteps) + 1]
    ELSE PhaseCompleted

GetLastPhase(allSteps) == allSteps[Len(allSteps)]

-----------------------------------------------------------------------------
ExportPhases == {VeleroExportSteps[i] : i \in DOMAIN VeleroExportSteps}

ImportPhases == {VeleroImportSteps[i] : i \in DOMAIN VeleroImportSteps}

(* The place of a phase in the export pipeline, for the properties. *)
Rank(phase) == IndexOf(phase, VeleroExportSteps)

(* The phases of the pipeline from one phase to another, both included. *)
From(first, last) ==
  {p \in ExportPhases : Rank(first) <= Rank(p) /\ Rank(p) <= Rank(last)}
=============================================================================
