------------------------ MODULE CommandLineProperties ------------------------
(***************************************************************************)
(* What the commands promise.                                              *)
(***************************************************************************)
EXTENDS CommandLine

(* Every variable has its type; nothing outlives the temporary namespace,  *)
(* nor the stage pods the application's.                                   *)
CommandTypeOK ==
  /\ temp \in NsStates /\ app \in NsStates
  /\ vs \in {"absent", "created", "status", "ready"}
  /\ ref \in {"orig", "temp", "lost", "dangling"} /\ policy \in {"Delete", "Retain"}
  /\ pvc \in {"absent", "pending", "bound"}
  /\ pods \in PodStates /\ inApp \in PodStates
  /\ copy \in {"absent", "new", "completed", "failed"}
  /\ {holds, data} \subseteq BOOLEAN /\ slips \subseteq Slips
  /\ restore \in
       [Restores -> [Parts -> {"absent", "new", "running", "failed"} \union Restored]]
  /\ runs \in [{"backup", "restore"} -> Nat] /\ faults \in Nat
  /\ (temp = "absent" => {vs, pvc, pods} = {"absent"})
  /\ (app = "absent" => inApp = "absent" /\ ~data)

(* A backup that has ended as it should leaves a copy with the data, also  *)
(* after runs that were cut short, unless the pods could not be listed     *)
(* (BuildStagePod).  It may have taken the copy of such a run for its own, *)
(* empty as that may be (EnsureVeleroBackup), only if the snapshot content *)
(* outlived the temporary namespace.                                       *)
BackupHoldsData ==
  "backup" \in done /\ "blind" \notin slips =>
    /\ copy = "completed"
    /\ holds \/ ("adopted" \in slips /\ policy = "Retain")

(* The original objects are restored only once the data has been, or what  *)
(* could be of it, unless the wait for the application's namespace to go   *)
(* was over with an error (MonitorDeleteNamespace).                        *)
DataFirst ==
  [][\A n \in Restores :
       restore[n].orig = "absent" /\ restore'[n].orig = "new"
         => \/ restore[n].temp = "partial"
            \/ restore[n].temp = "completed" /\ (data = holds \/ "rash" \in slips)]_vars

(* A backup ends, one way or the other, unless Velero's has failed, or the *)
(* content could not be borrowed and the error was dropped.                *)
BackupEnds ==
  pc = "createNamespace" ~>
     pc = "none" \/ copy = "failed" \/ (pc = "monitorContents" /\ ref # "temp")
=============================================================================
