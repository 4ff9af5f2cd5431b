-------------------------- MODULE CommandLineProofs ---------------------------
(***************************************************************************)
(* Proofs about the commands: what a backup leaves behind, although runs   *)
(* before it may have been cut short anywhere, and what a restore waits    *)
(* for.                                                                    *)
(***************************************************************************)
EXTENDS CommandLineProperties, TLAPS

(* Before and after the contents of the backup's snapshots are borrowed.   *)
Building == {"createSnapshots", "updateContents"}
Borrowing == {"monitorContents", "createPvcs", "recreatePvcs", "buildStagePod",
              "waitStagePod", "ensureBackup"}

(* While a backup has the temporary namespace, nothing else touches it,    *)
(* and a snapshot there is ready only with the content borrowed.  Content  *)
(* that goes with the namespace is borrowed once: a later run has none, so *)
(* no run finds the copy that an earlier one has asked for.                *)
Borrowed ==
  /\ pc \in Building \union Borrowing \union {"waitBackup", "deleteNamespace"} =>
       temp = "active"
  /\ temp = "absent" \/ pc \in Building => ref # "temp"
  /\ vs = "ready" \/ pc \in Borrowing \ {"monitorContents"} => ref = "temp"
  /\ copy # "absent" => ref # "orig"
  /\ policy = "Delete" =>
       /\ ref # "dangling" /\ "adopted" \notin slips
       /\ pc \in Borrowing => copy = "absent"

(* Velero copies pods that run, for the run that waits for it at least.    *)
Sound == holds \/ "adopted" \in slips

Copied ==
  /\ pc \in {"ensureBackup", "waitBackup"} => "blind" \in slips \/ pods = "running"
  /\ pc = "waitBackup" /\ copy = "completed" => "blind" \in slips \/ Sound
  /\ pc \in {"deleteNamespace", "monitorDelete"} \/ "backup" \in done =>
       "blind" \in slips \/ (copy = "completed" /\ Sound)

(* A restore waits for the application's namespace to be gone before it    *)
(* asks for anything, and deletes it no more: unless that wait was cut     *)
(* short, the namespace its data is in stays.                              *)
Asking == {"getBackup", "deleteApp", "monitorApp"}
Waiting == {"deletePods", "pollPods", "restoreOrig", "monitorOrig"}
RestoreSteps == Asking \union {"restoreTemp", "monitorTemp"} \union Waiting
Started == Restored \union {"running"}

(* restores that have not been asked for *)
Unasked ==
  \A n \in Restores :
     runs.restore < n \/ (n = runs.restore /\ pc \in Asking) =>
        \A part \in Parts : restore[n][part] = "absent"

(* what restore n has come to, while it is the last *)
Kept(n) ==
  /\ pc \in Waiting => restore[n]["temp"] \in Restored
  /\ restore[n]["temp"] \in Started => copy = "completed"
  /\ restore[n]["temp"] # "absent" \/ pc = "restoreTemp" =>
        app # "terminating" \/ "rash" \in slips
  /\ restore[n]["temp"] \in Started => app = "active" \/ "rash" \in slips
  /\ restore[n]["temp"] = "completed" => data = holds \/ "rash" \in slips

Replaced ==
  /\ runs.restore \in 0 .. MaxRestores /\ (pc \in RestoreSteps => runs.restore \in Restores)
  /\ Unasked
  /\ \A n \in Restores : n = runs.restore => Kept(n)

Inv == CommandTypeOK /\ Borrowed /\ Copied /\ Replaced

-----------------------------------------------------------------------------
(* Each command has its part of the world.                                 *)

RestoreSide ==
  \/ RunRestore \/ RestoreManager
  \/ Others /\ \/ AppGone \/ PodsGone
                \/ \E n \in Restores, part \in Parts :
                      VeleroStarts(n, part) \/ VeleroEnds(n, part)

BackupSide ==
  \/ RunBackup \/ BackupManager
  \/ Others /\ (TempGone \/ SnapshotProceeds \/ Provision \/ PodsRun)

LEMMA SidesAre ==
  ASSUME [Next]_vars
  PROVE  \/ RestoreSide \/ BackupSide \/ (VeleroBacksUp /\ Others)
         \/ Interrupted \/ UNCHANGED vars
BY DEF Next, EnvironmentStep, RestoreSide, BackupSide

LEMMA RestoreLeaves ==
  ASSUME RestoreSide \/ Interrupted \/ UNCHANGED vars
  PROVE  /\ UNCHANGED <<tempVars, policy, copyVars>>
         /\ \A slip \in {"blind", "adopted"} : slip \in slips' <=> slip \in slips
         /\ pc' = pc \/ pc' \in RestoreSteps \union {"none"}
         /\ "backup" \in done' => "backup" \in done
<1>1. CASE Interrupted \/ UNCHANGED vars
  BY <1>1 DEF Interrupted, vars, historyVars
<1>2. CASE RunRestore \/ RestoreManager
  BY <1>2
  DEF RunRestore, RestoreManager, GetVeleroBackup, DeleteApp, MonitorApp, RestoreTemp,
      MonitorTemp, EnsureStagePodDeleted, SyncDeleteStagePod, RestoreOrig, MonitorOrig,
      CreateVeleroRestore, To, ToInSpite, Panic, Exit, RestoreSteps, Asking, Waiting,
      historyVars
<1>3. CASE Others /\ \/ AppGone \/ PodsGone
                     \/ \E n \in Restores, part \in Parts :
                           VeleroStarts(n, part) \/ VeleroEnds(n, part)
  BY <1>3 DEF Others, AppGone, PodsGone, VeleroStarts, VeleroEnds, historyVars
<1> QED BY <1>1, <1>2, <1>3 DEF RestoreSide

LEMMA BackupLeaves ==
  ASSUME BackupSide \/ Interrupted \/ UNCHANGED vars, CommandTypeOK
  PROVE  /\ UNCHANGED <<appVars, holds>> /\ runs'.restore = runs.restore
         /\ pc' = pc \/ pc' \notin RestoreSteps
         /\ "rash" \in slips' <=> "rash" \in slips
         /\ copy = "completed" => copy' = "completed"
<1>1. CASE Interrupted \/ UNCHANGED vars
  BY <1>1 DEF Interrupted, vars, copyVars, historyVars, RestoreSteps, Asking, Waiting
<1>2. CASE RunBackup
  BY <1>2
  DEF RunBackup, copyVars, historyVars, RestoreSteps, Asking, Waiting, CommandTypeOK
<1>3. CASE CreateNamespace \/ RecreateNamespace \/ CreateVolumeSnapshots \/ UpdateContents
  BY <1>3
  DEF CreateNamespace, RecreateNamespace, CreateVolumeSnapshots, UpdateContents, To,
      ToInSpite, Panic, RestoreSteps, Asking, Waiting, copyVars, historyVars
<1>5. CASE MonitorContents \/ CreatePvcsWithVs \/ CreatePvcsWithPv \/ BuildStagePod
  BY <1>5
  DEF MonitorContents, CreatePvcsWithVs, CreatePvcsWithPv, BuildStagePod, To, Panic,
      RestoreSteps, Asking, Waiting, copyVars, historyVars
<1>6. CASE WaitStagePod \/ EnsureVeleroBackup \/ GetCompletedBackup
  BY <1>6
  DEF WaitStagePod, EnsureVeleroBackup, GetCompletedBackup, To, ToInSpite, RestoreSteps,
      Asking, Waiting, copyVars, historyVars
<1>7. CASE DeleteNamespace \/ MonitorDeleteNamespace
  BY <1>7
  DEF DeleteNamespace, MonitorDeleteNamespace, To, Exit, RestoreSteps, Asking, Waiting,
      copyVars, historyVars
<1>4. CASE Others /\ (TempGone \/ SnapshotProceeds \/ Provision \/ PodsRun)
  BY <1>4
  DEF Others, TempGone, SnapshotProceeds, Provision, PodsRun, copyVars, historyVars
<1> QED BY <1>1, <1>2, <1>3, <1>4, <1>5, <1>6, <1>7 DEF BackupSide, BackupManager

LEMMA TypeKept ==
  ASSUME Inv, [Next]_vars
  PROVE  CommandTypeOK'
<1>1. CASE UNCHANGED vars
  BY <1>1 DEF vars, tempVars, copyVars, appVars, historyVars, Inv,
     CommandTypeOK, NsStates, PodStates, Restored
<1>2. CASE RunBackup
  BY <1>2 DEF RunBackup, tempVars, copyVars, appVars, historyVars, Inv,
     CommandTypeOK, NsStates, PodStates, Restored
<1>3. CASE CreateNamespace
  <2>1. /\ UNCHANGED <<vs, ref, pvc, pods, policy, copyVars, appVars, runs, faults, slips>>
        /\ temp' \in {"active", "terminating"}
    BY <1>3 DEF CreateNamespace, To, historyVars
  <2> QED
    BY <2>1
    DEF copyVars, appVars, Inv, CommandTypeOK, NsStates, PodStates, Restored
<1>4. CASE RecreateNamespace
  BY <1>4 DEF RecreateNamespace, To, NamespaceGone, copyVars, appVars,
     historyVars, Inv, CommandTypeOK, NsStates, PodStates, Restored
<1>5. CASE CreateVolumeSnapshots
  BY <1>5 DEF CreateVolumeSnapshots, To, copyVars, appVars, historyVars,
     Borrowed, Building, Borrowing, Inv, CommandTypeOK, NsStates, PodStates,
     Restored
<1>6. CASE UpdateContents
  <2>1. /\ UNCHANGED <<temp, vs, pvc, pods, policy, copyVars, appVars, runs>>
        /\ ref' \in {ref, "temp"} /\ faults' \in Nat /\ slips' = slips
    BY <1>6 DEF UpdateContents, To, ToInSpite, Panic, tempVars, historyVars, Inv,
       CommandTypeOK
  <2> QED
    BY <2>1
    DEF copyVars, appVars, Inv, CommandTypeOK, NsStates, PodStates, Restored
<1>7. CASE MonitorContents
  <2>1. UNCHANGED <<tempVars, policy, copyVars, appVars, runs, faults, slips>>
    BY <1>7 DEF MonitorContents, To, Panic, historyVars
  <2> QED
    BY <2>1
    DEF tempVars, copyVars, appVars, Inv, CommandTypeOK, NsStates, PodStates, Restored
<1>8. CASE CreatePvcsWithVs
  BY <1>8 DEF CreatePvcsWithVs, To, copyVars, appVars, historyVars, Borrowed,
     Building, Borrowing, Inv, CommandTypeOK, NsStates, PodStates, Restored
<1>9. CASE CreatePvcsWithPv
  <2>1. UNCHANGED <<tempVars, policy, copyVars, appVars, runs, faults, slips>>
    BY <1>9 DEF CreatePvcsWithPv, To, Panic, historyVars
  <2> QED
    BY <2>1
    DEF tempVars, copyVars, appVars, Inv, CommandTypeOK, NsStates, PodStates, Restored
<1>10. CASE BuildStagePod
  BY <1>10 DEF BuildStagePod, To, copyVars, appVars, historyVars, Borrowed,
     Building, Borrowing, Inv, CommandTypeOK, NsStates, PodStates, Restored
<1>11. CASE WaitStagePod
  <2>1. /\ UNCHANGED <<tempVars, policy, copyVars, appVars, runs>> /\ faults' \in Nat
        /\ slips' = slips \/ slips' = slips \union {"blind"}
    BY <1>11 DEF WaitStagePod, To, ToInSpite, historyVars, Inv, CommandTypeOK
  <2>2. slips' \subseteq Slips
    BY <2>1, Zenon DEF Slips, Inv, CommandTypeOK
  <2> QED
    BY <2>1, <2>2
    DEF tempVars, copyVars, appVars, Inv, CommandTypeOK, NsStates, PodStates, Restored
<1>12. CASE EnsureVeleroBackup
  <2>1. /\ UNCHANGED <<tempVars, policy, holds, appVars, runs, faults>>
        /\ copy' \in {copy, "new"}
    BY <1>12 DEF EnsureVeleroBackup
  <2>2. slips' \subseteq Slips
    BY <1>12, Zenon DEF EnsureVeleroBackup, Slips, Inv, CommandTypeOK
  <2> QED
    BY <2>1, <2>2
    DEF tempVars, appVars, Inv, CommandTypeOK, NsStates, PodStates, Restored
<1>13. CASE GetCompletedBackup
  BY <1>13 DEF GetCompletedBackup, To, CompletedBackup, tempVars, copyVars,
     appVars, historyVars, Inv, CommandTypeOK, NsStates, PodStates, Restored
<1>14. CASE DeleteNamespace
  BY <1>14 DEF DeleteNamespace, To, Terminating, copyVars, appVars,
     historyVars, Inv, CommandTypeOK, NsStates, PodStates, Restored
<1>15. CASE MonitorDeleteNamespace
  BY <1>15 DEF MonitorDeleteNamespace, Exit, NamespaceGone, tempVars,
     copyVars, appVars, Inv, CommandTypeOK, NsStates, PodStates, Restored
<1>16. CASE RunRestore
  BY <1>16 DEF RunRestore, tempVars, copyVars, appVars, historyVars, Inv,
     CommandTypeOK, NsStates, PodStates, Restored
<1>17. CASE GetVeleroBackup
  <2>1. UNCHANGED <<tempVars, policy, copyVars, appVars, runs, faults, slips>>
    BY <1>17 DEF GetVeleroBackup, To, Panic, historyVars
  <2> QED
    BY <2>1
    DEF tempVars, copyVars, appVars, Inv, CommandTypeOK, NsStates, PodStates, Restored
<1>18. CASE DeleteApp
  BY <1>18 DEF DeleteApp, To, Terminating, tempVars, copyVars, historyVars,
     Inv, CommandTypeOK, NsStates, PodStates, Restored
<1>19. CASE MonitorApp
  <2>1. /\ UNCHANGED <<tempVars, policy, copyVars, appVars, runs>> /\ faults' \in Nat
        /\ slips' = slips \/ slips' = slips \union {"rash"}
    BY <1>19 DEF MonitorApp, To, ToInSpite, historyVars, Inv, CommandTypeOK
  <2>2. slips' \subseteq Slips
    BY <2>1, Zenon DEF Slips, Inv, CommandTypeOK
  <2> QED
    BY <2>1, <2>2
    DEF tempVars, copyVars, appVars, Inv, CommandTypeOK, NsStates, PodStates, Restored
<1>20. CASE RestoreTemp
  <2>1. /\ UNCHANGED <<tempVars, policy, copyVars, app, data, inApp, runs, faults, slips>>
        /\ restore' = [restore EXCEPT ![runs.restore]["temp"] = "new"]
    BY <1>20 DEF RestoreTemp, CreateVeleroRestore, To, historyVars
  <2>2. restore' \in
          [Restores -> [Parts -> {"absent", "new", "running", "failed"} \union Restored]]
    BY <2>1 DEF Inv, CommandTypeOK, Parts
  <2> QED
    BY <2>1, <2>2
    DEF tempVars, copyVars, Inv, CommandTypeOK, NsStates, PodStates
<1>21. CASE MonitorTemp
  BY <1>21 DEF MonitorTemp, To, IsNamespaceRestored, tempVars, copyVars,
     appVars, historyVars, Inv, CommandTypeOK, NsStates, PodStates, Restored
<1>22. CASE EnsureStagePodDeleted
  <2>1. /\ UNCHANGED <<tempVars, policy, copyVars, app, data, restore, runs, slips>>
        /\ faults' \in Nat /\ inApp' \in {inApp, Terminating(inApp)}
    BY <1>22
    DEF EnsureStagePodDeleted, To, ToInSpite, historyVars, Inv, CommandTypeOK
  <2> QED
    BY <2>1 DEF Terminating, tempVars, copyVars, Inv, CommandTypeOK, PodStates
<1>23. CASE SyncDeleteStagePod
  BY <1>23 DEF SyncDeleteStagePod, To, tempVars, copyVars, appVars,
     historyVars, Inv, CommandTypeOK
<1>24. CASE RestoreOrig
  <2>1. /\ UNCHANGED <<tempVars, policy, copyVars, app, data, inApp, runs, faults, slips>>
        /\ restore' = [restore EXCEPT ![runs.restore]["orig"] = "new"]
    BY <1>24 DEF RestoreOrig, CreateVeleroRestore, To, historyVars
  <2>2. restore' \in
          [Restores -> [Parts -> {"absent", "new", "running", "failed"} \union Restored]]
    BY <2>1 DEF Inv, CommandTypeOK, Parts
  <2> QED
    BY <2>1, <2>2
    DEF tempVars, copyVars, Inv, CommandTypeOK, NsStates, PodStates
<1>25. CASE MonitorOrig
  BY <1>25 DEF MonitorOrig, Exit, IsNamespaceRestored, tempVars, copyVars,
     appVars, Inv, CommandTypeOK, NsStates, PodStates, Restored
<1>26. CASE TempGone /\ Others
  BY <1>26 DEF TempGone, copyVars, appVars, Others, historyVars, Inv,
     CommandTypeOK, NsStates, PodStates, Restored
<1>27. CASE SnapshotProceeds /\ Others
  BY <1>27 DEF SnapshotProceeds, copyVars, appVars, Others, historyVars, Inv,
     CommandTypeOK, NsStates, PodStates, Restored
<1>28. CASE Provision /\ Others
  BY <1>28 DEF Provision, copyVars, appVars, Others, historyVars, Inv,
     CommandTypeOK, NsStates, PodStates, Restored
<1>29. CASE PodsRun /\ Others
  BY <1>29 DEF PodsRun, copyVars, appVars, Others, historyVars, Inv,
     CommandTypeOK, NsStates, PodStates, Restored
<1>30. CASE VeleroBacksUp /\ Others
  <2>1. /\ UNCHANGED <<tempVars, policy, appVars, runs, faults, slips>>
        /\ copy' \in {"completed", "failed"}
        /\ holds' = (temp = "active" /\ pods = "running") \/ holds' = FALSE
    BY <1>30 DEF VeleroBacksUp, Others, historyVars
  <2>2. {holds', data'} \subseteq BOOLEAN
    <3>1. {holds, data} \subseteq BOOLEAN /\ data' = data
      BY <2>1 DEF appVars, Inv, CommandTypeOK
    <3>2. holds' \in BOOLEAN
      BY <2>1, Zenon
    <3> QED BY <3>1, <3>2, Zenon
  <2> QED
    BY <2>1, <2>2
    DEF tempVars, appVars, Inv, CommandTypeOK, NsStates, PodStates, Restored
<1>31. CASE AppGone /\ Others
  <2>1. {holds', data'} \subseteq BOOLEAN
    BY <1>31, Zenon DEF AppGone, copyVars, Inv, CommandTypeOK
  <2> QED
    BY <1>31, <2>1 DEF AppGone, tempVars, copyVars, Others, historyVars, Inv,
       CommandTypeOK, NsStates, PodStates
<1>32. CASE PodsGone /\ Others
  BY <1>32 DEF PodsGone, tempVars, copyVars, Others, historyVars, Inv,
     CommandTypeOK, NsStates, PodStates, Restored
<1>33. ASSUME NEW n \in Restores, NEW part \in Parts, VeleroStarts(n, part), Others
      PROVE  CommandTypeOK'
  <2>1. /\ UNCHANGED <<tempVars, policy, copyVars, data, runs, faults, slips>>
        /\ app' \in {app, "active"} /\ inApp' \in {inApp, "running"}
        /\ app' = "absent" => inApp' = inApp /\ app' = app
        /\ \E end \in {"running", "failed"} : restore' = [restore EXCEPT ![n][part] = end]
    BY <1>33 DEF VeleroStarts, Others, historyVars
  <2>2. restore' \in
          [Restores -> [Parts -> {"absent", "new", "running", "failed"} \union Restored]]
    BY <2>1 DEF Inv, CommandTypeOK
  <2>3. {holds', data'} \subseteq BOOLEAN /\ (app' = "absent" => inApp' = "absent" /\ ~data')
    BY <2>1, Zenon DEF copyVars, Inv, CommandTypeOK
  <2> QED
    BY <2>1, <2>2, <2>3
    DEF tempVars, copyVars, Inv, CommandTypeOK, NsStates, PodStates
<1>34. ASSUME NEW n \in Restores, NEW part \in Parts, VeleroEnds(n, part), Others
      PROVE  CommandTypeOK'
  <2>1. /\ UNCHANGED <<tempVars, policy, copyVars, app, inApp, runs, faults, slips>>
        /\ data' = data \/ (app # "absent" /\ data' = holds)
        /\ \E end \in Restored \union {"failed"} :
              restore' = [restore EXCEPT ![n][part] = end]
    BY <1>34 DEF VeleroEnds, Others, historyVars
  <2>2. restore' \in
          [Restores -> [Parts -> {"absent", "new", "running", "failed"} \union Restored]]
    BY <2>1 DEF Inv, CommandTypeOK
  <2>3. {holds', data'} \subseteq BOOLEAN
    BY <2>1, Zenon DEF copyVars, Inv, CommandTypeOK
  <2> QED
    BY <2>1, <2>2, <2>3
    DEF tempVars, copyVars, Inv, CommandTypeOK
<1>35. CASE Interrupted
  <2>1. /\ UNCHANGED <<tempVars, policy, copyVars, appVars, runs, slips>>
        /\ faults' \in Nat
    BY <1>35 DEF Interrupted, historyVars, Inv, CommandTypeOK
  <2> QED
    BY <2>1 DEF tempVars, copyVars, appVars, Inv, CommandTypeOK
<1> QED BY <1>1, <1>2, <1>3, <1>4, <1>5, <1>6, <1>7, <1>8, <1>9, <1>10, <1>11,
           <1>12, <1>13, <1>14, <1>15, <1>16, <1>17, <1>18, <1>19, <1>20,
           <1>21, <1>22, <1>23, <1>24, <1>25, <1>26, <1>27, <1>28, <1>29,
           <1>30, <1>31, <1>32, <1>33, <1>34, <1>35 DEF Next, BackupManager,
           RestoreManager, EnvironmentStep

LEMMA BorrowedKept ==
  ASSUME Inv, [Next]_vars
  PROVE  Borrowed'
<1>1. CASE RestoreSide \/ Interrupted \/ UNCHANGED vars
  BY <1>1, RestoreLeaves DEF tempVars, copyVars, Inv, Borrowed, Building,
     Borrowing, RestoreSteps, Asking, Waiting
<1>2. CASE RunBackup
  BY <1>2 DEF RunBackup, tempVars, copyVars, appVars, historyVars, Inv,
     Borrowed, Building, Borrowing
<1>3. CASE CreateNamespace
  BY <1>3 DEF CreateNamespace, To, copyVars, appVars, historyVars, Inv,
     Borrowed, Building, Borrowing
<1>4. CASE RecreateNamespace
  BY <1>4 DEF RecreateNamespace, To, NamespaceGone, copyVars, appVars,
     historyVars, Inv, Borrowed, Building, Borrowing
<1>5. CASE CreateVolumeSnapshots
  BY <1>5 DEF CreateVolumeSnapshots, To, copyVars, appVars, historyVars, Inv,
     Borrowed, Building, Borrowing
<1>6. CASE UpdateContents
  BY <1>6 DEF UpdateContents, To, ToInSpite, Panic, copyVars, appVars, tempVars,
     historyVars, CommandTypeOK, Inv, Borrowed, Building, Borrowing
<1>7. CASE MonitorContents
  BY <1>7 DEF MonitorContents, To, Panic, ReadyToUse, tempVars, copyVars,
     appVars, historyVars, Inv, Borrowed, Building, Borrowing
<1>8. CASE CreatePvcsWithVs
  BY <1>8 DEF CreatePvcsWithVs, To, copyVars, appVars, historyVars, Inv,
     Borrowed, Building, Borrowing
<1>9. CASE CreatePvcsWithPv
  BY <1>9 DEF CreatePvcsWithPv, To, Panic, tempVars, copyVars, appVars,
     historyVars, Inv, Borrowed, Building, Borrowing
<1>10. CASE BuildStagePod
  BY <1>10 DEF BuildStagePod, To, copyVars, appVars, historyVars, Inv,
     Borrowed, Building, Borrowing
<1>11. CASE WaitStagePod
  BY <1>11 DEF WaitStagePod, To, ToInSpite, StagePodsRun, tempVars, copyVars,
     appVars, historyVars, Inv, Borrowed, Building, Borrowing
<1>12. CASE EnsureVeleroBackup
  BY <1>12 DEF EnsureVeleroBackup, To, tempVars, appVars, historyVars, Inv,
     Borrowed, Building, Borrowing
<1>13. CASE GetCompletedBackup
  BY <1>13 DEF GetCompletedBackup, To, CompletedBackup, tempVars, copyVars,
     appVars, historyVars, Inv, Borrowed, Building, Borrowing
<1>14. CASE DeleteNamespace
  BY <1>14 DEF DeleteNamespace, To, Terminating, copyVars, appVars,
     historyVars, Inv, Borrowed, Building, Borrowing
<1>15. CASE MonitorDeleteNamespace
  BY <1>15 DEF MonitorDeleteNamespace, Exit, NamespaceGone, tempVars,
     copyVars, appVars, Inv, Borrowed, Building, Borrowing
<1>16. CASE TempGone /\ Others
  <2>1. /\ temp = "terminating" /\ temp' = "absent" /\ vs' = "absent"
        /\ UNCHANGED <<copy, pc, policy, slips>>
    BY <1>16 DEF TempGone, Others, copyVars, historyVars
  <2>2. /\ ref' # "temp" /\ (ref' = "orig" => ref = "orig")
        /\ policy = "Delete" /\ ref # "dangling" => ref' # "dangling"
    BY <1>16 DEF TempGone, Inv, CommandTypeOK
  <2> QED
    BY <2>1, <2>2 DEF Inv, Borrowed, Building, Borrowing
<1>17. CASE SnapshotProceeds /\ Others
  BY <1>17 DEF SnapshotProceeds, copyVars, appVars, Others, historyVars, Inv,
     Borrowed, Building, Borrowing
<1>18. CASE Provision /\ Others
  BY <1>18 DEF Provision, copyVars, appVars, Others, historyVars, Inv,
     Borrowed, Building, Borrowing
<1>19. CASE PodsRun /\ Others
  BY <1>19 DEF PodsRun, copyVars, appVars, Others, historyVars, Inv, Borrowed,
     Building, Borrowing
<1>20. CASE VeleroBacksUp /\ Others
  BY <1>20 DEF VeleroBacksUp, tempVars, appVars, Others, historyVars, Inv,
     Borrowed, Building, Borrowing
<1> QED BY SidesAre, <1>1, <1>2, <1>3, <1>4, <1>5, <1>6, <1>7, <1>8, <1>9,
           <1>10, <1>11, <1>12, <1>13, <1>14, <1>15, <1>16, <1>17, <1>18,
           <1>19, <1>20 DEF BackupSide, BackupManager

LEMMA CopiedKept ==
  ASSUME Inv, [Next]_vars
  PROVE  Copied'
<1>1. CASE RestoreSide \/ Interrupted \/ UNCHANGED vars
  BY <1>1, RestoreLeaves DEF tempVars, copyVars, Inv, Copied, Sound, Building,
     Borrowing, RestoreSteps, Asking, Waiting
<1>2. CASE RunBackup
  BY <1>2 DEF RunBackup, tempVars, copyVars, appVars, historyVars, Inv,
     Borrowed, Copied, Sound, Building, Borrowing
<1>3. CASE CreateNamespace
  BY <1>3 DEF CreateNamespace, To, copyVars, appVars, historyVars, Inv,
     Borrowed, Copied, Sound, Building, Borrowing
<1>4. CASE RecreateNamespace
  BY <1>4 DEF RecreateNamespace, To, NamespaceGone, copyVars, appVars,
     historyVars, Inv, Borrowed, Copied, Sound, Building, Borrowing
<1>5. CASE CreateVolumeSnapshots
  BY <1>5 DEF CreateVolumeSnapshots, To, copyVars, appVars, historyVars, Inv,
     Borrowed, Copied, Sound, Building, Borrowing
<1>6. CASE UpdateContents
  BY <1>6 DEF UpdateContents, To, ToInSpite, Panic, copyVars, appVars, tempVars,
     historyVars, Inv, Borrowed, Copied, Sound, Building, Borrowing
<1>7. CASE MonitorContents
  BY <1>7 DEF MonitorContents, To, Panic, ReadyToUse, tempVars, copyVars,
     appVars, historyVars, Inv, Borrowed, Copied, Sound, Building, Borrowing
<1>8. CASE CreatePvcsWithVs
  BY <1>8 DEF CreatePvcsWithVs, To, copyVars, appVars, historyVars, Inv,
     Borrowed, Copied, Sound, Building, Borrowing
<1>9. CASE CreatePvcsWithPv
  BY <1>9 DEF CreatePvcsWithPv, To, Panic, tempVars, copyVars, appVars,
     historyVars, Inv, Borrowed, Copied, Sound, Building, Borrowing
<1>10. CASE BuildStagePod
  BY <1>10 DEF BuildStagePod, To, copyVars, appVars, historyVars, Inv,
     Borrowed, Copied, Sound, Building, Borrowing
<1>11. CASE WaitStagePod
  BY <1>11 DEF WaitStagePod, To, ToInSpite, StagePodsRun, tempVars, copyVars,
     appVars, historyVars, Inv, Borrowed, Copied, Sound, Building, Borrowing
<1>12. CASE EnsureVeleroBackup
  BY <1>12 DEF EnsureVeleroBackup, To, tempVars, appVars, historyVars, Inv,
     Borrowed, Copied, Sound, Building, Borrowing
<1>13. CASE GetCompletedBackup
  BY <1>13 DEF GetCompletedBackup, To, CompletedBackup, tempVars, copyVars,
     appVars, historyVars, Inv, Borrowed, Copied, Sound, Building, Borrowing
<1>14. CASE DeleteNamespace
  BY <1>14 DEF DeleteNamespace, To, Terminating, copyVars, appVars,
     historyVars, Inv, Borrowed, Copied, Sound, Building, Borrowing
<1>15. CASE MonitorDeleteNamespace
  BY <1>15 DEF MonitorDeleteNamespace, Exit, NamespaceGone, tempVars,
     copyVars, appVars, Inv, Borrowed, Copied, Sound, Building, Borrowing
<1>16. CASE TempGone /\ Others
  BY <1>16 DEF TempGone, copyVars, appVars, Others, historyVars, Inv,
     Borrowed, Copied, Sound, Building, Borrowing
<1>17. CASE SnapshotProceeds /\ Others
  BY <1>17 DEF SnapshotProceeds, copyVars, appVars, Others, historyVars, Inv,
     Borrowed, Copied, Sound, Building, Borrowing
<1>18. CASE Provision /\ Others
  BY <1>18 DEF Provision, copyVars, appVars, Others, historyVars, Inv,
     Borrowed, Copied, Sound, Building, Borrowing
<1>19. CASE PodsRun /\ Others
  BY <1>19 DEF PodsRun, copyVars, appVars, Others, historyVars, Inv, Borrowed,
     Copied, Sound, Building, Borrowing
<1>20. CASE VeleroBacksUp /\ Others
  BY <1>20 DEF VeleroBacksUp, tempVars, appVars, Others, historyVars, Inv,
     Borrowed, Copied, Sound, Building, Borrowing
<1> QED BY SidesAre, <1>1, <1>2, <1>3, <1>4, <1>5, <1>6, <1>7, <1>8, <1>9,
           <1>10, <1>11, <1>12, <1>13, <1>14, <1>15, <1>16, <1>17, <1>18,
           <1>19, <1>20 DEF BackupSide, BackupManager

LEMMA ReplacedKept ==
  ASSUME Inv, [Next]_vars
  PROVE  Replaced'
<1>1. CASE BackupSide \/ Interrupted \/ UNCHANGED vars
  BY <1>1, BackupLeaves DEF appVars, Inv, Replaced, Unasked, Kept, RestoreSteps,
     Asking, Waiting, Restored, Started, Restores, Parts
<1>2. CASE RunRestore
  <2>1. /\ pc' = "getBackup" /\ UNCHANGED restore
        /\ runs'.restore = runs.restore + 1 /\ runs.restore < MaxRestores
    BY <1>2 DEF RunRestore, appVars, Inv, CommandTypeOK
  <2>2. runs'.restore \in Restores
    BY <2>1, CommandAssumption DEF Inv, Replaced, Restores
  <2>3. Unasked'
    BY <2>1, <2>2, CommandAssumption
    DEF Inv, Replaced, Unasked, RestoreSteps, Asking, Waiting, Restores
  <2> QED
    BY <2>1, <2>2, <2>3, CommandAssumption
    DEF Replaced, Unasked, Kept, Asking, Waiting, Restored, Started, Restores, Parts
<1>3. CASE GetVeleroBackup
  BY <1>3 DEF GetVeleroBackup, To, Panic, tempVars, copyVars, appVars,
     historyVars, Inv, CommandTypeOK, Replaced, Unasked, Kept, RestoreSteps,
     Asking, Waiting, Restored, Started, Restores, Parts
<1>4. CASE DeleteApp
  BY <1>4 DEF DeleteApp, To, Terminating, tempVars, copyVars, historyVars,
     Inv, CommandTypeOK, Replaced, Unasked, Kept, RestoreSteps,
     Asking, Waiting, Restored, Started, Restores, Parts
<1>5. CASE MonitorApp
  BY <1>5 DEF MonitorApp, NamespaceGone, To, ToInSpite, tempVars, copyVars,
     appVars, historyVars, Inv,
     CommandTypeOK, Replaced, Unasked, Kept, RestoreSteps,
     Asking, Waiting, Restored, Started, Restores, Parts
<1>6. CASE RestoreTemp
  <2>1. /\ pc = "restoreTemp" /\ pc' = "monitorTemp"
        /\ UNCHANGED <<app, data, holds, copy, runs, slips>>
    BY <1>6 DEF RestoreTemp, CreateVeleroRestore, To, copyVars, historyVars
  <2>2. runs.restore \in Restores
    BY <2>1 DEF Inv, Replaced, RestoreSteps
  <2>3. /\ \A n \in Restores : n # runs.restore => restore'[n] = restore[n]
        /\ restore'[runs.restore]["temp"] = "new"
    BY <1>6, <2>2 DEF RestoreTemp, CreateVeleroRestore, Inv, CommandTypeOK, Parts
  <2> QED
    BY <2>1, <2>2, <2>3
    DEF Inv, Replaced, Unasked, Kept, RestoreSteps, Asking, Waiting, Restored, Started,
        Restores
<1>7. CASE MonitorTemp
  BY <1>7 DEF MonitorTemp, To, IsNamespaceRestored, tempVars, copyVars,
     appVars, historyVars, Inv, CommandTypeOK, Replaced, Unasked, Kept, RestoreSteps,
     Asking, Waiting, Restored, Started, Restores, Parts
<1>8. CASE EnsureStagePodDeleted
  BY <1>8 DEF EnsureStagePodDeleted, To, ToInSpite, Terminating, tempVars,
     copyVars, historyVars, Inv, CommandTypeOK, Replaced, Unasked, Kept, RestoreSteps,
     Asking, Waiting, Restored, Started, Restores, Parts
<1>9. CASE SyncDeleteStagePod
  BY <1>9 DEF SyncDeleteStagePod, To, tempVars, copyVars, appVars,
     historyVars, Inv, CommandTypeOK, Replaced, Unasked, Kept, RestoreSteps,
     Asking, Waiting, Restored, Started, Restores, Parts
<1>10. CASE RestoreOrig
  BY <1>10 DEF RestoreOrig, CreateVeleroRestore, To, tempVars, copyVars,
     historyVars, Inv, CommandTypeOK, Replaced, Unasked, Kept, RestoreSteps,
     Asking, Waiting, Restored, Started, Restores, Parts
<1>11. CASE MonitorOrig
  BY <1>11 DEF MonitorOrig, Exit, IsNamespaceRestored, tempVars, copyVars,
     appVars, Inv, CommandTypeOK, Replaced, Unasked, Kept, RestoreSteps,
     Asking, Waiting, Restored, Started, Restores, Parts
<1>12. CASE VeleroBacksUp /\ Others
  BY <1>12 DEF VeleroBacksUp, tempVars, appVars, Others, historyVars, Inv,
     CommandTypeOK, Replaced, Unasked, Kept, RestoreSteps,
     Asking, Waiting, Restored, Started, Restores, Parts
<1>13. CASE AppGone /\ Others
  BY <1>13 DEF AppGone, tempVars, copyVars, Others, historyVars, Inv,
     CommandTypeOK, Replaced, Unasked, Kept, RestoreSteps,
     Asking, Waiting, Restored, Started, Restores, Parts
<1>14. CASE PodsGone /\ Others
  BY <1>14 DEF PodsGone, tempVars, copyVars, Others, historyVars, Inv,
     CommandTypeOK, Replaced, Unasked, Kept, RestoreSteps,
     Asking, Waiting, Restored, Started, Restores, Parts
<1>15. ASSUME NEW n \in Restores, NEW part \in Parts, VeleroStarts(n, part), Others
      PROVE  Replaced'
  <2>1. /\ UNCHANGED <<copy, holds, data, pc, runs, slips>>
        /\ restore[n][part] = "new"
        /\ \/ app' = app /\ restore' = [restore EXCEPT ![n][part] = "failed"]
           \/ /\ part = "temp" => copy = "completed"
              /\ app' = "active" \/ (app = "terminating" /\ app' = app)
              /\ restore' = [restore EXCEPT ![n][part] = "running"]
    BY <1>15 DEF VeleroStarts, copyVars, Others, historyVars, Inv, CommandTypeOK, NsStates
  <2>2. /\ \A m \in Restores, p \in Parts :
              m # n \/ p # part => restore'[m][p] = restore[m][p]
        /\ restore'[n][part] \in {"running", "failed"}
        /\ restore'[n][part] = "running" =>
              /\ part = "temp" => copy = "completed"
              /\ app' = "active" \/ (app = "terminating" /\ app' = app)
        /\ app = "active" => app' = "active"
        /\ app # "terminating" => app' # "terminating"
    BY <2>1 DEF Inv, CommandTypeOK, Parts
  <2>3. Unasked'
    BY <2>1, <2>2 DEF Inv, Replaced, Unasked, Asking
  <2>4. ASSUME NEW m \in Restores, m = runs.restore
        PROVE  Kept(m)'
    BY <2>1, <2>2, <2>4 DEF Inv, Replaced, Kept, Waiting, Restored, Started, Parts
  <2> QED
    BY <2>1, <2>3, <2>4 DEF Inv, Replaced
<1>16. ASSUME NEW n \in Restores, NEW part \in Parts, VeleroEnds(n, part), Others
      PROVE  Replaced'
  <2>1. /\ UNCHANGED <<app, copy, holds, pc, runs, slips>>
        /\ restore[n][part] = "running"
        /\ \E end \in Restored \union {"failed"} :
              /\ restore' = [restore EXCEPT ![n][part] = end]
              /\ data' = IF end = "completed" /\ part = "temp" /\ app # "absent"
                           THEN holds ELSE data
    BY <1>16 DEF VeleroEnds, copyVars, Others, historyVars
  <2>2. /\ \A m \in Restores, p \in Parts :
              m # n \/ p # part => restore'[m][p] = restore[m][p]
        /\ restore'[n][part] \in Restored \union {"failed"}
        /\ data' \in {holds, data}
        /\ restore'[n][part] = "completed" /\ part = "temp" /\ app # "absent" => data' = holds
    BY <2>1 DEF Inv, CommandTypeOK, Restored
  <2>3. Unasked'
    BY <2>1, <2>2 DEF Inv, Replaced, Unasked
  <2>4. ASSUME NEW m \in Restores, m = runs.restore
        PROVE  Kept(m)'
    BY <2>1, <2>2, <2>4 DEF Inv, Replaced, Kept, Waiting, Restored, Started, Parts
  <2> QED
    BY <2>1, <2>3, <2>4 DEF Inv, Replaced
<1> QED BY SidesAre, <1>1, <1>2, <1>3, <1>4, <1>5, <1>6, <1>7, <1>8, <1>9,
           <1>10, <1>11, <1>12, <1>13, <1>14, <1>15, <1>16 DEF RestoreSide,
           RestoreManager

-----------------------------------------------------------------------------
(* The theorems.                                                           *)

LEMMA InvInit == Init => Inv
<1> SUFFICES ASSUME Init PROVE Inv
  OBVIOUS
<1>1. CommandTypeOK
  <2>1. runs \in [{"backup", "restore"} -> Nat] /\ faults \in Nat
    BY CommandAssumption DEF Init
  <2>2. {holds, data} \subseteq BOOLEAN /\ slips \subseteq Slips
    BY DEF Init
  <2> QED BY <2>1, <2>2 DEF Init, CommandTypeOK, NsStates, PodStates, Parts
<1>2. Borrowed /\ Copied
  BY DEF Init, Borrowed, Copied, Sound, Building, Borrowing
<1>3. Replaced
  BY CommandAssumption
  DEF Init, Replaced, Unasked, Kept, RestoreSteps, Asking, Waiting, Restored, Started,
      Restores, Parts
<1> QED BY <1>1, <1>2, <1>3 DEF Inv

LEMMA Invariance == Spec => []Inv
<1>1. Inv /\ [Next]_vars => Inv'
  BY TypeKept, BorrowedKept, CopiedKept, ReplacedKept DEF Inv
<1> QED BY <1>1, InvInit, PTL DEF Spec

(* Every variable keeps its type, nothing outlives the temporary namespace *)
(* nor the data the application's: no command makes anything in a          *)
(* namespace that an interrupted run has left in another state.            *)
THEOREM CommandTypeCorrect == Spec => []CommandTypeOK
<1>1. Inv => CommandTypeOK
  BY DEF Inv
<1> QED BY <1>1, Invariance, PTL

(* A backup that ends as it should has copied the data, although it takes  *)
(* a copy that exists for its own: where the content goes with the         *)
(* temporary namespace, a run after one that was cut short late enough to  *)
(* have asked for a copy finds the content lost, and stops.  Where it is   *)
(* retained, no more can be said of such a run.                            *)
THEOREM BackupsHoldData == Spec => []BackupHoldsData
<1>1. Inv => BackupHoldsData
  BY DEF Inv, CommandTypeOK, Borrowed, Copied, Sound, BackupHoldsData
<1> QED BY <1>1, Invariance, PTL

(* The original objects are asked for only when the data of the copy is in *)
(* the new namespace, or as much of it as Velero could restore: also in a  *)
(* run after one that was cut short, whose restores Velero goes on with,   *)
(* but not after a wait for the namespace that was over with an error.     *)
THEOREM DataIsFirst == Spec => DataFirst
<1> DEFINE First(n) ==
             restore[n].orig = "absent" /\ restore'[n].orig = "new"
               => \/ restore[n].temp = "partial"
                  \/ restore[n].temp = "completed" /\ (data = holds \/ "rash" \in slips)
<1>1. ASSUME Inv, [Next]_vars, NEW n \in Restores,
             restore[n]["orig"] = "absent", restore'[n]["orig"] = "new"
      PROVE  RestoreOrig /\ n = runs.restore
  <2>1. restore \in
          [Restores -> [Parts -> {"absent", "new", "running", "failed"} \union Restored]]
    BY <1>1 DEF Inv, CommandTypeOK
  <2>2. restore' # restore
    BY <1>1
  <2>3. ~Interrupted /\ ~UNCHANGED vars /\ ~(VeleroBacksUp /\ Others) /\ ~BackupSide
    BY <1>1, <2>2, BackupLeaves
    DEF Inv, Interrupted, vars, appVars, VeleroBacksUp
  <2>4. RestoreSide
    BY <1>1, <2>3, SidesAre
  <2>5. \A m \in Restores, part \in Parts : ~VeleroStarts(m, part) /\ ~VeleroEnds(m, part)
    BY <1>1, <2>1 DEF VeleroStarts, VeleroEnds, Restored, Parts
  <2>6. RestoreTemp \/ RestoreOrig
    BY <2>2, <2>4, <2>5
    DEF RestoreSide, RunRestore, RestoreManager, GetVeleroBackup, DeleteApp, MonitorApp,
        MonitorTemp, EnsureStagePodDeleted, SyncDeleteStagePod, MonitorOrig, Panic,
        AppGone, PodsGone, appVars
  <2> QED
    BY <1>1, <2>1, <2>6 DEF RestoreTemp, RestoreOrig, CreateVeleroRestore, Parts
<1>2. Inv /\ [Next]_vars => [\A n \in Restores : First(n)]_vars
  BY <1>1 DEF Inv, Replaced, Kept, RestoreOrig, Waiting, Restored
<1> HIDE DEF First
<1>3. Spec => [][\A n \in Restores : First(n)]_vars
  BY <1>2, Invariance, PTL DEF Spec
<1> QED BY <1>3 DEF First, DataFirst
===============================================================================
