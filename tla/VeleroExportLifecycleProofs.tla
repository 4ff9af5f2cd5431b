--------------------- MODULE VeleroExportLifecycleProofs ---------------------
(***************************************************************************)
(* The export, for every set of namespaces and volumes and every bound on  *)
(* the disturbances, implements the lifecycle a user sees and keeps the    *)
(* custody of the backup's snapshots: both abstract specifications, each   *)
(* by the steps it sees in the steps of the export.                        *)
(*                                                                         *)
(* The last part is about an export that nothing disturbs: why it is not   *)
(* refused what it asks for, although it makes many reconciles, with       *)
(* copies from a cache that lags, and although some of its phases cannot   *)
(* be repeated.  Those phases are entered from the phase before in the     *)
(* same reconcile, and end in it, and no worker with an older copy comes   *)
(* near them.                                                              *)
(***************************************************************************)
EXTENDS VeleroExportClusterProofs

-----------------------------------------------------------------------------
(* What Invariance does not say and the refinement needs: an export is     *)
(* aborted from the phase that waits for its copy, and only by that.       *)

Aborting == pc = "abort" => mem.phase = "WaitFileSystemCopyComplete"

(* A step that aborts nothing. *)
Quiet ==
  /\ cr'.state = StateVeleroFailed => cr.state = StateVeleroFailed
  /\ Aborting'

(* The copy a handler works on, and the resource if the copy is current.   *)
LEMMA WorkersCopyIs ==
  ASSUME Control, pc # "idle"
  PROVE  mem \in Resources /\ mem.state # StateVeleroFailed
BY DEF Control, ControlTypeOK, Coherent, Terminal

(* updateStatus does not fail an export for good by itself. *)
LEMMA UpdatesAreMild ==
  ASSUME NEW c \in Resources, c.state # StateVeleroFailed
  PROVE  /\ Succeeded(c).state # StateVeleroFailed
         /\ FailedOn(c).state # StateVeleroFailed
<1>1. Succeeded(c).state \in {StateCompleted, StateInProgress}
  BY DEF Succeeded, Resources
<1>2. FailedOn(c).state = StateFailed
  BY DEF FailedOn, Resources
<1> QED
  BY <1>1, <1>2
  DEF StateCompleted, StateInProgress, StateFailed, StateVeleroFailed

(* A write of such a copy, and a return or a step to another handler. *)
LEMMA QuietWrite ==
  ASSUME NEW c, Write(c), c.state # StateVeleroFailed,
         pc' # "abort"
  PROVE  Quiet
BY DEF Write, Quiet, Aborting

LEMMA QuietKeep == UNCHANGED cr /\ pc' # "abort" => Quiet
BY DEF Quiet, Aborting

LEMMA QuietGoOn == Aborting /\ UNCHANGED <<cr, pc, mem>> => Quiet
BY DEF Quiet, Aborting

LEMMA QuietEnds ==
  ASSUME Control, pc # "idle", Advance \/ AdvanceForgets \/ Fail \/ Requeue
  PROVE  Quiet
<1>1. /\ mem \in Resources /\ Succeeded(mem).state # StateVeleroFailed
      /\ FailedOn(mem).state # StateVeleroFailed
  BY WorkersCopyIs, UpdatesAreMild
<1> DEFINE c == Succeeded(mem)
           f == FailedOn(mem)
<1> HIDE DEF c, f
<1>2. CASE Advance
  BY <1>1, <1>2, QuietWrite DEF Advance, Return, Enter, c
<1>3. CASE AdvanceForgets
  BY <1>1, <1>3, QuietWrite, QuietKeep DEF AdvanceForgets, Enter, c
<1>4. CASE Fail
  BY <1>1, <1>4, QuietWrite DEF Fail, Return, f
<1>5. CASE Requeue
  BY <1>5, QuietKeep DEF Requeue, Return, resourceVars
<1> QED BY <1>2, <1>3, <1>4, <1>5

(* A copy saved in the middle of a handler. *)
LEMMA QuietSave ==
  ASSUME Control, pc # "idle", NEW c, c.state = mem.state, Save(c)
  PROVE  Quiet
<1>1. CASE fresh
  BY <1>1, WorkersCopyIs, QuietWrite DEF Save
<1>2. CASE ~fresh
  BY <1>2, QuietEnds DEF Save
<1> QED BY <1>1, <1>2 DEF Control, ControlTypeOK

-----------------------------------------------------------------------------
(* The actions.                                                            *)

LEMMA QuietPoll == Control /\ PollStep => Quiet
BY QuietEnds
DEF PollStep, Created, Precheck, WaitPrepareComplete, CheckSnapshotReady,
    WaitPvcPodRunning, EnsurePvcPodCleaned, EnsurePvcsDeleted,
    EnsureRecreatePvcReady, WaitStagePodRunning, ReadFaults, ReadLags, Poll, At

LEMMA QuietLoop == Control /\ Aborting /\ (LoopStep \/ LoopDone) => Quiet
<1> SUFFICES ASSUME Control, Aborting, LoopStep \/ LoopDone PROVE Quiet
  OBVIOUS
<1>1. ASSUME NEW i, CallSucceeds(i) \/ RetrySwallowed(i) PROVE Quiet
  BY <1>1, QuietGoOn DEF CallSucceeds, RetrySwallowed, resourceVars
<1>2. ASSUME NEW i,
             \/ CallRefused(i) \/ CallFaults(i) \/ CallLags(i)
             \/ DeleteConflicts(i) \/ ContentConflicts(i)
      PROVE  Quiet
  BY <1>2, CallInPhase, QuietEnds
  DEF CallRefused, CallFaults, CallLags, DeleteConflicts, ContentConflicts, At
<1>3. CASE LoopDone
  BY <1>3, QuietEnds DEF LoopDone
<1> QED BY <1>1, <1>2, <1>3 DEF LoopStep

LEMMA QuietSaves == Control /\ SaveStep => Quiet
<1> SUFFICES ASSUME Control, SaveStep PROVE Quiet
  OBVIOUS
<1>1. ASSUME NEW ann, pc # "idle", Save([mem EXCEPT !.ann = ann])
      PROVE  Quiet
  <2>1. [mem EXCEPT !.ann = ann].state = mem.state
    BY <1>1, WorkersCopyIs DEF Resources
  <2> QED BY <1>1, <2>1, QuietSave
<1>2. CASE SaveSnapshots
  BY <1>1, <1>2, QuietEnds DEF SaveSnapshots, At
<1>3. CASE CheckPvcReady
  BY <1>1, <1>3, QuietEnds DEF CheckPvcReady, At
<1>4. CASE CheckPvcReadyForgets
  <2>1. pc # "idle" /\ cr' = Succeeded(FailedOn(mem)) /\ pc' = "idle"
    BY <1>4 DEF CheckPvcReadyForgets, At, Return
  <2>2. FailedOn(mem) \in Resources /\ FailedOn(mem).state # StateVeleroFailed
    BY <2>1, WorkersCopyIs, UpdatesAreMild, FailedIs
  <2>3. Succeeded(FailedOn(mem)).state # StateVeleroFailed
    BY <2>2, UpdatesAreMild
  <2> QED BY <2>1, <2>3 DEF Quiet, Aborting
<1>5. CASE StartFileSystemCopy
  BY <1>5, QuietKeep DEF StartFileSystemCopy, resourceVars
<1>6. CASE SaveLabel
  <2>1. pc # "idle"
    BY <1>6 DEF SaveLabel
  <2>2. [mem EXCEPT !.label = TRUE].state = mem.state
    BY <2>1, WorkersCopyIs DEF Resources
  <2> QED BY <1>6, <2>1, <2>2, QuietSave, QuietEnds DEF SaveLabel
<1> QED BY <1>2, <1>3, <1>4, <1>5, <1>6 DEF SaveStep

LEMMA QuietOthers ==
  /\ Aborting
  /\ \/ Begin \/ BeginTimeout \/ ReconcileTerminal \/ EnvironmentStep
     \/ Unreachable \/ CacheSync \/ UserTouch \/ Crash \/ UNCHANGED vars
  => Quiet
BY QuietKeep, QuietGoOn
DEF Begin, BeginTimeout, ReconcileTerminal, EnvironmentStep, Unreachable,
    CacheSync, UserTouch, Crash, Enter, Return, Requeue, vars, resourceVars,
    workerVars

LEMMA QuietTime == Control /\ Aborting /\ TimePasses => Quiet
BY AgedIs DEF TimePasses, Control, ControlTypeOK, Quiet, Aborting

(* WaitFileSystemCopyComplete starts to abort, and Cancel ends it.  A      *)
(* current copy is the resource, or is in a phase after that of the        *)
(* resource; neither is PhaseCreated.                                      *)
LEMMA AbortIsLate ==
  ASSUME Control, Aborting, WaitFileSystemCopyComplete \/ CleanUpStep
  PROVE  /\ cr'.state = StateVeleroFailed =>
               cr.state = StateVeleroFailed \/ cr.phase # PhaseCreated
         /\ Aborting'
<1>1. CASE WaitFileSystemCopyComplete
  <2>1. CASE Advance \/ AdvanceForgets \/ Requeue
    BY <1>1, <2>1, QuietEnds DEF WaitFileSystemCopyComplete, At, Quiet
  <2>2. CASE UNCHANGED <<resourceVars, mem>>
    BY <1>1, <2>2 DEF WaitFileSystemCopyComplete, At, resourceVars, Aborting
  <2> QED BY <1>1, <2>1, <2>2 DEF WaitFileSystemCopyComplete
<1>2. ASSUME NEW i, CleanUpNamespace(i) \/ CleanUpConflicts(i) \/ CleanUpVolume(i)
      PROVE  Quiet
  BY <1>2, QuietGoOn, QuietEnds
  DEF CleanUpNamespace, CleanUpConflicts, CleanUpVolume, resourceVars
<1>3. CASE pc = "timeout" /\ Write([mem EXCEPT !.state = StateCanceled]) /\ Return
  <2> DEFINE c == [mem EXCEPT !.state = StateCanceled]
  <2>1. c.state # StateVeleroFailed
    BY <1>3, WorkersCopyIs DEF Resources, StateCanceled, StateVeleroFailed
  <2> HIDE DEF c
  <2> QED BY <1>3, <2>1, QuietWrite DEF c, Return, Quiet
<1>4. CASE pc = "abort" /\ Write(VeleroFailedOn(mem)) /\ Return
  <2>1. CASE fresh
    <3>1. mem.phase = "WaitFileSystemCopyComplete"
      BY <1>4 DEF Aborting
    <3>2. cr.phase # PhaseCreated
      BY <1>4, <2>1, <3>1
      DEF Control, Coherent, IgnoreUpdateError, PhaseCreated
    <3> QED BY <1>4, <3>2 DEF Return, Aborting
  <2>2. CASE ~fresh
    BY <1>4, <2>2 DEF Write, Return, Aborting
  <2> QED BY <2>1, <2>2 DEF Control, ControlTypeOK
<1> QED BY <1>1, <1>2, <1>3, <1>4 DEF CleanUpStep, Cancel, Quiet

LEMMA AbortStep ==
  Control /\ Aborting /\ [Next]_vars =>
    /\ cr'.state = StateVeleroFailed =>
         cr.state = StateVeleroFailed \/ cr.phase # PhaseCreated
    /\ Aborting'
BY QuietPoll, QuietLoop, QuietSaves, QuietOthers, QuietTime, AbortIsLate
DEF Next, Worker, Quiet

-----------------------------------------------------------------------------
(* The refinement.                                                         *)

(* The moves of the lifecycle. *)
LEMMA StageMoves ==
  ASSUME NEW c \in Resources, NEW d \in Resources,
         cr = c, cr' = d,
         \/ StageOf(c) = StageOf(d)
         \/ StageOf(c) = "queued" /\ StageOf(d) \in {"running", "canceled"}
         \/ /\ StageOf(c) = "running"
            /\ StageOf(d) \in {"completed", "failed", "canceled"}
  PROVE  [View!Next]_([j \in {"export"} |-> StageOf(cr)])
<1> DEFINE s == [j \in {"export"} |-> StageOf(cr)]
<1>1. s' = [s EXCEPT !["export"] = StageOf(d)] /\ s["export"] = StageOf(c)
  OBVIOUS
<1>2. CASE StageOf(c) = StageOf(d)
  BY <1>2
<1>3. CASE StageOf(c) = "queued" /\ StageOf(d) = "running"
  BY <1>1, <1>3 DEF View!Next, View!Start, View!Move
<1>4. CASE StageOf(c) \in {"queued", "running"} /\ StageOf(d) = "canceled"
  BY <1>1, <1>4 DEF View!Next, View!Cancel, View!Move
<1>5. CASE StageOf(c) = "running" /\ StageOf(d) \in {"completed", "failed"}
  BY <1>1, <1>5 DEF View!Next, View!Finish, View!Move
<1> QED BY <1>2, <1>3, <1>4, <1>5

(* The stage of a resource, by its phase and its state. *)
LEMMA StageIs ==
  ASSUME NEW c \in Resources
  PROVE  /\ ~Terminal(c) => StageOf(c) = IF c.phase = PhaseCreated
                                           THEN "queued" ELSE "running"
         /\ StageOf(c) \in {"queued", "running", "completed", "failed", "canceled"}
         /\ StageOf(c) = "failed" => c.state = StateVeleroFailed
         /\ StageOf(c) = "queued" => c.phase = PhaseCreated
         /\ StageOf(c) = "completed" => c.phase = PhaseCompleted
         /\ StageOf(Aged(c)) = StageOf(c)
<1>1. Aged(c).phase = c.phase /\ Aged(c).state = c.state
  BY AgedIs
<1> QED
  BY <1>1 DEF StageOf, Terminal, StateCanceled, StateVeleroFailed

(* Created is the first phase and Completed the last. *)
LEMMA RankEnds ==
  /\ Rank(PhaseCreated) = 1 /\ Rank(PhaseCompleted) = 29
  /\ \A p \in ExportPhases : Rank(p) \in 1..29
<1>1. VeleroExportSteps[1] = PhaseCreated /\ VeleroExportSteps[29] = PhaseCompleted
  BY StepsAre
<1>2. \A i \in 1..29 : Rank(VeleroExportSteps[i]) = i
  BY RankIs
<1>3. \A p \in ExportPhases : \E i \in 1..29 : p = VeleroExportSteps[i]
  BY StepsDomain DEF ExportPhases
<1> QED BY <1>1, <1>2, <1>3

LEMMA StageStep ==
  ASSUME Control, Aborting, [Next]_vars
  PROVE  [View!Next]_([j \in {"export"} |-> StageOf(cr)])
<1>1. /\ Forward /\ Final /\ cr \in Resources /\ cr' \in Resources
  BY ControlStep DEF StepOK, Control, ControlTypeOK
<1>2. cr'.state = StateVeleroFailed =>
        cr.state = StateVeleroFailed \/ cr.phase # PhaseCreated
  BY AbortStep
<1>3. CASE Terminal(cr)
  <2>1. StageOf(cr') = StageOf(cr)
    BY <1>1, <1>3, StageIs DEF Final
  <2> QED BY <1>1, <2>1, StageMoves
<1>4. CASE ~Terminal(cr)
  <2>1. /\ Rank(cr.phase) \in 1..29 /\ Rank(PhaseCreated) = 1
        /\ Rank(PhaseCompleted) = 29
        /\ PhaseCreated \notin IgnoreUpdateError
        /\ cr.phase # PhaseCompleted
    BY <1>1, <1>4, RankEnds
    DEF Resources, IgnoreUpdateError, PhaseCreated, Terminal
  <2>2. CASE cr.phase = PhaseCreated
    <3>1. StageOf(cr) = "queued"
      BY <1>1, <1>4, <2>2, StageIs
    <3>2. cr'.phase # PhaseCompleted
      BY <1>1, <2>1, <2>2 DEF Forward
    <3>3. cr'.state # StateVeleroFailed
      BY <1>2, <1>4, <2>2 DEF Terminal
    <3>4. StageOf(cr') \in {"queued", "running", "canceled"}
      BY <1>1, <3>2, <3>3, StageIs
    <3> QED BY <1>1, <3>1, <3>4, StageMoves
  <2>3. CASE cr.phase # PhaseCreated
    <3>1. StageOf(cr) = "running"
      BY <1>1, <1>4, <2>3, StageIs
    <3>2. cr'.phase # PhaseCreated
      BY <1>1, <2>1, <2>3 DEF Forward
    <3>3. StageOf(cr') \in {"running", "completed", "failed", "canceled"}
      BY <1>1, <3>2, StageIs
    <3> QED BY <1>1, <3>1, <3>3, StageMoves
  <2> QED BY <2>2, <2>3
<1> QED BY <1>3, <1>4

(* However many phases, retries, restarts and old copies an export goes    *)
(* through, a user sees it wait, run once and end once: completed, failed  *)
(* with its Velero backup, never from the queue, or canceled.              *)
THEOREM ExportHasLifecycle == Spec => ImplementsLifecycle
<1>1. Init => Aborting
  BY DEF Init, Aborting
<1>2. Init => View!Init
  <2>1. StageOf(NewExport) = "queued"
    BY NewExportIs, StageIs DEF NewExport
  <2> QED BY <2>1 DEF Init, View!Init
<1>3. Control /\ Aborting /\ [Next]_vars =>
        Aborting' /\ [View!Next]_([j \in {"export"} |-> StageOf(cr)])
  BY AbortStep, StageStep
<1> QED
  BY <1>1, <1>2, <1>3, Invariance, PTL
  DEF Spec, ImplementsLifecycle, View!Spec

-----------------------------------------------------------------------------
(* The custody of the snapshots.                                           *)

(* An export fails for good only with its Velero backup. *)
FailedLast == cr.state = StateVeleroFailed => cr.phase = "WaitFileSystemCopyComplete"

(* The last write of an export does nothing else. *)
LEMMA EndMoves ==
  ASSUME Control, Resource, [Next]_vars, ~Terminal(cr),
         cr'.state \in {StateCanceled, StateVeleroFailed}
  PROVE  /\ UNCHANGED <<clusterVars, historyVars>>
         /\ cr'.state = StateVeleroFailed => cr'.phase = "WaitFileSystemCopyComplete"
<1> DEFINE Ends == {StateCanceled, StateVeleroFailed}
<1>1. StepKind
  BY StepKinds DEF Resource
<1>2. mem \in Resources /\ cr \in Resources /\ cr.state \notin Ends
      /\ (pc # "idle" => ~Terminal(mem) /\ mem.state \notin Ends)
  BY DEF Control, ControlTypeOK, Coherent, Terminal
<1>3. ASSUME NEW c, Written(c), c.state \notin Ends PROVE FALSE
  <2>1. (fresh /\ cr' = c) \/ cr' = cr
    BY <1>3, WriteHolds DEF Written
  <2> QED BY <1>2, <1>3, <2>1
<1>4. pc # "idle" => /\ Succeeded(mem).state \notin Ends
                     /\ FailedOn(mem).state \notin Ends
  BY <1>2, UpdatesAreMild, StatesAre
<1>5. CASE Advancing
  <2>1. pc # "idle"
    BY <1>5 DEF Advancing, HandlerDone
  <2> QED BY <1>3, <1>4, <1>5, <2>1, WritesAre DEF Resource
<1>6. CASE Forgetting
  BY <1>2, <1>3, <1>4, <1>6, ForgettingIs
<1>7. CASE Failing
  <2>1. pc # "idle"
    BY <1>7 DEF Failing
  <2> QED BY <1>3, <1>4, <1>7, <2>1, WritesAre DEF Resource
<1>8. CASE Saving
  <2>1. pc # "idle" /\ cr'.state = mem.state
    BY <1>8, SavesIs DEF Saving, At
  <2> QED BY <1>2, <2>1
<1>9. CASE CheckPvcReadyForgets
  <2>1. pc # "idle" /\ cr' = Succeeded(FailedOn(mem)) /\ cr'.state # StateCanceled
        /\ FailedOn(mem) \in Resources
    BY <1>9, TwoUpdatesAre
  <2>2. FailedOn(mem).state # StateVeleroFailed
    BY <1>4, <2>1
  <2> QED BY <2>1, <2>2, UpdatesAreMild
<1>10. CASE Cancel
  <2>1. UNCHANGED <<clusterVars, historyVars>>
    BY <1>10 DEF Cancel
  <2>2. CASE pc = "timeout" /\ Written([mem EXCEPT !.state = StateCanceled])
    <3> DEFINE c == [mem EXCEPT !.state = StateCanceled]
    <3>1. c.state = StateCanceled
      BY <1>2, LastWritesAre
    <3> HIDE DEF c
    <3>2. (fresh /\ cr' = c) \/ cr' = cr
      BY <2>2, WriteHolds DEF Written, c
    <3>3. cr'.state # StateVeleroFailed
      BY <1>2, <3>1, <3>2 DEF StateCanceled, StateVeleroFailed
    <3> QED BY <2>1, <3>3
  <2>3. CASE pc = "abort" /\ Written(VeleroFailedOn(mem))
    <3> DEFINE c == VeleroFailedOn(mem)
    <3>1. c.phase = mem.phase
      BY <1>2, LastWritesAre
    <3> HIDE DEF c
    <3>2. (fresh /\ cr' = c) \/ cr' = cr
      BY <2>3, WriteHolds DEF Written, c
    <3>3. mem.phase = "WaitFileSystemCopyComplete"
      BY <2>3 DEF Resource, SavedPhases
    <3> QED BY <1>2, <2>1, <3>1, <3>2, <3>3
  <2> QED BY <1>10, <2>2, <2>3, WritesAre DEF Resource
<1>11. CASE TimePasses
  BY <1>2, <1>11, AgedIs DEF TimePasses
<1>12. CASE Requeueing \/ Continuing \/ Begin \/ BeginTimeout \/ CacheSync \/ UserTouch
            \/ Crash \/ Resting
  BY <1>2, <1>12 DEF Requeueing, Requeue, Continuing, Begin, BeginTimeout, CacheSync,
     UserTouch, Crash, Resting, resourceVars
<1> QED
  BY <1>1, <1>5, <1>6, <1>7, <1>8, <1>9, <1>10, <1>11, <1>12 DEF StepKind

LEMMA FailedLastStep == Control /\ Resource /\ FailedLast /\ [Next]_vars => FailedLast'
<1> SUFFICES ASSUME Control, Resource, FailedLast, [Next]_vars, cr'.state = StateVeleroFailed
             PROVE  cr'.phase = "WaitFileSystemCopyComplete"
  BY DEF FailedLast
<1>1. CASE Terminal(cr)
  <2>1. cr' \in {cr, Aged(cr)} /\ cr \in Resources
    BY <1>1, ControlStep DEF StepOK, Final, Control, ControlTypeOK
  <2> QED BY <2>1, AgedIs DEF FailedLast
<1>2. CASE ~Terminal(cr)
  BY <1>2, EndMoves
<1> QED BY <1>1, <1>2

(* How far an export is for those who wait for it. *)
Status(c) ==
  IF StageOf(c) \in {"queued", "running"} THEN "open"
  ELSE IF StageOf(c) = "completed" THEN "completed" ELSE "ended"

LEMMA StatusIs ==
  ASSUME NEW c \in Resources
  PROVE  /\ Status(c) = "open" <=> ~Terminal(c)
         /\ Status(c) \in {"open", "completed", "ended"}
         /\ Status(c) = "completed" => c.phase = PhaseCompleted
         /\ Status(c) = "ended" => c.state \in {StateCanceled, StateVeleroFailed}
         /\ Status(Aged(c)) = Status(c)
<1>1. Aged(c).phase = c.phase /\ Aged(c).state = c.state
  BY AgedIs
<1> QED BY <1>1 DEF Status, StageOf, Terminal

(* An export ends in a step of its own, and completes only with every      *)
(* snapshot back, but for those that went astray.                          *)
LEMMA StatusMoves ==
  ASSUME Invariant, [Next]_vars
  PROVE  \/ Status(cr') = Status(cr)
         \/ /\ Status(cr) = "open" /\ UNCHANGED <<clusterVars, historyVars>>
            /\ \/ Status(cr') = "ended"
               \/ /\ Status(cr') = "completed"
                  /\ \A v \in Volumes \ swallowed : snap[v].ref = "orig"
<1>1. /\ Control /\ Resource /\ cr \in Resources /\ cr' \in Resources /\ Final
  BY Beginning, ControlStep DEF StepOK, Control, ControlTypeOK
<1>2. CASE Terminal(cr)
  BY <1>1, <1>2, StatusIs DEF Final
<1>3. CASE ~Terminal(cr)
  <2>1. Status(cr) = "open"
    BY <1>1, <1>3, StatusIs
  <2>2. CASE Status(cr') = "ended"
    BY <1>1, <1>3, <2>1, <2>2, StatusIs, EndMoves
  <2>3. CASE Status(cr') = "completed"
    <3>1. cr'.phase = PhaseCompleted /\ cr.phase # PhaseCompleted
      BY <1>1, <1>3, <2>3, StatusIs DEF Terminal
    <3>2. cr.phase \in ExportPhases /\ PhaseCompleted \in ExportPhases
      BY <1>1, <3>1 DEF Resources
    <3>3. Rank(cr.phase) \in 1..28 /\ Rank(cr'.phase) = 29
      BY <1>1, <3>1, <3>2, RankTyped, RankTable
    <3>4. "CleanUp" \in ExportPhases \ {"Precheck", "WaitFileSystemCopyComplete"}
      BY StopsAre
    <3>5. /\ fresh /\ mem.phase = "CleanUp" /\ HandlerDone
          /\ UNCHANGED <<clusterVars, historyVars>>
      BY <1>1, <3>3, <3>4, RankTable, Crossing
    <3>6. Rank(cr.phase) >= 27
      BY <1>1, <3>5, Windows DEF HandlerDone
    <3>7. \A v \in Volumes : snap[v].ref = "orig" \/ v \in swallowed
      BY <3>3, <3>6, RankTable DEF Invariant, Always, ContentOf, Reached
    <3> QED BY <2>1, <2>3, <3>5, <3>7
  <2> QED BY <1>1, <2>1, <2>2, <2>3, StatusIs
<1> QED BY <1>2, <1>3

(* Contents move one at a time, but those that are lost. *)
LEMMA RefMoves ==
  ASSUME ClusterTypeOK, Control, ClusterMove
  PROVE  \/ \A v \in Volumes : snap'[v].ref = snap[v].ref
         \/ \E v \in Volumes :
               /\ At("UpdateSnapshotContent") \/ At("UpdateSnapshotContentBack")
               /\ snap[v].ref # "lost" /\ snap'[v].ref \in {"orig", "temp"}
               /\ \A u \in Volumes \ {v} : snap'[u].ref = snap[u].ref
         \/ \A v \in Volumes :
               \/ snap'[v].ref = snap[v].ref
               \/ /\ At("DeleteVolumeSnapshot") \/ temp[NsOf[v]] = "terminating"
                  /\ snap[v].ref = "temp" /\ snap'[v].ref = "lost"
<1>1. snap \in [Volumes -> Snapshots] /\ \A v \in Volumes : snap[v] \in Snapshots
  BY DEF ClusterTypeOK
<1>2. CASE At("UpdateSnapshotContent") \/ At("UpdateSnapshotContentBack")
  <2>1. ASSUME NEW i, NEW recover \in BOOLEAN,
               \/ UpdateContent(i, recover) \/ UpdateContentRef(i, recover)
               \/ UpdateContentSwallowed(i, recover),
               i \in todo
        PROVE  \E v \in Volumes :
                 /\ snap[v].ref # "lost"
                 /\ snap'[v].ref \in {"orig", "temp"}
                 /\ \A u \in Volumes \ {v} : snap'[u].ref = snap[u].ref
    <3>1. i \in Volumes
      <4>1. mem.phase \in VolumePhases \ NamespacePhases /\ pc = "phase"
        BY <1>2 DEF At, VolumePhases, NamespacePhases
      <4>2. i \in Items(mem)
        BY <2>1, <4>1 DEF Control, Coherent
      <4> QED BY <4>1, <4>2 DEF Items, Annotated
    <3>2. snap[i].ref # "lost" /\ snap'[i].ref \in {"orig", "temp"}
      BY <1>1, <2>1, <3>1 DEF UpdateContent, UpdateContentRef, UpdateContentSwallowed,
         CannotUpdateContent, Snapshots
    <3>3. \A u \in Volumes \ {i} : snap'[u].ref = snap[u].ref
      BY <1>1, <2>1, <3>1 DEF UpdateContent, UpdateContentRef, UpdateContentSwallowed
    <3> QED BY <3>1, <3>2, <3>3
  <2>2. ASSUME NEW i, Called(i) PROVE i \in todo /\ \E recover \in BOOLEAN : UpdateContent(i, recover)
    BY <1>2, <2>2, CalledAt DEF At, Called
  <2>3. ASSUME NEW i, CalledInPart(i)
        PROVE  /\ i \in todo
               /\ \E recover \in BOOLEAN :
                    UpdateContentRef(i, recover) \/ UpdateContentSwallowed(i, recover)
    BY <2>3 DEF CalledInPart
  <2>4. CASE \E i : Called(i) \/ CalledInPart(i)
    BY <1>2, <2>1, <2>2, <2>3, <2>4
  <2>5. CASE ~ \E i : Called(i) \/ CalledInPart(i)
    <3>1. ASSUME NEW v \in Volumes
          PROVE  \/ snap'[v].ref = snap[v].ref
                 \/ snap'[v] = WithoutSnapshot(snap[v]) /\ temp[NsOf[v]] = "terminating"
      <4>1. CASE Environment
        <5>1. ASSUME NEW w, SnapshotReady(w) PROVE snap'[v].ref = snap[v].ref
          BY <1>1, <5>1 DEF SnapshotReady
        <5>2. ASSUME NEW n, NsGone(n)
              PROVE  \/ snap'[v].ref = snap[v].ref
                     \/ snap'[v] = WithoutSnapshot(snap[v]) /\ temp[NsOf[v]] = "terminating"
          BY <5>2 DEF NsGone
        <5> QED BY <4>1, <5>1, <5>2 DEF Environment, Provision, Bind, Fill, PvcGone, PodRuns,
                PodGone, OldNsGone, VeleroFinishes
      <4> QED BY <2>5, <4>1 DEF ClusterMove, clusterVars, CleansUp, AsyncDeleteNamespace,
              ClearPV, EnsureVeleroBackup
    <3>2. \A v \in Volumes : \/ WithoutSnapshot(snap[v]).ref = snap[v].ref
                             \/ snap[v].ref = "temp" /\ WithoutSnapshot(snap[v]).ref = "lost"
      BY <1>1 DEF WithoutSnapshot, Snapshots
    <3> QED BY <3>1, <3>2
  <2> QED BY <2>4, <2>5
<1>3. CASE ~(At("UpdateSnapshotContent") \/ At("UpdateSnapshotContentBack"))
  <2>1. ASSUME NEW v \in Volumes
        PROVE  \/ snap'[v].ref = snap[v].ref
               \/ /\ At("DeleteVolumeSnapshot") \/ temp[NsOf[v]] = "terminating"
                  /\ snap'[v] = WithoutSnapshot(snap[v])
    BY <1>3, SnapMoves
  <2>2. \A v \in Volumes : \/ WithoutSnapshot(snap[v]).ref = snap[v].ref
                           \/ snap[v].ref = "temp" /\ WithoutSnapshot(snap[v]).ref = "lost"
    BY <1>1 DEF WithoutSnapshot, Snapshots
  <2> QED BY <2>1, <2>2
<1> QED BY <1>2, <1>3

(* A content goes astray in one step, in which none moves. *)
LEMMA StrayMoves ==
  ASSUME ClusterTypeOK, [Next]_vars
  PROVE  \/ swallowed' = swallowed
         \/ \E v \in todo :
               /\ At("UpdateSnapshotContent") \/ At("UpdateSnapshotContentBack")
               /\ swallowed' = swallowed \union {v} /\ UNCHANGED <<cr, cleanedFrom>>
               /\ \A u \in Volumes : snap'[u].ref = snap[u].ref
<1>1. CASE LoopStep
  <2>1. PICK i \in todo :
          \/ CallSucceeds(i) \/ CallRefused(i) \/ CallFaults(i) \/ CallLags(i)
          \/ DeleteConflicts(i) \/ ContentConflicts(i) \/ RetrySwallowed(i)
    BY <1>1 DEF LoopStep
  <2>2. CASE RetrySwallowed(i)
    <3>1. snap \in [Volumes -> Snapshots]
      BY DEF ClusterTypeOK
    <3>2. \A u \in Volumes : snap'[u].ref = snap[u].ref
      BY <2>2, <3>1 DEF RetrySwallowed, UpdateContentSwallowed, Snapshots
    <3> QED BY <2>2, <3>2 DEF RetrySwallowed, resourceVars
  <2> QED BY <2>1, <2>2 DEF CallSucceeds, CallRefused, CallFaults, CallLags, DeleteConflicts,
          ContentConflicts, Fail, Requeue, historyVars
<1>2. CASE SaveStep
  BY <1>2 DEF SaveStep, SaveSnapshots, CheckPvcReady, CheckPvcReadyForgets,
     StartFileSystemCopy, SaveLabel, Save, Requeue, Fail, historyVars
<1>3. CASE PollStep \/ LoopDone \/ WaitFileSystemCopyComplete
  BY <1>3 DEF PollStep, Created, Precheck, WaitPrepareComplete, CheckSnapshotReady,
     WaitPvcPodRunning, EnsurePvcPodCleaned, EnsurePvcsDeleted, EnsureRecreatePvcReady,
     WaitStagePodRunning, ReadFaults, ReadLags, Poll, LoopDone, WaitFileSystemCopyComplete,
     Advance, AdvanceForgets, Fail, Requeue, historyVars
<1>4. CASE CleanUpStep
  BY <1>4 DEF CleanUpStep, CleanUpNamespace, CleanUpConflicts, CleanUpVolume, Cancel,
     Requeue, historyVars
<1>5. CASE Begin \/ BeginTimeout \/ ReconcileTerminal \/ Unreachable \/ EnvironmentStep
           \/ CacheSync \/ UserTouch \/ Crash \/ TimePasses \/ UNCHANGED vars
  BY <1>5 DEF Begin, BeginTimeout, ReconcileTerminal, Unreachable, EnvironmentStep,
     CacheSync, UserTouch, Crash, TimePasses, Requeue, vars, historyVars
<1> QED BY <1>1, <1>2, <1>3, <1>4, <1>5 DEF Next, Worker

(* The custody, as the mapping of KeepsCustody sees the snapshots. *)
HolderIn(s) ==
  [v \in Volumes |-> CASE s[v].ref = "orig" -> "backup"
                       [] s[v].ref = "temp" -> "export"
                       [] s[v].ref = "lost" -> "nobody"]

GaveUp(phase) == phase # "none"

SameCustody(same) ==
  /\ "holder" \in same => HolderIn(snap') = HolderIn(snap)
  /\ "status" \in same => Status(cr') = Status(cr)
  /\ "givenUp" \in same => GaveUp(cleanedFrom') = GaveUp(cleanedFrom)
  /\ "astray" \in same => swallowed' = swallowed

LEMMA CustodyStutters ==
  ASSUME SameCustody({"holder", "status", "givenUp", "astray"})
  PROVE  [Custody!Next]_(Custody!custody)
<1>1. /\ HolderIn(snap') = HolderIn(snap) /\ Status(cr') = Status(cr)
      /\ GaveUp(cleanedFrom') = GaveUp(cleanedFrom) /\ swallowed' = swallowed
  BY DEF SameCustody
<1> QED BY <1>1, Zenon DEF Custody!custody, HolderIn, Status, GaveUp

LEMMA BorrowIs ==
  ASSUME NEW v \in Volumes, Status(cr) = "open", HolderIn(snap)[v] = "backup",
         HolderIn(snap') = [HolderIn(snap) EXCEPT ![v] = "export"],
         SameCustody({"status", "givenUp", "astray"})
  PROVE  Custody!Next
<1>1. /\ Status(cr') = Status(cr)
      /\ GaveUp(cleanedFrom') = GaveUp(cleanedFrom) /\ swallowed' = swallowed
  BY DEF SameCustody
<1>2. Custody!Borrow(v)
  BY <1>1, Zenon DEF Custody!Borrow, HolderIn, Status, GaveUp
<1> QED BY <1>2, Zenon DEF Custody!Next

LEMMA GiveBackIs ==
  ASSUME NEW v \in Volumes, Status(cr) = "open", HolderIn(snap)[v] = "export",
         HolderIn(snap') = [HolderIn(snap) EXCEPT ![v] = "backup"],
         SameCustody({"status", "givenUp", "astray"})
  PROVE  Custody!Next
<1>1. /\ Status(cr') = Status(cr)
      /\ GaveUp(cleanedFrom') = GaveUp(cleanedFrom) /\ swallowed' = swallowed
  BY DEF SameCustody
<1>2. Custody!GiveBack(v)
  BY <1>1, Zenon DEF Custody!GiveBack, HolderIn, Status, GaveUp
<1> QED BY <1>2, Zenon DEF Custody!Next

LEMMA MislayIs ==
  ASSUME NEW v \in Volumes, Status(cr) = "open", swallowed' = swallowed \union {v},
         SameCustody({"holder", "status", "givenUp"})
  PROVE  Custody!Next
<1>1. /\ HolderIn(snap') = HolderIn(snap) /\ Status(cr') = Status(cr)
      /\ GaveUp(cleanedFrom') = GaveUp(cleanedFrom)
  BY DEF SameCustody
<1>2. Custody!Mislay(v)
  BY <1>1, Zenon DEF Custody!Mislay, HolderIn, Status, GaveUp
<1> QED BY <1>2, Zenon DEF Custody!Next

LEMMA CompleteIs ==
  ASSUME Status(cr) = "open", Status(cr') = "completed",
         \A v \in Volumes \ swallowed : HolderIn(snap)[v] = "backup",
         SameCustody({"holder", "givenUp", "astray"})
  PROVE  Custody!Next
<1>1. /\ HolderIn(snap') = HolderIn(snap)
      /\ GaveUp(cleanedFrom') = GaveUp(cleanedFrom) /\ swallowed' = swallowed
  BY DEF SameCustody
<1>2. Custody!Complete
  BY <1>1, Zenon DEF Custody!Complete, HolderIn, Status, GaveUp
<1> QED BY <1>2, Zenon DEF Custody!Next

LEMMA EndIs ==
  ASSUME Status(cr) = "open", Status(cr') = "ended",
         SameCustody({"holder", "givenUp", "astray"})
  PROVE  Custody!Next
<1>1. /\ HolderIn(snap') = HolderIn(snap)
      /\ GaveUp(cleanedFrom') = GaveUp(cleanedFrom) /\ swallowed' = swallowed
  BY DEF SameCustody
<1>2. Custody!End
  BY <1>1, Zenon DEF Custody!End, HolderIn, Status, GaveUp
<1> QED BY <1>2, Zenon DEF Custody!Next

LEMMA LoseIs ==
  ASSUME NEW S \in SUBSET Volumes, S # {},
         \A v \in S : HolderIn(snap)[v] = "export" /\ (GaveUp(cleanedFrom) \/ v \in swallowed),
         HolderIn(snap') = [v \in Volumes |-> IF v \in S THEN "nobody" ELSE HolderIn(snap)[v]],
         SameCustody({"status", "givenUp", "astray"})
  PROVE  Custody!Next
<1>1. /\ Status(cr') = Status(cr)
      /\ GaveUp(cleanedFrom') = GaveUp(cleanedFrom) /\ swallowed' = swallowed
  BY DEF SameCustody
<1>2. Custody!Lose(S)
  BY <1>1, Zenon DEF Custody!Lose, HolderIn, Status, GaveUp
<1> QED BY <1>2, Zenon DEF Custody!Next

LEMMA GiveUpIs ==
  ASSUME GaveUp(cleanedFrom') = TRUE, SameCustody({"holder", "status", "astray"})
  PROVE  Custody!Next
<1>1. /\ HolderIn(snap') = HolderIn(snap) /\ Status(cr') = Status(cr)
      /\ swallowed' = swallowed
  BY DEF SameCustody
<1>2. Custody!GiveUp
  BY <1>1, Zenon DEF Custody!GiveUp, HolderIn, Status, GaveUp
<1> QED BY <1>2, Zenon DEF Custody!Next

LEMMA HolderInIs ==
  ASSUME NEW s \in [Volumes -> Snapshots]
  PROVE  /\ HolderIn(s) \in [Volumes -> {"backup", "export", "nobody"}]
         /\ \A v \in Volumes : /\ s[v].ref = "orig" <=> HolderIn(s)[v] = "backup"
                               /\ s[v].ref = "temp" <=> HolderIn(s)[v] = "export"
                               /\ s[v].ref = "lost" <=> HolderIn(s)[v] = "nobody"
<1>1. \A v \in Volumes : s[v].ref \in {"orig", "temp", "lost"}
  BY DEF Snapshots
<1>2. ASSUME NEW v \in Volumes
      PROVE  HolderIn(s)[v] = CASE s[v].ref = "orig" -> "backup"
                                [] s[v].ref = "temp" -> "export"
                                [] s[v].ref = "lost" -> "nobody"
  BY DEF HolderIn
<1>3. ASSUME NEW v \in Volumes
      PROVE  /\ s[v].ref = "orig" => HolderIn(s)[v] = "backup"
             /\ s[v].ref = "temp" => HolderIn(s)[v] = "export"
             /\ s[v].ref = "lost" => HolderIn(s)[v] = "nobody"
  BY <1>2
<1>4. \A v \in Volumes : HolderIn(s)[v] \in {"backup", "export", "nobody"}
  BY <1>1, <1>3
<1>5. ASSUME NEW v \in Volumes
      PROVE  (CASE s[v].ref = "orig" -> "backup"
                [] s[v].ref = "temp" -> "export"
                [] s[v].ref = "lost" -> "nobody") \in {"backup", "export", "nobody"}
  BY <1>2, <1>4
<1>6. HolderIn(s) \in [Volumes -> {"backup", "export", "nobody"}]
  BY <1>5, Zenon DEF HolderIn
<1>7. \A v \in Volumes : /\ s[v].ref = "orig" <=> HolderIn(s)[v] = "backup"
                         /\ s[v].ref = "temp" <=> HolderIn(s)[v] = "export"
                         /\ s[v].ref = "lost" <=> HolderIn(s)[v] = "nobody"
  BY <1>1, <1>3
<1> QED BY <1>6, <1>7

LEMMA HolderKept ==
  ASSUME ClusterTypeOK, ClusterTypeOK',
         \A v \in Volumes : snap'[v].ref = snap[v].ref
  PROVE  HolderIn(snap') = HolderIn(snap)
<1> DEFINE h == HolderIn(snap)
           g == HolderIn(snap')
<1>1. snap \in [Volumes -> Snapshots] /\ snap' \in [Volumes -> Snapshots]
  BY DEF ClusterTypeOK
<1>2. /\ h \in [Volumes -> {"backup", "export", "nobody"}]
      /\ \A u \in Volumes : /\ snap[u].ref = "orig" <=> h[u] = "backup"
                            /\ snap[u].ref = "temp" <=> h[u] = "export"
                            /\ snap[u].ref = "lost" <=> h[u] = "nobody"
  BY <1>1, HolderInIs
<1>3. /\ g \in [Volumes -> {"backup", "export", "nobody"}]
      /\ \A u \in Volumes : /\ snap'[u].ref = "orig" <=> g[u] = "backup"
                            /\ snap'[u].ref = "temp" <=> g[u] = "export"
                            /\ snap'[u].ref = "lost" <=> g[u] = "nobody"
  BY <1>1, HolderInIs
<1> HIDE DEF h, g
<1>4. \A u \in Volumes : g[u] = h[u]
  BY <1>2, <1>3
<1>5. g = h
  BY <1>2, <1>3, <1>4
<1> QED BY <1>5 DEF h, g

(* One update of a content is a step of the custody, ... *)
LEMMA BorrowOrGiveBack ==
  ASSUME ClusterTypeOK, ClusterTypeOK', NEW v \in Volumes,
         snap[v].ref # "lost", snap'[v].ref \in {"orig", "temp"},
         \A u \in Volumes \ {v} : snap'[u].ref = snap[u].ref,
         Status(cr) = "open", Status(cr') = "open",
         UNCHANGED <<cleanedFrom, swallowed>>
  PROVE  [Custody!Next]_(Custody!custody)
<1> DEFINE h == HolderIn(snap)
           g == HolderIn(snap')
<1>1. /\ snap \in [Volumes -> Snapshots] /\ snap' \in [Volumes -> Snapshots]
      /\ snap[v].ref \in {"orig", "temp"}
  BY DEF ClusterTypeOK, Snapshots
<1>2. /\ h \in [Volumes -> {"backup", "export", "nobody"}]
      /\ \A u \in Volumes : /\ snap[u].ref = "orig" <=> h[u] = "backup"
                            /\ snap[u].ref = "temp" <=> h[u] = "export"
                            /\ snap[u].ref = "lost" <=> h[u] = "nobody"
  BY <1>1, HolderInIs
<1>3. /\ g \in [Volumes -> {"backup", "export", "nobody"}]
      /\ \A u \in Volumes : /\ snap'[u].ref = "orig" <=> g[u] = "backup"
                            /\ snap'[u].ref = "temp" <=> g[u] = "export"
                            /\ snap'[u].ref = "lost" <=> g[u] = "nobody"
  BY <1>1, HolderInIs
<1>4. SameCustody({"status", "givenUp", "astray"})
  BY DEF SameCustody, GaveUp
<1> HIDE DEF h, g
<1>5. \A u \in Volumes \ {v} : g[u] = h[u]
  BY <1>2, <1>3
<1>6. CASE snap'[v].ref = snap[v].ref
  <2>1. HolderIn(snap') = HolderIn(snap)
    BY <1>6, HolderKept
  <2>2. SameCustody({"holder", "status", "givenUp", "astray"})
    BY <1>4, <2>1 DEF SameCustody
  <2> QED BY <2>2, CustodyStutters
<1>7. CASE snap[v].ref = "orig" /\ snap'[v].ref = "temp"
  <2>1. h[v] = "backup" /\ g = [h EXCEPT ![v] = "export"]
    BY <1>2, <1>3, <1>5, <1>7
  <2>2. Custody!Next
    BY <1>4, <2>1, BorrowIs DEF h, g
  <2> QED BY <2>2
<1>8. CASE snap[v].ref = "temp" /\ snap'[v].ref = "orig"
  <2>1. h[v] = "export" /\ g = [h EXCEPT ![v] = "backup"]
    BY <1>2, <1>3, <1>5, <1>8
  <2>2. Custody!Next
    BY <1>4, <2>1, GiveBackIs DEF h, g
  <2> QED BY <2>2
<1> QED BY <1>1, <1>6, <1>7, <1>8

(* ... and so is the loss of some. *)
LEMMA Losing ==
  ASSUME ClusterTypeOK, ClusterTypeOK',
         \A v \in Volumes :
            \/ snap'[v].ref = snap[v].ref
            \/ /\ cleanedFrom # "none" \/ v \in swallowed
               /\ snap[v].ref = "temp" /\ snap'[v].ref = "lost",
         Status(cr') = Status(cr), UNCHANGED <<cleanedFrom, swallowed>>
  PROVE  [Custody!Next]_(Custody!custody)
<1> DEFINE S == {v \in Volumes : snap'[v].ref # snap[v].ref}
           h == HolderIn(snap)
           g == HolderIn(snap')
<1>1. snap \in [Volumes -> Snapshots] /\ snap' \in [Volumes -> Snapshots]
  BY DEF ClusterTypeOK
<1>2. /\ h \in [Volumes -> {"backup", "export", "nobody"}]
      /\ \A u \in Volumes : /\ snap[u].ref = "orig" <=> h[u] = "backup"
                            /\ snap[u].ref = "temp" <=> h[u] = "export"
                            /\ snap[u].ref = "lost" <=> h[u] = "nobody"
  BY <1>1, HolderInIs
<1>3. /\ g \in [Volumes -> {"backup", "export", "nobody"}]
      /\ \A u \in Volumes : /\ snap'[u].ref = "orig" <=> g[u] = "backup"
                            /\ snap'[u].ref = "temp" <=> g[u] = "export"
                            /\ snap'[u].ref = "lost" <=> g[u] = "nobody"
  BY <1>1, HolderInIs
<1>4. SameCustody({"status", "givenUp", "astray"})
  BY DEF SameCustody, GaveUp
<1>5. CASE S = {}
  <2>1. \A v \in Volumes : snap'[v].ref = snap[v].ref
    BY <1>5
  <2>2. HolderIn(snap') = HolderIn(snap)
    BY <2>1, HolderKept
  <2>3. SameCustody({"holder", "status", "givenUp", "astray"})
    BY <1>4, <2>2 DEF SameCustody
  <2> QED BY <2>3, CustodyStutters
<1>6. CASE S # {}
  <2>1. S \in SUBSET Volumes
    OBVIOUS
  <2> HIDE DEF h, g
  <2>2. \A v \in S : /\ h[v] = "export" /\ g[v] = "nobody"
                    /\ (cleanedFrom # "none" \/ v \in swallowed)
    BY <1>2, <1>3
  <2>3. \A v \in Volumes \ S : g[v] = h[v]
    BY <1>2, <1>3
  <2> HIDE DEF S
  <2>4. g = [v \in Volumes |-> IF v \in S THEN "nobody" ELSE h[v]]
    BY <1>2, <1>3, <2>1, <2>2, <2>3
  <2>5. \A v \in S : h[v] = "export" /\ (GaveUp(cleanedFrom) \/ v \in swallowed)
    BY <2>2 DEF GaveUp
  <2>6. Custody!Next
    BY <1>4, <1>6, <2>1, <2>4, <2>5, LoseIs DEF h, g
  <2> QED BY <2>6
<1> QED BY <1>5, <1>6

LEMMA CustodyStep ==
  ASSUME Invariant, FailedLast, [Next]_vars
  PROVE  [Custody!Next]_(Custody!custody)
<1>1. /\ ClusterTypeOK /\ ClusterTypeOK' /\ Control /\ Resource /\ ClusterMove /\ cr \in Resources
      /\ Rank(cr.phase) \in 1..29 /\ swallowed' \in SUBSET Volumes
  BY Beginning, ControlStep, InvariantStep DEF Invariant, StepOK, Control, ControlTypeOK
<1>2. At("UpdateSnapshotContent") \/ At("UpdateSnapshotContentBack") => Status(cr) = "open"
  <2> SUFFICES ASSUME At("UpdateSnapshotContent") \/ At("UpdateSnapshotContentBack")
               PROVE  ~Terminal(cr)
    BY <1>1, StatusIs
  <2>1. Rank(cr.phase) \in 7..25
    BY <1>1, Windows DEF At
  <2>2. cr.phase # PhaseCompleted /\ cr.phase # "WaitFileSystemCopyComplete"
    BY <2>1, RankTable
  <2>3. cr.state # StateCanceled
    BY <1>1, WorkGivesUp DEF At
  <2> QED BY <2>2, <2>3 DEF FailedLast, Terminal
<1>3. CASE /\ \A v \in Volumes : snap'[v].ref = snap[v].ref
           /\ UNCHANGED swallowed
  <2> DEFINE same == HolderIn(snap') = HolderIn(snap) /\ swallowed' = swallowed
  <2>5. same
    BY <1>1, <1>3, HolderKept
  <2> HIDE DEF same
  <2>1. CASE Status(cr') = Status(cr) /\ cleanedFrom' = cleanedFrom
    <3>1. SameCustody({"holder", "status", "givenUp", "astray"})
      BY <2>1, <2>5 DEF same, SameCustody, GaveUp
    <3> QED BY <3>1, CustodyStutters
  <2>2. CASE cleanedFrom' # cleanedFrom
    <3>1. cleanedFrom = "none" /\ cr' = cr
      BY <1>1, <2>2, HistoryMoves
    <3>2. GaveUp(cleanedFrom') = TRUE
      BY <2>2, <3>1 DEF GaveUp
    <3>3. SameCustody({"holder", "status", "astray"})
      BY <2>5, <3>1 DEF same, SameCustody
    <3>4. Custody!Next
      BY <3>2, <3>3, GiveUpIs
    <3> QED BY <3>4
  <2>3. CASE Status(cr) = "open" /\ Status(cr') = "ended" /\ UNCHANGED cleanedFrom
    <3>1. SameCustody({"holder", "givenUp", "astray"})
      BY <2>3, <2>5 DEF same, SameCustody, GaveUp
    <3>2. Custody!Next
      BY <2>3, <3>1, EndIs
    <3> QED BY <3>2
  <2>4. CASE /\ Status(cr) = "open" /\ Status(cr') = "completed" /\ UNCHANGED cleanedFrom
             /\ \A v \in Volumes \ swallowed : snap[v].ref = "orig"
    <3>1. SameCustody({"holder", "givenUp", "astray"})
      BY <2>4, <2>5 DEF same, SameCustody, GaveUp
    <3>2. snap \in [Volumes -> Snapshots]
      BY <1>1 DEF ClusterTypeOK
    <3>3. \A v \in Volumes \ swallowed : HolderIn(snap)[v] = "backup"
      BY <2>4, <3>2, HolderInIs
    <3>4. Custody!Next
      BY <2>4, <3>1, <3>3, CompleteIs
    <3> QED BY <3>4
  <2> QED BY <2>1, <2>2, <2>3, <2>4, StatusMoves DEF historyVars
<1>4. CASE swallowed' # swallowed
  <2>1. PICK v \in todo :
          /\ At("UpdateSnapshotContent") \/ At("UpdateSnapshotContentBack")
          /\ swallowed' = swallowed \union {v} /\ UNCHANGED <<cr, cleanedFrom>>
          /\ \A u \in Volumes : snap'[u].ref = snap[u].ref
    BY <1>1, <1>4, StrayMoves
  <2>2. v \in Volumes
    BY <1>1, <2>1
  <2>3. SameCustody({"holder", "status", "givenUp"})
    BY <1>1, <2>1, HolderKept DEF SameCustody
  <2>4. Custody!Next
    BY <1>2, <2>1, <2>2, <2>3, MislayIs
  <2> QED BY <2>4
<1>5. CASE ~(\A v \in Volumes : snap'[v].ref = snap[v].ref) /\ UNCHANGED swallowed
  <2>1. Status(cr') = Status(cr) /\ UNCHANGED <<cleanedFrom, swallowed>>
    BY <1>1, <1>5, StatusMoves, HistoryMoves DEF clusterVars
  <2>2. CASE \E v \in Volumes :
               /\ At("UpdateSnapshotContent") \/ At("UpdateSnapshotContentBack")
               /\ snap[v].ref # "lost" /\ snap'[v].ref \in {"orig", "temp"}
               /\ \A u \in Volumes \ {v} : snap'[u].ref = snap[u].ref
    <3>1. Status(cr) = "open"
      BY <1>2, <2>2
    <3> QED BY <1>1, <2>1, <2>2, <3>1, BorrowOrGiveBack
  <2>3. CASE \A v \in Volumes :
               \/ snap'[v].ref = snap[v].ref
               \/ /\ At("DeleteVolumeSnapshot") \/ temp[NsOf[v]] = "terminating"
                  /\ snap[v].ref = "temp" /\ snap'[v].ref = "lost"
    <3>1. ASSUME NEW v \in Volumes, snap[v].ref = "temp",
                 At("DeleteVolumeSnapshot") \/ temp[NsOf[v]] = "terminating"
          PROVE  cleanedFrom # "none" \/ v \in swallowed
      <4> SUFFICES ASSUME cleanedFrom = "none" PROVE v \in swallowed
        OBVIOUS
      <4>1. At("DeleteVolumeSnapshot") => Rank(cr.phase) \in 23..25
        BY <1>1, Windows DEF At
      <4>2. temp[NsOf[v]] = "terminating" => Rank(cr.phase) >= 26
        <5>1. temp[NsOf[v]] = "terminating" => Finished
          BY ClusterAssumption DEF Invariant, WhileRunning, TempOf
        <5>2. Finished => Rank(cr.phase) >= 26
          BY <1>1, RankTable DEF Invariant, Always, BackupOf, Finished, Reached
        <5> QED BY <5>1, <5>2
      <4>3. Reached("DeleteVolumeSnapshot")
        BY <1>1, <3>1, <4>1, <4>2, RankTable DEF Reached
      <4> QED BY <3>1, <4>3 DEF Invariant, Always, ContentOf
    <3>2. \A v \in Volumes :
             \/ snap'[v].ref = snap[v].ref
             \/ /\ cleanedFrom # "none" \/ v \in swallowed
                /\ snap[v].ref = "temp" /\ snap'[v].ref = "lost"
      BY <2>3, <3>1
    <3> QED BY <1>1, <2>1, <3>2, Losing
  <2> QED BY <1>1, <1>5, <2>2, <2>3, RefMoves
<1> QED BY <1>3, <1>4, <1>5

(* The calls on the cluster keep the promise about the backup's snapshots: *)
(* borrowed only while the export is open, all given back when it          *)
(* completes, and lost only after it gave up or where they went astray.    *)
THEOREM ExportKeepsCustody == Spec => KeepsCustody
<1>1. Init => FailedLast
  BY NewExportIs DEF Init, FailedLast, NewExport, StateNone, StateVeleroFailed
<1>2. Init => Custody!Init
  <2> SUFFICES ASSUME Init PROVE Custody!Init
    OBVIOUS
  <2>1. cr = NewExport /\ NewExport \in Resources /\ ~Terminal(NewExport)
    BY NewExportIs DEF Init
  <2>2. Status(cr) = "open"
    BY <2>1, StatusIs
  <2>3. /\ snap \in [Volumes -> Snapshots]
        /\ \A v \in Volumes : snap[v].ref = "orig"
        /\ cleanedFrom = "none" /\ swallowed = {}
    BY DEF Init, ClusterInit, Snapshots
  <2>4. HolderIn(snap) = [v \in Volumes |-> "backup"]
    BY <2>3, HolderInIs
  <2>5. GaveUp(cleanedFrom) = FALSE
    BY <2>3 DEF GaveUp
  <2> QED BY <2>2, <2>3, <2>4, <2>5, Zenon DEF Custody!Init, HolderIn, Status, GaveUp
<1>3. Invariant /\ FailedLast /\ [Next]_vars =>
        FailedLast' /\ [Custody!Next]_(Custody!custody)
  BY CustodyStep, FailedLastStep DEF Invariant
<1> QED
  BY <1>1, <1>2, <1>3, PhasesKeepTheCluster, PTL DEF Spec, KeepsCustody, Custody!Spec

-----------------------------------------------------------------------------
(* An export that nothing disturbs.                                        *)

(* No call fails, nobody else writes, the controller does not restart, and *)
(* the timeouts do not elapse.  The caches may be old.                     *)
Undisturbed ==
  Timeouts = FALSE /\ MaxFaults = 0 /\ MaxConflicts = 0 /\ MaxCrashes = 0

(* The phases that wait for something by failing, or whose calls an old    *)
(* copy in a cache makes fail, ...                                         *)
Patient ==
  {PhaseCreated, "Precheck", "Prepare", "UpdatePvClaimRetain",
   "UpdatePvClaimRef", "UpdatePvClaimDelete", "CleanUp"} \union WaitingPhases

(* ... and those that accept no work already done. *)
Once == {"CreateVolumeSnapshot", "DeleteVolumeSnapshot"}

Spent == \A what \in Disturbances \ {"lags"} : budget[what] = 0

(* No failure has lasted for too long. *)
Punctual ==
  /\ \A h \in Held \union {cr, mem} : h.since # "old"
  /\ pc # "timeout" /\ cleanedFrom = "none"

Current == fresh => mem = cr

PatientFailures == cr.state = StateFailed => cr.phase \in Patient

(* What is done only once is done in one reconcile, by a worker that can   *)
(* write.                                                                  *)
AtOnce ==
  cr.phase \in Once => fresh /\ mem.phase = cr.phase /\ pc \in {"phase", "saved"}

(* The snapshots a loop has still to create are not there, ... *)
OnceCreated ==
  \A v \in Volumes : snap[v].vs # "absent" =>
    /\ Reached("CreateVolumeSnapshot")
    /\ cr.phase = "CreateVolumeSnapshot" /\ pc = "phase" => v \notin todo

(* ... and those it has still to delete are. *)
OnceDeleted ==
  cr.phase = "DeleteVolumeSnapshot" =>
    \A v \in Volumes : v \in todo => snap[v].vs # "absent"

(* The names of all the PVs are recorded when the PVCs are bound. *)
Named ==
  Reached("CleanPvcPod") \/ (pc = "saved" /\ fresh /\ mem.phase = "CheckPvcReady")
    => \A n \in Namespaces : cr.ann[n] # "vs"

Calm ==
  /\ Spent /\ Punctual /\ Current /\ PatientFailures /\ AtOnce
  /\ OnceCreated /\ OnceDeleted /\ Named

Advances ==
  /\ pc # "idle" /\ Advance /\ UNCHANGED clusterVars /\ HandlerDone
  /\ mem.phase = "CheckPvcReady" => pc = "saved"

Fails ==
  /\ pc # "idle" /\ Fail /\ UNCHANGED clusterVars
  /\ fresh => mem.phase \in Patient

(* An update of a content that conflicts has written its reference. *)
HalfUpdated ==
  At("UpdateSnapshotContent") /\ \E i : UpdateContentRef(i, FALSE)

Requeues ==
  /\ pc # "idle" /\ Requeue
  /\ UNCHANGED clusterVars \/ HalfUpdated
  /\ fresh => mem.phase \notin Once

(* All that can happen then. *)
CalmMove ==
  \/ Advances \/ Fails \/ Requeues \/ Saving \/ Continuing
  \/ Cancel \/ Begin \/ CacheSync \/ Resting

LEMMA NotSpent ==
  Spent => ~Spend("faults") /\ ~Spend("conflicts") /\ ~Spend("crashes")
BY DEF Spent, Spend, Disturbances

(* What a worker that can write is not refused. *)
LEMMA NotRefused ==
  ASSUME Invariant, Calm, NEW i \in todo, fresh
  PROVE  ~Refused(i)
<1>1. ClusterTypeOK /\ Control /\ Resource /\ Always /\ WhileRunning /\ cleanedFrom = "none"
      /\ mem = cr
  BY DEF Invariant, Calm, Punctual, Current
<1>2. Rank(cr.phase) \in 1..29
  BY <1>1, NowTyped
<1>3. Finished => 26 <= Rank(cr.phase)
  BY <1>1, RankTable DEF Always, BackupOf, Finished, Reached
<1>4. pc = "phase" => i \in Items(mem)
  BY <1>1 DEF Control, Coherent
<1>5. CASE At("CreateVolumeSnapshot") /\ CannotCreateSnapshot(i)
  <2>1. i \in Volumes /\ NsOf[i] \in Namespaces
    BY <1>4, <1>5, ClusterAssumption DEF Items, At, NamespacePhases
  <2>2. snap[i].vs = "absent"
    BY <1>1, <1>5, <2>1 DEF Calm, OnceCreated, At
  <2>3. temp[NsOf[i]] = "active" \/ Finished
    BY <1>1, <1>5, <2>1, <1>2, RankTable DEF WhileRunning, TempOf, Reached, At
  <2>4. ~Finished
    BY <1>1, <1>3, <1>5, RankTable DEF At
  <2> QED BY <1>5, <2>2, <2>3, <2>4 DEF CannotCreateSnapshot
<1>6. CASE At("DeleteVolumeSnapshot") /\ CannotDeleteSnapshot(i)
  <2>1. i \in Volumes
    BY <1>4, <1>6 DEF Items, At, NamespacePhases, Annotated, VolumePhases
  <2> QED BY <1>1, <1>6, <2>1 DEF Calm, OnceDeleted, At, CannotDeleteSnapshot
<1>7. CASE (At("RecreatePvc") \/ At("UpdatePvClaimRef")) /\ mem.ann[NsOf[i]] = "vs"
  <2>1. i \in Volumes /\ NsOf[i] \in Namespaces
    BY <1>4, <1>7, ClusterAssumption DEF Items, At, NamespacePhases, Annotated, VolumePhases
  <2> QED BY <1>1, <1>7, <2>1, RankTable DEF Calm, Named, Reached, At
<1> SUFFICES ASSUME Refused(i) PROVE FALSE
  OBVIOUS
<1>8. \/ mem.phase \in {"CreateVolumeSnapshot", "DeleteVolumeSnapshot"}
      \/ mem.phase \in {"RecreatePvc", "UpdatePvClaimRef"} /\ mem.ann[NsOf[i]] = "vs"
  BY <1>1, RetriesHold DEF RetriesAreSafe
<1> QED BY <1>5, <1>6, <1>7, <1>8 DEF Refused, At

LEMMA CalmPolls ==
  ASSUME Invariant, Calm, PollStep
  PROVE  CalmMove
<1>1. UNCHANGED clusterVars /\ ~Spend("faults")
  BY NotSpent DEF PollStep, Calm
<1>2. PollStep => \/ Advance /\ pc = "phase" /\ mem.phase # "CheckPvcReady" /\ HandlerDone
                  \/ Fail /\ pc = "phase" /\ mem.phase \in Patient
                  \/ Requeue /\ At("WaitPrepareComplete")
  <2>1. ASSUME NEW phase \in {PhaseCreated, "Precheck", "WaitPrepareComplete",
                              "CheckSnapshotReady", "WaitPvcPodRunning"}, At(phase)
        PROVE  HandlerDone
    BY <2>1, LoopPhases DEF At, HandlerDone, PhaseCreated
  <2>2. CASE Created \/ Precheck \/ WaitPrepareComplete
    BY <1>1, <2>1, <2>2 DEF Created, Precheck, WaitPrepareComplete, AdvanceForgets, At,
       Patient, PhaseCreated
  <2>3. CASE CheckSnapshotReady \/ WaitPvcPodRunning
    BY <2>1, <2>3 DEF CheckSnapshotReady, WaitPvcPodRunning, Poll, At, Patient, WaitingPhases
  <2>4. CASE EnsurePvcPodCleaned
    BY <2>4, LoopPhases DEF EnsurePvcPodCleaned, Poll, At, Patient, WaitingPhases, HandlerDone
  <2>5. CASE EnsurePvcsDeleted
    BY <2>5, LoopPhases DEF EnsurePvcsDeleted, Poll, At, Patient, WaitingPhases, HandlerDone
  <2>6. CASE EnsureRecreatePvcReady
    BY <2>6, LoopPhases DEF EnsureRecreatePvcReady, Poll, At, Patient, WaitingPhases, HandlerDone
  <2>7. CASE WaitStagePodRunning
    BY <2>7, LoopPhases DEF WaitStagePodRunning, Poll, At, Patient, WaitingPhases, HandlerDone
  <2>8. CASE ReadFaults
    BY <1>1, <2>8 DEF ReadFaults
  <2>9. CASE ReadLags
    BY <2>9 DEF ReadLags, Patient
  <2> QED BY <2>2, <2>3, <2>4, <2>5, <2>6, <2>7, <2>8, <2>9 DEF PollStep
<1> QED BY <1>1, <1>2 DEF CalmMove, Advances, Fails, Requeues, At, Once

LEMMA CalmLoops ==
  ASSUME Invariant, Calm, LoopStep
  PROVE  CalmMove
<1>1. ~Spend("faults") /\ ~Spend("conflicts")
  BY NotSpent DEF Calm
<1>2. PICK i \in todo :
        \/ CallSucceeds(i) \/ CallRefused(i) \/ CallFaults(i) \/ CallLags(i)
        \/ DeleteConflicts(i) \/ ContentConflicts(i) \/ RetrySwallowed(i)
  BY DEF LoopStep
<1>3. CASE CallSucceeds(i)
  <2>1. Continuing
    BY <1>2, <1>3, CallInLoop DEF CallSucceeds, Continuing, resourceVars, historyVars
  <2> QED BY <2>1 DEF CalmMove
<1>4. CASE CallRefused(i)
  <2>1. ~fresh
    BY <1>4, NotRefused DEF CallRefused
  <2>2. pc # "idle" /\ Fail /\ UNCHANGED clusterVars
    BY <1>4, CallInLoop DEF CallRefused
  <2> QED BY <2>1, <2>2 DEF CalmMove, Fails
<1>5. CASE DeleteConflicts(i)
  <2>1. CASE At("Prepare") /\ Requeue
    BY <1>5, <2>1 DEF DeleteConflicts, CalmMove, Requeues, At, Once
  <2>2. CASE At("CleanUp") /\ Fail
    BY <1>5, <2>2 DEF DeleteConflicts, CalmMove, Fails, At, Patient
  <2> QED BY <1>5, <2>1, <2>2 DEF DeleteConflicts
<1>6. CASE CallLags(i)
  BY <1>6 DEF CallLags, CalmMove, Fails, At, Patient
<1>7. CASE ContentConflicts(i)
  BY <1>7 DEF ContentConflicts, CalmMove, Requeues, HalfUpdated, At, Once
<1> QED BY <1>1, <1>2, <1>3, <1>4, <1>5, <1>6, <1>7 DEF CallFaults, RetrySwallowed

LEMMA CalmSaves ==
  ASSUME Invariant, Calm, SaveStep
  PROVE  CalmMove
<1>1. ~Spend("faults")
  BY NotSpent DEF Calm
<1>2. ASSUME NEW c, Save(c), ~fresh, pc # "idle", UNCHANGED clusterVars PROVE CalmMove
  BY <1>2 DEF Save, CalmMove, Requeues
<1>3. CASE SaveSnapshots
  <2>1. CASE fresh
    BY <1>1, <1>3, <2>1 DEF SaveSnapshots, Saving, CalmMove
  <2>2. CASE ~fresh
    BY <1>1, <1>2, <1>3, <2>2 DEF SaveSnapshots, At
  <2> QED BY <2>1, <2>2
<1>4. CASE CheckPvcReady
  <2>1. CASE fresh
    BY <1>4, <2>1 DEF CheckPvcReady, Saving, At, CalmMove, Fails, Patient, WaitingPhases
  <2>2. CASE ~fresh
    BY <1>2, <1>4, <2>2 DEF CheckPvcReady, At, CalmMove, Fails
  <2> QED BY <2>1, <2>2
<1>5. CASE StartFileSystemCopy
  BY <1>5 DEF StartFileSystemCopy, At, CalmMove, Continuing, resourceVars, historyVars
<1>6. CASE SaveLabel
  <2>1. CASE fresh
    BY <1>1, <1>6, <2>1 DEF SaveLabel, Saving, CalmMove
  <2>2. CASE ~fresh
    BY <1>1, <1>2, <1>6, <2>2 DEF SaveLabel
  <2> QED BY <2>1, <2>2
<1> QED BY <1>1, <1>3, <1>4, <1>5, <1>6 DEF SaveStep, CheckPvcReadyForgets

LEMMA CalmMoves ==
  ASSUME Undisturbed, Invariant, Calm, [Next]_vars
  PROVE  CalmMove /\ (budget' = budget \/ Spend("lags"))
<1>1. ~Spend("faults") /\ ~Spend("conflicts") /\ ~Spend("crashes") /\ ~Timeouts
  BY NotSpent DEF Calm, Undisturbed
<1>2. SavedPhases /\ pc # "timeout" /\ ~TimedOut(cached)
  BY DEF Invariant, Resource, Calm, Punctual, TimedOut, Held, Versions
<1>3. CalmMove
  <2>1. CASE LoopDone
    <3>1. HandlerDone /\ pc # "idle" /\ Advance /\ UNCHANGED clusterVars
      BY <1>2, <2>1, LoopPhases DEF LoopDone, HandlerDone, SavedPhases
    <3>2. mem.phase = "CheckPvcReady" => pc = "saved"
      BY <2>1, LoopPhases DEF LoopDone
    <3> QED BY <3>1, <3>2 DEF CalmMove, Advances
  <2>2. CASE WaitFileSystemCopyComplete
    <3>1. CASE backup = "completed" /\ (Advance \/ AdvanceForgets)
      <4>1. HandlerDone
        BY <2>2, <3>1, LoopPhases DEF WaitFileSystemCopyComplete, At, HandlerDone
      <4> QED BY <1>1, <2>2, <3>1, <4>1
              DEF WaitFileSystemCopyComplete, AdvanceForgets, At, CalmMove, Advances
    <3>2. CASE /\ backup = "failed" /\ pc' = "abort"
               /\ UNCHANGED <<resourceVars, mem, fresh, budget, historyVars>>
      BY <2>2, <3>2 DEF WaitFileSystemCopyComplete, At, Continuing, resourceVars,
                  historyVars, clusterVars, CalmMove
    <3>3. CASE Requeue
      BY <2>2, <3>3 DEF WaitFileSystemCopyComplete, At, CalmMove, Requeues, Once
    <3> QED BY <2>2, <3>1, <3>2, <3>3 DEF WaitFileSystemCopyComplete
  <2>3. CASE CleanUpStep
    <3>1. ASSUME NEW i \in todo, CleanUpConflicts(i) PROVE CalmMove
      BY <1>2, <3>1 DEF CleanUpConflicts, CalmMove, Requeues, SavedPhases, Once
    <3> QED BY <2>3, <3>1 DEF CleanUpStep, CleanUpNamespace, CleanUpVolume, CalmMove,
       Continuing, resourceVars, historyVars
  <2>4. CASE Begin \/ ReconcileTerminal \/ EnvironmentStep \/ CacheSync \/ UNCHANGED vars
    BY <2>4 DEF CalmMove, ReconcileTerminal, EnvironmentStep, vars, Resting
  <2>5. ~BeginTimeout /\ ~Unreachable /\ ~UserTouch /\ ~Crash /\ ~TimePasses
    BY <1>1, <1>2 DEF BeginTimeout, Unreachable, UserTouch, Crash, TimePasses
  <2> QED BY <2>1, <2>2, <2>3, <2>4, <2>5, CalmPolls, CalmLoops, CalmSaves DEF Next, Worker
<1>4. budget' = budget \/ Spend("lags")
  <2>1. CASE PollStep \/ LoopDone \/ WaitFileSystemCopyComplete
    BY <1>1, <2>1 DEF PollStep, Created, Precheck, WaitPrepareComplete, CheckSnapshotReady,
       WaitPvcPodRunning, EnsurePvcPodCleaned, EnsurePvcsDeleted, EnsureRecreatePvcReady,
       WaitStagePodRunning, ReadFaults, ReadLags, Poll, LoopDone, WaitFileSystemCopyComplete,
       Advance, AdvanceForgets
  <2>2. CASE LoopStep
    <3>1. PICK i \in todo :
            \/ CallSucceeds(i) \/ CallRefused(i) \/ CallFaults(i) \/ CallLags(i)
            \/ DeleteConflicts(i) \/ ContentConflicts(i) \/ RetrySwallowed(i)
      BY <2>2 DEF LoopStep
    <3> QED BY <1>1, <3>1 DEF CallSucceeds, CallRefused, CallFaults, CallLags, DeleteConflicts,
            ContentConflicts, RetrySwallowed
  <2>3. CASE SaveStep
    BY <1>1, <2>3 DEF SaveStep, SaveSnapshots, CheckPvcReady, CheckPvcReadyForgets,
       StartFileSystemCopy, SaveLabel
  <2>4. CASE CleanUpStep
    BY <2>4 DEF CleanUpStep, CleanUpNamespace, CleanUpConflicts, CleanUpVolume, Cancel
  <2>5. CASE Begin \/ BeginTimeout \/ ReconcileTerminal \/ Unreachable \/ EnvironmentStep
             \/ CacheSync \/ UserTouch \/ Crash \/ TimePasses \/ UNCHANGED vars
    BY <1>1, <2>5 DEF Begin, BeginTimeout, ReconcileTerminal, Unreachable, EnvironmentStep,
       CacheSync, UserTouch, Crash, TimePasses, vars
  <2> QED BY <2>1, <2>2, <2>3, <2>4, <2>5 DEF Next, Worker
<1> QED BY <1>3, <1>4

(* A step changes the cluster by one call that is then done, or it is not  *)
(* a step of the controller.                                               *)
LEMMA CalmCluster ==
  ASSUME Undisturbed, Invariant, Calm, [Next]_vars
  PROVE  \/ UNCHANGED clusterVars
         \/ Environment
         \/ \E i \in todo : CallSucceeds(i)
         \/ HalfUpdated
         \/ \E i : pc = "abort" /\ CleansUp(i)
         \/ At("StartFileSystemCopy") /\ EnsureVeleroBackup
<1>1. ~Spend("faults") /\ ~Spend("conflicts") /\ pc # "timeout"
  BY NotSpent DEF Calm, Punctual
<1>2. CASE LoopStep
  <2>1. PICK i \in todo :
          \/ CallSucceeds(i) \/ CallRefused(i) \/ CallFaults(i) \/ CallLags(i)
          \/ DeleteConflicts(i) \/ ContentConflicts(i) \/ RetrySwallowed(i)
    BY <1>2 DEF LoopStep
  <2> QED BY <1>1, <2>1 DEF CallRefused, CallFaults, CallLags, DeleteConflicts,
          ContentConflicts, RetrySwallowed, HalfUpdated
<1>3. CASE Begin \/ BeginTimeout \/ ReconcileTerminal \/ PollStep \/ LoopDone
           \/ WaitFileSystemCopyComplete
  BY <1>3
  DEF Begin, BeginTimeout, ReconcileTerminal, vars, PollStep, LoopDone,
      WaitFileSystemCopyComplete
<1>4. CASE SaveStep
  BY <1>4
  DEF SaveStep, SaveSnapshots, CheckPvcReady, CheckPvcReadyForgets,
      StartFileSystemCopy, SaveLabel
<1>5. CASE CleanUpStep
  BY <1>1, <1>5
  DEF CleanUpStep, CleanUpNamespace, CleanUpConflicts, CleanUpVolume, Cancel, CleansUp
<1>6. CASE EnvironmentStep \/ Unreachable \/ CacheSync \/ UserTouch \/ Crash \/ TimePasses
           \/ UNCHANGED vars
  BY <1>6 DEF EnvironmentStep, Unreachable, CacheSync, UserTouch, Crash, TimePasses, vars
<1> QED BY <1>2, <1>3, <1>4, <1>5, <1>6 DEF Next, Worker

(* What the others do to snapshots and namespaces. *)
LEMMA OthersRemove ==
  ASSUME ClusterTypeOK, Environment
  PROVE  /\ \A v \in Volumes :
               /\ snap[v].vs = "absent" => snap'[v].vs = "absent"
               /\ snap'[v].vs = "absent" =>
                    snap[v].vs = "absent" \/ temp[NsOf[v]] = "terminating"
         /\ \A n \in Namespaces : temp'[n] = temp[n] \/ temp'[n] = "absent"
<1>1. snap \in [Volumes -> Snapshots] /\ temp \in [Namespaces -> NsStates]
  BY DEF ClusterTypeOK
<1>2. ASSUME NEW v \in Volumes
      PROVE  /\ snap[v].vs = "absent" => snap'[v].vs = "absent"
             /\ snap'[v].vs = "absent" =>
                  snap[v].vs = "absent" \/ temp[NsOf[v]] = "terminating"
  <2>1. ASSUME NEW w, SnapshotReady(w)
        PROVE  snap'[v].vs = snap[v].vs \/ (snap[v].vs = "created" /\ snap'[v].vs = "ready")
    BY <1>1, <2>1 DEF SnapshotReady, Snapshots
  <2>2. ASSUME NEW n, NsGone(n)
        PROVE  snap'[v] = snap[v] \/ (temp[NsOf[v]] = "terminating" /\ snap'[v].vs = "absent")
    BY <1>1, <2>2 DEF NsGone, WithoutSnapshot, Snapshots
  <2> QED BY <2>1, <2>2 DEF Environment, Provision, Bind, Fill, PvcGone, PodRuns,
          PodGone, OldNsGone, VeleroFinishes
<1>3. ASSUME NEW n \in Namespaces PROVE temp'[n] = temp[n] \/ temp'[n] = "absent"
  BY <1>1 DEF Environment, SnapshotReady, Provision, Bind, Fill, PvcGone, PodRuns,
     PodGone, NsGone, OldNsGone, VeleroFinishes
<1> QED BY <1>2, <1>3

-----------------------------------------------------------------------------
(* The resource moves on by the status updates of workers that can write.  *)

LEMMA CalmPhase ==
  ASSUME Undisturbed, Invariant, Calm, [Next]_vars
  PROVE  \/ cr'.phase = cr.phase
         \/ /\ Advances /\ fresh /\ mem = cr /\ cr' = Succeeded(cr)
            /\ Rank(cr'.phase) = Rank(cr.phase) + 1
<1>1. CalmMove /\ Control /\ Resource /\ mem \in Resources /\ (pc # "idle" => ~Terminal(mem))
      /\ (fresh => mem = cr)
  BY CalmMoves DEF Invariant, Control, ControlTypeOK, Coherent, Calm, Current
<1>2. ASSUME NEW c, Write(c), c.phase = mem.phase PROVE cr'.phase = cr.phase
  BY <1>1, <1>2 DEF Write
<1>3. CASE Advances
  <2>1. Rank(Succeeded(mem).phase) = Rank(mem.phase) + 1
    BY <1>1, <1>3, SucceededIs DEF Advances
  <2> QED BY <1>1, <1>3, <2>1 DEF Advances, Advance, Write
<1>4. CASE Fails
  BY <1>1, <1>2, <1>4, FailedIs DEF Fails, Fail
<1>5. CASE Saving
  BY <1>1, <1>2, <1>5, SavesIs
<1>6. CASE Cancel
  <2>1. \E c : Written(c) /\ c.phase = mem.phase
    BY <1>1, <1>6, WritesAre, LastWritesAre DEF Resource
  <2> QED BY <1>2, <2>1 DEF Written
<1>7. CASE Requeues \/ Continuing \/ Begin \/ CacheSync \/ Resting
  BY <1>7 DEF Requeues, Requeue, Continuing, Begin, CacheSync, Resting, resourceVars
<1> QED BY <1>1, <1>3, <1>4, <1>5, <1>6, <1>7 DEF CalmMove

(* In a phase that is done at once the worker goes on. *)
LEMMA OnceHolds ==
  ASSUME Undisturbed, Invariant, Calm, [Next]_vars, cr.phase \in Once, cr'.phase = cr.phase
  PROVE  /\ fresh' /\ mem'.phase = cr.phase /\ pc' \in {"phase", "saved"}
         /\ todo' \subseteq todo /\ (pc' = "phase" => pc = "phase")
<1>1. CalmMove /\ Control /\ Resource /\ mem \in Resources /\ ~Terminal(mem)
      /\ fresh /\ mem = cr /\ pc \in {"phase", "saved"}
  BY CalmMoves DEF Invariant, Control, ControlTypeOK, Coherent, Calm, Current, AtOnce
<1>2. Once \cap Patient = {} /\ "WaitFileSystemCopyComplete" \notin Once
      /\ "StartFileSystemCopy" \notin Once
  BY DEF Once, Patient, WaitingPhases, PhaseCreated
<1>3. ~Advances
  <2>1. Rank(Succeeded(mem).phase) = Rank(mem.phase) + 1 /\ Rank(mem.phase) \in 1..29
    BY <1>1, SucceededIs, NowTyped
  <2>2. Succeeded(mem).phase # mem.phase
    BY <2>1
  <2>3. Advances => cr' = Succeeded(mem)
    BY <1>1 DEF Advances, Advance, Write
  <2> QED BY <1>1, <2>2, <2>3
<1>4. ~Fails /\ ~Requeues /\ ~Cancel /\ ~Begin
  BY <1>1, <1>2 DEF Fails, Requeues, Cancel, Begin
<1>5. CASE Saving
  BY <1>1, <1>5, SavesIs
<1>6. CASE Continuing
  BY <1>1, <1>2, <1>6 DEF Continuing, At
<1>7. CASE CacheSync \/ Resting
  BY <1>1, <1>7 DEF CacheSync, Resting, workerVars
<1> QED BY <1>1, <1>3, <1>4, <1>5, <1>6, <1>7 DEF CalmMove

-----------------------------------------------------------------------------
(* An undisturbed export stays so, clause by clause.                       *)

LEMMA PunctualStep ==
  ASSUME Undisturbed, Invariant, Calm, [Next]_vars
  PROVE  Punctual' /\ Current'
<1>1. CalmMove /\ Control /\ Resource /\ mem \in Resources /\ (pc # "idle" => ~Terminal(mem))
      /\ (fresh => mem = cr)
  BY CalmMoves DEF Invariant, Control, ControlTypeOK, Coherent, Calm, Current
<1>2. /\ \A h \in Held : h.since # "old"
      /\ cr.since # "old" /\ mem.since # "old"
      /\ pc # "timeout" /\ cleanedFrom = "none"
  BY DEF Calm, Punctual
<1>3. NewExport.since # "old"
  BY DEF NewExport
<1>4. ASSUME NEW c \in Resources, c.since # "old", Write(c), UNCHANGED cached,
             mem' \in {c, NewExport}, fresh' => mem' = c /\ fresh,
             pc' # "timeout", cleanedFrom' = cleanedFrom
      PROVE  Punctual' /\ Current'
  <2>1. Held' \subseteq Held \union {c} /\ cr' \in {cr, c} /\ (fresh => cr' = c)
    BY <1>1, <1>4, WriteHolds DEF Control, ControlTypeOK
  <2>2. \A h \in Held' : h.since # "old"
    BY <1>2, <1>4, <2>1
  <2>3. cr'.since # "old" /\ mem'.since # "old"
    BY <1>2, <1>3, <1>4, <2>1
  <2> QED BY <1>2, <1>4, <2>1, <2>2, <2>3 DEF Punctual, Current
<1>5. CASE Advances
  <2>1. Succeeded(mem) \in Resources /\ Succeeded(mem).since # "old"
    BY <1>1, <1>5, SucceededIs, StatesAre DEF Advances
  <2>2. /\ Write(Succeeded(mem)) /\ UNCHANGED cached /\ mem' \in {Succeeded(mem), NewExport}
        /\ (fresh' => mem' = Succeeded(mem) /\ fresh)
        /\ pc' # "timeout" /\ cleanedFrom' = cleanedFrom
    BY <1>5 DEF Advances, Advance, Enter, Return, historyVars
  <2> QED BY <1>4, <2>1, <2>2
<1>6. CASE Fails
  <2>1. FailedOn(mem) \in Resources /\ FailedOn(mem).since # "old"
    BY <1>1, <1>2 DEF FailedOn, Resources, StateFailed, StateVeleroFailed
  <2> QED BY <1>4, <1>6, <2>1 DEF Fails, Fail, Return, historyVars
<1>7. CASE Saving
  <2>1. PICK c \in Resources :
          /\ c.since = mem.since /\ Write(c) /\ mem' = c /\ pc' = "saved"
          /\ UNCHANGED <<cached, fresh, todo, historyVars>>
    BY <1>1, <1>7, SavesIs
  <2> QED BY <1>2, <1>4, <2>1 DEF historyVars
<1>8. CASE Cancel
  <2> DEFINE c == VeleroFailedOn(mem)
  <2>1. c \in Resources /\ c.since # "old"
    <3>1. c \in Resources
      BY <1>1, LastWritesAre
    <3>2. c.since = IF mem.since = "nil" THEN "recent" ELSE mem.since
      BY <1>1 DEF VeleroFailedOn, FailedOn, Resources
    <3> QED BY <1>2, <3>1, <3>2
  <2>2. /\ Write(c) /\ UNCHANGED cached /\ mem' = NewExport /\ fresh' = FALSE /\ pc' = "idle"
        /\ cleanedFrom' = cleanedFrom
    BY <1>2, <1>8 DEF Cancel, Return, historyVars
  <2> HIDE DEF c
  <2> QED BY <1>4, <2>1, <2>2
<1>9. CASE Begin
  <2>1. /\ UNCHANGED resourceVars /\ mem' = cached /\ pc' = "phase"
        /\ fresh' = (watch = <<>>) /\ cleanedFrom' = cleanedFrom
    BY <1>9 DEF Begin, Enter, historyVars
  <2>2. Held' = Held /\ cached \in Held /\ cr' = cr
    BY <2>1 DEF resourceVars, Held, Versions
  <2>3. fresh' => cached = cr
    BY <1>1, <2>1 DEF Control, Coherent
  <2> QED BY <1>2, <2>1, <2>2, <2>3 DEF Punctual, Current
<1>10. CASE CacheSync
  <2>1. Held' \subseteq Held /\ UNCHANGED <<cr, mem, fresh, pc, cleanedFrom>>
    BY <1>1, <1>10, SyncHolds DEF CacheSync, workerVars, historyVars
  <2> QED BY <1>1, <1>2, <2>1 DEF Punctual, Current
<1>11. CASE Requeues
  <2>1. UNCHANGED resourceVars /\ mem' = NewExport /\ fresh' = FALSE /\ pc' = "idle"
        /\ cleanedFrom' = cleanedFrom
    BY <1>11 DEF Requeues, Requeue, Return, historyVars
  <2>2. Held' = Held /\ cr' = cr
    BY <2>1 DEF resourceVars, Held, Versions
  <2> QED BY <1>2, <1>3, <2>1, <2>2 DEF Punctual, Current
<1>12. CASE Continuing \/ Resting
  <2>1. UNCHANGED <<cr, cached, watch, mem, fresh, cleanedFrom>> /\ pc' # "timeout"
    BY <1>2, <1>12 DEF Continuing, Resting, resourceVars, workerVars, historyVars
  <2>2. Held' = Held
    BY <2>1 DEF Held, Versions
  <2> QED BY <1>1, <1>2, <2>1, <2>2 DEF Punctual, Current
<1> QED
  BY <1>1, <1>5, <1>6, <1>7, <1>8, <1>9, <1>10, <1>11, <1>12 DEF CalmMove

LEMMA PatientStep ==
  ASSUME Undisturbed, Invariant, Calm, [Next]_vars
  PROVE  PatientFailures'
<1>1. CalmMove /\ Control /\ Resource /\ mem \in Resources /\ (pc # "idle" => ~Terminal(mem))
      /\ (fresh => mem = cr) /\ (cr.state = StateFailed => cr.phase \in Patient)
  BY CalmMoves DEF Invariant, Control, ControlTypeOK, Coherent, Calm, Current, PatientFailures
<1>2. CASE cr' = cr
  BY <1>1, <1>2 DEF PatientFailures
<1>3. ASSUME NEW c, Write(c), fresh => c.state # StateFailed \/ c.phase \in Patient
      PROVE  PatientFailures'
  <2>1. cr' = cr \/ (fresh /\ cr' = c)
    BY <1>3 DEF Write
  <2> QED BY <1>2, <1>3, <2>1 DEF PatientFailures
<1>4. CASE Advances
  <2>1. Succeeded(mem).state # StateFailed
    BY <1>1, <1>4 DEF Succeeded, Resources, StateCompleted, StateInProgress, StateFailed
  <2> QED BY <1>3, <1>4, <2>1 DEF Advances, Advance
<1>5. CASE Fails
  <2>1. FailedOn(mem).phase = mem.phase
    BY <1>1, FailedIs
  <2> QED BY <1>3, <1>5, <2>1 DEF Fails, Fail
<1>6. CASE Saving
  <2>1. PICK c \in Resources : c.phase = mem.phase /\ c.state = mem.state /\ Write(c)
    BY <1>1, <1>6, SavesIs
  <2> QED BY <1>1, <1>3, <2>1
<1>7. CASE Cancel
  <2>1. VeleroFailedOn(mem).state # StateFailed
    BY <1>1, LastWritesAre DEF StateVeleroFailed, StateFailed
  <2> QED BY <1>3, <1>7, <2>1 DEF Cancel, Calm, Punctual
<1> QED
  BY <1>1, <1>2, <1>4, <1>5, <1>6, <1>7
  DEF CalmMove, Requeues, Requeue, Continuing, Begin, CacheSync, Resting, resourceVars

LEMMA AtOnceStep ==
  ASSUME Undisturbed, Invariant, Calm, [Next]_vars
  PROVE  AtOnce'
<1> SUFFICES ASSUME cr'.phase \in Once
             PROVE  fresh' /\ mem'.phase = cr'.phase /\ pc' \in {"phase", "saved"}
  BY DEF AtOnce
<1>1. CASE cr'.phase = cr.phase
  BY <1>1, OnceHolds
<1>2. CASE /\ Advances /\ fresh /\ mem = cr /\ cr' = Succeeded(cr)
           /\ Rank(cr'.phase) = Rank(cr.phase) + 1
  <2>1. Rank(cr.phase) \in {5, 22} /\ cr.phase \in ExportPhases
    <3>1. Rank(cr.phase) \in 1..29 /\ cr.phase \in ExportPhases
      BY NowTyped, PhasesTyped DEF Invariant
    <3> QED BY <1>2, <3>1, RankTable DEF Once
  <2>2. {"CreateTempNamespace", "UpdateSnapshotContentBack"} \subseteq ExportPhases
    <3>1. \A k \in 1..29 : VeleroExportSteps[k] \in ExportPhases
      BY StepsDomain DEF ExportPhases
    <3> QED BY <3>1, StepsAre
  <2>3. cr.phase \in {"CreateTempNamespace", "UpdateSnapshotContentBack"}
    BY <2>1, <2>2, RankTable, RankTyped
  <2> QED BY <1>2, <2>3 DEF Advances, Advance, FallThrough, Enter
<1> QED BY <1>1, <1>2, CalmPhase

LEMMA OnceCreatedStep ==
  ASSUME Undisturbed, Invariant, Calm, [Next]_vars
  PROVE  OnceCreated'
<1> DEFINE p == "CreateVolumeSnapshot"
<1> SUFFICES ASSUME NEW v \in Volumes, snap'[v].vs # "absent"
             PROVE  Reached(p)' /\ (cr'.phase = p /\ pc' = "phase" => v \notin todo')
  BY DEF OnceCreated
<1>1. /\ ClusterTypeOK /\ Control /\ Resource /\ ClusterMove
      /\ Rank(cr.phase) \in 1..29 /\ Rank(cr'.phase) \in 1..29
      /\ Rank(cr.phase) <= Rank(cr'.phase) /\ (fresh => mem = cr)
  BY Beginning DEF Calm, Current
<1>2. p \in Once /\ Rank(p) = 6
  BY RankTable DEF Once
<1>3. CASE snap[v].vs # "absent"
  <2>1. Reached(p) /\ (cr.phase = p /\ pc = "phase" => v \notin todo)
    BY <1>3 DEF Calm, OnceCreated
  <2>2. ASSUME cr'.phase = p, pc' = "phase" PROVE v \notin todo'
    <3>1. cr.phase = p
      <4>1. Rank(cr.phase) = 6
        BY <1>1, <1>2, <2>1, <2>2 DEF Reached
      <4> QED BY <1>1, <1>2, <2>2, <4>1, OnlyForward, CalmPhase
    <3> QED BY <1>2, <2>1, <2>2, <3>1, OnceHolds
  <2> QED BY <1>1, <1>2, <2>1, <2>2 DEF Reached
<1>4. CASE snap[v].vs = "absent"
  <2>1. PICK i \in todo : At(p) /\ CallSucceeds(i) /\ i = v
    <3>1. At(p)
      BY <1>1, <1>4, SnapMoves DEF WithoutSnapshot, ClusterTypeOK, Snapshots
    <3>2. snap' # snap /\ ~Environment
      BY <1>1, <1>4, OthersRemove
    <3>3. PICK i \in todo : CallSucceeds(i)
      BY <3>1, <3>2, CalmCluster DEF clusterVars, HalfUpdated, At
    <3>4. CreateSnapshot(i)
      BY <3>1, <3>3 DEF CallSucceeds, Call, At
    <3>5. i = v
      BY <1>1, <1>4, <3>4 DEF CreateSnapshot, ClusterTypeOK
    <3> QED BY <3>1, <3>3, <3>5
  <2>2. Rank(cr.phase) >= 6
    BY <1>1, <2>1, Windows DEF At
  <2>3. todo' = todo \ {v}
    BY <2>1 DEF CallSucceeds
  <2> QED BY <1>1, <1>2, <2>2, <2>3 DEF Reached
<1> QED BY <1>3, <1>4

LEMMA OnceDeletedStep ==
  ASSUME Undisturbed, Invariant, Calm, [Next]_vars
  PROVE  OnceDeleted'
<1> DEFINE p == "DeleteVolumeSnapshot"
<1> SUFFICES ASSUME cr'.phase = p, NEW v \in Volumes, v \in todo'
             PROVE  snap'[v].vs # "absent"
  BY DEF OnceDeleted
<1>1. /\ ClusterTypeOK /\ Control /\ Resource /\ ClusterMove /\ cleanedFrom = "none"
      /\ WhileRunning /\ Always /\ (fresh => mem = cr)
  BY Beginning DEF Calm, Current, Punctual, Invariant
<1>2. p \in Once /\ p \in ExportPhases /\ Rank(p) = 23
  <2>1. \A k \in 1..29 : VeleroExportSteps[k] \in ExportPhases
    BY StepsDomain DEF ExportPhases
  <2> QED BY <2>1, StepsAre, RankTable DEF Once
<1>3. CASE cr.phase # p
  <2>1. Rank(cr.phase) = 22 /\ snap' = snap
    <3>1. Rank(cr.phase) \in 1..29
      BY <1>1, NowTyped
    <3> QED BY <1>2, <1>3, <3>1, CalmPhase DEF Advances, clusterVars
  <2>2. SnapOf(v)
    BY <1>1 DEF WhileRunning
  <2> QED BY <2>1, <2>2, RankTable DEF SnapOf, Reached
<1>4. CASE cr.phase = p
  <2>1. todo' \subseteq todo /\ fresh /\ mem.phase = p /\ pc \in {"phase", "saved"}
    BY <1>2, <1>4, OnceHolds DEF Calm, AtOnce
  <2>2. snap[v].vs # "absent"
    BY <1>4, <2>1 DEF Calm, OnceDeleted
  <2>3. temp[NsOf[v]] # "terminating"
    <3>1. ~Finished
      BY <1>1, <1>2, <1>4, RankTable DEF Always, BackupOf, Finished, Reached
    <3> QED BY <1>1, <3>1, ClusterAssumption DEF WhileRunning, TempOf
  <2>4. ASSUME NEW i \in todo, CallSucceeds(i) PROVE snap'[v].vs # "absent"
    <3>1. DeleteSnapshot(i) /\ todo' = todo \ {i}
      BY <2>1, <2>4 DEF CallSucceeds, Call, At
    <3>2. i # v
      BY <3>1
    <3> QED BY <1>1, <2>2, <3>1, <3>2 DEF DeleteSnapshot, ClusterTypeOK
  <2>5. CASE UNCHANGED clusterVars
    BY <2>2, <2>5 DEF clusterVars
  <2>6. CASE Environment
    BY <1>1, <2>2, <2>3, <2>6, OthersRemove
  <2> QED BY <2>1, <2>4, <2>5, <2>6, CalmCluster DEF HalfUpdated, At
<1> QED BY <1>3, <1>4

LEMMA NamedStep ==
  ASSUME Undisturbed, Invariant, Calm, [Next]_vars
  PROVE  Named'
<1> DEFINE Due == \/ Reached("CleanPvcPod")
                  \/ pc = "saved" /\ fresh /\ mem.phase = "CheckPvcReady"
<1> SUFFICES ASSUME Due', NEW n \in Namespaces
             PROVE  cr'.ann[n] # "vs"
  BY DEF Named
<1>1. /\ Control /\ Resource /\ mem \in Resources
      /\ Rank(cr.phase) \in 1..29 /\ cr.phase \in ExportPhases
  BY NowTyped, PhasesTyped DEF Invariant, Control, ControlTypeOK
<1>2. Due => cr.ann[n] # "vs"
  BY DEF Calm, Named
<1>3. CASE Saving /\ At("CheckPvcReady")
  <2> DEFINE ann == [m \in Namespaces |-> IF mem.ann[m] = "none" THEN "none" ELSE "pv"]
             c   == [mem EXCEPT !.ann = ann]
  <2>1. Save(c) /\ fresh
    BY <1>3 DEF Saving, At
  <2>2. c.ann[n] # "vs"
    BY <1>1 DEF Resources
  <2> HIDE DEF c
  <2>3. cr' = c
    BY <2>1 DEF Save, Write
  <2> QED BY <2>2, <2>3
<1>4. CASE ~(Saving /\ At("CheckPvcReady"))
  <2>1. Due
    <3>1. CASE Reached("CleanPvcPod")'
      <4> SUFFICES ASSUME ~Reached("CleanPvcPod")
                   PROVE  pc = "saved" /\ fresh /\ mem.phase = "CheckPvcReady"
        OBVIOUS
      <4>1. /\ Advances /\ fresh /\ mem = cr /\ Rank(cr'.phase) = Rank(cr.phase) + 1
        BY <3>1, CalmPhase DEF Reached
      <4>2. Rank(cr.phase) = 12
        BY <1>1, <3>1, <4>1, RankTable DEF Reached
      <4>3. "CheckPvcReady" \in ExportPhases
        <5>1. \A k \in 1..29 : VeleroExportSteps[k] \in ExportPhases
          BY StepsDomain DEF ExportPhases
        <5> QED BY <5>1, StepsAre
      <4>4. cr.phase = "CheckPvcReady"
        BY <1>1, <4>2, <4>3, RankTable, RankTyped
      <4> QED BY <4>1, <4>4 DEF Advances
    <3>2. CASE pc' = "saved" /\ fresh' /\ mem'.phase = "CheckPvcReady"
      <4>1. CASE Saving /\ mem'.phase = mem.phase
        BY <1>1, <1>4, <3>2, <4>1 DEF Saving, At, Resource, SavedPhases
      <4> QED BY <1>1, <3>2, <4>1, SavedMoves
    <3> QED BY <3>1, <3>2
  <2>2. cr'.ann = cr.ann
    <3>1. ~(mem.phase = cr.phase /\ (At("CreateVolumeSnapshot") \/ At("CheckPvcReady")))
      BY <2>1, RankTable DEF Reached, At
    <3> QED BY <1>1, <3>1, AnnMoves
  <2> QED BY <1>2, <2>1, <2>2
<1> QED BY <1>3, <1>4

LEMMA CalmStep == Undisturbed /\ Invariant /\ Calm /\ [Next]_vars => Calm'
<1> SUFFICES ASSUME Undisturbed, Invariant, Calm, [Next]_vars PROVE Calm'
  OBVIOUS
<1>1. Spent'
  <2>1. budget \in [Disturbances -> Nat]
    BY DEF Invariant, Control, ControlTypeOK
  <2>2. \A what \in Disturbances \ {"lags"} : budget'[what] = budget[what]
    BY <2>1, CalmMoves DEF Spend
  <2> QED BY <2>2 DEF Calm, Spent
<1> QED
  BY <1>1, PunctualStep, PatientStep, AtOnceStep, OnceCreatedStep, OnceDeletedStep,
     NamedStep
  DEF Calm

LEMMA CalmInit == Undisturbed /\ Init => Calm
<1> SUFFICES ASSUME Undisturbed, Init PROVE Calm
  OBVIOUS
<1>1. /\ cr = NewExport /\ cached = NewExport /\ watch = <<>> /\ mem = NewExport
      /\ pc = "idle" /\ ~fresh /\ todo = {} /\ cleanedFrom = "none" /\ ClusterInit
  BY DEF Init
<1>2. NewExport.phase = PhaseCreated /\ NewExport.state # StateFailed
      /\ NewExport.since # "old"
  BY DEF NewExport, StateNone, StateFailed
<1>3. Spent
  <2>1. budget = [what \in Disturbances |-> CASE what = "faults" -> 0
                                              [] what = "conflicts" -> 0
                                              [] what = "crashes" -> 0
                                              [] what = "lags" -> MaxLags]
    BY DEF Init, Undisturbed
  <2> QED BY <2>1 DEF Spent, Disturbances
<1>4. Punctual /\ Current /\ PatientFailures
  BY <1>1, <1>2 DEF Punctual, Current, PatientFailures, Held, Versions
<1>5. AtOnce
  BY <1>1, <1>2 DEF AtOnce, Once, PhaseCreated
<1>6. OnceCreated /\ OnceDeleted
  BY <1>1, <1>2 DEF OnceCreated, OnceDeleted, ClusterInit, PhaseCreated
<1>7. Named
  BY <1>1, <1>2, RankTable DEF Named, Reached
<1> QED BY <1>3, <1>4, <1>5, <1>6, <1>7 DEF Calm

(* When no call fails, nobody else writes the resource, the controller is  *)
(* not restarted and no timeout elapses, no old copy of the resource and   *)
(* no reconcile begun again is refused what it asks for, and an export     *)
(* fails only in a phase that waits by failing, or where the cached copy   *)
(* of the object a call is on is old.                                      *)
THEOREM FailsOnlyWaiting ==
  ASSUME Undisturbed
  PROVE  Spec => []NoSpuriousFailure
<1>1. Init => Calm
  BY CalmInit
<1>2. Invariant /\ Calm /\ [Next]_vars => Calm'
  BY CalmStep
<1>3. Invariant /\ Calm => NoSpuriousFailure
  BY NotRefused DEF Calm, PatientFailures, Patient, NoSpuriousFailure
<1> QED BY <1>1, <1>2, <1>3, PhasesKeepTheCluster, PTL DEF Spec
=============================================================================
