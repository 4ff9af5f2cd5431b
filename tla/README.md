# A specification of data-mover

data-mover is a Kubernetes operator. It turns the CSI volume snapshots of a
Velero backup into a file-system copy that can leave the cluster (a
`VeleroExport` resource) and restores such a copy (a `VeleroImport` resource).
An export restores every snapshot into a temporary namespace `dm-<namespace>`,
runs idle "stage" pods there that mount the restored volumes, and has Velero
copy that namespace file by file. On the way it lends the backup's
VolumeSnapshotContents to temporary VolumeSnapshots, moves PVs from one PVC to
another, and must give everything back and leave nothing behind.

The modules here model the export, from the reconcile loop down to each call on
the API server, the queue in which exports wait for each other, the import, the
construction of stage pods, the text of the annotations, and the command line
that does both in one process. They are checked with TLC. Proved with TLAPS are the
control of the export, of its queue and of the import, and what the calls of an
export leave on the cluster.

## 1. Inventory

| Component | State | Operations | Model |
|---|---|---|---|
| Export controller, `controllers/veleroexport_controller.go` | phase, state, failure timestamp, annotations and label of the resource; the informer's copy; the worker's copy | `Reconcile` (29 phases), `updateStatus`, `cleanUp`, `updateVeleroExportLabel` | `VeleroExport` |
| Phases, `api/v1alpha1/status.go` | none | `GetNextPhase`, `GetLastPhase` | `Phases` |
| Calls on the cluster, `pkg/operation/*.go` | none of its own: namespaces, VolumeSnapshots and contents, PVCs, PVs, stage pods, the Velero backup | one call per phase and per object | `Operations` |
| Kubernetes and Velero (external) | the same objects | namespace, snapshot, volume controllers, kubelet, Velero | `Cluster` |
| Export queue, `pkg/operation/veleroexport.go` | the list of exports, as cached; the Velero backup that exports of one backup share | `CheckOngoingExport`; timeouts in the queue, retention, expiry and deletion of exports | `ExportQueue` |
| Stage pods, `pkg/operation/pod_operation.go` | application pods, existing stage pods, both as cached | listing, names, merging by volumes, creation, the wait | `StagePods` |
| Snapshot annotations | text in the resource | `UpdateVsrlAnnotations`, `GetVolumeSnapshotResourceList` | `VsrAnnotation` |
| Import controller, `controllers/veleroimport_controller.go` | phase, state, Velero restore; a package variable `steps` | `Reconcile`, `UpdateStatus`, `Validate` | `VeleroImport` |
| Command line, `cli/` | none | `BackupManager` and `RestoreManager` over the `Sync*` and `Monitor*` calls | `CommandLine` |
| Manager, configuration, generated code, manifests, tests | none | wiring | no |

How they interact. The controller is one worker that reads the resource from an
informer cache and writes it (status, annotations, labels) to the API server
with optimistic concurrency. Its calls on the cluster only ask: namespaces, PVCs
and pods are deleted later, snapshots become ready, PVCs bind and pods start
later, and Velero copies later, each by another controller. A phase that has to
wait either requeues or reports a failure and is retried; a failure that lasts
longer than `FailureTimeout` (`QueuedTimeout` in the queue) cancels the export.

What is hard:

* *Concurrency*: the cached copy may be old; users and other controllers write
  the same resource; the snapshot controller writes the contents.
* *Failure*: each handler makes many calls and may stop after any of them,
  by an error or by a restart, and is then repeated from its start. Some status
  updates ignore their error.
* *Ordering*: a PV survives its PVC only if Retain is set before the PVC is
  deleted; a content survives its VolumeSnapshot only if it is handed back first.
* *Timeouts*: the cleanup of a timed-out export runs in the middle of any phase.

What makes a component correct:

* controller: one phase forward at a time, terminal states final, every export
  ends, a completed export holds the data and leaves nothing behind, a failure
  before the end can be retried;
* calls: the backup's snapshots and the restored PVs are not destroyed, no
  backend volume is leaked;
* queue: no two running exports on one namespace, queued exports eventually run,
  none is deleted before its time;
* import: each phase once, in order, whichever import was reconciled before; a
  completed one has restored everything; it ends;
* stage pods: every mounted claim is mounted by some stage pod, however many
  calls it takes;
* annotations: what is read is what was written;
* command line: a backup that ends as it should holds the data, after any number
  of runs that were cut short.

`PROJECT.json` lists the hazards, each at its line, with the properties that
cover it, or why none does.

## 2. Modules

```
Phases ------------------+--> VeleroExport --> VeleroExportProperties --> MCVeleroExport
Cluster --> Operations --+        (INSTANCE Lifecycle, SnapshotCustody)
Phases ------------------+--> VeleroImport --> VeleroImportProperties --> MCVeleroImport
                         |        (INSTANCE Lifecycle)
                         +--> ExportQueue ---> ExportQueueProperties ---> MCExportQueue
                                  (INSTANCE Lifecycle)
StagePods -----> StagePodsProperties ----> MCStagePods
CommandLine ---> CommandLineProperties --> MCCommandLine
VsrAnnotation ---------------------------> MCVsrAnnotation

VeleroExportProperties --> VeleroExportProofs --> VeleroExportClusterProofs
                                                    --> VeleroExportLifecycleProofs
VeleroImportProperties --> VeleroImportProofs
ExportQueueProperties ---> ExportQueueProofs
StagePodsProperties -----> StagePodsProofs
CommandLineProperties ---> CommandLineProofs
VsrAnnotation -----------> VsrAnnotationProofs
```

**Lifecycle** and **SnapshotCustody** are the abstract specifications.
`Lifecycle` is what a user sees of a set of exports or imports: queued, running,
ended in one of three ways, deleted. `SnapshotCustody` is what an export
promises about the backup's snapshot contents: lent only while it is open, given
back before it completes, lost only after it gave up or after an update whose
failure went unnoticed. Neither models a piece of code; `VeleroExport`,
`ExportQueue` and `VeleroImport` are shown to implement the first, `VeleroExport` the second, by the
mappings in their properties' modules (`StageOf`, `Custody`).

**Phases.** The phase and state names, `VeleroExportSteps` in the order of the
code, `GetNextPhase` and `GetLastPhase`. The empty phase and the empty state are
written `"Created"` and `"None"`.

**Cluster.** The objects an export works on and the actors outside the
repository. A volume `v` stands for one VolumeSnapshot of the backup in the
application namespace `NsOf[v]`, with its content, and for the PVC and PV restored from it.
`Mounted` are the volumes some application pod mounts, `Leftover` and `Suffixed`
the namespaces whose temporary namespace, or the one with the backup's suffix,
exists before the export.

**Operations.** `pkg/operation`: one operator `X(i)` for the successful call on
object `i`, and `CannotX(i)` where the state of the cluster makes the API server
refuse it. Operators marked *a wrong variant* are plausible mistakes. No
specification uses them; substituting one for the operator it varies must
violate the property that `PROJECT.json` pairs it with.

**VeleroExport.** The controller.

| Variable | In the code |
|---|---|
| `cr` | the resource in the API server |
| `cached`, `watch` | the informer's copy; versions it has not received |
| `pc`, `mem`, `todo` | place in `Reconcile`, the worker's `veleroExport`, what the handler's loop has still to visit |
| `fresh` | `mem` has the current resourceVersion, so that a write is accepted |
| `budget` | faults, conflicts, restarts and lags still to come (the bounds) |
| `cleanedFrom`, `swallowed` | history: phase in which the timeout cleaned up (`"stale"`: under an export that was not failing), volumes whose failed content update was lost |

`Begin`, `BeginTimeout` and `ReconcileTerminal` are the head of `Reconcile`.
Handlers that only look are `Poll`s. Handlers that loop take one step per call
(`LoopStep`) and then make their status update (`LoopDone`). Those that also
write annotations or the label have a step for that (`SaveStep`). `cleanUp` after a timeout or a
failed backup is `CleanUpStep`. `Advance` and `Fail` are `updateStatus` without and
with an error, and the return or the fall-through to the next `if` that follows.

**ExportQueue.** Several exports and the one worker. `cr`, `cached`, `watch`,
`pc`, `mem` and `fresh` are as in `VeleroExport`, for each export; all exports
come through one informer, so `watch` is one sequence and the list that
`CheckOngoingExport` reads is a past state of all of them. `cur` is the export
being reconciled. `copy[b]` is the Velero backup `ve-<b>`, which exports of the
same backup share. `QueueSteps` keeps of the 29 phases those the queue can tell apart:
`"Precheck"` stands for all that comes before `StartFileSystemCopy`, and may
succeed or fail at each call. `raced` and `elapsed` are history: exports that left the
queue on a list that was behind, and exports whose retention has passed.

**VeleroImport.** One or more imports and their worker. `steps` is the package
variable that every `Reconcile` sets to the list of its import (`Begin`), and that
`UpdateStatus` reads (`Succeeded`). `restore`, `pods`, `data`, `origin`, `valid`
and `copy` are Velero's and the cluster's: the restores by name, the stage pods in
the target namespaces, what has been restored there, whether the backup is still
there, and its file-system copy. A panic is a restart (`Panic`). `failing`, `blind`
and `panics` are history.

**StagePods.** One namespace's stage pods, from the list of application pods to
the wait until all run: what `VeleroExport` takes for a single pod. A pod is its
name and the claims it mounts; `StageName`, `Altered` and `Invalid` say what
`truncateName` makes of its name. `listed` and `early` are history.

**VsrAnnotation.** The one piece of state that handlers keep as text. A text is a sequence
of words and separators; `Encode` and `Decode` are the two functions of the
code, with the trailing separator and the empty fields, in the order in which
an export uses them.

**CommandLine.** `BackupManager` and `RestoreManager`, one step after the other
(`pc`), each of which may be interrupted and run again (`runs`, `faults`), over one
namespace with one volume. An error of a step is a panic.

The modules named **...Properties** state what is checked, those named **MC...**
give the constants' values, and those named **...Proofs** hold the proofs.

### What is abstracted

* A step makes at most one write. The reads before it belong to its step; the
  two updates of `AsyncUpdateVolumeSnapshotContent` are one step, with the
  half-done outcomes as steps of their own (`ContentConflicts`, `CallFaults`).
* The informer's copies of the VeleroExports, of the VeleroImports and, in
  `StagePods`, of pods are variables. Those of PVCs, PVs, snapshots, contents,
  namespaces and Velero's objects, which the operator reads through the cache of the
  manager too, are not: in `VeleroExport` a copy that lags shows in what it makes a
  handler do. What is to be read is not found, or the wait is not over (`ReadLags`), an update
  or a deletion meets a version it does not know (`CallLags`), the second update of a
  content conflicts with the first (`ContentConflicts`). A handler reads what an
  earlier phase has seen at least as that phase saw it, as a cache does not go back,
  so that only handlers that read what their own phase, the one before, or a
  controller has just changed can be so misled. `MaxLags` bounds how often. In
  `Faults` and `Ends` it is zero: there a fault, or a conflict, has the outcome of every
  lag. Elsewhere,
  and for the pods in `VeleroExport` and `VeleroImport`, the cached objects are taken to be current.
* The command line reads the API server directly.
* In `VeleroExport` all stage pods of a namespace are one pod. The order of a loop is arbitrary
  within its namespaces and volumes, which includes the order of the code.
* The code neither sets nor reads the `deletionPolicy` of a VolumeSnapshotContent.
  `CommandLine` has both policies (`policy`). The export has `Delete`: for what it
  promises of the contents, `Retain` keeps what `Delete` would lose. The export loses one only
  where its properties make an exception (a timeout has cleaned up, or an update went
  astray); with `Retain` the handlers go on there and can hand the content back.
* A PVC that names no volume is given an empty one (`Fill`), which is not followed:
  its policy, and whether it goes, are not in the model. Storage classes bind immediately.
* Time: `LastFailureTimestamp` is absent, recent or older than the timeout.
  Every copy of it ages at once.
* In `VeleroExport` `CheckOngoingExport` and `precheck` succeed or fail freely:
  the first is in `ExportQueue`, the second only reads.
* `SetReconcileFailed` does nothing ("TBD"), so the status update of the
  deferred function in `Reconcile` only repeats the one that failed: it adds no
  outcome that a success followed by `Unreachable` does not have.
* A status update changes no annotation, as the status is a subresource.
* In `VeleroImport` an import's application is its target namespaces: whether
  their data and their objects have been restored.
* `Overflows` (`ExportQueue`) are the exports whose `Retention`, times an hour, is
  negative in 64 bits: what the multiplication does, without its operands.

## 3. Runs

| Run | Instance | Question |
|---|---|---|
| `Faults` | 1 namespace, 2 volumes; 2 faults, 1 conflict, 1 restart, timeouts | all safety properties of the export, and both refinements, under failures in any order |
| `Undisturbed` | 2 namespaces, a volume each; 2 lags, no other disturbance | no spurious failure; a prepared export completes |
| `Ends` | 1 namespace, 1 volume; 1 fault, 1 conflict, 1 restart, timeouts | every export ends and its namespace goes |
| `Import` | 1 import into 1 namespace, its copy in any state; 1 fault, 1 conflict, 1 restart, 1 expiry, timeouts | safety of the import, its refinement, and that it ends |
| `TwoImports` | a full import and one of snapshots only, into a namespace they share, and the second into one more; 1 fault, timeouts | what the shared worker, step list and target can mix up |
| `Queue` | 2 exports of one backup that map volumes of one namespace, the retention of one overflows; 1 fault or restart, timeouts | exclusion, retention, refinement; each export ends and is deleted |
| `Staging` | 4 pods with volumes in common, 2 of their names altered; 2 faults, 1 change of the application | every volume is staged, and staging ends |
| `Commands` | 3 backups and 2 restores, a content of either policy; 2 faults | what a command that ends as it should has done |
| `Annotation` | up to 2 snapshots, 2 names | every later phase reads what was written |
| `Leftover` | a temporary namespace exists beforehand | violated: see findings |
| `StaleTimeout` | one fault, timeouts | violated: see findings |
| `TwoTargets` | 1 full import into 2 namespaces, no disturbance | violated: see findings |

*Bounds.* Two volumes are what it takes for a loop to stop half way, and two
namespaces for a namespace to go while another is still there; the handlers treat
every further one in the same way. `MaxFaults = 2` lets a retry fail as well, and a
fault be followed by one in the handler that meets its traces; one conflict makes the
worker's copy old at any point, and one restart loses the worker's state at any point.
`CheckPvcReadyForgets` queues two versions of the resource at once, which lets the
informer lag by more than one. Polls may fail any number of times without spending a
bound. Two exports are one that runs and one that waits, and two imports one that sets
`steps` and one that is reconciled next. Four pods are one that holds the volumes of
the others, one with a regular name, one whose name is altered, and one whose name is
cut off at a dash; two faults let a retry fail, and the one change lets a retry list
other pods. Three backups are one cut short, one that cleans up after it, and one
more; two restores are one cut short and one over what it has left, the restores it
has asked Velero for included. Two lags let the retry of a handler meet an old copy as
well, or a later handler meet one. Two rows are what it takes for a separator between
rows. Deadlock is checked wherever an ended job can still be reconciled; the
application's pods once staged, the commands once run and the annotation once complete
are done.

*Properties of the export.*

* `PhaseNeverRegresses`, `TerminalIsFinal`, `Coherent`: optimistic concurrency
  does its work in spite of the cache and of the ignored update errors.
* `ImplementsLifecycle`: however many phases, retries, restarts and old copies,
  a user sees an export wait, run once and end once.
* `SnapshotSurvives`: the backup's snapshot outlives the export, except when the
  timeout cleans up between `UpdateSnapshotContent` and its undoing, or after
  the dropped error of `updateVscSnapRef`. The exceptions are real: the run
  reaches them, and without them the property fails. `KeepsCustody` is the
  whole promise about the snapshots, step by step.
* `RestoredVolumeSurvives`, `NoLeak`: Retain, delete, recreate, claim, Delete,
  in an order that neither loses a PV nor leaves one behind (but for a timeout in
  the phases named).
* `CompletedExported`, `CompletedClean`: what Completed means.
* `RetriesAreSafe`: which handlers cannot be repeated after their own work was
  half done. Creation and deletion of the temporary snapshots are not
  idempotent; neither is the use of PV names that `CheckPvcReady` failed to save:
  `RecreatePvc` then makes a PVC that names no volume, and once that is bound, to an
  empty volume, takes it for another's, creates it again and is refused for ever.
* `NoSpuriousFailure`, `Completes`: the good case. An export in which nothing goes
  wrong does fail for a while: where it waits by failing, and where it reads
  through the cache what has just changed (`UpdatePvClaimRef` right after
  `RecreatePvc`, the updates of PVs, the deletions of namespaces). But what it asks
  for is refused by no state of the cluster, so that it goes on with the next read.
* `Terminates`, `Reclaimed`: the bad cases end too.

*Properties of the import.* `ImportNeverRegresses`, `ImportImplementsLifecycle`:
as for the export, although an old copy of a new resource has its status reset.
`CompletedRestored` and `SnapshotOnlyStops`: an import restores what it says and
nothing else, also when the reconcile before it had set the other step list; two
imports may share a target. `OriginAfterStagePods`: the order of the restores.
`CanceledIsFailing`: a success resets the failure the timeout counts from. Its exception
is real: a wait for a restore makes no status update, so that a transient
failure before it cancels a healthy import when the restore takes long.
`ImportEnds`, with two exceptions that are real as well:
`RestoringOriginNamespace` waits for a restore that has failed, and a backup
without a copy makes `RestoreTempNamespace` dereference a nil error in every
reconcile.

*Properties of the queue.* `Exclusive`: two exports that map volumes of one
namespace do not run together, unless one of them left the queue on a list that was
behind, which nothing prevents. It is about `DataSourceMapping`, as the
code is: exports without one never wait for each other. `KeptForRetention`: deletion is by
name, on an old copy, but not before its time, unless the product overflows (a
retention given as a duration, such as `DefaultExportRetention`). `QueueImplementsLifecycle`,
`EveryExportEnds`, `ExpiredIsDeleted`: each export lives the life of one alone.

*Properties of the others.* `VolumesAreStaged`: merging, altered names, repeated calls
and old lists never drop a volume. `CopiedWhenRunning`: the wait ends when every pod
runs, unless its list was behind. `StagingEnds`: so does the staging, unless a name
was altered: such a pod is not recognised, is built again at the next call, and
refused; or no pod can have the name. `BackupHoldsData`: a backup that ends as it
should holds the data, with two exceptions that are real. A list of the stage pods
that fails is taken for one of running pods. And where the content outlives the
temporary namespace (`Retain`), a run that follows one cut short borrows it again and
takes the copy the first had asked for as its own, which may be of an empty namespace.
`DataFirst`: the original objects come after the data, unless the wait for the
application's namespace to go was over with an error: it is over with any, and the
restore goes on over a namespace that is going, with which the data goes. `BackupEnds`
names what a backup waits for in vain. `RoundTrip` is about the annotation.

*Fairness.* `ControllerFairness`: a resource that is not terminal always has a request
in the work queue (every return requeues, or returns an error, or has written the
status, which triggers the watch), the informer delivers, the clock runs; weak
fairness of the worker as a whole, never of one outcome of a choice.
`FinishingFairness`: a terminating namespace goes and a Velero backup ends, one way or
the other. `FairSpec` has these two, and leaves the storage and the kubelet free to do
nothing. `ServingFairness`, used only by `Completes`, adds that they do their part.
`Completes` starts at `Prepare` because the queue and the precheck may refuse for
ever. `Terminates` and `Reclaimed` are checked with `Leftover` empty: with a leftover
namespace the export never ends, for the reason of the first finding. With several
resources the work queue is first in, first out, so that each has its turn: strong
fairness of `Begin(e)`, as the worker is idle again and again, and weak fairness of
the reconcile that has begun. `EveryExportEnds` is the fair specification of
`Lifecycle`. In `VeleroImport` Velero ends the restores it was asked for, one way or
the other. In `StagePods` pods start, and in `CommandLine` storage and kubelet do
their part, as both wait with no timeout of their own; Velero's backups and restores
may fail there too.

### Findings

1. *Prepare deletes another namespace* (`Leftover`, `PrepareDeletesTemp`). The
   comment says it deletes the temporary namespace that already exists; the name
   it deletes has the backup's suffix and the one used later has not. The export
   then waits for ever, with no failure for the timeout to count from.
2. *The timeout acts on a stale copy* (`StaleTimeout`, `CompletedHoldsData`). An
   export fails, is retried and succeeds; when the informer still shows the old
   failure and its timeout has passed, `cleanUp` deletes the temporary namespace
   before the status update finds out. The export goes on over nothing
   and completes. It takes a retry that begins just before the timeout elapses, a
   success just after, and an informer one version behind.
3. *Two target namespaces skip the restore* (`TwoTargets`, `CompletedRestored`).
   `DeletingStagePod` updates the status, and so moves the phase, once for each
   namespace of its loop. With two of them `RestoreOriginNamespace` is skipped, and
   the import completes without the original objects.

The exceptions in the properties above are further places where the code does
not do what one would expect. So do these, which the models reproduce and no
property is about: a second export of a backup takes the first one's Velero
backup for its own, whatever namespaces it holds; an import takes any restore of
its name for its own; `RestoreManager` deletes the application's namespace on
the strength of a copy in any phase; `SyncDeleteStagePod` loops while the pods are
deleted instead of while they exist; pods whose names differ in the number of their
dashes have the same stage pod (section 4, *Stage pods*).

## 4. Proofs

The theorems hold for every value of the constants: any sets of namespaces,
volumes, exports and imports, and any bounds on faults, conflicts, restarts and
expiries. They rest on the assumptions the models name (`ClusterAssumption`,
`BoundsAssumption`, `QueueAssumption`, `ImportAssumption`,
`ImportBoundsAssumption`, `StageAssumption`, `CommandAssumption`,
`AnnotationAssumption`), which TLC evaluates on every instance.

| Module | Theorem | Statement |
|---|---|---|
| `VeleroExportProofs` | `Invariance` | `Spec => [](ClusterTypeOK /\ Control)` |
| | `TypeCorrect` | `Spec => []TypeOK` |
| | `CopiesAreCoherent` | `Spec => []Coherent` |
| | `PhasesAdvance` | `Spec => PhaseNeverRegresses` |
| | `TerminalStays` | `Spec => TerminalIsFinal` |
| | `CopiesAreRecent` | `Spec => []Resource`: no copy is more than one reconcile old |
| `VeleroExportClusterProofs` | `PhasesKeepTheCluster` | `Spec => []Invariant`: what every phase that is past has established |
| | `CompletedHolds` | `Spec => []CompletedExported` |
| | `CompletedLeavesNothing` | `Spec => []CompletedClean` |
| | `RestoredSurvives` | `Spec => []RestoredVolumeSurvives` |
| | `NothingLeaks` | `Spec => []NoLeak` |
| | `SnapshotsSurvive` | `Spec => []SnapshotSurvives` |
| | `HandlersRepeat` | `Spec => []RetriesAreSafe` |
| `VeleroExportLifecycleProofs` | `ExportHasLifecycle` | `Spec => ImplementsLifecycle` |
| | `ExportKeepsCustody` | `Spec => KeepsCustody` |
| | `FailsOnlyWaiting` | if `Undisturbed`: `Spec => []NoSpuriousFailure` |
| `ExportQueueProofs` | `QueueInvariance` | `Spec => []IInv` |
| | `QueueTypeCorrect` | `Spec => []QueueTypeOK` |
| | `ExportsExclude` | `Spec => []Exclusive` |
| | `RetentionIsKept` | `Spec => []KeptForRetention` |
| | `QueueHasLifecycle` | `Spec => QueueImplementsLifecycle` |
| `VeleroImportProofs` | `ImportInvariance` | `Spec => [](Control /\ ExternalTypeOK)` |
| | `ImportTypeCorrect` | `Spec => []ImportTypeOK` |
| | `ImportAdvances` | `Spec => ImportNeverRegresses` |
| | `ImportHasLifecycle` | `Spec => ImportImplementsLifecycle` |
| | `SnapshotsOnly` | if `KeysDiffer`: `Spec => []SnapshotOnlyStops` |
| | `CompletedIsRestored` | if `KeysDiffer` and `OneTarget`: `Spec => []CompletedRestored` |
| | `CanceledAreFailing` | if `SomeTarget`: `Spec => CanceledIsFailing` |
| | `OriginsFollowStagePods` | if `KeysDiffer`, `OneTarget` and `OwnTargets`: `Spec => OriginAfterStagePods` |
| `StagePodsProofs` | `StageTypeCorrect` | `Spec => []StageTypeOK` |
| | `CopiesWhenRunning` | `Spec => []CopiedWhenRunning` |
| | `VolumesGetStaged` | if `OwnNames`: `Spec => []VolumesAreStaged` |
| `VsrAnnotationProofs` | `AnnotationRoundTrips` | `Spec => []RoundTrip` |
| `CommandLineProofs` | `CommandTypeCorrect` | `Spec => []CommandTypeOK` |
| | `BackupsHoldData` | `Spec => []BackupHoldsData`, for either deletion policy |
| | `DataIsFirst` | `Spec => DataFirst` |

*The export.* `TypeOK` alone is not inductive enough to bound what a write may
do: a write puts `Succeeded(mem)` or `FailedOn(mem)` in `cr`, so that phases and
terminal states are safe only if `mem` is known to be `cr` whenever the write is
accepted. That is `Coherent`: `fresh` implies `mem = cr`, or one ignored update
ahead of it, and that `cr` is not terminal. It is preserved when a reconcile begins only
because `cr` is the last version in `watch`, or `cached` if none is under way. That no
handler works on a terminal copy, and that a loop's `todo` is among the objects
of its phase, complete the invariant (`Control` is `ControlTypeOK` with `Coherent`).
The state of the cluster plays no part: the
handlers' steps are proved for the control part (`ControlStep`, one lemma per
group of handlers) and for the types of the cluster (`ClusterStep`) separately.
`WriteSafe` is the lemma on which every handler rests.
The first lemmas show that the steps are distinct and `GetNextPhase` moves one
place, which is also why its index never runs off the list: the last phase is
terminal.

*How old a copy can be.* The worker may begin a reconcile with a copy that lags by
several versions, and repeat a handler whose work is done and even undone. What it
can do there is bounded by `CopiesLag`. A handler ends in a status update, and a
worker whose copy is old is refused there and ends its reconcile; so the worker that
wrote the last versions began with what was then the last one, and within one
reconcile the phase moves only through the phases whose handler falls through to the
next. `Stops` are the others, and `Lags(p, q)`: from `p` to `q` no more than one of
them is passed. Every copy held by the informer, or by the worker, lags so.
`Recorded` (the PV names are in the annotations from the phase that saves them on),
`GivenUp` (once the timeout has cleaned up, the export no longer advances, unless
the cleanup was a stale one), `SavedPhases` and `CompletedLast` complete `Resource`.

*What the calls leave on the cluster.* `Invariant` adds to this a clause per kind of
object that says from which phase to which it is what. `Always` is what holds whatever
goes wrong: the state of the Velero backup, of the snapshot contents, the reclaim
policies, and that a namespace past `CleanUp` is going or gone. `WhileRunning` holds
until a timeout has cleaned up: that the temporary namespace, the VolumeSnapshots, the
restored claims and PVs, their recreated claims, the stage pods and the copied data
are what the phases past have made of them. Within a loop the clauses speak of the
objects it has been over (`Visited`), which only a worker that can still write knows.
Neither is inductive without the bound on the copies: an old worker repeats the calls
of its phase, and only because that phase is at most one reconcile behind are they
calls that find nothing to do. `ClusterMoves` says which calls a step can make,
`Moves` and `Crossing` how the phase moves, and one lemma per kind of object
(`SnapMoves`, `VolMoves`, ...) what can happen to it. The safety properties are read
off `Invariant`. The exceptions they name, a timeout between two phases and a content
update whose failure was dropped, are where the invariant ends as well: the histories
`cleanedFrom` and `swallowed` are what its clauses are conditioned on.
`RetriesAreSafe` needs one thing more, that a claim names no volume only where the
names were not recorded, and that no such export passes `UpdatePvClaimRef`
(`NamedOf`).

*An undisturbed export.* `Undisturbed` says that the bounds on failing calls,
conflicts and restarts are zero and the timeouts do not elapse; the caches may lag any
number of times. Much goes on even so: reads and updates fail for what they have not
seen yet, the phases that wait fail and are retried, and old workers repeat calls. Two
phases accept no work already done, those in `Once`: a snapshot that is there is not
created, and one that is not is not deleted. That they are refused nothing is because
they are entered by falling through from the phase before and finished in the same
reconcile, by a worker that can write (`AtOnce`) and whose calls no lag concerns; what
their loops have still to visit is as they need it (`OnceCreated`, `OnceDeleted`).
That a content update may be left half done by a lag, and repeated, is `HalfUpdated`.
With `Named` and the theorem on `RetriesAreSafe` nothing else is refused either, and a
step is one of those of `CalmMove`.

*The custody of the snapshots.* A content moves by a call of `UpdateSnapshotContent`
or `UpdateSnapshotContentBack`, or is destroyed with the temporary VolumeSnapshot
that holds it; `RefMoves` and `StrayMoves` show each to be a step of
`SnapshotCustody`, and `StatusMoves` each change of the status. For the last,
an export fails for good only in `WaitFileSystemCopyComplete` (`FailedLast`),
so that abandoning an export and giving contents back are never one step.

*The lifecycle of the export.* A step that moves the phase by a place or two, or
ends the export for good, is a step of `Lifecycle`, or a stutter
(`StageStep`). What it needs beyond the invariant is `Aborting`: the worker aborts
an export from `WaitFileSystemCopyComplete` only, so that no export fails before it
has started.

*The queue.* Two steps make the proof more than types. `Delete` states no
resourceVersion: the worker deletes what an old copy says has expired. That copies
lie in one direction only (`InTime`: if a copy is terminal, so is the resource;
if it says that the retention has passed, it has) must therefore be in the invariant
for every copy in the cache and under way. And a list that is not behind must show the
resources as they are, for `Exclusive`: `Latest` says that the last change under way
of an export, or its cached copy when there is none, is the resource. Together
with `Held` (a copy with a current resourceVersion is the resource) and
`Exclusive` itself this is inductive.

*The import.* `steps` is shared by all imports, yet `Held` is inductive: while an
import is reconciled the list is its own, and so is the phase of every copy of it
(`Stored`, with `PlanOf`). A copy may be one ignored update ahead of the resource
(`Ahead`), from `RestoringTempNamespace` only. Every write follows the copy it is made from
(`Follows`), by the phase or the stage, which gives both the order of the phases
(`Forward`) and the steps of the lifecycle (`Lawful`). The loop of
`DeletingStagePod` may leave the copy in the last phase, where the next status
update panics: the type invariant bounds the reasons of a panic to this and the
nil error.

*What an import restores.* `CompletedRestored` needs two hypotheses about the
inputs, and they are the point: without `OneTarget` it is false, which is the
finding of `TwoTargets`, and `KeysDiffer` says that no restore is taken for
one's own by its name. Under them a restore does what its import asked for
(`Restored`), every copy of a resource, however old, claims only what
has been restored (`Truthful`; data is never taken away), and a loop that has
moved the phase has no namespace left that would move it past the original
namespaces (`Alone`). `SnapshotsOnly` needs `KeysDiffer` alone.

*What an import waits for.* Copies of a resource are late but never ahead of it
(`InOrder`), that of the worker by one ignored update at most (`Near`), and what the
phase of a copy says of the past is so (`Honest`): after `RestoringTempNamespace`
the restore of the temporary namespaces is completed (`Past`), and in the phases of
the original ones the stage pods have been seen to be gone (`Clear`). Neither is
undone (`Lasting`), since Velero runs a restore once and nothing else makes stage
pods in the targets. So a worker that asks for the original namespaces, from
whatever copy, finds no pod holding their volumes. And a reconcile that returns
without a status update, so that the failure before it stays, is one of the two
phases that wait for a restore (`FailuresKnown`, `Slow`): the exception
`CanceledIsFailing` makes is the only one. The hypotheses are needed, TLC refutes
the properties without them: a second target makes `DeletingStagePod` skip the
original namespaces' request (`OneTarget`) or ask for it while the other namespace
still has pods, another import into the same namespace brings stage pods back
(`OwnTargets`), and an import that maps to no namespace waits in `DeletingStagePod`
for ever and forgets its failures (`SomeTarget`).

*Stage pods.* Which pods `BuildStagePods` builds from is a fold of `merge` over the
listed pods, in whatever order the cache returns them. The induction theorems of the
library are out of the provers' reach, as they take an operator, but the least
number for which a claim fails is not (`Least`): `MergedStepwise` says what the fold
is for a list with one pod more, and `MergedKeepsAll` that the claims of each pod,
up to the first for which it would fail, are mounted by one that is kept. The
invariant relates the four places a stage pod may be in: `Informer` says that what
the cache shows, or is about to, was there and that the last of it is what is there;
`Calls` that a phase ends with nothing left to create; `Covered` that, from the list
on, the claims of a listed pod are mounted by a stage pod or by one yet to be
created. The step that needs most is the list itself. It leaves out a pod whose
stage pod the cache shows; that this stage pod is there, and mounts its claims,
follows from `Informer` and `Named` (a stage pod has the name made from that of the
pod it was built from), but only if no other pod has the same stage name. That is
`OwnNames`, which the run's instance satisfies. Without it the property is false,
and TLC finds how on an instance that breaks it: `truncateName` turns two dashes
into one, pods `a--b` and `a-b` have the stage pod `stage-a-b` both, and once the
first has left the application, a call that is repeated takes its stage pod for the
second's. Pods whose names are cut off may collide too: if both have altered names,
the second `Create` is refused until the export times out. `StageAssumption` says
that the application's pods are finitely many: of infinitely many there would be no
list.

*The annotation.* `Decode` splits the text into rows and the rows into fields. The
proof follows the text from left to right: `SplitStepwise` and `SplitRow` say what
`Split` does with one word more and with words that hold no separator, `EndsNext`
that such words after a separator make a part of their own (`Ends`: a text is split
into parts and a last one), and `FlattenStepwise` that `FlattenSeq` lays rows side
by side one at a time. This is used twice, for the fields of a row (`RowIs`), where
a field that is not set is a part without words, and for the rows of the list
(`ListSplits`), the last of which has lost its separator. `DecodesEncoded` holds for
every list that is not empty, so that both phases that write the annotation keep
`RoundTrip`; the second writes what it has read, with the names of the volumes set.
The separators are named in the proof, because the SMT backend does not take these
string literals.

*The commands.* A run may be cut short anywhere, and the next one takes what it finds
for its own: the temporary namespace and the copy. `Borrowed` says what can come of
it. A copy is asked for only after the contents are borrowed. With the policy `Delete`
they are lost with the temporary namespace, so that a run that finds a copy finds no
content to borrow, and stops before it could take the copy for its own. With `Retain`
it may go on, and what it then takes is on record (`adopted`). `Copied` follows a run
from the stage pods, which run unless the wait for them was blind, to the copy and
what it holds (`Sound`). For the restore, `Replaced` says of the run that is the last
(`Kept`) that Velero is asked for nothing before the application's namespace is gone,
that the namespace is not deleted again in that run, unless the wait for it was over
with an error (`rash`), and that the original objects wait for the end of the restore
of the data. Restores that earlier runs have asked for may still run, but one at a
time, and bring the same data. Backup and restore share the copy only, so that each
step is shown to leave the other's part alone (`RestoreLeaves`, `SidesAre`).

*Only model-checked.* Liveness (`Terminates`, `Reclaimed`, `Completes`,
`EveryExportEnds`, `ExpiredIsDeleted`, `ImportEnds`, `StagingEnds`, `BackupEnds`),
since it rests on fairness and `ENABLED`. Every other property of a passing run is a
theorem.

## 5. Not modelled

* `main.go`, `pkg/config`, `pkg/operation/operation.go` (a constructor),
  `pkg/storageclass` (formatting) and `pkg/util` (used by nothing): no state and
  no decision of their own. The generated code, the manifests and the tests.
* `GetVeleroBackupUID`, the `-test` action of the command line, only reads;
  `VeleroImportStatus.Update` is called by nothing.
* Panics on malformed input: a backup name without `-`, a `DataSourceMapping` key
  without `/`, a PV without claim, a short pod name, a namespace without
  snapshots in the annotation, a Velero backup whose `SnapshotVolumes` is not set
  (`Precheck`, `veleroexport_controller.go:965`, and the import's `Validate`,
  `veleroimport_controller.go:339`).
* What a lagging copy of a PVC, a PV, a snapshot, a namespace or one of Velero's
  objects holds, other than in the outcomes above, and a backup after a restore in
  `CommandLine`.
* The PV that a PVC without a volume name is given, and what becomes of it.
* A volume that no application pod mounts is in the models (`Mounted`), but the
  runs mount all of them: the data of one that is not is not copied, whatever
  `README.md:97` promises of the namespaces' snapshots.

## 6. Plan

1. *Done*: all the modules above, their safety and liveness, the refinements; the
   proofs of every invariant and every action property the passing runs check, and of the
   refinements.
2. Restores and backups of the command line in turns, in `CommandLine`.
3. The copies of PVCs, PVs and pods in the caches as variables of `VeleroExport`,
   if its state space allows, in place of the outcomes of a lag.
