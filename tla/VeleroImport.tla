---------------------------- MODULE VeleroImport ----------------------------
(***************************************************************************)
(* The import controller (controllers/veleroimport_controller.go): one     *)
(* worker drives every VeleroImport resource through its phases.  An       *)
(* import has Velero restore the copy of the temporary namespaces into the *)
(* target namespaces, deletes the stage pods that came with them and,      *)
(* unless SnapshotOnly, has Velero restore the original namespaces there.  *)
(*                                                                         *)
(* As in VeleroExport, the worker reads from an informer cache that lags   *)
(* and writes with optimistic concurrency, and a step makes one write.     *)
(***************************************************************************)
EXTENDS Phases, FiniteSets

CONSTANTS
  Imports,       \* VeleroImport resources
  SnapshotOnly,  \* SnapshotOnly[i]: Spec.SnapshotOnly
  Targets,       \* Targets[i]: the namespaces Spec.NamespaceMapping maps to
  Key,           \* Key[i]: Spec.DataImportRef.Name, which names the restores
  NoImport,      \* no resource is being reconciled
  Copies,        \* initial states of the file-system copy
  Timeouts,      \* whether the failure timeout can elapse
  MaxFaults,     \* bound on calls the API server fails for no reason of ours
  MaxConflicts,  \* bound on writes of others that meet a write of ours
  MaxCrashes,    \* bound on restarts of the controller
  MaxExpiries    \* bound on backups that Velero deletes, expired

Parts == {"temp", "orig"}
TargetNamespaces == UNION {Targets[i] : i \in Imports}
Restores == {Key[i] : i \in Imports} \X Parts

ASSUME ImportAssumption ==
  /\ SnapshotOnly \in [Imports -> BOOLEAN]
  /\ DOMAIN Targets = Imports /\ DOMAIN Key = Imports
  /\ NoImport \notin Imports
  /\ Copies \subseteq {"absent", "running", "completed"}

ASSUME ImportBoundsAssumption ==
  /\ Timeouts \in BOOLEAN
  /\ {MaxFaults, MaxConflicts, MaxCrashes, MaxExpiries} \subseteq Nat

VARIABLES
  \* external objects
  restore,  \* the Velero restores, by name
  pods,     \* pods[n]: the stage pods restored into a target namespace
  data,     \* target namespaces whose volumes hold the exported data
  origin,   \* target namespaces whose original objects are restored
  valid,    \* Spec.VeleroBackupRef names a completed backup with snapshots
  copy,     \* the backup labelled as the file-system copy of that backup
  \* resources
  cr,       \* cr[i]: the resource in the API server
  cached,   \* the informer's copy of it
  watch,    \* versions of it the informer has not received yet
  \* the worker
  pc, cur,  \* where the worker is in Reconcile, and for which resource
  mem,      \* its copy of that resource
  fresh,    \* mem has the resourceVersion of cr[cur]
  todo,     \* namespaces the loop of the current handler has not visited
  steps,    \* the package variable steps, shared by all reconciles
  budget,   \* disturbances still to come
  failing,  \* history: imports whose last reconcile failed
  blind,    \* history: namespaces whose pods could not be listed
  panics    \* history: why the controller has panicked

externalVars == <<restore, pods, data, origin, valid, copy>>
resourceVars == <<cr, cached, watch>>
workerVars   == <<pc, cur, mem, fresh, todo, steps>>
historyVars  == <<failing, blind, panics>>
vars == <<externalVars, resourceVars, workerVars, budget, historyVars>>

RestorePhases == {"absent", "new", "running", "completed", "partial", "failed"}

(* ref: the restore Status.VeleroRestoreRef names. *)
Resources ==
  [phase : ImportPhases,
   state : {StateNone, StateInProgress, StateFailed, StateCompleted,
            StateVeleroFailed, StateCanceled},
   since : {"nil", "recent", "old"},
   ref : {"nil"} \union Parts]

NewImport == [phase |-> PhaseInitial, state |-> StateNone, since |-> "nil",
              ref |-> "nil"]

Terminal(c) ==
  c.phase = PhaseCompleted \/ c.state \in {StateCanceled, StateVeleroFailed}

TimedOut(c) == c.state = StateFailed /\ c.since = "old"

StepsOf(i) ==
  IF SnapshotOnly[i] THEN VeleroImportSnapshotSteps ELSE VeleroImportSteps

(* A wrong variant: what the last failure left is not reset. *)
SucceededFailing(c) == [c EXCEPT !.phase = GetNextPhase(@, steps)]

(* UpdateStatus without an error, except for the restore reference. *)
Succeeded(c) ==
  LET next == GetNextPhase(c.phase, steps)
  IN  [c EXCEPT !.phase = next,
                !.since = "nil",
                !.state = IF next = GetLastPhase(steps)
                            THEN StateCompleted ELSE StateInProgress]

(* A wrong variant: the timestamp is that of the last failure. *)
FailedOnAgain(c) ==
  [c EXCEPT !.state = IF @ = StateVeleroFailed THEN @ ELSE StateFailed,
            !.since = "recent"]

(* UpdateStatus with an error. *)
FailedOn(c) ==
  [c EXCEPT !.state = IF @ = StateVeleroFailed THEN @ ELSE StateFailed,
            !.since = IF @ = "nil" THEN "recent" ELSE @]

-----------------------------------------------------------------------------
(* Steps of the worker on the resource.                                    *)

(* A wrong variant: the API server does not compare resource versions. *)
WriteBlindly(c) ==
  /\ cr' = [cr EXCEPT ![cur] = c]
  /\ watch' = [watch EXCEPT ![cur] = IF c = cr[cur] THEN @ ELSE Append(@, c)]

(* A write: rejected when the worker's resourceVersion is not current. *)
Write(c) ==
  IF fresh
    THEN /\ cr' = [cr EXCEPT ![cur] = c]
         /\ watch' = [watch EXCEPT ![cur] = IF c = cr[cur] THEN @ ELSE Append(@, c)]
    ELSE UNCHANGED <<cr, watch>>

Return ==
  /\ pc' = "idle" /\ cur' = NoImport /\ mem' = NewImport
  /\ fresh' = FALSE /\ todo' = {}
  /\ UNCHANGED steps

Continue(c, where, loop) ==
  /\ pc' = where /\ mem' = c /\ todo' = loop
  /\ UNCHANGED <<cur, steps>>

Disturbances == {"faults", "conflicts", "crashes", "expiries"}

Spend(what) ==
  /\ budget[what] > 0
  /\ budget' = [budget EXCEPT ![what] = @ - 1]

(* A status update that ends the reconcile: its error is ignored, or a     *)
(* reason to requeue.                                                      *)
Finish(c) ==
  /\ Write(c)
  /\ Return
  /\ failing' = IF c.state = StateFailed THEN failing \union {cur}
                                        ELSE failing \ {i \in {cur} : fresh}
  /\ UNCHANGED <<cached, blind, panics>>

(* Nothing to do yet: no status update. *)
Wait ==
  /\ Return
  /\ failing' = failing \ {cur}
  /\ UNCHANGED <<resourceVars, blind, panics>>

(* Requeue, or an error returned, without a status update. *)
GiveUp ==
  /\ Return
  /\ failing' = failing \union {cur}
  /\ UNCHANGED <<resourceVars, blind, panics>>

(* A wrong variant: the loop is over something else of the resource. *)
LoopOfKey(c) ==
  IF c.phase \in {"DeleteStagePod", "DeletingStagePod"} THEN {Key[cur]} ELSE {}

(* The handlers loop over the target namespaces in these phases. *)
LoopOf(c) ==
  IF c.phase \in {"DeleteStagePod", "DeletingStagePod"} THEN Targets[cur] ELSE {}

At(phase) == pc = "phase" /\ mem.phase = phase

(* The process exits and is started again: its memory is lost, its         *)
(* informer lists the resources anew, and steps is nil.                    *)
Restart ==
  /\ pc' = "idle" /\ cur' = NoImport /\ mem' = NewImport
  /\ fresh' = FALSE /\ todo' = {} /\ steps' = <<>>
  /\ cached' = cr /\ watch' = [i \in Imports |-> <<>>]
  /\ UNCHANGED <<externalVars, cr, failing, blind>>

Panic(why) ==
  /\ Restart
  /\ panics' = panics \union {why}
  /\ UNCHANGED budget

-----------------------------------------------------------------------------
(* The head of Reconcile.                                                  *)

(* A wrong variant: the step list is set by the first reconcile only. *)
BeginOnce(i) ==
  /\ pc = "idle" /\ ~Terminal(cached[i])
  /\ pc' = "start" /\ cur' = i /\ mem' = cached[i]
  /\ fresh' = (watch[i] = <<>>) /\ todo' = {}
  /\ steps' = IF steps = <<>> THEN StepsOf(i) ELSE steps
  /\ UNCHANGED <<externalVars, resourceVars, budget, historyVars>>

(* The resource is read from the cache, and its step list chosen. *)
Begin(i) ==
  /\ pc = "idle" /\ ~Terminal(cached[i])
  /\ pc' = "start" /\ cur' = i /\ mem' = cached[i]
  /\ fresh' = (watch[i] = <<>>) /\ todo' = {}
  /\ steps' = StepsOf(i)
  /\ UNCHANGED <<externalVars, resourceVars, budget, historyVars>>

(* A terminal resource is left alone. *)
ReconcileTerminal(i) ==
  /\ pc = "idle" /\ Terminal(cached[i])
  /\ UNCHANGED vars

(* A new resource: its status is reset and the first phase is over. *)
Initial ==
  /\ pc = "start" /\ mem.phase = PhaseInitial
  /\ Write(Succeeded(NewImport))
  /\ IF fresh THEN Continue(Succeeded(NewImport), "start", {}) /\ UNCHANGED fresh
              ELSE Return
  /\ UNCHANGED <<externalVars, cached, budget, historyVars>>

(* The resource has been failing for too long: nothing is cleaned up. *)
Timeout ==
  /\ pc = "start" /\ TimedOut(mem) /\ mem.phase # PhaseInitial
  /\ Finish([mem EXCEPT !.state = StateCanceled])
  /\ UNCHANGED <<externalVars, budget>>

(* Validate runs in every reconcile, whatever the phase. *)
Validate ==
  /\ pc = "start" /\ ~TimedOut(mem) /\ mem.phase # PhaseInitial
  /\ IF valid
       THEN /\ Continue(mem, "phase", LoopOf(mem))
            /\ UNCHANGED <<resourceVars, fresh, historyVars>>
       ELSE Finish(FailedOn(mem))
  /\ UNCHANGED <<externalVars, budget>>

(* A read of the handler, or of Validate, errs; RestoringTempNamespace and *)
(* RestoringOriginNamespace take an error for an unfinished restore, and   *)
(* IsStagePodDeleted for an empty list.                                    *)
ReadFaults ==
  /\ \/ pc = "start" /\ ~TimedOut(mem) /\ mem.phase # PhaseInitial
     \/ At("RestoreTempNamespace") \/ At("DeleteStagePod")
  /\ Spend("faults")
  /\ Finish(FailedOn(mem))
  /\ UNCHANGED externalVars

HeadStep ==
  \/ \E i \in Imports : Begin(i) \/ ReconcileTerminal(i)
  \/ Initial \/ Timeout \/ Validate \/ ReadFaults

-----------------------------------------------------------------------------
(* The Velero restores.                                                    *)

Name(part) == <<Key[cur], part>>

(* EnsureVeleroRestore: a restore of that name is taken for ours. *)
EnsureVeleroRestore(part) ==
  /\ restore' = [restore EXCEPT ![Name(part)] =
                   IF @.phase = "absent"
                     THEN [phase |-> "new", into |-> Targets[cur]] ELSE @]
  /\ UNCHANGED <<pods, data, origin, valid, copy>>

Asking(part) ==
  \/ part = "temp" /\ At("RestoreTempNamespace") /\ copy # "absent"
  \/ part = "orig" /\ At("RestoreOriginNamespace")

Restore(part) ==
  /\ Asking(part)
  /\ EnsureVeleroRestore(part)
  /\ Continue(mem, part, {})
  /\ UNCHANGED <<resourceVars, fresh, budget, historyVars>>

(* The call errs, whether it has taken effect or not. *)
RestoreFaults(part) ==
  /\ Asking(part)
  /\ EnsureVeleroRestore(part) \/ UNCHANGED externalVars
  /\ Spend("faults")
  /\ Finish(FailedOn(mem))

(* The status update after it, with the reference to the restore. *)
SaveRestore(part) ==
  /\ pc = part
  /\ Finish([Succeeded(mem) EXCEPT !.ref = part])
  /\ UNCHANGED <<externalVars, budget>>

(* No backup is labelled as the copy: the error message is made from a nil *)
(* error.                                                                  *)
NoCopy ==
  /\ At("RestoreTempNamespace") /\ copy = "absent"
  /\ Panic("no copy")

(* GetVeleroRestore drops its error: an unreadable restore is unfinished. *)
RestoringTemp ==
  /\ At("RestoringTempNamespace")
  /\ LET phase == restore[Name(mem.ref)].phase
     IN  \/ /\ phase = "completed"
            /\ Write(Succeeded(mem))
            /\ Continue(Succeeded(mem), "phase", LoopOf(Succeeded(mem)))
            /\ UNCHANGED <<cached, fresh, historyVars>>
         \/ /\ phase \in {"partial", "failed"}
            /\ Finish(FailedOn([mem EXCEPT !.state = StateVeleroFailed]))
         \/ phase \in {"absent", "new", "running"} /\ Wait
  /\ UNCHANGED <<externalVars, budget>>

(* The error of its status update is ignored, and the handler goes on. *)
RestoringTempForgets ==
  /\ At("RestoringTempNamespace") /\ fresh
  /\ restore[Name(mem.ref)].phase = "completed"
  /\ \/ UNCHANGED <<cr, watch, fresh>>
     \/ Write(Succeeded(mem)) /\ fresh' = FALSE
  /\ Continue(Succeeded(mem), "phase", LoopOf(Succeeded(mem)))
  /\ Spend("faults")
  /\ UNCHANGED <<externalVars, cached, historyVars>>

(* A wrong variant: a restore that has started is taken for a finished one. *)
IsNamespaceRestoredEarly(name) ==
  restore[name].phase \in {"running", "completed", "partial"}

(* A partially failed restore counts as restored here. *)
IsNamespaceRestored(name) == restore[name].phase \in {"completed", "partial"}

RestoringOrigin ==
  /\ At("RestoringOriginNamespace")
  /\ IF IsNamespaceRestored(Name(mem.ref)) THEN Finish(Succeeded(mem)) ELSE Wait
  /\ UNCHANGED <<externalVars, budget>>

RestoreStep ==
  \/ \E part \in Parts : Restore(part) \/ RestoreFaults(part) \/ SaveRestore(part)
  \/ NoCopy \/ RestoringTemp \/ RestoringTempForgets \/ RestoringOrigin

-----------------------------------------------------------------------------
(* The stage pods.                                                         *)

EnsureStagePodDeleted(n) ==
  /\ pods' = [pods EXCEPT ![n] = IF @ = "absent" THEN "absent" ELSE "terminating"]
  /\ UNCHANGED <<restore, data, origin, valid, copy>>

DeleteStagePod(n) ==
  /\ At("DeleteStagePod")
  /\ EnsureStagePodDeleted(n)
  /\ \/ /\ Continue(mem, pc, todo \ {n})
        /\ UNCHANGED <<resourceVars, fresh, budget, historyVars>>
     \/ Spend("faults") /\ Finish(FailedOn(mem))

DeleteStagePodDone ==
  /\ At("DeleteStagePod") /\ todo = {}
  /\ Finish(Succeeded(mem))
  /\ UNCHANGED <<externalVars, budget>>

(* A wrong variant: pods that are being deleted count as deleted. *)
IsStagePodDeletedEarly(n) == pods[n] # "present"

IsStagePodDeleted(n) == pods[n] = "absent"

(* DeletingStagePod asks for each namespace and makes a status update for  *)
(* each, so that the phase moves on with every namespace of the loop.      *)
Deleting == pc = "loop" \/ At("DeletingStagePod")

(* The status update of a namespace whose pods are gone. *)
PodsDeleted(n) ==
  IF mem.phase = GetLastPhase(steps)
    THEN Panic("no next phase")
    ELSE /\ Write(Succeeded(mem))
         /\ IF fresh THEN Continue(Succeeded(mem), "loop", todo \ {n})
                          /\ UNCHANGED fresh
                     ELSE Return
         /\ UNCHANGED <<externalVars, cached, budget, historyVars>>

DeletingStagePod(n) ==
  /\ Deleting
  /\ IF IsStagePodDeleted(n)
       THEN PodsDeleted(n)
       ELSE /\ Finish(FailedOn(mem))
            /\ UNCHANGED <<externalVars, budget>>

(* IsStagePodDeleted drops the error of the list: no pods are seen. *)
DeletingStagePodBlind(n) ==
  /\ Deleting /\ mem.phase # GetLastPhase(steps)
  /\ Spend("faults")
  /\ Write(Succeeded(mem))
  /\ IF fresh THEN Continue(Succeeded(mem), "loop", todo \ {n}) /\ UNCHANGED fresh
              ELSE Return
  /\ blind' = blind \union {n}
  /\ UNCHANGED <<externalVars, cached, failing, panics>>

(* The loop is over: on to the handler of the phase it has come to, if     *)
(* there is one; with no namespace at all the phase has not moved.         *)
DeletingStagePodDone ==
  /\ Deleting /\ todo = {}
  /\ IF mem.phase \in {"RestoreOriginNamespace", "RestoringOriginNamespace"}
       THEN Continue(mem, "phase", {}) /\ UNCHANGED <<resourceVars, fresh, historyVars>>
       ELSE Wait
  /\ UNCHANGED <<externalVars, budget>>

PodStep ==
  \/ \E n \in todo :
        DeleteStagePod(n) \/ DeletingStagePod(n) \/ DeletingStagePodBlind(n)
  \/ DeleteStagePodDone \/ DeletingStagePodDone

-----------------------------------------------------------------------------
(* The rest of the world.                                                  *)

SourceReady(part) == IF part = "temp" THEN copy = "completed" ELSE valid

(* Velero starts a restore if the backup it names is completed.  That of   *)
(* the temporary namespaces brings the stage pods into the targets.        *)
VeleroStarts(r) ==
  /\ restore[r].phase = "new"
  /\ IF SourceReady(r[2])
       THEN /\ restore' = [restore EXCEPT ![r].phase = "running"]
            /\ pods' = [n \in TargetNamespaces |->
                          IF r[2] = "temp" /\ n \in restore[r].into
                            THEN "present" ELSE pods[n]]
       ELSE /\ restore' = [restore EXCEPT ![r].phase = "failed"]
            /\ UNCHANGED pods
  /\ UNCHANGED <<data, origin, valid, copy>>

(* It ends, one way or the other.  The data is restored into the volumes   *)
(* of the stage pods, which must still be there.                           *)
VeleroEnds(r) ==
  /\ restore[r].phase = "running"
  /\ \E end \in {"completed", "partial", "failed"} :
        /\ end = "completed" /\ r[2] = "temp" =>
              \A n \in restore[r].into : pods[n] = "present"
        /\ restore' = [restore EXCEPT ![r].phase = end]
        /\ data' = IF end = "completed" /\ r[2] = "temp"
                     THEN data \union restore[r].into ELSE data
        /\ origin' = IF end # "failed" /\ r[2] = "orig"
                       THEN origin \union restore[r].into ELSE origin
  /\ UNCHANGED <<pods, valid, copy>>

PodGone(n) ==
  /\ pods[n] = "terminating"
  /\ pods' = [pods EXCEPT ![n] = "absent"]
  /\ UNCHANGED <<restore, data, origin, valid, copy>>

(* The export that makes the copy starts it, and ends. *)
CopyProceeds ==
  /\ copy # "completed"
  /\ copy' = IF copy = "absent" THEN "running" ELSE "completed"
  /\ UNCHANGED <<restore, pods, data, origin, valid>>

Idle == UNCHANGED <<resourceVars, workerVars, budget, historyVars>>

EnvironmentStep ==
  /\ \/ \E r \in Restores : VeleroStarts(r) \/ VeleroEnds(r)
     \/ \E n \in TargetNamespaces : PodGone(n)
     \/ CopyProceeds
  /\ Idle

(* Velero deletes a backup whose TTL has passed. *)
Expire ==
  /\ Spend("expiries")
  /\ \/ valid /\ valid' = FALSE /\ UNCHANGED copy
     \/ copy = "completed" /\ copy' = "absent" /\ UNCHANGED valid
  /\ UNCHANGED <<restore, pods, data, origin, resourceVars, workerVars, historyVars>>

CacheSync(i) ==
  /\ watch[i] # <<>>
  /\ cached' = [cached EXCEPT ![i] = Head(watch[i])]
  /\ watch' = [watch EXCEPT ![i] = Tail(@)]
  /\ UNCHANGED <<externalVars, cr, workerVars, budget, historyVars>>

(* The API server answers nothing more in this reconcile. *)
Unreachable ==
  /\ pc # "idle"
  /\ Spend("faults")
  /\ GiveUp
  /\ UNCHANGED externalVars

(* Someone else updates the resource, in nothing the controller reads. *)
UserTouch(i) ==
  /\ ~Terminal(cr[i])
  /\ Spend("conflicts")
  /\ watch' = [watch EXCEPT ![i] = Append(@, cr[i])]
  /\ fresh' = (fresh /\ cur # i)
  /\ UNCHANGED <<externalVars, cr, cached, pc, cur, mem, todo, steps, historyVars>>

Crash ==
  /\ Spend("crashes")
  /\ Restart
  /\ UNCHANGED panics

(* FailureTimeout elapses since the failure timestamp of an import. *)
Aged(c) == [c EXCEPT !.since = IF @ = "recent" THEN "old" ELSE @]

TimePasses(i) ==
  /\ Timeouts
  /\ \E c \in {cr[i], cached[i]} : c.state = StateFailed /\ c.since = "recent"
  /\ cr' = [cr EXCEPT ![i] = Aged(@)]
  /\ cached' = [cached EXCEPT ![i] = Aged(@)]
  /\ watch' = [watch EXCEPT ![i] = [k \in DOMAIN @ |-> Aged(@[k])]]
  /\ mem' = IF cur = i THEN Aged(mem) ELSE mem
  /\ UNCHANGED <<externalVars, pc, cur, fresh, todo, steps, budget, historyVars>>

-----------------------------------------------------------------------------
Init ==
  /\ restore = [r \in Restores |-> [phase |-> "absent", into |-> {}]]
  /\ pods = [n \in TargetNamespaces |-> "absent"]
  /\ data = {} /\ origin = {} /\ valid = TRUE /\ copy \in Copies
  /\ cr = [i \in Imports |-> NewImport] /\ cached = cr
  /\ watch = [i \in Imports |-> <<>>]
  /\ pc = "idle" /\ cur = NoImport /\ mem = NewImport
  /\ fresh = FALSE /\ todo = {} /\ steps = <<>>
  /\ budget = [what \in Disturbances |-> CASE what = "faults" -> MaxFaults
                                           [] what = "conflicts" -> MaxConflicts
                                           [] what = "crashes" -> MaxCrashes
                                           [] what = "expiries" -> MaxExpiries]
  /\ failing = {} /\ blind = {} /\ panics = {}

Worker == HeadStep \/ RestoreStep \/ PodStep

Next ==
  \/ Worker \/ EnvironmentStep \/ Expire \/ Unreachable \/ Crash
  \/ \E i \in Imports : CacheSync(i) \/ UserTouch(i) \/ TimePasses(i)

Spec == Init /\ [][Next]_vars

(* Every resource that is not terminal has a request in the work queue,    *)
(* which is first in, first out; a reconcile goes on; the informer         *)
(* delivers, the clock runs, and Velero ends the restores it was asked.    *)
FairSpec ==
  /\ Spec
  /\ WF_vars(Worker /\ pc # "idle")
  /\ \A i \in Imports :
        SF_vars(Begin(i)) /\ WF_vars(CacheSync(i)) /\ WF_vars(TimePasses(i))
  /\ \A r \in Restores : WF_vars((VeleroStarts(r) \/ VeleroEnds(r)) /\ Idle)
=============================================================================
