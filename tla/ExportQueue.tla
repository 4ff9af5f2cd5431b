----------------------------- MODULE ExportQueue -----------------------------
(***************************************************************************)
(* Several VeleroExports and the one worker that reconciles them: how they *)
(* leave the queue (CheckOngoingExport), share the Velero backup made for  *)
(* a snapshot backup, time out, expire and are deleted.  VeleroExport has  *)
(* the phases of one export in full; here those between the queue and the  *)
(* end are the four of QueueSteps, "Precheck" standing for all the phases  *)
(* up to StartFileSystemCopy.                                              *)
(*                                                                         *)
(* All exports come through one informer, so that a list of them is a past *)
(* state of all of them together.                                          *)
(***************************************************************************)
EXTENDS Phases, FiniteSets

CONSTANTS
  Exports,     \* VeleroExport resources
  NoExport,    \* no resource is being reconciled
  Namespaces,  \* application namespaces
  Backups,     \* Velero backups with volume snapshots
  Claimed,     \* Claimed[e]: the namespaces in the keys of DataSourceMapping
  BackupOf,    \* BackupOf[e]: Spec.VeleroBackupRef
  Overflows,   \* exports whose Retention times an hour overflows below zero
  Timeouts,    \* whether the timeouts can elapse
  MaxFaults    \* bound on calls that fail for no reason of ours, and restarts

ASSUME QueueAssumption ==
  /\ NoExport \notin Exports
  /\ Claimed \in [Exports -> SUBSET Namespaces]
  /\ BackupOf \in [Exports -> Backups]
  /\ Overflows \subseteq Exports
  /\ Timeouts \in BOOLEAN /\ MaxFaults \in Nat

VARIABLES
  cr,       \* cr[e]: the resource in the API server
  cached,   \* cached[e]: the informer's copy of it
  watch,    \* changes the informer has not received yet, <<e, resource>>
  pc, cur,  \* where the worker is in Reconcile, and for which resource
  mem,      \* its copy of that resource
  fresh,    \* mem has the resourceVersion of cr[cur]
  copy,     \* copy[b]: the Velero backup "ve-" + b
  faults,   \* faults still to come
  raced,    \* history: exports that left the queue on an old list
  elapsed   \* history: exports whose retention has elapsed

workerVars == <<pc, cur, mem, fresh>>
vars == <<cr, cached, watch, workerVars, copy, faults, raced, elapsed>>

QueueSteps ==
  << PhaseCreated, "Precheck", "StartFileSystemCopy",
     "WaitFileSystemCopyComplete", "CleanUp", PhaseCompleted >>

QueuePhases == {QueueSteps[k] : k \in DOMAIN QueueSteps}

(* stop: StopTimestamp, nil, or ahead, or passed.  live: the resource has  *)
(* not been deleted.                                                       *)
Resources ==
  [phase : QueuePhases,
   state : {StateNone, StateInProgress, StateFailed, StateCompleted,
            StateVeleroFailed, StateCanceled},
   since : {"nil", "recent", "old"},
   stop : {"nil", "ahead", "passed"},
   live : BOOLEAN]

NewExport == [phase |-> PhaseCreated, state |-> StateNone, since |-> "nil",
              stop |-> "nil", live |-> TRUE]

Terminal(c) ==
  c.phase = PhaseCompleted \/ c.state \in {StateCanceled, StateVeleroFailed}

TimedOut(c) == c.state = StateFailed /\ c.since = "old"

(* updateStatus(nil) of export e; leaving the queue sets StopTimestamp.    *)
Succeeded(e, c) ==
  LET next == GetNextPhase(c.phase, QueueSteps)
  IN  [c EXCEPT !.phase = next,
                !.since = "nil",
                !.stop = IF c.phase # PhaseCreated THEN @
                         ELSE IF e \in Overflows THEN "passed" ELSE "ahead",
                !.state = IF next = GetLastPhase(QueueSteps)
                            THEN StateCompleted ELSE StateInProgress]

(* A wrong variant: no timestamp is kept. *)
FailedOnUntimed(c) ==
  [c EXCEPT !.state = IF @ = StateVeleroFailed THEN @ ELSE StateFailed]

(* updateStatus(err) *)
FailedOn(c) ==
  [c EXCEPT !.state = IF @ = StateVeleroFailed THEN @ ELSE StateFailed,
            !.since = IF @ = "nil" THEN "recent" ELSE @]

-----------------------------------------------------------------------------
(* CheckOngoingExport *)

(* A wrong variant: an export that is retrying a phase is not looked at. *)
OngoingUnlessFailed(c) ==
  c.live /\ c.phase # PhaseCreated /\ c.state = StateInProgress

(* Queued, completed, canceled and aborted exports are not ongoing. *)
Ongoing(c) ==
  c.live /\ c.phase # PhaseCreated /\ c.state \in {StateInProgress, StateFailed}

(* The list comes from the cache, this export's copy with it. *)
CheckOngoingExport(e) ==
  \E f \in Exports : Ongoing(cached[f]) /\ Claimed[f] \cap Claimed[e] # {}

-----------------------------------------------------------------------------
(* Steps of the worker on the resource.                                    *)

(* A wrong variant: the API server does not compare resource versions. *)
WriteBlindly(c) ==
  /\ cr' = [cr EXCEPT ![cur] = c]
  /\ watch' = IF c = cr[cur] THEN watch ELSE Append(watch, <<cur, c>>)

(* A write: rejected when the worker's resourceVersion is not current. *)
Write(c) ==
  IF fresh
    THEN /\ cr' = [cr EXCEPT ![cur] = c]
         /\ watch' = IF c = cr[cur] THEN watch ELSE Append(watch, <<cur, c>>)
    ELSE UNCHANGED <<cr, watch>>

(* A wrong variant: the request is not given up. *)
ReturnKeeping == pc' = "idle" /\ UNCHANGED cur /\ mem' = NewExport /\ fresh' = FALSE

Return == pc' = "idle" /\ cur' = NoExport /\ mem' = NewExport /\ fresh' = FALSE

Fault == faults > 0 /\ faults' = faults - 1

Finish(c) == Write(c) /\ Return /\ UNCHANGED <<cached, copy, elapsed>>

(* Up to date about an export. *)
Current(e) == \A k \in DOMAIN watch : watch[k][1] # e

Begin(e) ==
  /\ pc = "idle" /\ cached[e].live
  /\ pc' = "start" /\ cur' = e /\ mem' = cached[e] /\ fresh' = Current(e)
  /\ UNCHANGED <<cr, cached, watch, copy, faults, raced, elapsed>>

(* A deleted export: Get finds nothing and the request is put back. *)
NotFound(e) ==
  /\ pc = "idle" /\ ~cached[e].live
  /\ UNCHANGED vars

(* QueuedTimeout or FailureTimeout has elapsed. *)
Timeout ==
  /\ pc = "start" /\ TimedOut(mem)
  /\ Finish([mem EXCEPT !.state = StateCanceled])
  /\ UNCHANGED <<faults, raced>>

(* A wrong variant: the comparison is the other way round. *)
ExpiredBefore(c) == c.stop = "ahead"

Expired(c) == c.stop = "passed"

(* An ended export is left alone, or deleted once its StopTimestamp has    *)
(* passed; Delete states no resourceVersion.                               *)
Ended ==
  /\ pc = "start" /\ ~TimedOut(mem) /\ Terminal(mem)
  /\ IF Expired(mem) /\ cr[cur].live
       THEN /\ cr' = [cr EXCEPT ![cur].live = FALSE]
            /\ watch' = Append(watch, <<cur, cr'[cur]>>)
       ELSE UNCHANGED <<cr, watch>>
  /\ Return
  /\ UNCHANGED <<cached, copy, faults, raced, elapsed>>

At(phase) == pc = "start" /\ ~TimedOut(mem) /\ ~Terminal(mem) /\ mem.phase = phase

(* Created: the export stays in the queue, failing, while another is       *)
(* ongoing; it starts, and the reconcile goes on with it, otherwise.       *)
Created ==
  /\ At(PhaseCreated)
  /\ IF CheckOngoingExport(cur)
       THEN Finish(FailedOn(mem)) /\ UNCHANGED raced
       ELSE /\ Write(Succeeded(cur, mem))
            /\ raced' = IF fresh /\ watch # <<>> THEN raced \union {cur} ELSE raced
            /\ IF fresh
                 THEN mem' = Succeeded(cur, mem) /\ UNCHANGED <<pc, cur, fresh>>
                 ELSE Return
            /\ UNCHANGED <<cached, copy, elapsed>>
  /\ UNCHANGED faults

(* The list cannot be read. *)
CannotList ==
  /\ At(PhaseCreated)
  /\ Fault
  /\ Finish(FailedOn(mem))
  /\ UNCHANGED raced

(* Phases that succeed or fail for reasons of their own. *)
Work ==
  /\ At("Precheck") \/ At("CleanUp")
  /\ Finish(Succeeded(cur, mem)) \/ Finish(FailedOn(mem))
  /\ UNCHANGED <<faults, raced>>

(* EnsureVeleroBackup: a backup of that name, whoever made it, whatever it *)
(* holds and however it ended, is taken for the one to make.               *)
StartFileSystemCopy ==
  /\ At("StartFileSystemCopy")
  /\ copy' = [copy EXCEPT ![BackupOf[cur]] = IF @ = "absent" THEN "new" ELSE @]
  /\ pc' = "copying"
  /\ UNCHANGED <<cr, cached, watch, cur, mem, fresh, faults, raced, elapsed>>

(* The label and the status update after it. *)
CopyStarted ==
  /\ pc = "copying"
  /\ Finish(Succeeded(cur, mem))
  /\ UNCHANGED <<faults, raced>>

WaitFileSystemCopyComplete ==
  /\ At("WaitFileSystemCopyComplete")
  /\ LET state == copy[BackupOf[cur]]
     IN  \/ state = "completed" /\ Finish(Succeeded(cur, mem))
         \/ state = "failed" /\ Finish(FailedOn([mem EXCEPT !.state = StateVeleroFailed]))
         \/ /\ state = "new" /\ Return
            /\ UNCHANGED <<cr, cached, watch, copy, elapsed>>
  /\ UNCHANGED <<faults, raced>>

Worker ==
  \/ \E e \in Exports : Begin(e) \/ NotFound(e)
  \/ Timeout \/ Ended \/ Created \/ CannotList \/ Work
  \/ StartFileSystemCopy \/ CopyStarted \/ WaitFileSystemCopyComplete

-----------------------------------------------------------------------------
(* The rest of the world.                                                  *)

VeleroFinishes(b) ==
  /\ copy[b] = "new"
  /\ \E end \in {"completed", "failed"} : copy' = [copy EXCEPT ![b] = end]
  /\ UNCHANGED <<cr, cached, watch, workerVars, faults, raced, elapsed>>

CacheSync ==
  /\ watch # <<>>
  /\ cached' = [cached EXCEPT ![Head(watch)[1]] = Head(watch)[2]]
  /\ watch' = Tail(watch)
  /\ UNCHANGED <<cr, workerVars, copy, faults, raced, elapsed>>

(* The API server answers nothing more in this reconcile. *)
Unreachable ==
  /\ pc # "idle"
  /\ Fault
  /\ Return
  /\ UNCHANGED <<cr, cached, watch, copy, raced, elapsed>>

Crash ==
  /\ Fault
  /\ Return
  /\ cached' = cr /\ watch' = <<>>
  /\ UNCHANGED <<cr, copy, raced, elapsed>>

(* Time passes for an export, in every copy of it: the timeout of its      *)
(* phase elapses since its failure, or its retention since its start.      *)
InAllCopies(e, Update(_)) ==
  /\ cr' = [cr EXCEPT ![e] = Update(@)]
  /\ cached' = [cached EXCEPT ![e] = Update(@)]
  /\ watch' = [k \in DOMAIN watch |->
                 IF watch[k][1] = e THEN <<e, Update(watch[k][2])>> ELSE watch[k]]
  /\ mem' = IF cur = e THEN Update(mem) ELSE mem
  /\ UNCHANGED <<pc, cur, fresh, copy, faults, raced>>

Aged(c) == [c EXCEPT !.since = IF @ = "recent" THEN "old" ELSE @]

TimePasses(e) ==
  /\ Timeouts
  /\ \E c \in {cr[e], cached[e]} : c.state = StateFailed /\ c.since = "recent"
  /\ InAllCopies(e, Aged)
  /\ UNCHANGED elapsed

Stopped(c) == [c EXCEPT !.stop = IF @ = "ahead" THEN "passed" ELSE @]

RetentionElapses(e) ==
  /\ cr[e].stop # "nil" /\ e \notin elapsed
  /\ InAllCopies(e, Stopped)
  /\ elapsed' = elapsed \union {e}

Init ==
  /\ cr = [e \in Exports |-> NewExport] /\ cached = cr /\ watch = <<>>
  /\ pc = "idle" /\ cur = NoExport /\ mem = NewExport /\ fresh = FALSE
  /\ copy = [b \in Backups |-> "absent"]
  /\ faults = MaxFaults
  /\ raced = {} /\ elapsed = {}

Next ==
  \/ Worker \/ CacheSync \/ Unreachable \/ Crash
  \/ \E b \in Backups : VeleroFinishes(b)
  \/ \E e \in Exports : TimePasses(e) \/ RetentionElapses(e)

Spec == Init /\ [][Next]_vars

(* The work queue has a request for every export that is not deleted, the  *)
(* first in first out; a reconcile goes on; the informer delivers, Velero  *)
(* finishes and the clock runs.                                            *)
FairSpec ==
  /\ Spec
  /\ WF_vars(Worker /\ pc # "idle") /\ WF_vars(CacheSync)
  /\ \A b \in Backups : WF_vars(VeleroFinishes(b))
  /\ \A e \in Exports :
        SF_vars(Begin(e)) /\ WF_vars(TimePasses(e)) /\ WF_vars(RetentionElapses(e))
=============================================================================
