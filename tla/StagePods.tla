------------------------------ MODULE StagePods ------------------------------
(***************************************************************************)
(* How the stage pods of one namespace come into being (BuildStagePod of   *)
(* pkg/operation/pod_operation.go, in the phases CreateStagePod and        *)
(* WaitStagePodRunning).  A stage pod mounts the volumes of an application *)
(* pod in the temporary namespace, for Velero to copy.  The controller     *)
(* reads both lists of pods from an informer cache, in any order, and a    *)
(* call that fails half-way is made again.                                 *)
(*                                                                         *)
(* In VeleroExport a stage pod stands for all of a namespace.              *)
(***************************************************************************)
EXTENDS Naturals, Sequences, FiniteSets, SequencesExt

CONSTANTS
  AppPods,     \* pods of the application, by name
  VolumesOf,   \* VolumesOf[p]: the claims that pod mounts
  StageName,   \* StageName[p]: truncateName("stage-" + p)
  Altered,     \* pods whose name truncateName alters
  Invalid,     \* names that are cut off at a dash, which no pod can have
  MaxFaults,   \* bound on calls and status updates that fail
  MaxChanges   \* bound on application pods that come and go

StageNames == {StageName[p] : p \in AppPods}

ASSUME StageAssumption ==
  /\ IsFiniteSet(AppPods)
  /\ DOMAIN VolumesOf = AppPods /\ DOMAIN StageName = AppPods
  /\ Altered \subseteq AppPods
  /\ Invalid \subseteq {StageName[p] : p \in Altered}
  /\ \A p, q \in AppPods \ Altered : StageName[p] = StageName[q] => p = q
  /\ {MaxFaults, MaxChanges} \subseteq Nat

VARIABLES
  app,     \* the application's pods
  status,  \* status[s]: the stage pod of that name
  built,   \* built[s]: the application pod it was built from
  cached,  \* the informer's copy of status
  watch,   \* its later values, which the informer has not received yet
  phase,   \* the phase of the export
  pc,      \* where BuildStagePod is
  todo,    \* stage pods it has yet to create, by application pod
  listed,  \* history: the application pods it has listed
  early,   \* history: the pods were waited for on an old list
  budget   \* faults and changes still to come

podVars == <<status, built>>
vars == <<app, podVars, cached, watch, phase, pc, todo, listed, early, budget>>

Statuses == {"absent", "pending", "running"}

Spend(what) ==
  /\ budget[what] > 0
  /\ budget' = [budget EXCEPT ![what] = @ - 1]

-----------------------------------------------------------------------------
(* BuildStagePods *)

(* A wrong variant: the stage pod takes the place of one that holds more. *)
ContainedTheOtherWay(list, p) ==
  \E k \in DOMAIN list : VolumesOf[list[k]] \subseteq VolumesOf[p]

(* contains: an earlier stage pod of the list mounts all the volumes of p. *)
ContainedIn(list, p) ==
  \E k \in DOMAIN list : VolumesOf[p] \subseteq VolumesOf[list[k]]

(* merge, one pod after the other; a later pod never displaces one.        *)
Merged(order) ==
  FoldLeft(LAMBDA list, p : IF ContainedIn(list, p) THEN list ELSE Append(list, p),
           <<>>, order)

(* A wrong variant: the pods that exist are not looked at. *)
ExistsNever(known, p) == FALSE

(* The names of stage pods without their prefix are compared with those of *)
(* the application's pods, which an altered name never equals.             *)
Exists(known, p) == p \notin Altered /\ StageName[p] \in known

(* A wrong variant: the pods of every namespace are listed. *)
WantedAnywhere(known) == {p \in AppPods : ~Exists(known, p) /\ VolumesOf[p] # {}}

(* The pods to build from when the stage pods known are in place.          *)
Wanted(known) == {p \in app : ~Exists(known, p) /\ VolumesOf[p] # {}}

Known == {s \in StageNames : cached[s] # "absent"}

-----------------------------------------------------------------------------
(* The phase CreateStagePod.                                               *)

(* Both lists are read; an error of the second is taken for an empty one.  *)
List(known) ==
  /\ phase = "create" /\ pc = "idle"
  /\ \E order \in SetToSeqs(Wanted(known)) : todo' = Merged(order)
  /\ pc' = "create" /\ listed' = app
  /\ UNCHANGED <<app, podVars, cached, watch, phase, early>>

BuildStagePods == List(Known) /\ UNCHANGED budget

BuildStagePodsBlind == Spend("faults") /\ List({})

(* The call returns an error: the status is updated, the phase stays.      *)
Fail ==
  /\ pc' = "idle" /\ todo' = <<>>
  /\ UNCHANGED <<app, cached, phase, listed, early>>

Put(s, p) ==
  /\ status' = [status EXCEPT ![s] = "pending"]
  /\ built' = [built EXCEPT ![s] = p]
  /\ watch' = Append(watch, status')

CanCreate(s) == s \notin Invalid /\ status[s] = "absent"

Create ==
  /\ pc = "create" /\ todo # <<>>
  /\ LET s == StageName[Head(todo)]
     IN  IF CanCreate(s)
           THEN /\ Put(s, Head(todo))
                /\ todo' = Tail(todo)
                /\ UNCHANGED <<app, cached, phase, pc, listed, early>>
           ELSE Fail /\ UNCHANGED <<podVars, watch>>
  /\ UNCHANGED budget

(* The API server's answer is lost, or its refusal for another reason.     *)
CreateFails ==
  /\ pc = "create" /\ todo # <<>>
  /\ LET s == StageName[Head(todo)]
     IN  \/ CanCreate(s) /\ Put(s, Head(todo))
         \/ UNCHANGED <<podVars, watch>>
  /\ Spend("faults")
  /\ Fail

(* All are created; the status update may be lost.                         *)
Created ==
  /\ pc = "create" /\ todo = <<>>
  /\ pc' = "idle"
  /\ \/ phase' = "wait" /\ UNCHANGED budget
     \/ UNCHANGED phase /\ Spend("faults")
  /\ UNCHANGED <<app, podVars, cached, watch, todo, listed, early>>

-----------------------------------------------------------------------------
(* The phase WaitStagePodRunning.                                          *)

(* A wrong variant: one pod that runs is enough. *)
SomeRunning(list) == \E s \in StageNames : list[s] = "running"

(* GetStagePodStatus: no pod of the list is in another state than running. *)
GetStagePodStatus(list) == \A s \in StageNames : list[s] \in {"absent", "running"}

WaitStagePodRunning ==
  /\ phase = "wait" /\ pc = "idle"
  /\ GetStagePodStatus(cached)
  /\ phase' = "copy"
  /\ early' = (watch # <<>>)
  /\ UNCHANGED <<app, podVars, cached, watch, pc, todo, listed, budget>>

Worker ==
  BuildStagePods \/ BuildStagePodsBlind \/ Create \/ CreateFails \/ Created
    \/ WaitStagePodRunning

-----------------------------------------------------------------------------
(* The rest of the world.                                                  *)

PodRuns(s) ==
  /\ status[s] = "pending"
  /\ status' = [status EXCEPT ![s] = "running"]
  /\ watch' = Append(watch, status')
  /\ UNCHANGED <<app, built, cached, phase, pc, todo, listed, early, budget>>

CacheSync ==
  /\ watch # <<>>
  /\ cached' = Head(watch) /\ watch' = Tail(watch)
  /\ UNCHANGED <<app, podVars, phase, pc, todo, listed, early, budget>>

(* A pod of the application is replaced, or scaled up or down. *)
AppChanges ==
  /\ phase = "create"
  /\ Spend("changes")
  /\ \E p \in AppPods : app' = (app \ {p}) \union ({p} \ app)
  /\ UNCHANGED <<podVars, cached, watch, phase, pc, todo, listed, early>>

(* The controller starts again, with its caches up to date. *)
Restart ==
  /\ phase # "copy"
  /\ Spend("faults")
  /\ pc' = "idle" /\ todo' = <<>>
  /\ cached' = status /\ watch' = <<>>
  /\ UNCHANGED <<app, podVars, phase, listed, early>>

Init ==
  /\ app \in SUBSET AppPods
  /\ status = [s \in StageNames |-> "absent"]
  /\ built = [s \in StageNames |-> CHOOSE p \in AppPods : StageName[p] = s]
  /\ cached = status /\ watch = <<>>
  /\ phase = "create" /\ pc = "idle" /\ todo = <<>>
  /\ listed = {} /\ early = FALSE
  /\ budget = [what \in {"faults", "changes"} |->
                 IF what = "faults" THEN MaxFaults ELSE MaxChanges]

Next ==
  \/ Worker \/ CacheSync \/ AppChanges \/ Restart
  \/ \E s \in StageNames : PodRuns(s)

Spec == Init /\ [][Next]_vars

(* The controller goes on, the informer delivers and pods start.           *)
FairSpec ==
  /\ Spec /\ WF_vars(Worker) /\ WF_vars(CacheSync)
  /\ \A s \in StageNames : WF_vars(PodRuns(s))
=============================================================================
