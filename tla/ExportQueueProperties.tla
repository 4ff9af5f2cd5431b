------------------------ MODULE ExportQueueProperties ------------------------
(***************************************************************************)
(* What the queue of exports promises.                                     *)
(***************************************************************************)
EXTENDS ExportQueue

(* Every variable has its type, and a worker at rest holds no request. *)
QueueTypeOK ==
  /\ cr \in [Exports -> Resources] /\ cached \in [Exports -> Resources]
  /\ watch \in Seq(Exports \X Resources)
  /\ pc \in {"idle", "start", "copying"} /\ cur \in Exports \union {NoExport}
  /\ (pc = "idle" <=> cur = NoExport)
  /\ mem \in Resources /\ fresh \in BOOLEAN
  /\ copy \in [Backups -> {"absent", "new", "completed", "failed"}]
  /\ faults \in Nat
  /\ raced \in SUBSET Exports /\ elapsed \in SUBSET Exports

Running(c) == c.live /\ c.phase # PhaseCreated /\ ~Terminal(c)

(* Two exports that name volumes of the same namespace do not run at the   *)
(* same time, unless one of them left the queue on a list that was behind. *)
Exclusive ==
  \A e, f \in Exports :
     e # f /\ Running(cr[e]) /\ Running(cr[f]) /\ Claimed[e] \cap Claimed[f] # {}
        => e \in raced \/ f \in raced

(* An export is deleted only after the time it was to be retained for, if  *)
(* that does not overflow.  ("specify the veleroexport retention",         *)
(* README.md:99.)                                                          *)
KeptForRetention ==
  \A e \in Exports : ~cr[e].live => e \in elapsed \union Overflows

(* What a user sees of an export. *)
StageOf(c) ==
  CASE ~c.live -> "deleted"
    [] c.live /\ c.state = StateCanceled -> "canceled"
    [] c.live /\ c.state = StateVeleroFailed -> "failed"
    [] c.live /\ c.state \notin {StateCanceled, StateVeleroFailed} ->
         CASE c.phase = PhaseCreated -> "queued"
           [] c.phase = PhaseCompleted -> "completed"
           [] OTHER -> "running"

View ==
  INSTANCE Lifecycle WITH Jobs <- Exports,
                          stage <- [e \in Exports |-> StageOf(cr[e])]

(* Each of the exports lives the life of one export alone, however the     *)
(* queue and old copies mix them up: it starts once, ends once, and is     *)
(* deleted after its end.                                                  *)
QueueImplementsLifecycle == View!Spec

(* And each of them ends, whoever is ahead of it in the queue. *)
EveryExportEnds == View!FairSpec

(* An export that has left the queue is deleted in the end. *)
ExpiredIsDeleted == \A e \in Exports : cr[e].stop # "nil" ~> ~cr[e].live
=============================================================================
