------------------------------ MODULE Lifecycle ------------------------------
(***************************************************************************)
(* What a user sees of exports or imports, with nothing of how they are    *)
(* done: each is queued, runs once, ends in one of three ways that are     *)
(* final and, some time after its end, may be deleted.                     *)
(***************************************************************************)

CONSTANT Jobs

VARIABLE stage

Ends   == {"completed", "failed", "canceled"}
Stages == {"queued", "running", "deleted"} \union Ends

Init == stage = [j \in Jobs |-> "queued"]

Move(j, from, to) ==
  /\ stage[j] \in from
  /\ \E s \in to : stage' = [stage EXCEPT ![j] = s]

Start(j)  == Move(j, {"queued"}, {"running"})
Finish(j) == Move(j, {"running"}, {"completed", "failed"})
Cancel(j) == Move(j, {"queued", "running"}, {"canceled"})
Delete(j) == Move(j, Ends, {"deleted"})

Next == \E j \in Jobs : Start(j) \/ Finish(j) \/ Cancel(j) \/ Delete(j)

Spec == Init /\ [][Next]_stage

(* Every job ends. *)
FairSpec ==
  Spec /\ \A j \in Jobs : WF_stage(Start(j) \/ Finish(j) \/ Cancel(j))
=============================================================================
