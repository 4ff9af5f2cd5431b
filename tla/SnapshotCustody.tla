--------------------------- MODULE SnapshotCustody ---------------------------
(***************************************************************************)
(* What an export promises about the snapshots of the Velero backup, with  *)
(* nothing of how it works: it borrows the content of a snapshot while it  *)
(* is open, gives every one of them back before it completes, and loses    *)
(* one only after it has given up in the middle, or after the content went *)
(* astray (its update failed and nobody noticed).                          *)
(***************************************************************************)

CONSTANT Volumes

VARIABLES
  holder,   \* holder[v]: whom the content of v is bound to
  status,   \* the export is open, completed, or has ended otherwise
  givenUp,  \* it has started to clean up in the middle
  astray    \* contents whose failed update went unnoticed

custody == <<holder, status, givenUp, astray>>

Init ==
  /\ holder = [v \in Volumes |-> "backup"]
  /\ status = "open" /\ givenUp = FALSE /\ astray = {}

Borrow(v) ==
  /\ status = "open" /\ holder[v] = "backup"
  /\ holder' = [holder EXCEPT ![v] = "export"]
  /\ UNCHANGED <<status, givenUp, astray>>

GiveBack(v) ==
  /\ status = "open" /\ holder[v] = "export"
  /\ holder' = [holder EXCEPT ![v] = "backup"]
  /\ UNCHANGED <<status, givenUp, astray>>

Mislay(v) ==
  /\ status = "open"
  /\ astray' = astray \union {v}
  /\ UNCHANGED <<holder, status, givenUp>>

(* Also after its end, on the strength of an old copy. *)
GiveUp ==
  /\ givenUp' = TRUE
  /\ UNCHANGED <<holder, status, astray>>

(* Contents are deleted with the namespace they are bound to. *)
Lose(S) ==
  /\ S # {} /\ \A v \in S : holder[v] = "export" /\ (givenUp \/ v \in astray)
  /\ holder' = [v \in Volumes |-> IF v \in S THEN "nobody" ELSE holder[v]]
  /\ UNCHANGED <<status, givenUp, astray>>

Complete ==
  /\ status = "open" /\ status' = "completed"
  /\ givenUp \/ \A v \in Volumes \ astray : holder[v] = "backup"
  /\ UNCHANGED <<holder, givenUp, astray>>

End ==
  /\ status = "open" /\ status' = "ended"
  /\ UNCHANGED <<holder, givenUp, astray>>

Next ==
  \/ \E v \in Volumes : Borrow(v) \/ GiveBack(v) \/ Mislay(v)
  \/ \E S \in SUBSET Volumes : Lose(S)
  \/ GiveUp \/ Complete \/ End

Spec == Init /\ [][Next]_custody
=============================================================================
