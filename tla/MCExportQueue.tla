---------------------------- MODULE MCExportQueue ----------------------------
(***************************************************************************)
(* An instance of ExportQueue for TLC.                                     *)
(***************************************************************************)
EXTENDS ExportQueueProperties, TLC

CONSTANTS e1, e2, n1, b1

(* Two exports of one backup, that map volumes of one namespace. *)
TwoExports    == {e1, e2}
OneNamespace  == {n1}
OneBackup     == {b1}
SameNamespace == e1 :> {n1} @@ e2 :> {n1}
SameBackup    == e1 :> b1 @@ e2 :> b1

(* The retention of e2 overflows. *)
OnlyE2 == {e2}
=============================================================================
