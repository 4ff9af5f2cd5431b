--------------------------- MODULE MCVsrAnnotation ---------------------------
(***************************************************************************)
(* An instance of VsrAnnotation for TLC.                                   *)
(***************************************************************************)
EXTENDS VsrAnnotation, TLC

CONSTANTS w1, w2

TwoWords == {w1, w2}
=============================================================================
