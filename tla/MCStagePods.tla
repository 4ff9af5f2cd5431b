---------------------------- MODULE MCStagePods ----------------------------
(***************************************************************************)
(* Instances of StagePods for TLC.                                         *)
(***************************************************************************)
EXTENDS StagePodsProperties, TLC

CONSTANTS p, q, r, x, v, w, sp, sq, sr, sx

(* q, r and x mount some of the volumes of p. *)
FourPods == {p, q, r, x}
Nested   == p :> {v, w} @@ q :> {v} @@ r :> {v} @@ x :> {w}

(* The names of r and x are cut off, that of x at a dash. *)
CutNames  == p :> sp @@ q :> sq @@ r :> sr @@ x :> sx
RAndX     == {r, x}
CutAtDash == {sx}
=============================================================================
