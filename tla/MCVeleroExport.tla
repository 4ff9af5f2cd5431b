--------------------------- MODULE MCVeleroExport ---------------------------
(***************************************************************************)
(* Instances of VeleroExport for TLC.                                      *)
(***************************************************************************)
EXTENDS VeleroExportProperties, TLC

CONSTANTS n1, n2, v1, v2

(* Two volumes in one namespace. *)
OneNamespace == {n1}
TwoVolumes   == {v1, v2}
BothInN1     == v1 :> n1 @@ v2 :> n1

(* One volume in each of two namespaces. *)
TwoNamespaces == {n1, n2}
OneEach       == v1 :> n1 @@ v2 :> n2

OneVolume == {v1}
V1InN1    == v1 :> n1

None == {}
VolumeSymmetry == Permutations({v1, v2})
=============================================================================
