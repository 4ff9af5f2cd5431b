--------------------------- MODULE MCVeleroImport ---------------------------
(***************************************************************************)
(* Instances of VeleroImport for TLC.                                      *)
(***************************************************************************)
EXTENDS VeleroImportProperties, TLC

CONSTANTS i1, i2, n1, n2, k1, k2

(* One full import into one namespace, or into two. *)
OneImport  == {i1}
Full       == i1 :> FALSE
IntoOne    == i1 :> {n1}
IntoTwo    == i1 :> {n1, n2}
KeyOfOne   == i1 :> k1

(* A full import and one of snapshots only, the other into a namespace of  *)
(* its own as well.                                                        *)
TwoImports == {i1, i2}
OneOfEach  == i1 :> FALSE @@ i2 :> TRUE
IntoBoth   == i1 :> {n1} @@ i2 :> {n1, n2}
OwnKeys    == i1 :> k1 @@ i2 :> k2

AnyCopy    == {"absent", "running", "completed"}
CopyIsDone == {"completed"}
=============================================================================
