---------------------------- MODULE VsrAnnotation ----------------------------
(***************************************************************************)
(* What an export remembers between two reconciles: the                    *)
(* VolumeSnapshotResources of a namespace, as one annotation.  It is       *)
(* written when the snapshots have been created, read by every later       *)
(* phase, and written again with the names of the volumes when the PVCs    *)
(* are bound (controllers/veleroexport_controller.go:294-311, 436-460).    *)
(*                                                                         *)
(* A text is a sequence of words and separators; an empty field has no     *)
(* word.                                                                   *)
(***************************************************************************)
EXTENDS Naturals, Sequences, SequencesExt

CONSTANTS
  Words,   \* names and UIDs, which contain no separator
  Empty,   \* the empty string
  MaxVsrs  \* bound on the snapshots of a namespace

ASSUME AnnotationAssumption ==
  Empty \notin Words /\ {",", ";"} \cap Words = {} /\ MaxVsrs \in Nat

VARIABLES
  vsrl,        \* the list, as the code that writes the annotation has it
  annotation,  \* Annotations[VolumeSnapshotResourceAnnPrefix + namespace]
  phase        \* where the export is

vars == <<vsrl, annotation, phase>>

(* The six fields, in the order they are written: the snapshot's name, its *)
(* first UID, the PVC, the content, its new UID and the PV.                *)
Fields == 6
PersistentVolumeName == 6

Vsr == [1..Fields -> Words \union {Empty}]

(* The snapshots of a namespace as CreateVolumeSnapshots returns them: all *)
(* of a snapshot is known but the volume to be made of it.                 *)
Created == {r \in Vsr : r[PersistentVolumeName] = Empty /\ \A k \in 1..5 : r[k] # Empty}

-----------------------------------------------------------------------------
(* UpdateVsrlAnnotations *)

Field(word) == IF word = Empty THEN <<>> ELSE <<word>>

Row(vsr) ==
  Field(vsr[1]) \o FlattenSeq([k \in 1..Fields - 1 |-> <<",">> \o Field(vsr[k + 1])])

(* A wrong variant: the separator after the last row stays. *)
EncodeOpen(list) == FlattenSeq([k \in DOMAIN list |-> Append(Row(list[k]), ";")])

(* Every row is followed by a separator, of which the last is cut off.     *)
Encode(list) ==
  Front(FlattenSeq([k \in DOMAIN list |-> Append(Row(list[k]), ";")]))

-----------------------------------------------------------------------------
(* GetVolumeSnapshotResourceList *)

Split(text, sep) ==
  FoldLeft(LAMBDA parts, word :
             IF word = sep THEN Append(parts, <<>>)
             ELSE [parts EXCEPT ![Len(parts)] = Append(@, word)],
           << <<>> >>, text)

Word(part) == IF part = <<>> THEN Empty ELSE part[1]

(* A wrong variant: empty fields are skipped. *)
ParseWords(row) == SelectSeq(row, LAMBDA word : word # ",")

(* A row with too few fields is an index out of range.                     *)
Parse(row) == [k \in DOMAIN Split(row, ",") |-> Word(Split(row, ",")[k])]

Decode(text) ==
  IF text = <<>> THEN <<>>
  ELSE [k \in DOMAIN Split(text, ";") |-> Parse(Split(text, ";")[k])]

-----------------------------------------------------------------------------
Init ==
  /\ vsrl \in SeqOf(Created, MaxVsrs)
  /\ annotation = <<>> /\ phase = "CreateVolumeSnapshot"

(* A namespace without snapshots has no annotation. *)
CreateVolumeSnapshot ==
  /\ phase = "CreateVolumeSnapshot"
  /\ annotation' = IF vsrl = <<>> THEN annotation ELSE Encode(vsrl)
  /\ phase' = "CheckPvcReady"
  /\ UNCHANGED vsrl

(* The PVCs are bound: the names of their volumes are added.               *)
CheckPvcReady ==
  /\ phase = "CheckPvcReady" /\ annotation # <<>>
  /\ \E names \in [DOMAIN Decode(annotation) -> Words] :
        /\ vsrl' = [k \in DOMAIN names |->
                      [Decode(annotation)[k] EXCEPT ![PersistentVolumeName] = names[k]]]
        /\ annotation' = Encode(vsrl')
  /\ phase' = "UpdatePvClaimRetain"

Next == CreateVolumeSnapshot \/ CheckPvcReady

Spec == Init /\ [][Next]_vars

-----------------------------------------------------------------------------
(* Whatever phase reads the annotation finds the list that was written     *)
(* last, in its order and with all of its fields, the unset ones too.      *)
RoundTrip == annotation # <<>> => Decode(annotation) = vsrl
=============================================================================
