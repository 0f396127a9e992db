---------------------------- MODULE VolumeNames -----------------------------
(***************************************************************************)
(* The names of a volume: the ID the array gave it, the NFS volume ID that *)
(* Kubernetes knows it by (nfs/csinfs.go, CreateVolume), and the name of   *)
(* its Service, which is also its directory under NfsExportDirectory and   *)
(* the beginning of its line in /etc/exports (nfs/exports.go, read by      *)
(* prefixes).  Controller and node each work the names out for themselves. *)
(*                                                                         *)
(* An ID is a sequence of characters; "a" and "n" stand for the lowercase  *)
(* letters and digits, "A" and "N" for their uppercase forms, "-" for "-"  *)
(* and ".", "_" for what no name may have.  One node exports the volumes   *)
(* here, without failures.                                                 *)
(***************************************************************************)
EXTENDS Naturals, Sequences, FiniteSetsExt, SequencesExt

CONSTANTS
    ArrayIDs,   \* IDs the array gives to volumes
    MaxName,    \* longest Service name: 63
    MaxVolumes  \* bound on the volumes created

Characters == {"a", "n", "A", "N", "-", "_"}

ASSUME VolumeNamesAssumption ==
    ArrayIDs \subseteq Seq(Characters) /\ MaxName \in Nat \ {0} /\ MaxVolumes \in Nat

VARIABLES
    volumes,    \* NFS volume IDs that CreateVolume returned
    exports,    \* lines of /etc/exports: the directories, without their options
    served      \* volumes whose last request was to export them

vars == <<volumes, exports, served>>

Alnum == {"a", "n"}
Legal == Alnum \cup {"-"}

-----------------------------------------------------------------------------
(* csinfs.go *)

\* CsiNfsPrefixDash.
Prefix == <<"n", "-">>

hasNFSPrefix(id) == IsPrefix(Prefix, id)

ArrayToNFSVolumeID(id) == Prefix \o id

\* A cutset in place of a prefix.
ToArrayVolumeIDTrimLeft(id) ==
    LET kept == {i \in DOMAIN id : \E j \in 1..i : id[j] \notin {"n", "-"}}
    IN  IF kept = {} THEN <<>> ELSE SubSeq(id, Min(kept), Len(id))

\* Removes one prefix, if there is one.
ToArrayVolumeID(id) ==
    IF hasNFSPrefix(id) THEN SubSeq(id, Len(Prefix) + 1, Len(id)) ELSE id

ToLower(c) == CASE c = "A" -> "a" [] c = "N" -> "n" [] OTHER -> c

\* From the first letter or digit to the last one; all of it if there is none.
TrimEnds(id) ==
    LET valid == {i \in DOMAIN id : id[i] \in Alnum}
    IN  IF valid = {} THEN id ELSE SubSeq(id, Min(valid), Max(valid))

Truncate(id) == SubSeq(id, 1, Min({Len(id), MaxName}))

ReplaceIllegalNone(id) == id
ReplaceIllegal(id) == [i \in DOMAIN id |-> IF id[i] \in Legal THEN id[i] ELSE "-"]

\* An ID that matches validIDRegex has nothing to replace.
VolumeIDToServiceName(id) ==
    ReplaceIllegal(Truncate(TrimEnds([i \in DOMAIN id |-> ToLower(id[i])])))

-----------------------------------------------------------------------------
(* exports.go *)

Lines(directory) == {line \in exports : IsPrefix(directory, line)}

checkExport(directory) == Lines(directory) # {}
AddExport(directory) == exports \cup {directory}
DeleteExportShort(directory) == exports \ Lines(SubSeq(directory, 1, Len(directory) - 1))
DeleteExport(directory) == exports \ Lines(directory)

-----------------------------------------------------------------------------

Init == volumes = {} /\ exports = {} /\ served = {}

CreateVolume(a) ==
    /\ Cardinality(volumes) < MaxVolumes
    /\ ArrayToNFSVolumeID(a) \notin volumes
    /\ volumes' = volumes \cup {ArrayToNFSVolumeID(a)}
    /\ UNCHANGED <<exports, served>>

\* The ID that makeNfsService sends to the node: it takes the prefix off for the
\* array and puts it on again.
RequestID(id) == ArrayToNFSVolumeID(ToArrayVolumeID(id))

\* The node looks for the directory it derives from the request; the host driver
\* mounts the volume on the one named after the Service.
ExportNfsVolume(id) ==
    LET path == VolumeIDToServiceName(id) \o <<"/">> IN
    /\ exports' = IF checkExport(VolumeIDToServiceName(RequestID(id)) \o <<"/">>)
                  THEN exports ELSE AddExport(path)
    /\ served' = served \cup {id}
    /\ UNCHANGED volumes

\* The directory is given without a slash at its end.
UnexportNfsVolume(id) ==
    /\ exports' = DeleteExport(VolumeIDToServiceName(id))
    /\ served' = served \ {id}
    /\ UNCHANGED volumes

Next ==
    \/ \E a \in ArrayIDs : CreateVolume(a)
    \/ \E id \in volumes : ExportNfsVolume(id) \/ UnexportNfsVolume(id)

Spec == Init /\ [][Next]_vars

-----------------------------------------------------------------------------
(* Properties *)

\* Every ID leads back to the volume of the array that it was made from, IDs that
\* look as if they had the prefix already included, and the node looks for the
\* export where the controller has it made.
SpellingsAgree ==
    \A id \in volumes :
        /\ ToArrayVolumeID(id) \in ArrayIDs /\ ArrayToNFSVolumeID(ToArrayVolumeID(id)) = id
        /\ VolumeIDToServiceName(RequestID(id)) = VolumeIDToServiceName(id)

\* A Service name is made of legal characters, is not too long, begins with a
\* letter or digit and, unless it was cut off, ends with one.
ServiceNameLegal ==
    \A id \in volumes :
        LET name == VolumeIDToServiceName(id) IN
        /\ \A i \in DOMAIN name : name[i] \in Legal
        /\ Len(name) \in 1..MaxName /\ name[1] \in Alnum
        /\ Len(id) <= MaxName => Last(name) \in Alnum

\* IDs from which no character is lost: their names differ when they do.
Plain(id) ==
    /\ Len(id) <= MaxName /\ Last(id) \in Alnum
    /\ \A i \in DOMAIN id : id[i] \in Legal

\* A volume stays exported until it is unexported itself, whatever the order in
\* which it and the others come and go, and an unexported one has no line left:
\* for array IDs of one length that a Service name can hold unchanged.  (With
\* others, unexporting one volume takes the line of another whose name begins
\* with its own, and two volumes can have one name.)
ExportsKeptApart ==
    (\A id, other \in volumes : Plain(id) /\ Len(id) = Len(other)) =>
        exports = {VolumeIDToServiceName(id) \o <<"/">> : id \in served}
=============================================================================
