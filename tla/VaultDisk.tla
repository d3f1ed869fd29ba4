------------------------------ MODULE VaultDisk ------------------------------
(***************************************************************************)
(* The Vault's folder across crashes: the blobs, the manifests, the pin    *)
(* and the restored folders, each written the way write_locked writes a    *)
(* file: truncated, then filled, then locked.  A process that dies between *)
(* the two leaves a torn file behind, and nothing of what it held in       *)
(* memory.  What S7 and Protect mode decide is left open here: a pull may  *)
(* become the clean point or not (Vault is the module about that).         *)
(*                                                                         *)
(* A content is named by its SHA-256, so a blob that is torn holds other   *)
(* bytes than its name says.  The n-th manifest written has the n-th id.   *)
(***************************************************************************)
EXTENDS Integers, Sequences, FiniteSets

CONSTANTS Files,       \* paths in the share
          Contents,    \* what a file may hold
          MaxPulls,    \* manifests begun; bounds the model
          MaxCrashes   \* bounds the model

Absent == "absent"
NoId == 0      \* no clean point yet
TornId == -1   \* clean_point is there, and is empty

ASSUME DiskAssumption ==
  /\ Files # {} /\ Absent \notin Contents
  /\ MaxPulls \in Nat \ {0} /\ MaxCrashes \in Nat

VARIABLES
  share,      \* the server's files
  blobs,      \* blobs[c]: "none", "torn" or "whole"
  manifests,  \* in the order of their ids
  pin,        \* clean_point: the id in it
  folders,    \* folders[n]: what the restore folder of snapshot n is
  pc,         \* where the Vault's process is
  left,       \* the files this pull or this restore still has to handle
  entries,    \* what this pull has read so far
  writing,    \* the content whose blob it writes now, or Absent
  target,     \* the snapshot this restore copies out
  hashesOk,   \* and whether every file matched so far
  crashes

disk == <<blobs, manifests, pin, folders>>
memory == <<left, entries, writing, target, hashesOk>>
vars == <<share, disk, pc, memory, crashes>>

Ids == 1 .. Len(manifests)
NoFiles == [f \in Files |-> Absent]
Listed(files) == {files[f] : f \in Files} \ {Absent}

\* A folder that no restore has begun to fill.
NoFolder == [state |-> "none", bytesOk |-> TRUE]

Init ==
  /\ share \in [Files -> Contents]
  /\ blobs = [c \in Contents |-> "none"]
  /\ manifests = <<>> /\ pin = NoId
  /\ folders = [n \in 1 .. MaxPulls |-> NoFolder]
  /\ pc = "idle" /\ left = {} /\ entries = NoFiles /\ writing = Absent
  /\ target = NoId /\ hashesOk = TRUE /\ crashes = 0

\* The server writes or deletes a file, also in the middle of a pull.  A write
\* while the Vault does not read the share is one of the times it does.
OfficeWrites ==
  /\ pc \in {"idle", "copying"}
  /\ \E f \in Files, c \in Contents \union {Absent} :
       share[f] # c /\ share' = [share EXCEPT ![f] = c]
  /\ UNCHANGED <<disk, pc, memory, crashes>>

-----------------------------------------------------------------------------
(* pull.                                                                   *)

PullBegins ==
  /\ pc = "idle" /\ Len(manifests) < MaxPulls
  /\ left' = Files /\ entries' = NoFiles
  /\ pc' = "copying"
  /\ UNCHANGED <<share, disk, writing, target, hashesOk, crashes>>

\* A blob that is there is not written again, whole or torn.
FileIsStored ==
  /\ pc = "copying"
  /\ \E f \in left :
       /\ share[f] # Absent /\ blobs[share[f]] # "none"
       /\ entries' = [entries EXCEPT ![f] = share[f]]
       /\ left' = left \ {f}
  /\ UNCHANGED <<share, disk, pc, writing, target, hashesOk, crashes>>

\* The file is opened for writing, and is empty from here on ...
BlobBegins ==
  /\ pc = "copying"
  /\ \E f \in left :
       /\ share[f] # Absent /\ blobs[share[f]] = "none"
       /\ entries' = [entries EXCEPT ![f] = share[f]]
       /\ left' = left \ {f}
       /\ blobs' = [blobs EXCEPT ![share[f]] = "torn"]
       /\ writing' = share[f]
  /\ pc' = "storing"
  /\ UNCHANGED <<share, manifests, pin, folders, target, hashesOk, crashes>>

\* ... until its bytes are in it.
BlobEnds ==
  /\ pc = "storing"
  /\ blobs' = [blobs EXCEPT ![writing] = "whole"] /\ writing' = Absent
  /\ pc' = "copying"
  /\ UNCHANGED <<share, manifests, pin, folders, left, entries, target, hashesOk, crashes>>

\* Gone before it was looked at; or after, and then the read raises.
FileIsGone ==
  /\ pc = "copying"
  /\ \E f \in left :
       /\ share[f] = Absent
       /\ left' = left \ {f}
       /\ pc' \in {"copying", "idle"}
  /\ UNCHANGED <<share, disk, entries, writing, target, hashesOk, crashes>>

\* _clean_baseline reads the pin, and the manifest it names, or raises.
ReadsBaseline ==
  /\ pc = "copying" /\ left = {}
  /\ pc' = IF pin # NoId => pin \in Ids /\ manifests[pin].whole
           THEN "assessed" ELSE "idle"
  /\ UNCHANGED <<share, disk, memory, crashes>>

\* write_manifest, begun and ended.
ManifestBegins ==
  /\ pc = "assessed"
  /\ \E clean \in BOOLEAN :
       manifests' = Append(manifests,
                      [files |-> entries, clean |-> clean, whole |-> FALSE])
  /\ pc' = "listing"
  /\ UNCHANGED <<share, blobs, pin, folders, memory, crashes>>

ManifestEnds ==
  /\ pc = "listing"
  /\ manifests' = [manifests EXCEPT ![Len(manifests)].whole = TRUE]
  /\ pc' = "listed"
  /\ UNCHANGED <<share, blobs, pin, folders, memory, crashes>>

\* Protect mode holds the pin, or the pull is not CLEAN.
PinIsHeld ==
  /\ pc = "listed" /\ pc' = "idle"
  /\ UNCHANGED <<share, disk, memory, crashes>>

\* Fault: the pin moves before the manifest it names is written out.
PinBegins_Early ==
  /\ pc \in {"listing", "listed"} /\ manifests[Len(manifests)].clean
  /\ pin' = TornId /\ pc' = "pinning"
  /\ UNCHANGED <<share, blobs, manifests, folders, memory, crashes>>

PinBegins ==
  /\ pc = "listed" /\ manifests[Len(manifests)].clean
  /\ pin' = TornId /\ pc' = "pinning"
  /\ UNCHANGED <<share, blobs, manifests, folders, memory, crashes>>

PinEnds ==
  /\ pc = "pinning"
  /\ pin' = Len(manifests) /\ pc' = "idle"
  /\ UNCHANGED <<share, blobs, manifests, folders, memory, crashes>>

-----------------------------------------------------------------------------
(* restore.                                                                *)

\* A folder that exists, for whatever reason, is refused.
RestoreBegins ==
  /\ pc = "idle"
  /\ \E n \in Ids :
       /\ manifests[n].whole /\ folders[n].state = "none"
       /\ target' = n
       /\ left' = {f \in Files : manifests[n].files[f] # Absent}
       /\ folders' = [folders EXCEPT ![n].state = "partial"]
  /\ hashesOk' = TRUE /\ pc' = "restoring"
  /\ UNCHANGED <<share, blobs, manifests, pin, entries, writing, crashes>>

\* One file of it: does the blob still hold what its name says?
BytesOk(f) == blobs[manifests[target].files[f]] = "whole"

\* Fault: the files are copied, and that they were is all that is said.
RestoreCopies_Unchecked ==
  /\ pc = "restoring"
  /\ \E f \in left :
       /\ folders' = [folders EXCEPT ![target].bytesOk = @ /\ BytesOk(f)]
       /\ left' = left \ {f}
  /\ UNCHANGED <<share, blobs, manifests, pin, pc, entries, writing, target, hashesOk, crashes>>

RestoreCopies ==
  /\ pc = "restoring"
  /\ \E f \in left :
       /\ folders' = [folders EXCEPT ![target].bytesOk = @ /\ BytesOk(f)]
       /\ hashesOk' = (hashesOk /\ BytesOk(f))
       /\ left' = left \ {f}
  /\ UNCHANGED <<share, blobs, manifests, pin, pc, entries, writing, target, crashes>>

\* The other checks (types, tables, cards) may fail on bytes that match.
RestoreEnds ==
  /\ pc = "restoring" /\ left = {}
  /\ \E others \in BOOLEAN :
       folders' = [folders EXCEPT
                     ![target].state = IF hashesOk /\ others THEN "ok" ELSE "failed"]
  /\ pc' = "idle"
  /\ UNCHANGED <<share, blobs, manifests, pin, memory, crashes>>

-----------------------------------------------------------------------------
(* The process dies, and a Vault is built again over the folder.           *)

Crash ==
  /\ pc # "down" /\ crashes < MaxCrashes
  /\ crashes' = crashes + 1 /\ pc' = "down"
  /\ left' = {} /\ entries' = NoFiles /\ writing' = Absent
  /\ target' = NoId /\ hashesOk' = TRUE
  /\ UNCHANGED <<share, disk>>

\* The constructor reads the newest manifest, and raises on a torn one.
Readable == \A n \in Ids : n = Len(manifests) => manifests[n].whole

Rebuild ==
  /\ pc = "down" /\ Readable
  /\ pc' = "idle"
  /\ UNCHANGED <<share, disk, memory, crashes>>

Next ==
  \/ OfficeWrites
  \/ PullBegins \/ FileIsStored \/ BlobBegins \/ BlobEnds \/ FileIsGone
  \/ ReadsBaseline \/ ManifestBegins \/ ManifestEnds
  \/ PinIsHeld \/ PinBegins \/ PinEnds
  \/ RestoreBegins \/ RestoreCopies \/ RestoreEnds
  \/ Crash \/ Rebuild

Spec == Init /\ [][Next]_vars

-----------------------------------------------------------------------------
\* Every variable keeps its type.
TypeOK ==
  /\ share \in [Files -> Contents \union {Absent}]
  /\ blobs \in [Contents -> {"none", "torn", "whole"}]
  /\ manifests \in Seq([files : [Files -> Contents \union {Absent}],
                        clean : BOOLEAN, whole : BOOLEAN])
  /\ Len(manifests) \in 0 .. MaxPulls
  /\ pin \in {NoId, TornId} \union Ids
  /\ folders \in [1 .. MaxPulls ->
                   [state : {"none", "partial", "ok", "failed"}, bytesOk : BOOLEAN]]
  /\ pc \in {"idle", "copying", "storing", "assessed", "listing", "listed",
             "pinning", "restoring", "down"}
  /\ left \subseteq Files /\ entries \in [Files -> Contents \union {Absent}]
  /\ writing \in Contents \union {Absent}
  /\ target \in {NoId} \union Ids /\ hashesOk \in BOOLEAN
  /\ crashes \in 0 .. MaxCrashes

\* "Every claim in the result comes from a check that actually ran": a restore
\* that says ok has put back, byte for byte, what was pulled, though a crash of
\* long ago may have left a torn blob that every pull since has reused.
RestoreTellsTheTruth ==
  \A n \in Ids : folders[n].state = "ok" => folders[n].bytesOk

\* Whatever a crash cuts short, a manifest lists only blobs that exist, and a
\* clean point that can be read names a CLEAN snapshot that can be read.
WhatIsListedIsThere ==
  /\ \A n \in Ids : \A c \in Listed(manifests[n].files) : blobs[c] # "none"
  /\ pin \in Ids => manifests[pin].whole /\ manifests[pin].clean

\* What makes the two inductive: how far a restore and a pull have come.
RestoreInFlight ==
  /\ \A n \in 1 .. MaxPulls :
       folders[n].state \in {"none", "ok"} => folders[n].bytesOk
  /\ pc = "restoring" =>
       /\ target \in Ids /\ folders[target].state = "partial"
       /\ hashesOk => folders[target].bytesOk

PullInFlight ==
  /\ \A c \in Listed(entries) : blobs[c] # "none"
  /\ pc \in {"copying", "storing", "assessed"} => Len(manifests) < MaxPulls
  /\ pc = "storing" => writing # Absent
  /\ pc \in {"listing", "listed", "pinning"} => manifests # <<>>
  /\ pc \in {"listed", "pinning"} => manifests[Len(manifests)].whole
  /\ pc = "pinning" => manifests[Len(manifests)].clean

DiskInv == TypeOK /\ WhatIsListedIsThere /\ RestoreInFlight /\ PullInFlight
=============================================================================
