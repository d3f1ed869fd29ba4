--------------------------- MODULE VaultDiskProofs ---------------------------
(***************************************************************************)
(* Proofs about VaultDisk: what holds of the Vault's folder after any      *)
(* number of crashes, for every share and every number of pulls.           *)
(***************************************************************************)
EXTENDS VaultDisk, SequenceTheorems, TLAPS

\* What a manifest on the disk may be.
Manifest == [files : [Files -> Contents \union {Absent}], clean : BOOLEAN, whole : BOOLEAN]

\* What a restored folder may be.
Folder == [state : {"none", "partial", "ok", "failed"}, bytesOk : BOOLEAN]

(* A manifest written out is the same manifest. *)
LEMMA WrittenOut ==
  ASSUME NEW m \in Manifest
  PROVE  LET w == [m EXCEPT !.whole = TRUE]
         IN  w \in Manifest /\ w.files = m.files /\ w.clean = m.clean /\ w.whole
BY DEF Manifest

(* One file copied into a folder leaves its state alone. *)
LEMMA CopiedInto ==
  ASSUME NEW d \in Folder, NEW ok \in BOOLEAN
  PROVE  LET w == [d EXCEPT !.bytesOk = @ /\ ok]
         IN  w \in Folder /\ w.state = d.state /\ w.bytesOk = (d.bytesOk /\ ok)
BY DEF Folder

\* The empty share is a share.
LEMMA NoFilesIsAShare == NoFiles \in [Files -> Contents \union {Absent}]
BY DEF NoFiles

(* What an empty reading lists: nothing. *)
LEMMA NoFilesListsNothing == Listed(NoFiles) = {}
BY DEF Listed, NoFiles

(* A manifest on the disk is one. *)
LEMMA ManifestIsOne ==
  ASSUME TypeOK, NEW n \in Ids
  PROVE  manifests[n] \in Manifest
<1>1. manifests \in Seq(Manifest) /\ n \in 1 .. Len(manifests)
  BY DEF TypeOK, Manifest, Ids
<1>2. QED
  BY <1>1, ElementOfSeq

(* A blob that exists goes on existing: no step takes one away. *)
LEMMA BlobsStay ==
  ASSUME TypeOK, [Next]_vars
  PROVE  \A c \in Contents : blobs[c] # "none" => blobs'[c] # "none"
<1> USE DEF TypeOK
<1>1. CASE BlobBegins
  BY <1>1 DEF BlobBegins
<1>2. CASE BlobEnds
  BY <1>2 DEF BlobEnds
<1>3. CASE UNCHANGED blobs
  BY <1>3
<1>4. QED
  BY <1>1, <1>2, <1>3
  DEF Next, vars, disk, OfficeWrites, PullBegins, FileIsStored, FileIsGone,
      ReadsBaseline, ManifestBegins, ManifestEnds, PinIsHeld, PinBegins, PinEnds,
      RestoreBegins, RestoreCopies, RestoreEnds, Crash, Rebuild

(* The manifests are written one after the other, and one that is there keeps *)
(* what it lists and what it was said to be; it may only become whole.        *)
LEMMA ManifestsStay ==
  ASSUME DiskInv, [Next]_vars
  PROVE  /\ Len(manifests') \in {Len(manifests), Len(manifests) + 1}
         /\ Len(manifests') \in 0 .. MaxPulls
         /\ manifests' \in Seq(Manifest)
         /\ \A n \in Ids : /\ n \in 1 .. Len(manifests')
                           /\ manifests'[n].files = manifests[n].files
                           /\ manifests[n].clean => manifests'[n].clean
                           /\ manifests[n].whole => manifests'[n].whole
<1> USE DiskAssumption DEF DiskInv, TypeOK, Ids, Manifest
<1>1. CASE ManifestBegins
  <2>1. PICK clean \in BOOLEAN :
          manifests' = Append(manifests,
                         [files |-> entries, clean |-> clean, whole |-> FALSE])
    BY <1>1 DEF ManifestBegins
  <2>2. [files |-> entries, clean |-> clean, whole |-> FALSE] \in Manifest
    OBVIOUS
  <2>3. Len(manifests) < MaxPulls
    BY <1>1 DEF ManifestBegins, PullInFlight
  <2>4. QED
    BY <2>1, <2>2, <2>3
<1>2. CASE ManifestEnds
  <2> DEFINE last == Len(manifests)
  <2>1. last \in DOMAIN manifests
    BY <1>2 DEF ManifestEnds, PullInFlight
  <2> DEFINE out == [manifests[last] EXCEPT !.whole = TRUE]
  <2>2. manifests' = [manifests EXCEPT ![last] = out]
    BY <1>2 DEF ManifestEnds
  <2>m. manifests \in Seq(Manifest)
    OBVIOUS
  <2>o. manifests[last] \in Manifest
    <3>1. last \in 1 .. Len(manifests)
      BY <2>1
    <3> HIDE DEF TypeOK, Manifest, last
    <3>2. QED
      BY <2>m, <3>1, ElementOfSeq
  <2>3. /\ out \in Manifest /\ out.files = manifests[last].files
        /\ out.clean = manifests[last].clean /\ out.whole
    BY <2>o, WrittenOut
  <2> HIDE DEF last, out
  <2>4. manifests' \in Seq(Manifest) /\ Len(manifests') = Len(manifests)
    BY <2>1, <2>2, <2>3
  <2>5. \A n \in Ids : manifests'[n] = IF n = last THEN out ELSE manifests[n]
    BY <2>1, <2>2
  <2>6. QED
    BY <2>3, <2>4, <2>5
<1>3. CASE UNCHANGED manifests
  BY <1>3
<1>4. QED
  BY <1>1, <1>2, <1>3
  DEF Next, vars, disk, OfficeWrites, PullBegins, FileIsStored, FileIsGone,
      BlobBegins, BlobEnds, ReadsBaseline, PinIsHeld, PinBegins, PinEnds,
      RestoreBegins, RestoreCopies, RestoreEnds, Crash, Rebuild

(* The initial folder, in which there is nothing yet. *)
LEMMA DiskInvInit == Init => DiskInv
<1> SUFFICES ASSUME Init PROVE DiskInv
  OBVIOUS
<1> USE DiskAssumption DEF Init
<1>1. TypeOK
  BY NoFilesIsAShare DEF TypeOK, NoFolder, Ids
<1>2. WhatIsListedIsThere
  BY DEF WhatIsListedIsThere, Ids
<1>3. RestoreInFlight
  BY DEF RestoreInFlight, NoFolder
<1>4. PullInFlight
  BY NoFilesListsNothing DEF PullInFlight
<1>5. QED
  BY <1>1, <1>2, <1>3, <1>4 DEF DiskInv

(* Every variable keeps its type through every pull, restore and crash. *)
LEMMA DiskTypeStep ==
  ASSUME DiskInv, [Next]_vars
  PROVE  TypeOK'
<1> USE DiskAssumption DEF TypeOK, DiskInv, NoId, TornId
<1>m. /\ manifests' \in Seq(Manifest) /\ Len(manifests') \in 0 .. MaxPulls
      /\ Ids \subseteq Ids'
  BY ManifestsStay DEF Ids
<1>p. manifests' \in Seq([files : [Files -> Contents \union {Absent}],
                          clean : BOOLEAN, whole : BOOLEAN])
  BY <1>m DEF Manifest
<1>s. share' \in [Files -> Contents \union {Absent}]
  BY DEF Next, vars, disk, OfficeWrites, PullBegins, FileIsStored, FileIsGone,
      BlobBegins, BlobEnds, ReadsBaseline, PinIsHeld, PinBegins, PinEnds,
      ManifestBegins, ManifestEnds, RestoreBegins, RestoreCopies, RestoreEnds,
      Crash, Rebuild
<1>1. CASE OfficeWrites
  BY <1>1, <1>s, <1>m, <1>p DEF OfficeWrites, disk, memory
<1>2. CASE PullBegins
  BY <1>2, NoFilesIsAShare, <1>m, <1>p DEF PullBegins, disk
<1>3. CASE FileIsStored
  BY <1>3, <1>m, <1>p DEF FileIsStored, disk
<1>4. CASE BlobBegins
  BY <1>4, <1>m, <1>p DEF BlobBegins
<1>5. CASE BlobEnds
  BY <1>5, <1>m, <1>p DEF BlobEnds
<1>6. CASE FileIsGone
  BY <1>6, <1>m, <1>p DEF FileIsGone, disk
<1>7. CASE ReadsBaseline
  BY <1>7, <1>m, <1>p DEF ReadsBaseline, disk, memory
<1>8. CASE ManifestBegins
  BY <1>8, <1>m, <1>p DEF ManifestBegins, memory
<1>9. CASE ManifestEnds
  BY <1>9, <1>m, <1>p DEF ManifestEnds, memory
<1>10. CASE PinIsHeld
  BY <1>10, <1>m, <1>p DEF PinIsHeld, disk, memory
<1>11. CASE PinBegins
  BY <1>11, <1>m, <1>p DEF PinBegins, memory
<1>12. CASE PinEnds
  <2>1. Len(manifests) \in Ids'
    BY <1>12, <1>m DEF PinEnds, PullInFlight, Ids
  <2>2. QED
    BY <1>12, <1>m, <1>p, <2>1 DEF PinEnds, memory
<1>13. CASE RestoreBegins
  <2>1. PICK n \in Ids :
          /\ target' = n
          /\ left' = {f \in Files : manifests[n].files[f] # Absent}
          /\ folders' = [folders EXCEPT ![n].state = "partial"]
    BY <1>13 DEF RestoreBegins
  <2>2. folders' \in [1 .. MaxPulls ->
                       [state : {"none", "partial", "ok", "failed"}, bytesOk : BOOLEAN]]
    BY <2>1
  <2>3. QED
    BY <1>13, <2>1, <2>2, <1>m, <1>p DEF RestoreBegins
<1>14. CASE RestoreCopies
  <2>1. PICK f \in left :
          /\ folders' = [folders EXCEPT ![target].bytesOk = @ /\ BytesOk(f)]
          /\ hashesOk' = (hashesOk /\ BytesOk(f))
          /\ left' = left \ {f}
    BY <1>14 DEF RestoreCopies
  <2>2. BytesOk(f) \in BOOLEAN
    BY DEF BytesOk
  <2>t. target \in 1 .. MaxPulls
    BY <1>14 DEF RestoreCopies, RestoreInFlight, Ids
  <2> DEFINE copied == [folders[target] EXCEPT !.bytesOk = @ /\ BytesOk(f)]
  <2>c. copied \in Folder
    BY <2>2, <2>t, CopiedInto DEF Folder
  <2>e. folders' = [folders EXCEPT ![target] = copied]
    BY <2>1
  <2> HIDE DEF copied
  <2>3. folders' \in [1 .. MaxPulls ->
                       [state : {"none", "partial", "ok", "failed"}, bytesOk : BOOLEAN]]
    BY <2>t, <2>c, <2>e DEF Folder
  <2>4. hashesOk' \in BOOLEAN
    BY <2>1, <2>2
  <2>5. QED
    BY <1>14, <2>1, <2>3, <2>4, <1>m, <1>p DEF RestoreCopies
<1>15. CASE RestoreEnds
  <2>1. PICK verdict \in {"ok", "failed"} :
          folders' = [folders EXCEPT ![target].state = verdict]
    BY <1>15 DEF RestoreEnds
  <2>2. folders' \in [1 .. MaxPulls ->
                       [state : {"none", "partial", "ok", "failed"}, bytesOk : BOOLEAN]]
    BY <2>1
  <2>3. QED
    BY <1>15, <2>2, <1>m, <1>p DEF RestoreEnds, memory
<1>16. CASE Crash
  BY <1>16, NoFilesIsAShare, <1>m, <1>p DEF Crash, disk
<1>17. CASE Rebuild
  BY <1>17, <1>m, <1>p DEF Rebuild, disk, memory
<1>18. CASE UNCHANGED vars
  BY <1>18, <1>m, <1>p, <1>s DEF vars, disk, memory
<1>19. QED
  BY <1>1, <1>2, <1>3, <1>4, <1>5, <1>6, <1>7, <1>8, <1>9, <1>10, <1>11,
     <1>12, <1>13, <1>14, <1>15, <1>16, <1>17, <1>18 DEF Next

(* What the manifests list is there: a step adds a manifest of what this pull *)
(* has read, and of that every blob exists.                                   *)
LEMMA ListedStep ==
  ASSUME DiskInv, [Next]_vars
  PROVE  WhatIsListedIsThere'
<1>t. TypeOK /\ PullInFlight /\ WhatIsListedIsThere
  BY DEF DiskInv
<1>b. \A c \in Contents : blobs[c] # "none" => blobs'[c] # "none"
  BY <1>t, BlobsStay
<1>m. /\ Len(manifests') \in {Len(manifests), Len(manifests) + 1}
      /\ \A n \in Ids : /\ manifests'[n].files = manifests[n].files
                        /\ manifests[n].clean => manifests'[n].clean
                        /\ manifests[n].whole => manifests'[n].whole
  BY ManifestsStay
<1>o. \A n \in Ids : \A c \in Listed(manifests'[n].files) : blobs'[c] # "none"
  <2> SUFFICES ASSUME NEW n \in Ids, NEW c \in Listed(manifests'[n].files)
               PROVE  blobs'[c] # "none"
    OBVIOUS
  <2>1. c \in Listed(manifests[n].files)
    BY <1>m
  <2>2. blobs[c] # "none"
    BY <1>t, <2>1 DEF WhatIsListedIsThere
  <2>3. manifests[n].files \in [Files -> Contents \union {Absent}]
    BY <1>t, ManifestIsOne DEF Manifest
  <2>4. c \in Contents
    BY <2>1, <2>3 DEF Listed
  <2>5. QED
    BY <2>2, <2>4, <1>b
<1> USE DiskAssumption, <1>t DEF TypeOK
<1>1. \A n \in Ids' : \A c \in Listed(manifests'[n].files) : blobs'[c] # "none"
  <2>1. CASE Len(manifests') = Len(manifests)
    BY <2>1, <1>o DEF Ids
  <2>2. CASE Len(manifests') = Len(manifests) + 1
    <3>1. ManifestBegins
      BY <2>2
      DEF Next, vars, disk, OfficeWrites, PullBegins, FileIsStored, FileIsGone,
          BlobBegins, BlobEnds, ReadsBaseline, PinIsHeld, PinBegins, PinEnds,
          ManifestEnds, RestoreBegins, RestoreCopies, RestoreEnds, Crash, Rebuild
    <3>2. manifests'[Len(manifests')].files = entries
      BY <3>1 DEF ManifestBegins
    <3>3. \A c \in Listed(entries) : blobs[c] # "none" /\ c \in Contents
      BY DEF PullInFlight, Listed
    <3>4. \A c \in Listed(manifests'[Len(manifests')].files) : blobs'[c] # "none"
      BY <3>2, <3>3, <1>b
    <3>5. \A n \in Ids' : n \in Ids \/ n = Len(manifests')
      BY <2>2 DEF Ids
    <3>6. QED
      BY <3>4, <3>5, <1>o, Zenon
  <2>3. QED
    BY <1>m, <2>1, <2>2
<1>2. ASSUME pin' \in Ids'
      PROVE  manifests'[pin'].whole /\ manifests'[pin'].clean
  <2>1. CASE PinEnds
    BY <2>1, <1>m DEF PinEnds, PullInFlight, memory, Ids
  <2>2. CASE PinBegins
    BY <1>2, <2>2 DEF PinBegins, TornId, Ids
  <2>3. CASE UNCHANGED pin
    <3>1. pin \in Ids
      BY <1>2, <2>3, <1>m DEF NoId, TornId, Ids
    <3>2. manifests[pin].whole /\ manifests[pin].clean
      BY <3>1 DEF WhatIsListedIsThere
    <3>3. manifests'[pin].whole /\ manifests'[pin].clean
      BY <3>1, <3>2, <1>m, Zenon
    <3>4. QED
      BY <2>3, <3>3
  <2>4. QED
    BY <2>1, <2>2, <2>3
    DEF Next, vars, disk, OfficeWrites, PullBegins, FileIsStored, FileIsGone,
        BlobBegins, BlobEnds, ReadsBaseline, PinIsHeld, ManifestBegins,
        ManifestEnds, RestoreBegins, RestoreCopies, RestoreEnds, Crash, Rebuild
<1>3. QED
  BY <1>1, <1>2 DEF WhatIsListedIsThere

(* A restore says ok only of a folder it has filled with the right bytes. *)
LEMMA RestoreStep ==
  ASSUME DiskInv, [Next]_vars
  PROVE  RestoreInFlight'
<1>l. Len(manifests) \in 0 .. MaxPulls /\ MaxPulls \in Nat
  BY DiskAssumption DEF DiskInv, TypeOK
<1>m. Len(manifests) <= Len(manifests') /\ Ids \subseteq Ids' /\ Ids \subseteq 1 .. MaxPulls
  BY ManifestsStay, <1>l DEF Ids
<1> USE DiskAssumption DEF DiskInv, TypeOK, RestoreInFlight
<1>1. CASE RestoreBegins
  <2>1. PICK n \in Ids :
          /\ folders[n].state = "none" /\ target' = n
          /\ folders' = [folders EXCEPT ![n].state = "partial"]
    BY <1>1 DEF RestoreBegins
  <2>2. QED
    BY <1>1, <2>1, <1>m DEF RestoreBegins
<1>2. CASE RestoreCopies
  <2>1. PICK f \in left :
          /\ folders' = [folders EXCEPT ![target].bytesOk = @ /\ BytesOk(f)]
          /\ hashesOk' = (hashesOk /\ BytesOk(f))
    BY <1>2 DEF RestoreCopies
  <2>2. pc = "restoring" /\ pc' = "restoring" /\ target' = target /\ target \in Ids
        /\ folders[target].state = "partial"
    BY <1>2 DEF RestoreCopies
  <2>3. QED
    BY <1>2, <2>1, <2>2, <1>m
<1>3. CASE RestoreEnds
  <2>1. PICK others \in BOOLEAN :
          folders' = [folders EXCEPT
                        ![target].state = IF hashesOk /\ others THEN "ok" ELSE "failed"]
    BY <1>3 DEF RestoreEnds
  <2>2. QED
    BY <1>3, <2>1, <1>m DEF RestoreEnds
<1>4. CASE UNCHANGED folders /\ pc' # "restoring"
  BY <1>4
<1>5. CASE UNCHANGED <<folders, pc, target, hashesOk>>
  BY <1>5, <1>m
<1>6. QED
  BY <1>1, <1>2, <1>3, <1>4, <1>5
  DEF Next, vars, disk, memory, OfficeWrites, PullBegins, FileIsStored, FileIsGone,
      BlobBegins, BlobEnds, ReadsBaseline, PinIsHeld, PinBegins, PinEnds,
      ManifestBegins, ManifestEnds, Crash, Rebuild

(* How far a pull has come: what it has read is stored, or being stored, and *)
(* its manifest is written out before the pin is touched.                    *)
LEMMA PullStep ==
  ASSUME DiskInv, [Next]_vars
  PROVE  PullInFlight'
<1> USE DiskAssumption DEF DiskInv, TypeOK
<1>b. \A c \in Contents : blobs[c] # "none" => blobs'[c] # "none"
  BY BlobsStay
<1>r. Listed(entries) \subseteq Contents
  BY DEF Listed
<1>1. \A c \in Listed(entries') : blobs'[c] # "none"
  <2>1. CASE UNCHANGED entries
    BY <2>1, <1>b, <1>r DEF PullInFlight, Listed
  <2>2. CASE entries' = NoFiles
    BY <2>2, NoFilesListsNothing
  <2>3. CASE FileIsStored \/ BlobBegins
    <3>1. PICK f \in left : /\ share[f] \in Contents
                           /\ blobs'[share[f]] # "none"
                           /\ entries' = [entries EXCEPT ![f] = share[f]]
      BY <2>3 DEF FileIsStored, BlobBegins, disk
    <3>2. Listed(entries') \subseteq Listed(entries) \union {share[f]}
      BY <3>1 DEF Listed
    <3>3. QED
      BY <3>1, <3>2, <1>b, <1>r DEF PullInFlight
  <2>4. QED
    BY <2>1, <2>2, <2>3
    DEF Next, vars, memory, OfficeWrites, PullBegins, FileIsGone, BlobEnds,
        ReadsBaseline, PinIsHeld, PinBegins, PinEnds, ManifestBegins,
        ManifestEnds, RestoreBegins, RestoreCopies, RestoreEnds, Crash, Rebuild
<1>2. /\ pc' \in {"copying", "storing", "assessed"} => Len(manifests') < MaxPulls
      /\ pc' = "storing" => writing' # Absent
      /\ pc' \in {"listing", "listed", "pinning"} => manifests' # <<>>
      /\ pc' \in {"listed", "pinning"} => manifests'[Len(manifests')].whole
      /\ pc' = "pinning" => manifests'[Len(manifests')].clean
  <2> USE DEF PullInFlight
  <2>1. CASE ManifestBegins
    BY <2>1 DEF ManifestBegins
  <2>2. CASE ManifestEnds
    <3>1. Len(manifests) \in DOMAIN manifests
      BY <2>2 DEF ManifestEnds
    <3>2. /\ Len(manifests') = Len(manifests)
          /\ manifests'[Len(manifests)] = [manifests[Len(manifests)] EXCEPT !.whole = TRUE]
      BY <2>2, <3>1 DEF ManifestEnds
    <3>3. manifests[Len(manifests)] \in Manifest
      BY <3>1, ManifestIsOne DEF Ids
    <3>4. manifests'[Len(manifests')].whole
      BY <3>2, <3>3, WrittenOut
    <3>5. QED
      BY <2>2, <3>1, <3>2, <3>4 DEF ManifestEnds
  <2>3. CASE BlobBegins
    BY <2>3 DEF BlobBegins
  <2>4. CASE OfficeWrites \/ PullBegins \/ FileIsStored \/ BlobEnds \/ FileIsGone
    BY <2>4 DEF OfficeWrites, PullBegins, FileIsStored, BlobEnds, FileIsGone, disk, memory
  <2>5. CASE ReadsBaseline \/ PinIsHeld \/ PinBegins \/ PinEnds
    BY <2>5 DEF ReadsBaseline, PinIsHeld, PinBegins, PinEnds, disk, memory
  <2>6. CASE RestoreBegins \/ RestoreCopies \/ RestoreEnds \/ Crash \/ Rebuild
    BY <2>6 DEF RestoreBegins, RestoreCopies, RestoreEnds, Crash, Rebuild, disk, memory
  <2>7. CASE UNCHANGED vars
    BY <2>7 DEF vars, disk, memory
  <2>8. QED
    BY <2>1, <2>2, <2>3, <2>4, <2>5, <2>6, <2>7 DEF Next
<1>3. QED
  BY <1>1, <1>2 DEF PullInFlight

(* The inductive invariant, of every share, number of pulls and of crashes. *)
THEOREM DiskCorrect == Spec => []DiskInv
<1>1. DiskInv /\ [Next]_vars => DiskInv'
  BY DiskTypeStep, ListedStep, RestoreStep, PullStep DEF DiskInv
<1>2. QED
  BY DiskInvInit, <1>1, PTL DEF Spec

(* Every variable keeps its type, whatever a crash cuts short. *)
THEOREM DiskTypeCorrect == Spec => []TypeOK
<1>1. DiskInv => TypeOK
  BY DEF DiskInv
<1>2. QED
  BY DiskCorrect, <1>1, PTL

(* A restore that says it went well has put back, byte for byte, what was  *)
(* pulled: however many crashes tore a blob on the way.                    *)
THEOREM RestoresAreTrue == Spec => []RestoreTellsTheTruth
<1>1. DiskInv => RestoreTellsTheTruth
  BY DiskAssumption DEF DiskInv, TypeOK, RestoreInFlight, RestoreTellsTheTruth, Ids
<1>2. QED
  BY DiskCorrect, <1>1, PTL

(* Every blob a manifest lists exists, and a clean point that can be read *)
(* names a snapshot that can be read and was CLEAN, after any crash.      *)
THEOREM ListingsAreTrue == Spec => []WhatIsListedIsThere
<1>1. DiskInv => WhatIsListedIsThere
  BY DEF DiskInv
<1>2. QED
  BY DiskCorrect, <1>1, PTL
=============================================================================
