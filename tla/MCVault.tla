------------------------------ MODULE MCVault ------------------------------
(***************************************************************************)
(* The instance of Vault that TLC checks: a share with one export, the     *)
(* name the export would have after an encrypting rename, and one database *)
(* backup.                                                                 *)
(***************************************************************************)
EXTENDS Vault

CONSTANTS csv, locked, db, day, night, lossy, cipher

MCPaths    == {csv, locked, db}
MCVersions == {day, night, lossy, cipher}

MCRank   == [p \in MCPaths |-> CASE p = db -> 1 [] p = csv -> 2 [] OTHER -> 3]
MCSuffix == [p \in MCPaths |-> CASE p = db -> ".db" [] p = csv -> ".csv" [] OTHER -> ".locked"]
MCStem   == [p \in MCPaths |-> IF p = locked THEN csv ELSE NoPath]

(* An unknown extension has no header to be wrong. *)
MCHeaderOk    == [p \in MCPaths |-> [v \in MCVersions |-> p = locked \/ v # cipher]]
MCHighEntropy == [v \in MCVersions |-> v = cipher]

(* An ordinary night loses 1 card of 100; a bad one loses 10. *)
MCCards == [v \in MCVersions |->
              CASE v = day -> 100 [] v = night -> 99 [] v = lossy -> 90
                [] OTHER -> Unreadable]

MCFirstShare == [p \in MCPaths |-> IF p = locked THEN Absent ELSE day]

MCRewrites == [p \in MCPaths |-> CASE p = csv -> {night, cipher, Absent}
                                   [] p = db  -> {night, lossy, cipher}
                                   [] OTHER   -> {}]

=============================================================================
