------------------------------ MODULE MCDemoRun ------------------------------
(***************************************************************************)
(* The instance of DemoRun that TLC checks: two exports and the name one   *)
(* of them would have after an encrypting rename, and a database backup.   *)
(***************************************************************************)
EXTENDS DemoRun

CONSTANTS csv, other, locked, db, day1, day2, cipher

MCPaths    == {csv, other, locked, db}
MCVersions == {day1, day2, cipher}

MCRank == [p \in MCPaths |-> CASE p = db -> 1 [] p = csv -> 2 [] p = locked -> 3
                               [] OTHER -> 4]
MCSuffix == [p \in MCPaths |-> CASE p = db -> ".db" [] p = locked -> ".locked"
                                 [] OTHER -> ".csv"]
MCStem == [p \in MCPaths |-> IF p = locked THEN csv ELSE NoPath]

MCHeaderOk    == [p \in MCPaths |-> [v \in MCVersions |-> p = locked \/ v # cipher]]
MCHighEntropy == [v \in MCVersions |-> v = cipher]
MCCards       == [v \in MCVersions |-> IF v = cipher THEN Unreadable ELSE 100]

MCFirstShare == [p \in MCPaths |-> IF p = locked THEN Absent ELSE day1]
MCRewrites   == [p \in MCPaths |-> {}]
MCQuiet      == [p \in MCPaths |-> IF p = locked THEN {} ELSE {day2}]
=============================================================================
