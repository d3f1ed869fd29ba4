------------------------------- MODULE MCJudge -------------------------------
(***************************************************************************)
(* The instance of Judge that TLC checks: an export and the name it gets   *)
(* when it is encrypted, a decoy that may be deleted, a file others keep   *)
(* read-only, habit.db and the heartbeat; a program and its child, either  *)
(* of which may do the writing.                                            *)
(***************************************************************************)
EXTENDS Judge

CONSTANTS csv, locked, decoy, kept, db, beat, parent, child

MCFiles    == {csv, locked, decoy, kept, db, beat}
MCTypeOf   == [f \in MCFiles |-> IF f = locked THEN ".locked" ELSE ".csv"]
MCRenamed  == [f \in MCFiles |-> IF f = csv THEN locked ELSE NoFile]
MCFirst    == [f \in MCFiles |-> IF f = locked THEN "absent" ELSE "plain"]
MCWrites   == [f \in MCFiles |-> IF f = csv THEN {"noise", "empty"} ELSE {}]
MCChildren == [p \in {parent, child} |-> IF p = parent THEN {child} ELSE {}]

=============================================================================
