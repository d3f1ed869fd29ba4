-------------------------------- MODULE Habit --------------------------------
(***************************************************************************)
(* The habit cards of src/nightkeep/habit/: for each job the versions of   *)
(* the program behind it, the runs each card was learned from, and the     *)
(* file types the job has produced.                                        *)
(*                                                                         *)
(* A run is a record [job, program, strange, types].  The arithmetic of    *)
(* the features is abstracted to one bit: a run is strange when a card     *)
(* with enough runs would put at least odd_score of its features outside   *)
(* their usual range.                                                      *)
(***************************************************************************)
EXTENDS Integers, Sequences, FiniteSets

CONSTANTS
  Jobs,
  Programs,  \* identities: executable, script and digest of the script
  Types,     \* file extensions
  MinRuns    \* min_runs_before_scoring

ASSUME MinRunsAssumption == MinRuns \in Nat \ {0}

VARIABLES
  versions,  \* card_versions: the programs seen behind each job, oldest first
  observed,  \* runs: the rows of each job, oldest first
  seen       \* seen_extensions

habitVars == <<versions, observed, seen>>

Runs == [job : Jobs, program : Programs, strange : BOOLEAN, types : SUBSET Types]
Rows == [version : Nat, program : Programs]

HabitInit ==
  /\ versions = [j \in Jobs |-> <<>>]
  /\ observed = [j \in Jobs |-> <<>>]
  /\ seen = [j \in Jobs |-> {}]

Card(run) == Len(versions[run.job])

(* The newest card of the run's job is the card of the run's program. *)
IsCurrent(run) == Card(run) > 0 /\ versions[run.job][Card(run)] = run.program

(* Seeded fault: a program seen behind the job before is not a change. *)
IsNew_Unseen(run) ==
  Card(run) > 0 /\ \A v \in 1..Card(run) : versions[run.job][v] # run.program

(* is_new: a known job whose program is not the one seen last. *)
IsNew(run) == Card(run) > 0 /\ ~IsCurrent(run)

(* Seeded fault: a changed program goes on with the card of the old one. *)
VersionFor_KeepsCard(run) ==
  IF Card(run) > 0 THEN versions
  ELSE [versions EXCEPT ![run.job] = Append(@, run.program)]

(* version_for: the cards once this run's program has one. *)
VersionFor(run) ==
  IF IsCurrent(run) THEN versions
  ELSE [versions EXCEPT ![run.job] = Append(@, run.program)]

RowsOfCard(run) ==
  {i \in DOMAIN observed[run.job] : observed[run.job][i].version = Card(run)}

(* score, as the Judge reads it: is the value at least odd_score. *)
Unusual(run) ==
  \/ IsNew(run)
  \/ IsCurrent(run) /\ Cardinality(RowsOfCard(run)) >= MinRuns /\ run.strange

Score(run) == versions' = VersionFor(run) /\ UNCHANGED <<observed, seen>>

Learn(run) ==
  /\ versions' = VersionFor(run)
  /\ observed' = [observed EXCEPT ![run.job] =
                    Append(@, [version |-> Len(versions'[run.job]), program |-> run.program])]
  /\ seen' = [seen EXCEPT ![run.job] = @ \cup run.types]

(* seen_extensions of every job: what S4 asks. *)
SeenAnywhere == UNION {seen[j] : j \in Jobs}

-----------------------------------------------------------------------------
HabitTypeOK ==
  /\ versions \in [Jobs -> Seq(Programs)]
  /\ observed \in [Jobs -> Seq(Rows)]
  /\ seen \in [Jobs -> SUBSET Types]

(* A card describes one program: every run it was learned from was a run of
   the program the card was started for, whatever programs came and went. *)
CardsAreOneProgram ==
  \A j \in Jobs : \A i \in DOMAIN observed[j] :
    LET row == observed[j][i]
    IN  row.version \in DOMAIN versions[j] /\ versions[j][row.version] = row.program

=============================================================================
