------------------------------- MODULE Nights -------------------------------
(***************************************************************************)
(* The ordinary nights of the district: run_day launches the six jobs one  *)
(* after another over the share, and the night's pull judges what they     *)
(* left behind (S7) against the clean point.  No program in this module    *)
(* is hostile: whatever is called here is called on an ordinary night.     *)
(*                                                                         *)
(* A path is <<kind, n, m>>: the allocation file of shop n for month m     *)
(* (.tmp, later .dat), the export or backup of night n, or decoy n of the  *)
(* Judge.  A version is the night in which the content was written.        *)
(***************************************************************************)
EXTENDS Integers, FiniteSets, FiniteSetsExt

CONSTANTS ShopCount,      \* fps_count
          LastNight,      \* learning_days + guard_days; bounds the model
          MonthStart,     \* the night of month_start_day
          TopUps,         \* files_on_a_top_up: how many shops it may serve
          Opens,          \* Opens[job]: the times of its start_window
          ShopCloses,     \* SHOP_CLOSES, when the operator's day is over
          Delays,         \* delay_after_export_minutes
          RunsFor,        \* runs_for_minutes, of any job
          ArchiveLimit,   \* exports that make size_threshold_kb
          ArchiveMost,    \* files_zipped_per_run
          ChangedPct      \* suspect_changed_fraction, in percent

Shops == 1 .. ShopCount
NightNumbers == 1 .. LastNight
Months == 1 .. 2
WindowJobs == {"operator", "allocation", "export", "fix_dat", "archive"}

ASSUME NightsAssumption ==
  /\ ShopCount \in Nat \ {0} /\ LastNight \in Nat \ {0}
  /\ MonthStart \in Nat
  /\ TopUps \subseteq Shops /\ TopUps # {}
  /\ DOMAIN Opens = WindowJobs /\ \A job \in WindowJobs : Opens[job] \subseteq Nat
  /\ ShopCloses \in Nat
  /\ Delays \subseteq Nat /\ RunsFor \subseteq Nat
  /\ ArchiveLimit \in Nat /\ ArchiveMost \in Nat
  /\ ChangedPct \in Nat

-----------------------------------------------------------------------------
(* The share.                                                              *)

Absent == -1
Versions == 0 .. LastNight

Tmp(s, m) == <<"tmp", s, m>>
Dat(s, m) == <<"dat", s, m>>
Export(n) == <<"export", n, 0>>
Backup(n) == <<"backup", n, 0>>

\* The decoy among the exports, and the one among the allocations.
ExportDecoy == <<"decoy", 1, 0>>
AllocationDecoy == <<"decoy", 2, 0>>
Decoys == {ExportDecoy, AllocationDecoy}

Exports == {Export(n) : n \in NightNumbers}
Backups == {Backup(n) : n \in NightNumbers}
Tmps == {Tmp(s, m) : s \in Shops, m \in Months}
Dats == {Dat(s, m) : s \in Shops, m \in Months}
Paths == Tmps \union Dats \union Exports \union Backups \union Decoys

Kinds == [tmp |-> ".tmp", dat |-> ".dat", export |-> ".csv", backup |-> ".db",
          decoy |-> ".csv"]

\* S7 over this share: every file opens as its type and none is scrambled, for
\* the jobs write valid text, tables and databases; a backup holds every card.
S7 == INSTANCE VaultHealth WITH
  NoPath <- <<"none", 0, 0>>,
  Rank <- [p \in Paths |-> p[2]],
  Suffix <- [p \in Paths |-> Kinds[p[1]]],
  Stem <- [p \in Paths |-> <<"none", 0, 0>>],
  HeaderOk <- [p \in Paths |-> [v \in Versions |-> TRUE]],
  HighEntropy <- [v \in Versions |-> FALSE],
  Cards <- [v \in Versions |-> 100],
  Unreadable <- -1,
  DropPct <- 2,
  NoBaseline <- <<>>

VARIABLES
  night, job,     \* the night, and the job that runs or is to run
  reached,        \* DayClock._reached
  exportStart,    \* what the backup's delay is counted from
  busyUntil,      \* history: the end in the newest line of the truth log
  overlap,        \* history: two lines of one night overlap
  share,          \* the files under share/
  todo,           \* the files the job still has to handle
  exported, allocated, archived,   \* history: exports and allocations made,
                                   \* exports zipped
  baseline,       \* the clean point's files
  held,           \* Protect mode, left behind by a SUSPECT pull
  health          \* of the newest pull

clockVars == <<reached, exportStart, busyUntil, overlap>>
made == <<exported, allocated, archived>>
vault == <<baseline, held, health>>
vars == <<night, job, clockVars, share, todo, made, vault>>

\* build_district and plant_canaries.
Init ==
  /\ night = 1 /\ job = "operator"
  /\ reached = 0 /\ exportStart = 0 /\ busyUntil = 0 /\ overlap = FALSE
  /\ share = [p \in Paths |-> IF p \in Decoys THEN 0 ELSE Absent]
  /\ todo = {} /\ exported = {} /\ allocated = {} /\ archived = {}
  /\ baseline = <<>> /\ held = FALSE /\ health = S7!CLEAN

Here(S) == {p \in S : share[p] # Absent}

\* In the order of their names: by shop or night, and the decoy of 2024 first.
Place(p) == IF p \in Decoys THEN 0 ELSE 3 * p[2] + p[3]
FirstOf(S, n) == {p \in S : Cardinality({q \in S : Place(q) <= Place(p)}) <= n}

-----------------------------------------------------------------------------
(* The clock.                                                              *)

\* Fault: a start is what the window drew, behind or not.
WaitUntil_AsDrawn(moment) == moment

\* wait_until: the moment, or later when the night is running behind.
WaitUntil(moment) == Max({moment, reached})

\* One launch, for some length; ran_until moves the night on.
Occupies(launched) ==
  \E length \in RunsFor :
    /\ overlap' = (overlap \/ launched < busyUntil)
    /\ busyUntil' = launched + length
    /\ reached' = Max({reached, launched + length})

\* A job that has a window of its own, and the one to follow it.
StartsInWindow(name, next) ==
  /\ job = name
  /\ \E moment \in Opens[name] : Occupies(WaitUntil(moment))
  /\ job' = next

OperatorEdits ==
  /\ StartsInWindow("operator", "shops")
  /\ UNCHANGED <<night, exportStart, share, todo, made, vault>>

ShopsClose ==
  /\ job = "shops"
  /\ reached' = WaitUntil(ShopCloses)
  /\ job' = "allocation"
  /\ UNCHANGED <<night, exportStart, busyUntil, overlap, share, todo, made, vault>>

-----------------------------------------------------------------------------
(* allocation_gen, and its second run by the vendor's bug.                 *)

Month == IF night >= MonthStart THEN 2 ELSE 1

\* The first shops by their ids, all of them on the first of the month.
Served == IF night = MonthStart THEN {Shops} ELSE {1 .. k : k \in TopUps}

\* An allocation file says the shop and the month: it has one content ever.
Allocate ==
  /\ StartsInWindow("allocation", "rerun")
  /\ \E shops \in Served :
       LET files == {Tmp(s, Month) : s \in shops}
       IN /\ share' = [p \in Paths |-> IF p \in files THEN 0 ELSE share[p]]
          /\ allocated' = allocated \union {<<s, Month>> : s \in shops}
  /\ UNCHANGED <<night, exportStart, todo, exported, archived, vault>>

\* The same files again, from the moment the first run ended.
AllocateTwice ==
  /\ job = "rerun"
  /\ Occupies(busyUntil)
  /\ job' = "export"
  /\ UNCHANGED <<night, exportStart, share, todo, made, vault>>

NoSecondRun ==
  /\ job = "rerun"
  /\ job' = "export"
  /\ UNCHANGED <<night, clockVars, share, todo, made, vault>>

-----------------------------------------------------------------------------
(* nightly_export and db_backup.                                           *)

ExportOrSkip ==
  /\ job = "export"
  /\ \E moment \in Opens["export"] :
       exportStart' = moment /\ Occupies(WaitUntil(moment))
  /\ job' = "backup"
  /\ \/ \* the network is down
        UNCHANGED <<share, exported>>
     \/ /\ share' = [share EXCEPT ![Export(night)] = 0]
        /\ exported' = exported \union {night}
  /\ UNCHANGED <<night, todo, allocated, archived, vault>>

\* Fault: with the network down there is no safe copy either.
BackUp_NeedsExport ==
  /\ job = "backup"
  /\ \E delay \in Delays : Occupies(WaitUntil(exportStart + delay))
  /\ share' = [share EXCEPT ![Backup(night)] = IF night \in exported THEN 0 ELSE @]
  /\ job' = "fix_dat"
  /\ UNCHANGED <<night, exportStart, todo, made, vault>>

BackUp ==
  /\ job = "backup"
  /\ \E delay \in Delays : Occupies(WaitUntil(exportStart + delay))
  /\ share' = [share EXCEPT ![Backup(night)] = 0]
  /\ job' = "fix_dat"
  /\ UNCHANGED <<night, exportStart, todo, made, vault>>

-----------------------------------------------------------------------------
(* fix_dat.vbs.                                                            *)

FixDatSkips ==
  /\ StartsInWindow("fix_dat", "archive")
  /\ UNCHANGED <<night, exportStart, share, todo, made, vault>>

\* It lists the folder: every .tmp is to be renamed, two .dat to be rewritten.
FixDatLists ==
  /\ StartsInWindow("fix_dat", "rename")
  /\ todo' = Here(Tmps) \union FirstOf(Here(Dats), 2)
  /\ UNCHANGED <<night, exportStart, share, made, vault>>

\* Fault: the .dat that is in the way is not replaced; the .tmp is dropped.
FixDatClears_Both ==
  /\ job = "rename"
  /\ \E p \in FirstOf(todo \intersect Tmps, 1) :
       /\ share[Dat(p[2], p[3])] # Absent
       /\ share' = [share EXCEPT ![Dat(p[2], p[3])] = Absent, ![p] = Absent]
       /\ todo' = todo \ {p}
  /\ UNCHANGED <<night, job, clockVars, made, vault>>

\* MoveFile does not overwrite: a .dat of an earlier night is deleted first.
FixDatClears ==
  /\ job = "rename"
  /\ \E p \in FirstOf(todo \intersect Tmps, 1) :
       /\ share[Dat(p[2], p[3])] # Absent
       /\ share' = [share EXCEPT ![Dat(p[2], p[3])] = Absent]
  /\ UNCHANGED <<night, job, clockVars, todo, made, vault>>

FixDatMoves ==
  /\ job = "rename"
  /\ \E p \in FirstOf(todo \intersect Tmps, 1) :
       /\ share[Dat(p[2], p[3])] = Absent
       /\ share' = [share EXCEPT ![Dat(p[2], p[3])] = share[p], ![p] = Absent]
       /\ todo' = todo \ {p}
  /\ UNCHANGED <<night, job, clockVars, made, vault>>

\* One that has just been replaced is rewritten in its new form.
FixDatRewrites ==
  /\ job = "rename" /\ todo \intersect Tmps = {}
  /\ \E p \in FirstOf(todo, 1) :
       /\ share' = [share EXCEPT ![p] = night]
       /\ todo' = todo \ {p}
  /\ UNCHANGED <<night, job, clockVars, made, vault>>

FixDatEnds ==
  /\ job = "rename" /\ todo = {}
  /\ job' = "archive"
  /\ UNCHANGED <<night, clockVars, share, todo, made, vault>>

-----------------------------------------------------------------------------
(* archive_old.bat.                                                        *)

\* What its pattern epos_day_end_*.csv matches: the exports, and the decoy
\* that is named like one.
Archivable == Here(Exports \union {ExportDecoy})

ArchiveSkips ==
  /\ StartsInWindow("archive", "pull")
  /\ Cardinality(Here(Exports)) < ArchiveLimit
  /\ UNCHANGED <<night, exportStart, share, todo, made, vault>>

\* tar fails: nothing is deleted.
ArchiveFails ==
  /\ StartsInWindow("archive", "pull")
  /\ Cardinality(Here(Exports)) >= ArchiveLimit
  /\ UNCHANGED <<night, exportStart, share, todo, made, vault>>

ArchiveZips ==
  /\ StartsInWindow("archive", "delete")
  /\ Cardinality(Here(Exports)) >= ArchiveLimit
  /\ todo' = FirstOf(Archivable, ArchiveMost)
  /\ archived' = archived \union {p[2] : p \in todo' \ {ExportDecoy}}
  /\ UNCHANGED <<night, exportStart, share, exported, allocated, vault>>

ArchiveDeletes ==
  /\ job = "delete"
  /\ \E p \in FirstOf(todo, 1) :
       /\ share' = [share EXCEPT ![p] = Absent]
       /\ todo' = todo \ {p}
  /\ UNCHANGED <<night, job, clockVars, made, vault>>

ArchiveEnds ==
  /\ job = "delete" /\ todo = {}
  /\ job' = "pull"
  /\ UNCHANGED <<night, clockVars, share, todo, made, vault>>

-----------------------------------------------------------------------------
(* The Vault's pull of the night, and the next night.                      *)

Pull ==
  /\ job = "pull"
  /\ health' = S7!Assess(share, baseline)
  /\ baseline' = IF health' = S7!CLEAN /\ ~held THEN share ELSE baseline
  /\ held' = (health' = S7!SUSPECT)
  /\ job' = "over"
  /\ UNCHANGED <<night, clockVars, share, todo, made>>

NextNight ==
  /\ job = "over" /\ night < LastNight
  /\ night' = night + 1 /\ job' = "operator"
  /\ reached' = 0 /\ exportStart' = 0 /\ busyUntil' = 0
  /\ UNCHANGED <<overlap, share, todo, made, vault>>

Next ==
  \/ OperatorEdits \/ ShopsClose \/ Allocate \/ AllocateTwice \/ NoSecondRun
  \/ ExportOrSkip \/ BackUp
  \/ FixDatSkips \/ FixDatLists \/ FixDatClears \/ FixDatMoves \/ FixDatRewrites
  \/ FixDatEnds
  \/ ArchiveSkips \/ ArchiveFails \/ ArchiveZips \/ ArchiveDeletes \/ ArchiveEnds
  \/ Pull \/ NextNight

Spec == Init /\ [][Next]_vars

-----------------------------------------------------------------------------
\* Every variable keeps its type.
TypeOK ==
  /\ night \in NightNumbers
  /\ share \in [Paths -> Versions \union {Absent}]
  /\ baseline = <<>> \/ baseline \in [Paths -> Versions \union {Absent}]
  /\ todo \subseteq Paths /\ archived \subseteq exported
  /\ health \in S7!Healths

\* "Jobs never overlap": however the windows fall and however long the jobs
\* run, no line of the truth log begins before the one before it ended.
JobsDoNotOverlap == ~overlap

\* At every moment of every night each export stands in the share or in an
\* archive, and each shop's allocation stands as a .tmp or a .dat.
NothingIsLost ==
  /\ \A n \in exported : share[Export(n)] # Absent \/ n \in archived
  /\ \A a \in allocated : Here({Tmp(a[1], a[2]), Dat(a[1], a[2])}) # {}

\* An ordinary pull is SUSPECT for one reason only: the jobs' own clean-up.
\* Too many files of the clean copy were renamed or rewritten by fix_dat or
\* zipped by archive_old; it is never the backup or the card count.
OnlyCleanUpsAreSuspect ==
  job = "over" /\ health = S7!SUSPECT
    => LET damaged == {p \in S7!Present(baseline) : share[p] # baseline[p]}
       IN /\ damaged \subseteq Tmps \union Dats \union Exports \union {ExportDecoy}
          /\ 100 * Cardinality(damaged)
               > ChangedPct * Cardinality(S7!Present(baseline))

\* "An ordinary night must not make the Vault's copy SUSPECT."  Not kept.
OrdinaryNightsStayClean == health # S7!SUSPECT

\* "No legitimate job touches" the decoys.  Not kept.
NoJobTouchesADecoy == \A p \in Decoys : share[p] # Absent
=============================================================================
