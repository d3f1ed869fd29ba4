---------------------------- MODULE VaultHealth ----------------------------
(***************************************************************************)
(* S7, the Vault's own health check (src/nightkeep/vault/_health.py).      *)
(*                                                                         *)
(* A pulled share is a function from paths to file versions.  A version    *)
(* stands for the bytes of a file; what the check reads off those bytes    *)
(* (does the magic still match the extension, is the entropy over the      *)
(* limit, how many ration cards does the database hold) is given by        *)
(* constant functions, because it depends on the bytes and the name alone. *)
(***************************************************************************)
EXTENDS Integers, FiniteSets

CONSTANTS
  Paths,        \* every path a share may hold
  Versions,     \* every content a file may have
  Absent,       \* the path holds no file
  Rank,         \* Rank[p]: the place of p in sorted path order
  Suffix,       \* Suffix[p]: the extension of p, "" when it has none
  Stem,         \* Stem[p]: p without its extension, NoPath when not in Paths
  NoPath,
  Backups,      \* the paths under backups/ that end in .db
  HeaderOk,     \* HeaderOk[p][v]: v opens as the type p's extension names
  HighEntropy,  \* HighEntropy[v]: v is over the suspect_entropy limit
  Cards,        \* Cards[v]: rows in v's cards table, Unreadable when it has none
  Unreadable,
  ChangedPct,   \* suspect_changed_fraction, in percent
  DropPct,      \* suspect_record_drop_fraction, in percent
  NoBaseline    \* no clean point yet: the baseline of a first pull

ASSUME PathsAssumption ==
  /\ IsFiniteSet(Paths)
  /\ Absent \notin Versions
  /\ NoPath \notin Paths
  /\ Backups \subseteq Paths
  /\ Rank \in [Paths -> Nat]
  /\ \A p, q \in Paths : Rank[p] = Rank[q] => p = q
  /\ DOMAIN Suffix = Paths
  /\ Stem \in [Paths -> Paths \cup {NoPath}]

ASSUME VersionsAssumption ==
  /\ HeaderOk \in [Paths -> [Versions -> BOOLEAN]]
  /\ HighEntropy \in [Versions -> BOOLEAN]
  /\ Unreadable \notin Nat
  /\ Cards \in [Versions -> Nat \cup {Unreadable}]

ASSUME BaselineAssumption == NoBaseline \notin [Paths -> Versions \cup {Absent}]

ASSUME ThresholdsAssumption == ChangedPct \in Nat /\ DropPct \in Nat

CLEAN   == "CLEAN"
SUSPECT == "SUSPECT"
Healths == {CLEAN, SUSPECT}

(* What one pull saw: the version at every path, or Absent. *)
Contents == [Paths -> Versions \cup {Absent}]
NoFiles  == [p \in Paths |-> Absent]

Present(c) == {p \in Paths : c[p] # Absent}

-----------------------------------------------------------------------------
(* newest_backup: the backup whose path sorts last. *)
NewestBackup(c) ==
  CHOOSE p \in Present(c) \cap Backups :
    \A q \in Present(c) \cap Backups : Rank[q] <= Rank[p]

(* count_cards of the newest backup; Unreadable stands for None. *)
RecordCount(c) ==
  IF Present(c) \cap Backups = {} THEN Unreadable ELSE Cards[c[NewestBackup(c)]]

(* The files of the clean copy that are not as they were. *)
Damaged(cur, base) == {p \in Present(base) : cur[p] # base[p]}

TooManyDamaged(cur, base) ==
  100 * Cardinality(Damaged(cur, base)) > ChangedPct * Cardinality(Present(base))

(* Files that are new, or hold other bytes than the clean copy. *)
Rewritten(cur, base) == {p \in Present(cur) : cur[p] # base[p]}

Broken(cur, base) == {p \in Rewritten(cur, base) : ~HeaderOk[p][cur[p]]}

ArchiveExtensions == {".zip"}

Scrambled(cur, base) ==
  {p \in Rewritten(cur, base) :
     HighEntropy[cur[p]] /\ Suffix[p] \notin ArchiveExtensions}

(* epos.csv gone and epos.csv.locked in its place, .locked never seen before. *)
RenamedAway(cur, base) ==
  {p \in Present(cur) \ Present(base) :
     /\ Suffix[p] # ""
     /\ \A q \in Present(base) : Suffix[q] # Suffix[p]
     /\ Stem[p] \in Present(base) \ Present(cur)}

(* A baseline count of None or 0 leaves nothing to measure a fall against. *)
RecordsFell(cur, base) ==
  LET before == RecordCount(base)
      now    == RecordCount(cur)
  IN  /\ before \notin {Unreadable, 0}
      /\ 100 * (before - now) > DropPct * before

(* Seeded fault: only the share of files that changed is looked at. *)
Assess_FractionOnly(cur, base) ==
  IF base # NoBaseline /\ TooManyDamaged(cur, base) THEN SUSPECT ELSE CLEAN

(* assess *)
Assess(cur, base) ==
  IF base = NoBaseline THEN CLEAN
  ELSE IF \/ TooManyDamaged(cur, base)
          \/ Broken(cur, base) # {}
          \/ Scrambled(cur, base) # {}
          \/ RenamedAway(cur, base) # {}
          \/ RecordCount(cur) = Unreadable
          \/ RecordsFell(cur, base)
       THEN SUSPECT ELSE CLEAN

=============================================================================
