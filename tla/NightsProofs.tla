----------------------------- MODULE NightsProofs -----------------------------
(***************************************************************************)
(* The district's own promises, for every number of shops and nights and   *)
(* every window, delay and run length: its jobs never overlap, nothing     *)
(* they make is lost between them, and only their own clean-ups can make   *)
(* the night's copy SUSPECT.                                               *)
(***************************************************************************)
EXTENDS Nights, TLAPS

-----------------------------------------------------------------------------
(* The clock.                                                              *)

\* max() of two moments is one of them, and neither lies after it.
LEMMA MaxOfTwo ==
  ASSUME NEW a \in Nat, NEW b \in Nat
  PROVE  Max({a, b}) \in Nat /\ Max({a, b}) >= a /\ Max({a, b}) >= b
<1>1. \E x \in {a, b} : \A y \in {a, b} : x >= y
  <2>1. CASE a >= b
    BY <2>1
  <2>2. CASE ~ a >= b
    BY <2>2
  <2> QED BY <2>1, <2>2
<1> QED BY <1>1 DEF Max

\* Why no two jobs overlap: the clock has never been behind the last one's end.
ClockInv ==
  /\ reached \in Nat /\ exportStart \in Nat /\ busyUntil \in Nat
  /\ busyUntil <= reached
  /\ overlap = FALSE

\* A launch at a moment the clock gave.
LEMMA LaunchKeepsClock ==
  ASSUME ClockInv, NEW moment \in Nat, moment >= busyUntil,
         Occupies(moment), exportStart' \in Nat
  PROVE  ClockInv'
<1>1. PICK length \in RunsFor :
        /\ overlap' = (overlap \/ moment < busyUntil)
        /\ busyUntil' = moment + length
        /\ reached' = Max({reached, moment + length})
  BY DEF Occupies
<1>2. length \in Nat
  BY NightsAssumption
<1>3. reached' \in Nat /\ reached' >= moment + length
  BY <1>1, <1>2, MaxOfTwo DEF ClockInv
<1>4. ~ moment < busyUntil
  BY DEF ClockInv
<1>5. overlap' = FALSE
  BY <1>1, <1>4, Zenon DEF ClockInv
<1>6. busyUntil' \in Nat /\ busyUntil' <= reached'
  BY <1>1, <1>2, <1>3
<1> QED BY <1>3, <1>5, <1>6 DEF ClockInv

\* What wait_until answers is not before the end of the job before.
LEMMA WaitIsLateEnough ==
  ASSUME ClockInv, NEW moment \in Nat
  PROVE  WaitUntil(moment) \in Nat /\ WaitUntil(moment) >= busyUntil
BY MaxOfTwo DEF ClockInv, WaitUntil

\* A job with a window of its own.
LEMMA WindowKeepsClock ==
  ASSUME ClockInv, NEW name \in WindowJobs, NEW next,
         StartsInWindow(name, next), UNCHANGED exportStart
  PROVE  ClockInv'
<1>1. PICK moment \in Opens[name] : Occupies(WaitUntil(moment))
  BY DEF StartsInWindow
<1>2. moment \in Nat
  BY NightsAssumption, <1>1
<1>3. exportStart' \in Nat
  BY DEF ClockInv
<1> QED BY <1>1, <1>2, <1>3, WaitIsLateEnough, LaunchKeepsClock

\* The simulated clock is never behind the end of a job that has run.
LEMMA NextKeepsClock ==
  ASSUME ClockInv, [Next]_vars
  PROVE  ClockInv'
<1> USE DEF WindowJobs
<1>1. CASE OperatorEdits
  BY <1>1, WindowKeepsClock DEF OperatorEdits
<1>2. CASE ShopsClose
  <2>1. reached' \in Nat /\ reached' >= reached
    BY <1>2, NightsAssumption, MaxOfTwo DEF ClockInv, ShopsClose, WaitUntil
  <2> QED BY <1>2, <2>1 DEF ClockInv, ShopsClose
<1>3. CASE Allocate
  BY <1>3, WindowKeepsClock DEF Allocate
<1>4. CASE AllocateTwice
  <2>1. busyUntil \in Nat /\ busyUntil >= busyUntil /\ exportStart' \in Nat
    BY <1>4 DEF ClockInv, AllocateTwice
  <2>2. Occupies(busyUntil)
    BY <1>4 DEF AllocateTwice
  <2> QED BY <2>1, <2>2, LaunchKeepsClock
<1>5. CASE ExportOrSkip
  <2>1. PICK moment \in Opens["export"] :
          exportStart' = moment /\ Occupies(WaitUntil(moment))
    BY <1>5 DEF ExportOrSkip
  <2>2. moment \in Nat
    BY NightsAssumption, <2>1
  <2> QED BY <2>1, <2>2, WaitIsLateEnough, LaunchKeepsClock
<1>6. CASE BackUp
  <2>1. PICK delay \in Delays : Occupies(WaitUntil(exportStart + delay))
    BY <1>6 DEF BackUp
  <2>2. exportStart + delay \in Nat /\ exportStart' \in Nat
    BY NightsAssumption, <1>6 DEF ClockInv, BackUp
  <2> QED BY <2>1, <2>2, WaitIsLateEnough, LaunchKeepsClock
<1>7. CASE FixDatSkips
  BY <1>7, WindowKeepsClock DEF FixDatSkips
<1>8. CASE FixDatLists
  BY <1>8, WindowKeepsClock DEF FixDatLists
<1>9. CASE ArchiveSkips
  BY <1>9, WindowKeepsClock DEF ArchiveSkips
<1>10. CASE ArchiveFails
  BY <1>10, WindowKeepsClock DEF ArchiveFails
<1>11. CASE ArchiveZips
  BY <1>11, WindowKeepsClock DEF ArchiveZips
<1>12. CASE NextNight
  BY <1>12 DEF ClockInv, NextNight
<1>13. CASE NoSecondRun \/ FixDatClears \/ FixDatMoves \/ FixDatRewrites
              \/ FixDatEnds \/ ArchiveDeletes \/ ArchiveEnds \/ Pull
              \/ UNCHANGED vars
  BY <1>13 DEF ClockInv, NoSecondRun, FixDatClears, FixDatMoves, FixDatRewrites,
              FixDatEnds, ArchiveDeletes, ArchiveEnds, Pull, vars, clockVars
<1> QED BY <1>1, <1>2, <1>3, <1>4, <1>5, <1>6, <1>7, <1>8, <1>9, <1>10, <1>11,
           <1>12, <1>13 DEF Next

\* No job of a night is launched before the one before it has ended.
THEOREM JobsNeverOverlap == Spec => []JobsDoNotOverlap
<1>1. Init => ClockInv
  BY DEF Init, ClockInv
<1>2. ClockInv /\ [Next]_vars => ClockInv'
  BY NextKeepsClock
<1>3. ClockInv => JobsDoNotOverlap
  BY DEF ClockInv, JobsDoNotOverlap
<1> QED BY <1>1, <1>2, <1>3, PTL DEF Spec

-----------------------------------------------------------------------------
(* The files.                                                              *)

\* What the two clean-up jobs still have to do is safe to do: a .tmp to be
\* moved is there, and what is to be deleted is in an archive.
FilesInv ==
  /\ night \in NightNumbers
  /\ share \in [Paths -> Versions \union {Absent}]
  /\ exported \subseteq NightNumbers /\ allocated \subseteq Shops \X Months
  /\ job = "rename" => /\ todo \subseteq Tmps \union Dats
                       /\ todo \intersect Tmps \subseteq Here(Tmps)
  /\ job = "delete" => /\ todo \subseteq Exports \union {ExportDecoy}
                       /\ \A n \in NightNumbers : Export(n) \in todo => n \in archived
  /\ NothingIsLost

\* The kinds of names are apart, and every one is a path.
LEMMA NamesAreApart ==
  /\ \A n \in NightNumbers : Export(n) \in Paths /\ Backup(n) \in Paths
  /\ \A s \in Shops, m \in Months : Tmp(s, m) \in Paths /\ Dat(s, m) \in Paths
  /\ ExportDecoy \in Paths
  /\ \A n \in NightNumbers : Export(n) \notin Tmps \union Dats \union {ExportDecoy}
  /\ \A s \in Shops, m \in Months :
       Tmp(s, m) \notin Exports \union {ExportDecoy}
         /\ Dat(s, m) \notin Exports \union {ExportDecoy} \union Tmps
BY DEF Paths, Tmps, Dats, Exports, Backups, Decoys, Tmp, Dat, Export, Backup,
       ExportDecoy

\* A step that removes no file and makes none loses nothing.
LEMMA NothingRemoved ==
  ASSUME FilesInv, UNCHANGED made,
         \A p \in Paths : share[p] # Absent => share'[p] # Absent
  PROVE  NothingIsLost'
<1>1. UNCHANGED <<exported, allocated, archived>>
  BY DEF made
<1>2. \A n \in exported : Export(n) \in Paths
  BY NamesAreApart DEF FilesInv
<1>3. \A a \in allocated : Tmp(a[1], a[2]) \in Paths /\ Dat(a[1], a[2]) \in Paths
  BY NamesAreApart DEF FilesInv
<1> QED BY <1>1, <1>2, <1>3 DEF FilesInv, NothingIsLost, Here

\* The files of the allocations have paths.
LEMMA TmpsAndDatsArePaths == Tmps \subseteq Paths /\ Dats \subseteq Paths
BY DEF Paths

\* The .dat of one allocation goes while its .tmp stands: nothing is lost.
LEMMA ReplacedByTmp ==
  ASSUME FilesInv, UNCHANGED made, NEW s \in Shops, NEW m \in Months,
         \A q \in Paths : q # Dat(s, m) => share'[q] = share[q],
         share'[Tmp(s, m)] # Absent
  PROVE  NothingIsLost'
<1> USE DEF FilesInv, NothingIsLost
<1>1. UNCHANGED <<exported, allocated, archived>>
  BY DEF made
<1>2. ASSUME NEW n \in exported
      PROVE  share'[Export(n)] # Absent \/ n \in archived
  <2>1. n \in NightNumbers /\ Export(n) \in Paths
    BY NamesAreApart
  <2>2. Export(n) # Dat(s, m)
    BY DEF Export, Dat
  <2> QED BY <2>1, <2>2
<1>3. ASSUME NEW a \in allocated
      PROVE  Here({Tmp(a[1], a[2]), Dat(a[1], a[2])})' # {}
  <2>1. a[1] \in Shops /\ a[2] \in Months
    OBVIOUS
  <2>2. Tmp(a[1], a[2]) \in Paths /\ Dat(a[1], a[2]) \in Paths
    BY <2>1, NamesAreApart
  <2>3. Tmp(a[1], a[2]) # Dat(s, m)
    BY DEF Tmp, Dat
  <2>4. CASE a[1] = s /\ a[2] = m
    BY <2>4 DEF Here
  <2>5. CASE ~(a[1] = s /\ a[2] = m)
    <3>1. Dat(a[1], a[2]) # Dat(s, m)
      BY <2>5 DEF Dat
    <3> QED BY <2>2, <2>3, <3>1 DEF Here
  <2> QED BY <2>4, <2>5
<1> QED BY <1>1, <1>2, <1>3

\* The .tmp of one allocation goes while its .dat stands: nothing is lost.
LEMMA MovedToDat ==
  ASSUME FilesInv, UNCHANGED made, NEW s \in Shops, NEW m \in Months,
         \A q \in Paths : q # Dat(s, m) /\ q # Tmp(s, m) => share'[q] = share[q],
         share'[Dat(s, m)] # Absent
  PROVE  NothingIsLost'
<1> USE DEF FilesInv, NothingIsLost
<1>1. UNCHANGED <<exported, allocated, archived>>
  BY DEF made
<1>2. ASSUME NEW n \in exported
      PROVE  share'[Export(n)] # Absent \/ n \in archived
  <2>1. n \in NightNumbers /\ Export(n) \in Paths
    BY NamesAreApart
  <2>2. Export(n) # Dat(s, m) /\ Export(n) # Tmp(s, m)
    BY DEF Export, Dat, Tmp
  <2> QED BY <2>1, <2>2
<1>3. ASSUME NEW a \in allocated
      PROVE  Here({Tmp(a[1], a[2]), Dat(a[1], a[2])})' # {}
  <2>1. Tmp(a[1], a[2]) \in Paths /\ Dat(a[1], a[2]) \in Paths
    BY NamesAreApart
  <2>2. CASE a[1] = s /\ a[2] = m
    BY <2>2 DEF Here
  <2>3. CASE ~(a[1] = s /\ a[2] = m)
    <3>1. /\ Dat(a[1], a[2]) # Dat(s, m) /\ Dat(a[1], a[2]) # Tmp(s, m)
          /\ Tmp(a[1], a[2]) # Dat(s, m) /\ Tmp(a[1], a[2]) # Tmp(s, m)
      BY <2>3 DEF Dat, Tmp
    <3> QED BY <2>1, <3>1 DEF Here
  <2> QED BY <2>2, <2>3
<1> QED BY <1>1, <1>2, <1>3

\* Every step of the night keeps what the clean-up jobs rely on.
LEMMA NextKeepsFiles ==
  ASSUME FilesInv, [Next]_vars
  PROVE  FilesInv'
<1> USE NightsAssumption DEF FilesInv, NothingIsLost
<1>1. CASE OperatorEdits \/ FixDatSkips \/ ArchiveSkips \/ ArchiveFails
  BY <1>1 DEF OperatorEdits, FixDatSkips, ArchiveSkips, ArchiveFails, StartsInWindow,
              made, Here
<1>2. CASE ShopsClose \/ AllocateTwice \/ NoSecondRun \/ FixDatEnds \/ ArchiveEnds
             \/ Pull
  BY <1>2 DEF ShopsClose, AllocateTwice, NoSecondRun, FixDatEnds, ArchiveEnds, Pull,
              made, Here
<1>3. CASE Allocate
  <2>1. PICK shops \in Served :
          /\ share' = [p \in Paths |-> IF p \in {Tmp(s, Month) : s \in shops}
                                       THEN 0 ELSE share[p]]
          /\ allocated' = allocated \union {<<s, Month>> : s \in shops}
    BY <1>3 DEF Allocate
  <2>2. shops \subseteq Shops /\ Month \in Months
    BY <2>1 DEF Served, Month, Shops, Months
  <2>3. /\ night' = night /\ exported' = exported /\ archived' = archived
        /\ job' = "rerun"
    BY <1>3 DEF Allocate, StartsInWindow
  <2>4. 0 \in Versions /\ 0 # Absent
    BY DEF Versions, Absent
  <2>5. share' \in [Paths -> Versions \union {Absent}]
    BY <2>1, <2>4
  <2>6. \A p \in Paths : share[p] # Absent => share'[p] # Absent
    BY <2>1, <2>4
  <2>7. \A s \in shops : Tmp(s, Month) \in Paths /\ share'[Tmp(s, Month)] # Absent
    BY <2>1, <2>2, <2>4 DEF Paths, Tmps
  <2>8. allocated' \subseteq Shops \X Months
    BY <2>1, <2>2
  <2>9. \A n \in exported : Export(n) \in Paths
    BY NamesAreApart
  <2>10. \A a \in allocated : Tmp(a[1], a[2]) \in Paths /\ Dat(a[1], a[2]) \in Paths
    BY NamesAreApart
  <2>11. \A a \in allocated' : Here({Tmp(a[1], a[2]), Dat(a[1], a[2])})' # {}
    <3> TAKE a \in allocated'
    <3>1. CASE a \in allocated
      BY <3>1, <2>6, <2>10 DEF Here
    <3>2. CASE \E s \in shops : a = <<s, Month>>
      BY <3>2, <2>7 DEF Here
    <3> QED BY <3>1, <3>2, <2>1
  <2>12. \A n \in exported' : share'[Export(n)] # Absent \/ n \in archived'
    BY <2>3, <2>6, <2>9
  <2> QED BY <2>3, <2>5, <2>8, <2>11, <2>12
<1>4. CASE ExportOrSkip
  <2>1. /\ night' = night /\ allocated' = allocated /\ archived' = archived
        /\ job' = "backup"
    BY <1>4 DEF ExportOrSkip
  <2>2. CASE UNCHANGED <<share, exported>>
    BY <2>1, <2>2, NothingRemoved DEF made
  <2>3. CASE /\ share' = [share EXCEPT ![Export(night)] = 0]
             /\ exported' = exported \union {night}
    <3>1. 0 \in Versions /\ 0 # Absent
      BY DEF Versions, Absent
    <3>2. share' \in [Paths -> Versions \union {Absent}]
      BY <2>3, <3>1
    <3>3. \A p \in Paths : share[p] # Absent => share'[p] # Absent
      BY <2>3, <3>1
    <3>4. share'[Export(night)] # Absent
      BY <2>3, <3>1, NamesAreApart
    <3>5. \A n \in exported' : share'[Export(n)] # Absent \/ n \in archived'
      BY <2>1, <2>3, <3>3, <3>4, NamesAreApart
    <3>6. \A a \in allocated : Tmp(a[1], a[2]) \in Paths /\ Dat(a[1], a[2]) \in Paths
      BY NamesAreApart
    <3>7. \A a \in allocated' : Here({Tmp(a[1], a[2]), Dat(a[1], a[2])})' # {}
      BY <2>1, <3>3, <3>6 DEF Here
    <3> QED BY <2>1, <2>3, <3>2, <3>5, <3>7
  <2> QED BY <1>4, <2>2, <2>3 DEF ExportOrSkip
<1>5. CASE BackUp
  <2>1. /\ night' = night /\ UNCHANGED made /\ job' = "fix_dat"
        /\ share' = [share EXCEPT ![Backup(night)] = 0]
    BY <1>5 DEF BackUp
  <2>2. 0 \in Versions /\ 0 # Absent
    BY DEF Versions, Absent
  <2>3. share' \in [Paths -> Versions \union {Absent}]
    BY <2>1, <2>2
  <2>4. NothingIsLost'
    BY <2>1, <2>2, NothingRemoved
  <2> QED BY <2>1, <2>3, <2>4 DEF made
<1>6. CASE FixDatLists
  <2>1. /\ UNCHANGED <<night, share, made>> /\ job' = "rename"
        /\ todo' = Here(Tmps) \union FirstOf(Here(Dats), 2)
    BY <1>6 DEF FixDatLists, StartsInWindow
  <2>2. NothingIsLost'
    BY <2>1, NothingRemoved
  <2>3. todo' \subseteq Tmps \union Dats
    BY <2>1 DEF Here, FirstOf
  <2>4. Tmps \intersect Dats = {}
    BY DEF Tmps, Dats, Tmp, Dat
  <2>5. (todo' \intersect Tmps) \subseteq Here(Tmps)'
    BY <2>1, <2>4 DEF Here, FirstOf
  <2> QED BY <2>1, <2>2, <2>3, <2>5 DEF made
<1>7. CASE FixDatClears
  <2>1. PICK p \in FirstOf(todo \intersect Tmps, 1) :
          share' = [share EXCEPT ![Dat(p[2], p[3])] = Absent]
    BY <1>7 DEF FixDatClears
  <2>2. /\ night' = night /\ job' = "rename" /\ todo' = todo
        /\ job = "rename" /\ UNCHANGED made
    BY <1>7 DEF FixDatClears
  <2>3. p \in todo \intersect Tmps
    BY <2>1 DEF FirstOf
  <2>4. PICK s \in Shops, m \in Months : p = Tmp(s, m)
    BY <2>3 DEF Tmps
  <2>5. p[2] = s /\ p[3] = m
    BY <2>4 DEF Tmp
  <2>6. share' = [share EXCEPT ![Dat(s, m)] = Absent]
    BY <2>1, <2>5
  <2>7. Dat(s, m) \in Paths /\ Dat(s, m) \notin Tmps
    BY <2>4, NamesAreApart
  <2>8. share' \in [Paths -> Versions \union {Absent}]
    BY <2>6
  <2>9. \A q \in Paths : q # Dat(s, m) => share'[q] = share[q]
    BY <2>6
  <2>10. (todo' \intersect Tmps) \subseteq Here(Tmps)'
    BY <2>2, <2>7, <2>9, TmpsAndDatsArePaths DEF Here
  <2>11. share'[Tmp(s, m)] # Absent
    BY <2>3, <2>4, <2>7, <2>9, <2>2, TmpsAndDatsArePaths DEF Here
  <2>12. NothingIsLost'
    BY <2>2, <2>4, <2>9, <2>11, ReplacedByTmp
  <2> QED BY <2>2, <2>8, <2>10, <2>12 DEF made
<1>8. CASE FixDatMoves
  <2>1. PICK p \in FirstOf(todo \intersect Tmps, 1) :
          /\ share' = [share EXCEPT ![Dat(p[2], p[3])] = share[p], ![p] = Absent]
          /\ todo' = todo \ {p}
    BY <1>8 DEF FixDatMoves
  <2>2. /\ night' = night /\ job' = "rename" /\ job = "rename" /\ UNCHANGED made
    BY <1>8 DEF FixDatMoves
  <2>3. p \in todo \intersect Tmps
    BY <2>1 DEF FirstOf
  <2>4. PICK s \in Shops, m \in Months : p = Tmp(s, m)
    BY <2>3 DEF Tmps
  <2>5. p[2] = s /\ p[3] = m
    BY <2>4 DEF Tmp
  <2>6. share' = [share EXCEPT ![Dat(s, m)] = share[p], ![p] = Absent]
    BY <2>1, <2>5
  <2>7. /\ Dat(s, m) \in Paths /\ p \in Paths /\ Dat(s, m) # p
        /\ Dat(s, m) \notin Tmps
    BY <2>3, <2>4, NamesAreApart, TmpsAndDatsArePaths
  <2>8. share[p] \in Versions \union {Absent} /\ share[p] # Absent
    BY <2>2, <2>3, <2>7 DEF Here
  <2>9. share' \in [Paths -> Versions \union {Absent}]
    BY <2>6, <2>8
  <2>10. \A q \in Paths : q # Dat(s, m) /\ q # p => share'[q] = share[q]
    BY <2>6
  <2>11. todo' \subseteq Tmps \union Dats
    BY <2>1, <2>2
  <2>12. (todo' \intersect Tmps) \subseteq Here(Tmps)'
    BY <2>1, <2>2, <2>7, <2>10, TmpsAndDatsArePaths DEF Here
  <2>13. share'[Dat(s, m)] # Absent
    BY <2>6, <2>7, <2>8
  <2>14. NothingIsLost'
    BY <2>2, <2>4, <2>10, <2>13, MovedToDat
  <2> QED BY <2>2, <2>9, <2>11, <2>12, <2>14 DEF made
<1>9. CASE FixDatRewrites
  <2>1. PICK p \in FirstOf(todo, 1) :
          share' = [share EXCEPT ![p] = night] /\ todo' = todo \ {p}
    BY <1>9 DEF FixDatRewrites
  <2>2. /\ night' = night /\ job' = "rename" /\ job = "rename" /\ UNCHANGED made
        /\ todo \intersect Tmps = {}
    BY <1>9 DEF FixDatRewrites
  <2>3. night \in Versions /\ night # Absent
    BY DEF NightNumbers, Versions, Absent
  <2>4. share' \in [Paths -> Versions \union {Absent}]
    BY <2>1, <2>3
  <2>5. \A q \in Paths : share[q] # Absent => share'[q] # Absent
    BY <2>1, <2>3
  <2>6. NothingIsLost'
    BY <2>2, <2>5, NothingRemoved
  <2> QED BY <2>1, <2>2, <2>4, <2>6 DEF made
<1>10. CASE ArchiveZips
  <2>1. /\ todo' = FirstOf(Archivable, ArchiveMost)
        /\ archived' = archived \union {p[2] : p \in todo' \ {ExportDecoy}}
        /\ job' = "delete" /\ UNCHANGED <<night, share, exported, allocated>>
    BY <1>10 DEF ArchiveZips, StartsInWindow
  <2>2. todo' \subseteq Exports \union {ExportDecoy}
    BY <2>1 DEF FirstOf, Archivable, Here
  <2>3. \A n \in NightNumbers : Export(n) \in todo' => n \in archived'
    <3> TAKE n \in NightNumbers
    <3> HAVE Export(n) \in todo'
    <3>1. Export(n) \in todo' \ {ExportDecoy} /\ Export(n)[2] = n
      BY NamesAreApart DEF Export
    <3> QED BY <2>1, <3>1
  <2>4. NothingIsLost'
    BY <2>1 DEF Here
  <2> QED BY <2>1, <2>2, <2>3, <2>4
<1>11. CASE ArchiveDeletes
  <2>1. PICK p \in FirstOf(todo, 1) :
          share' = [share EXCEPT ![p] = Absent] /\ todo' = todo \ {p}
    BY <1>11 DEF ArchiveDeletes
  <2>2. /\ night' = night /\ job' = "delete" /\ job = "delete"
        /\ UNCHANGED <<exported, allocated, archived>>
    BY <1>11 DEF ArchiveDeletes, made
  <2>3. p \in todo /\ p \in Exports \union {ExportDecoy}
    BY <2>1, <2>2 DEF FirstOf
  <2>4. share' \in [Paths -> Versions \union {Absent}]
    BY <2>1
  <2>5. \A q \in Paths : q # p => share'[q] = share[q]
    BY <2>1
  <2>6. ASSUME NEW n \in exported
        PROVE  share'[Export(n)] # Absent \/ n \in archived'
    <3>1. CASE Export(n) = p
      BY <2>2, <2>3, <3>1
    <3>2. CASE Export(n) # p
      BY <2>2, <2>5, <3>2, NamesAreApart
    <3> QED BY <3>1, <3>2
  <2>7. ASSUME NEW a \in allocated
        PROVE  Here({Tmp(a[1], a[2]), Dat(a[1], a[2])})' # {}
    <3>1. a[1] \in Shops /\ a[2] \in Months
      OBVIOUS
    <3>2. /\ Tmp(a[1], a[2]) \in Paths /\ Tmp(a[1], a[2]) # p
          /\ Dat(a[1], a[2]) \in Paths /\ Dat(a[1], a[2]) # p
      BY <2>3, <3>1, NamesAreApart
    <3> QED BY <2>5, <3>2 DEF Here
  <2> QED BY <2>1, <2>2, <2>4, <2>6, <2>7
<1>12. CASE NextNight
  <2>1. /\ night' \in NightNumbers /\ job' = "operator"
        /\ UNCHANGED <<share, exported, allocated, archived>>
    BY <1>12 DEF NextNight, NightNumbers, made
  <2> QED BY <2>1 DEF Here
<1>13. CASE UNCHANGED vars
  BY <1>13 DEF vars, made, Here
<1> QED BY <1>1, <1>2, <1>3, <1>4, <1>5, <1>6, <1>7, <1>8, <1>9, <1>10, <1>11,
           <1>12, <1>13 DEF Next

\* At every moment each export stands in the share or in an archive, and each
\* shop's allocation as a .tmp or a .dat: the two clean-up jobs lose nothing.
THEOREM NothingIsEverLost == Spec => []NothingIsLost
<1>1. Init => FilesInv
  BY NightsAssumption DEF Init, FilesInv, NothingIsLost, NightNumbers, Versions
<1>2. FilesInv /\ [Next]_vars => FilesInv'
  BY NextKeepsFiles
<1>3. FilesInv => NothingIsLost
  BY DEF FilesInv
<1> QED BY <1>1, <1>2, <1>3, PTL DEF Spec

-----------------------------------------------------------------------------
(* The Vault's copies.                                                     *)

\* What no job ever rewrites or removes.
Kept == Backups \union {AllocationDecoy}

\* Where the night's backup has been made.
AfterBackup == {"fix_dat", "rename", "archive", "delete", "pull", "over"}

\* No backup is of a night to come, and the newest there is, in the share as in
\* the clean copy, is that of the night it was made in.
BackupsInv ==
  /\ \A n \in NightNumbers : n > night => share[Backup(n)] = Absent
  /\ job \in AfterBackup => share[Backup(night)] # Absent
  /\ baseline # <<>> =>
       /\ baseline \in [Paths -> Versions \union {Absent}]
       /\ \E n \in NightNumbers :
            /\ baseline[Backup(n)] # Absent
            /\ \A m \in NightNumbers : m > n => baseline[Backup(m)] = Absent

\* What is kept has one content for good, so it stands as in the clean copy.
KeptInv ==
  /\ \A p \in Kept : share[p] \in {0, Absent}
  /\ baseline # <<>> =>
       \A p \in Kept : baseline[p] # Absent => share[p] = baseline[p]

CopiesInv == FilesInv /\ BackupsInv /\ KeptInv /\ OnlyCleanUpsAreSuspect

\* What is kept are paths, and none of them is a clean-up job's to touch.
LEMMA KeptAreApart ==
  /\ Kept \subseteq Paths
  /\ Paths = Kept \union Tmps \union Dats \union Exports \union {ExportDecoy}
  /\ Kept \intersect (Tmps \union Dats \union Exports \union {ExportDecoy}) = {}
BY DEF Kept, Paths, Tmps, Dats, Exports, Backups, Decoys, Tmp, Dat, Export, Backup,
       ExportDecoy, AllocationDecoy

\* A step within the night that leaves alone what is kept, and makes no copy.
LEMMA NothingKeptIsTouched ==
  ASSUME CopiesInv, FilesInv', night' = night, baseline' = baseline,
         \A p \in Kept : share'[p] = share[p],
         job' # "over", job' \in AfterBackup => job \in AfterBackup
  PROVE  CopiesInv'
<1>1. \A n \in NightNumbers : Backup(n) \in Kept
  BY DEF Kept, Backups
<1>2. night \in NightNumbers
  BY DEF CopiesInv, FilesInv
<1>3. BackupsInv'
  BY <1>1, <1>2 DEF CopiesInv, BackupsInv
<1>4. KeptInv'
  BY DEF CopiesInv, KeptInv
<1>5. OnlyCleanUpsAreSuspect'
  BY DEF OnlyCleanUpsAreSuspect
<1> QED BY <1>3, <1>4, <1>5 DEF CopiesInv

\* The newest of some files that hold backups: the one no other comes after.
LEMMA CardsOfNewest ==
  ASSUME NEW c \in [Paths -> Versions \union {Absent}], NEW n \in NightNumbers,
         c[Backup(n)] # Absent,
         \A m \in NightNumbers : m > n => c[Backup(m)] = Absent
  PROVE  S7!RecordCount(c) = 100
<1> DEFINE held_ == S7!Present(c) \intersect Backups
           newest == S7!NewestBackup(c)
<1>1. Backup(n) \in held_
  BY NamesAreApart DEF S7!Present, Backups
<1>2. \A q \in held_ : q[2] <= Backup(n)[2]
  <2> TAKE q \in held_
  <2>1. PICK m \in NightNumbers : q = Backup(m)
    BY DEF Backups
  <2>2. c[Backup(m)] # Absent
    BY <2>1 DEF S7!Present
  <2>3. m \in Int /\ n \in Int /\ ~(m > n)
    BY <2>2 DEF NightNumbers
  <2> QED BY <2>1, <2>3 DEF Backup
<1>3. held_ \subseteq Paths
  BY DEF S7!Present
<1>4. newest \in held_
  BY <1>1, <1>2, <1>3 DEF S7!NewestBackup
<1>5. c[newest] \in Versions
  BY <1>4 DEF S7!Present
<1> QED BY <1>1, <1>5 DEF S7!RecordCount

\* On an ordinary night a copy is SUSPECT by its count of damaged files alone:
\* every file opens, none is scrambled or renamed away, and no card is missing.
LEMMA SuspectByDamageAlone ==
  ASSUME CopiesInv, job \in AfterBackup, S7!Assess(share, baseline) = S7!SUSPECT
  PROVE  baseline # <<>> /\ S7!TooManyDamaged(share, baseline)
<1> USE DEF CopiesInv, FilesInv, BackupsInv
<1>1. baseline # <<>>
  BY DEF S7!Assess, S7!CLEAN, S7!SUSPECT
<1>2. S7!Broken(share, baseline) = {}
  BY DEF S7!Broken, S7!Rewritten, S7!Present
<1>3. S7!Scrambled(share, baseline) = {}
  BY DEF S7!Scrambled, S7!Rewritten, S7!Present
<1>4. S7!RenamedAway(share, baseline) = {}
  <2>1. <<"none", 0, 0>> \notin Paths
    BY DEF Paths, Tmps, Dats, Exports, Backups, Decoys, Tmp, Dat, Export, Backup,
           ExportDecoy, AllocationDecoy
  <2> QED BY <2>1 DEF S7!RenamedAway, S7!Present
<1>5. S7!RecordCount(share) = 100
  BY CardsOfNewest
<1>6. S7!RecordCount(baseline) = 100
  BY <1>1, CardsOfNewest
<1>7. ~S7!RecordsFell(share, baseline)
  BY <1>5, <1>6 DEF S7!RecordsFell
<1> QED BY <1>1, <1>2, <1>3, <1>4, <1>5, <1>7 DEF S7!Assess, S7!CLEAN, S7!SUSPECT

\* The instance counts as this module does.
LEMMA SameCardinality == \A S : S7!Cardinality(S) = Cardinality(S)
BY DEF S7!Cardinality, Cardinality

\* The pull of the night.
LEMMA PullKeepsCopies ==
  ASSUME CopiesInv, FilesInv', Pull
  PROVE  CopiesInv'
<1> USE DEF CopiesInv
<1>1. /\ UNCHANGED <<night, share>> /\ job = "pull" /\ job' = "over"
      /\ health' = S7!Assess(share, baseline)
      /\ baseline' = share \/ baseline' = baseline
      /\ health' = S7!SUSPECT => baseline' = baseline
  BY DEF Pull, S7!CLEAN, S7!SUSPECT
<1>2. share \in [Paths -> Versions \union {Absent}] /\ night \in NightNumbers
  BY DEF FilesInv
<1>3. job \in AfterBackup
  BY <1>1 DEF AfterBackup
<1>4. BackupsInv'
  BY <1>1, <1>2, <1>3 DEF BackupsInv
<1>5. KeptInv'
  BY <1>1 DEF KeptInv
<1>6. OnlyCleanUpsAreSuspect'
  <2>1. SUFFICES ASSUME health' = S7!SUSPECT
                 PROVE  LET damaged == {p \in S7!Present(baseline) :
                                          share[p] # baseline[p]}
                        IN /\ damaged \subseteq
                                Tmps \union Dats \union Exports \union {ExportDecoy}
                           /\ 100 * Cardinality(damaged)
                                > ChangedPct * Cardinality(S7!Present(baseline))
    BY <1>1 DEF OnlyCleanUpsAreSuspect
  <2>2. baseline # <<>> /\ S7!TooManyDamaged(share, baseline)
    BY <1>1, <1>3, <2>1, SuspectByDamageAlone
  <2>3. \A p \in Kept : p \in S7!Present(baseline) => share[p] = baseline[p]
    BY <2>2 DEF KeptInv, S7!Present
  <2>4. S7!Present(baseline) \subseteq Paths
    BY DEF S7!Present
  <2>5. 100 * Cardinality(S7!Damaged(share, baseline))
          > ChangedPct * Cardinality(S7!Present(baseline))
    BY <2>2, SameCardinality DEF S7!TooManyDamaged
  <2>6. S7!Damaged(share, baseline)
          \subseteq Tmps \union Dats \union Exports \union {ExportDecoy}
    BY <2>3, <2>4, KeptAreApart DEF S7!Damaged
  <2> QED BY <2>5, <2>6 DEF S7!Damaged
<1> QED BY <1>4, <1>5, <1>6

\* Every step of the night keeps what a copy is judged by.
LEMMA NextKeepsCopies ==
  ASSUME CopiesInv, [Next]_vars
  PROVE  CopiesInv'
<1>1. FilesInv /\ FilesInv'
  BY NextKeepsFiles DEF CopiesInv
<1>2. share \in [Paths -> Versions \union {Absent}] /\ night \in NightNumbers
  BY <1>1 DEF FilesInv
<1>3. CASE OperatorEdits \/ ShopsClose \/ AllocateTwice \/ NoSecondRun \/ FixDatSkips
             \/ FixDatLists \/ FixDatEnds \/ ArchiveSkips \/ ArchiveFails
             \/ ArchiveZips \/ ArchiveEnds
  <2>1. /\ UNCHANGED <<night, share, baseline>> /\ job' # "over"
        /\ job' \in AfterBackup => job \in AfterBackup
    BY <1>3 DEF OperatorEdits, ShopsClose, AllocateTwice, NoSecondRun, FixDatSkips,
          FixDatLists, FixDatEnds, ArchiveSkips, ArchiveFails, ArchiveZips,
          ArchiveEnds, StartsInWindow, vault, AfterBackup
  <2> QED BY <1>1, <2>1, NothingKeptIsTouched
<1>4. CASE Allocate
  <2>1. /\ night' = night /\ baseline' = baseline /\ job' = "rerun"
        /\ \E shops \in Served :
             share' = [p \in Paths |-> IF p \in {Tmp(s, Month) : s \in shops}
                                       THEN 0 ELSE share[p]]
    BY <1>4 DEF Allocate, StartsInWindow, vault
  <2>2. \A shops \in Served : {Tmp(s, Month) : s \in shops} \subseteq Tmps
    BY NightsAssumption DEF Served, Month, Shops, Months, Tmps
  <2>3. \A p \in Kept : share'[p] = share[p]
    BY <2>1, <2>2, KeptAreApart
  <2> QED BY <1>1, <2>1, <2>3, NothingKeptIsTouched DEF AfterBackup
<1>5. CASE ExportOrSkip
  <2>1. /\ night' = night /\ baseline' = baseline /\ job' = "backup"
        /\ share' = share \/ share' = [share EXCEPT ![Export(night)] = 0]
    BY <1>5 DEF ExportOrSkip, vault
  <2>2. Export(night) \in Exports
    BY <1>2 DEF Exports
  <2>3. \A p \in Kept : share'[p] = share[p]
    BY <1>2, <2>1, <2>2, KeptAreApart
  <2> QED BY <1>1, <2>1, <2>3, NothingKeptIsTouched DEF AfterBackup
<1>6. CASE FixDatClears \/ FixDatMoves \/ FixDatRewrites \/ ArchiveDeletes
  <2>1. UNCHANGED <<night, job, baseline>> /\ job \in {"rename", "delete"}
    BY <1>6 DEF FixDatClears, FixDatMoves, FixDatRewrites, ArchiveDeletes, vault
  <2>2. \A p \in Kept : share'[p] = share[p]
    <3>1. CASE FixDatClears \/ FixDatMoves
      <4>1. PICK p \in FirstOf(todo \intersect Tmps, 1) :
              share' = [share EXCEPT ![Dat(p[2], p[3])] = Absent]
                \/ share' = [share EXCEPT ![Dat(p[2], p[3])] = share[p], ![p] = Absent]
        BY <3>1 DEF FixDatClears, FixDatMoves
      <4>2. p \in Tmps
        BY <4>1 DEF FirstOf
      <4>3. Dat(p[2], p[3]) \in Dats
        BY <4>2 DEF Tmps, Dats, Tmp
      <4> QED BY <1>2, <4>1, <4>2, <4>3, KeptAreApart
    <3>2. CASE FixDatRewrites
      <4>1. PICK p \in FirstOf(todo, 1) : share' = [share EXCEPT ![p] = night]
        BY <3>2 DEF FixDatRewrites
      <4>2. p \in Tmps \union Dats
        BY <1>1, <3>2, <4>1 DEF FirstOf, FixDatRewrites, FilesInv
      <4> QED BY <1>2, <4>1, <4>2, KeptAreApart
    <3>3. CASE ArchiveDeletes
      <4>1. PICK p \in FirstOf(todo, 1) : share' = [share EXCEPT ![p] = Absent]
        BY <3>3 DEF ArchiveDeletes
      <4>2. p \in Exports \union {ExportDecoy}
        BY <1>1, <3>3, <4>1 DEF FirstOf, ArchiveDeletes, FilesInv
      <4> QED BY <1>2, <4>1, <4>2, KeptAreApart
    <3> QED BY <1>6, <3>1, <3>2, <3>3
  <2> QED BY <1>1, <2>1, <2>2, NothingKeptIsTouched
<1>7. CASE BackUp
  <2>1. /\ night' = night /\ baseline' = baseline /\ job' = "fix_dat"
        /\ job = "backup" /\ share' = [share EXCEPT ![Backup(night)] = 0]
    BY <1>7 DEF BackUp, vault
  <2>2. Backup(night) \in Kept /\ 0 # Absent
    BY <1>2 DEF Kept, Backups, Absent
  <2>3. /\ share'[Backup(night)] = 0
        /\ \A p \in Kept : p # Backup(night) => share'[p] = share[p]
    BY <1>2, <2>1, <2>2, KeptAreApart
  <2>4. BackupsInv'
    <3>1. \A n \in NightNumbers : n > night =>
            Backup(n) # Backup(night) /\ Backup(n) \in Kept
      BY <1>2 DEF Backup, NightNumbers, Kept, Backups
    <3> QED BY <2>1, <2>2, <2>3, <3>1 DEF CopiesInv, BackupsInv
  <2>5. KeptInv'
    BY <2>1, <2>2, <2>3 DEF CopiesInv, KeptInv
  <2>6. OnlyCleanUpsAreSuspect'
    BY <2>1 DEF OnlyCleanUpsAreSuspect
  <2> QED BY <1>1, <2>4, <2>5, <2>6 DEF CopiesInv
<1>8. CASE Pull
  BY <1>1, <1>8, PullKeepsCopies
<1>9. CASE NextNight
  <2>1. /\ night' = night + 1 /\ job' = "operator" /\ UNCHANGED <<share, baseline>>
    BY <1>9 DEF NextNight, vault
  <2>2. \A n \in NightNumbers : n > night' => n > night
    BY <1>2, <2>1 DEF NightNumbers
  <2>3. BackupsInv'
    BY <2>1, <2>2 DEF CopiesInv, BackupsInv, AfterBackup
  <2>4. KeptInv' /\ OnlyCleanUpsAreSuspect'
    BY <2>1 DEF CopiesInv, KeptInv, OnlyCleanUpsAreSuspect
  <2> QED BY <1>1, <2>3, <2>4 DEF CopiesInv
<1>10. CASE UNCHANGED vars
  <2>1. UNCHANGED <<night, job, share, baseline, health>>
    BY <1>10 DEF vars, vault
  <2>2. BackupsInv' /\ KeptInv' /\ OnlyCleanUpsAreSuspect'
    BY <2>1 DEF CopiesInv, BackupsInv, KeptInv, OnlyCleanUpsAreSuspect
  <2> QED BY <1>1, <2>2 DEF CopiesInv
<1> QED BY <1>3, <1>4, <1>5, <1>6, <1>7, <1>8, <1>9, <1>10 DEF Next

\* An ordinary night's copy is SUSPECT for one reason only: more of the clean
\* copy's files than the limit were renamed, rewritten or zipped by the two
\* clean-up jobs.  It is never a backup, a decoy among the allocations, or a card.
THEOREM OnlyCleanUpsAreEverSuspect == Spec => []OnlyCleanUpsAreSuspect
<1>1. Init => CopiesInv
  <2> SUFFICES ASSUME Init PROVE CopiesInv
    OBVIOUS
  <2>1. FilesInv
    BY NightsAssumption DEF Init, FilesInv, NothingIsLost, NightNumbers, Versions
  <2>2. \A n \in NightNumbers : Backup(n) \in Paths \ Decoys
    BY DEF Paths, Backups, Backup, Decoys, ExportDecoy, AllocationDecoy
  <2>3. BackupsInv
    BY <2>2 DEF Init, BackupsInv, AfterBackup
  <2>4. KeptInv
    BY KeptAreApart DEF Init, KeptInv
  <2>5. OnlyCleanUpsAreSuspect
    BY DEF Init, OnlyCleanUpsAreSuspect
  <2> QED BY <2>1, <2>3, <2>4, <2>5 DEF CopiesInv
<1>2. CopiesInv /\ [Next]_vars => CopiesInv'
  BY NextKeepsCopies
<1>3. CopiesInv => OnlyCleanUpsAreSuspect
  BY DEF CopiesInv
<1> QED BY <1>1, <1>2, <1>3, PTL DEF Spec

-----------------------------------------------------------------------------
(* The types.                                                              *)

\* Only exports that were made stand in the share or in an archive, and a job
\* has only files of the share to handle.
MadeInv ==
  /\ \A n \in NightNumbers : share[Export(n)] # Absent => n \in exported
  /\ archived \subseteq exported /\ todo \subseteq Paths
  /\ baseline = <<>> \/ baseline \in [Paths -> Versions \union {Absent}]
  /\ health \in S7!Healths

\* A step that makes no export.
LEMMA NothingMade ==
  ASSUME MadeInv, UNCHANGED <<exported, archived, vault>>, todo' \subseteq Paths,
         \A n \in NightNumbers : share'[Export(n)] # Absent => share[Export(n)] # Absent
  PROVE  MadeInv'
BY DEF MadeInv, vault

\* Every step of the night.
LEMMA NextKeepsMade ==
  ASSUME FilesInv, MadeInv, [Next]_vars
  PROVE  MadeInv'
<1>1. /\ night \in NightNumbers /\ share \in [Paths -> Versions \union {Absent}]
      /\ todo \subseteq Paths
  BY DEF FilesInv, MadeInv
<1>2. CASE OperatorEdits \/ ShopsClose \/ AllocateTwice \/ NoSecondRun \/ BackUp
             \/ FixDatSkips \/ FixDatEnds \/ ArchiveSkips \/ ArchiveFails \/ ArchiveEnds
             \/ NextNight \/ UNCHANGED vars
  <2>1. /\ UNCHANGED <<exported, archived, vault, todo>>
        /\ share' = share \/ share' = [share EXCEPT ![Backup(night)] = 0]
    BY <1>2 DEF OperatorEdits, ShopsClose, AllocateTwice, NoSecondRun, BackUp, FixDatSkips,
       FixDatEnds, ArchiveSkips, ArchiveFails, ArchiveEnds, NextNight, StartsInWindow, made,
       vars
  <2>2. \A n \in NightNumbers : Export(n) # Backup(night)
    BY DEF Export, Backup
  <2>3. \A n \in NightNumbers : share'[Export(n)] = share[Export(n)]
    BY <1>1, <2>1, <2>2, NamesAreApart
  <2> QED BY <1>1, <2>1, <2>3, NothingMade
<1>3. CASE Allocate
  <2>1. /\ UNCHANGED <<exported, archived, vault, todo>>
        /\ \E shops \in Served :
             share' = [p \in Paths |-> IF p \in {Tmp(s, Month) : s \in shops}
                                       THEN 0 ELSE share[p]]
    BY <1>3 DEF Allocate
  <2>2. \A shops \in Served : {Tmp(s, Month) : s \in shops} \subseteq Tmps
    BY NightsAssumption DEF Served, Month, Shops, Months, Tmps
  <2>3. \A n \in NightNumbers : share'[Export(n)] = share[Export(n)]
    BY <2>1, <2>2, NamesAreApart
  <2> QED BY <1>1, <2>1, <2>3, NothingMade
<1>4. CASE ExportOrSkip
  <2>1. /\ UNCHANGED <<archived, vault, todo>>
        /\ \/ UNCHANGED <<share, exported>>
           \/ /\ share' = [share EXCEPT ![Export(night)] = 0]
              /\ exported' = exported \union {night}
    BY <1>4 DEF ExportOrSkip
  <2>2. \A n \in NightNumbers : n # night => Export(n) # Export(night)
    BY DEF Export
  <2>3. \A n \in NightNumbers : n # night => share'[Export(n)] = share[Export(n)]
    BY <1>1, <2>1, <2>2, NamesAreApart
  <2> QED BY <1>1, <2>1, <2>3 DEF MadeInv, vault
<1>5. CASE FixDatLists
  <2>1. /\ UNCHANGED <<share, exported, archived, vault>>
        /\ todo' = Here(Tmps) \union FirstOf(Here(Dats), 2)
    BY <1>5 DEF FixDatLists, made
  <2>2. todo' \subseteq Paths
    BY <2>1, TmpsAndDatsArePaths DEF Here, FirstOf
  <2> QED BY <2>1, <2>2, NothingMade
<1>6. CASE FixDatClears \/ FixDatMoves
  <2>1. PICK p \in FirstOf(todo \intersect Tmps, 1) :
          share' = [share EXCEPT ![Dat(p[2], p[3])] = Absent]
            \/ share' = [share EXCEPT ![Dat(p[2], p[3])] = share[p], ![p] = Absent]
    BY <1>6 DEF FixDatClears, FixDatMoves
  <2>2. p \in Tmps /\ Dat(p[2], p[3]) \in Dats
    BY <2>1 DEF FirstOf, Tmps, Dats, Tmp
  <2>3. \A n \in NightNumbers : Export(n) # p /\ Export(n) # Dat(p[2], p[3])
    BY <2>2, NamesAreApart
  <2>4. \A n \in NightNumbers : share'[Export(n)] = share[Export(n)]
    BY <1>1, <2>1, <2>3, NamesAreApart
  <2>5. UNCHANGED <<exported, archived, vault>> /\ todo' \subseteq todo
    BY <1>6 DEF FixDatClears, FixDatMoves, made
  <2> QED BY <1>1, <2>4, <2>5, NothingMade
<1>7. CASE FixDatRewrites
  <2>1. PICK p \in FirstOf(todo, 1) : share' = [share EXCEPT ![p] = night]
    BY <1>7 DEF FixDatRewrites
  <2>2. p \in Tmps \union Dats
    BY <1>7, <2>1 DEF FirstOf, FixDatRewrites, FilesInv
  <2>3. \A n \in NightNumbers : share'[Export(n)] = share[Export(n)]
    BY <1>1, <2>1, <2>2, NamesAreApart
  <2>4. UNCHANGED <<exported, archived, vault>> /\ todo' \subseteq todo
    BY <1>7 DEF FixDatRewrites, made
  <2> QED BY <1>1, <2>3, <2>4, NothingMade
<1>8. CASE ArchiveZips
  <2>1. /\ UNCHANGED <<share, exported, vault>>
        /\ todo' = FirstOf(Archivable, ArchiveMost)
        /\ archived' = archived \union {p[2] : p \in todo' \ {ExportDecoy}}
    BY <1>8 DEF ArchiveZips
  <2>2. \A p \in todo' : /\ p \in Exports \union {ExportDecoy}
                         /\ share[p] # Absent
    BY <2>1 DEF FirstOf, Archivable, Here
  <2>3. \A p \in todo' \ {ExportDecoy} : p[2] \in exported
    BY <2>2 DEF MadeInv, Exports, Export
  <2>4. todo' \subseteq Paths
    BY <2>2 DEF Paths, Decoys
  <2> QED BY <2>1, <2>3, <2>4 DEF MadeInv, vault
<1>9. CASE ArchiveDeletes
  <2>1. PICK p \in FirstOf(todo, 1) :
          share' = [share EXCEPT ![p] = Absent] /\ todo' = todo \ {p}
    BY <1>9 DEF ArchiveDeletes
  <2>2. \A n \in NightNumbers : share'[Export(n)] \in {share[Export(n)], Absent}
    BY <1>1, <2>1, NamesAreApart
  <2>3. UNCHANGED <<exported, archived, vault>>
    BY <1>9 DEF ArchiveDeletes, made
  <2> QED BY <1>1, <2>1, <2>2, <2>3, NothingMade
<1>10. CASE Pull
  <2>1. /\ UNCHANGED <<share, todo, exported, archived>>
        /\ health' = S7!Assess(share, baseline)
        /\ baseline' = share \/ baseline' = baseline
    BY <1>10 DEF Pull, made
  <2>2. health' \in S7!Healths
    BY <2>1 DEF S7!Assess, S7!Healths
  <2> QED BY <1>1, <2>1, <2>2 DEF MadeInv
<1> QED BY <1>2, <1>3, <1>4, <1>5, <1>6, <1>7, <1>8, <1>9, <1>10 DEF Next

\* Every variable of the nights always has its type; no archive holds an export
\* that was never made.
THEOREM NightsTypeCorrect == Spec => []TypeOK
<1> DEFINE Inv == FilesInv /\ MadeInv
<1>1. Init => Inv
  <2> SUFFICES ASSUME Init PROVE FilesInv /\ MadeInv
    OBVIOUS
  <2>1. FilesInv
    BY NightsAssumption DEF Init, FilesInv, NothingIsLost, NightNumbers, Versions
  <2>2. \A n \in NightNumbers : Export(n) \in Paths \ Decoys
    BY DEF Paths, Exports, Export, Decoys, ExportDecoy, AllocationDecoy
  <2> QED BY <2>1, <2>2 DEF Init, MadeInv, S7!Healths
<1>2. Inv /\ [Next]_vars => Inv'
  BY NextKeepsFiles, NextKeepsMade
<1>3. Inv => TypeOK
  BY DEF FilesInv, MadeInv, TypeOK
<1> QED BY <1>1, <1>2, <1>3, PTL DEF Spec
=============================================================================
