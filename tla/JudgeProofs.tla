----------------------------- MODULE JudgeProofs -----------------------------
(***************************************************************************)
(* What the Judge takes and gives back, what it learns, and what it calls, *)
(* for every number of files, programs, jobs, verdicts and undos.          *)
(***************************************************************************)
EXTENDS Judge, SequenceTheorems, TLAPS

-----------------------------------------------------------------------------
(* The programs it suspends.                                               *)

\* The counts are numbers, and those of the living are on record.
PausesInv ==
  /\ alive \subseteq Pids /\ stops \in [Pids -> Nat] /\ takenPids \in [Pids -> Nat]
  /\ PausesAreRecorded

\* What is suspended once more is recorded once more.
LEMMA OneMoreIsRecorded ==
  ASSUME PausesInv, NEW ps, alive' \subseteq alive,
         stops' = OneMore(stops, ps), takenPids' = OneMore(takenPids, ps)
  PROVE  PausesInv'
<1>1. \A q \in Pids : /\ stops'[q] = IF q \in ps THEN stops[q] + 1 ELSE stops[q]
                     /\ takenPids'[q] = IF q \in ps THEN takenPids[q] + 1
                                       ELSE takenPids[q]
  BY DEF OneMore
<1>2. stops' \in [Pids -> Nat] /\ takenPids' \in [Pids -> Nat]
  BY DEF OneMore, PausesInv
<1> QED BY <1>1, <1>2 DEF PausesInv, PausesAreRecorded

\* Suspending a family, half of it or a whole one, records it.
LEMMA PausingKeepsRecord ==
  ASSUME PausesInv, Pause \/ PauseTooLate \/ PauseNext \/ NobodyToPause
  PROVE  PausesInv'
<1> USE DEF PausesInv, PausesAreRecorded
<1>1. CASE Pause
  BY <1>1, OneMoreIsRecorded DEF Pause
<1>2. CASE PauseTooLate
  BY <1>2, OneMoreIsRecorded DEF PauseTooLate
<1>3. CASE PauseNext \/ NobodyToPause
  BY <1>3 DEF PauseNext, NobodyToPause, processVars
<1> QED BY <1>1, <1>2, <1>3

\* Resuming takes one pause off the record and off the program.
LEMMA UndoKeepsRecord ==
  ASSUME PausesInv, Undo
  PROVE  PausesInv'
<1> USE DEF PausesInv, PausesAreRecorded
<1>1. CASE Resume
  BY <1>1 DEF Resume
<1>2. CASE BeginUndo \/ AllResumed \/ Unlock \/ Undone
  BY <1>2 DEF BeginUndo, AllResumed, Unlock, Undone, processVars, takenVars
<1> QED BY <1>1, <1>2 DEF Undo

\* Every step leaves the record of the suspended programs true.
LEMMA NextKeepsPauses ==
  ASSUME PausesInv, [Next]_vars
  PROVE  PausesInv'
<1> USE DEF PausesInv, PausesAreRecorded
<1>1. CASE Server
  BY <1>1 DEF Server, Write, Delete, Rename, End, judgeVars, processVars, takenVars
<1>2. CASE KillTree
  BY <1>2 DEF KillTree, judgeVars, takenVars
<1>3. CASE LearnRun \/ Poll \/ JudgeRaises \/ JudgeBegin
  BY <1>3 DEF LearnRun, Poll, JudgeRaises, JudgeBegin, processVars, takenVars
<1>4. CASE ReadFile \/ Decide \/ ListFolder \/ LockFile \/ Contained
  BY <1>4 DEF ReadFile, Decide, ListFolder, LockFile, Contained, exceptLocking,
     processVars, takenVars
<1>5. CASE UNCHANGED vars
  BY <1>5 DEF vars, processVars, takenVars
<1> QED BY <1>1, <1>2, <1>3, <1>4, <1>5, PausingKeepsRecord, UndoKeepsRecord
     DEF Next, Verdict

\* The counts of the Judge hold in every reachable state.
LEMMA PausesHold == Spec => []PausesInv
<1>1. Init => PausesInv
  BY DEF Init, PausesInv, PausesAreRecorded
<1> QED BY <1>1, NextKeepsPauses, PTL DEF Spec

\* undo can set every living program free: it is suspended exactly as often as
\* the Judge has it on record, whatever incidents and endings interleave.
THEOREM PausesAlwaysRecorded == Spec => []PausesAreRecorded
<1>1. PausesInv => PausesAreRecorded
  BY DEF PausesInv
<1> QED BY <1>1, PausesHold, PTL

-----------------------------------------------------------------------------
(* A named program is paused.                                              *)

\* While the busiest is sought, every living program that was named is still
\* on the list; and from then on the one that is paused cannot end.
WriterInv ==
  /\ pc = "pausing" => suspects \subseteq Named /\ Named \cap alive \subseteq suspects
  /\ IncidentPausesAWriter

\* A count that has grown is not nothing.
LEMMA OneMoreIsSome == \A n \in Nat : n + 1 > 0
OBVIOUS

\* The search for the busiest living program.
LEMMA PausingFindsAWriter ==
  ASSUME PausesInv, WriterInv, Pause \/ PauseTooLate \/ PauseNext \/ NobodyToPause
  PROVE  WriterInv'
<1>1. Named' = Named
  BY DEF Pause, PauseTooLate, PauseNext, NobodyToPause, exceptPausing, findVars, Named
<1> HIDE DEF Named
<1> USE DEF WriterInv, IncidentPausesAWriter, PausesInv
<1>2. CASE Pause
  <2>1. PICK p \in alive : Busiest(p) /\ stops' = OneMore(stops, {p} \cup Family(p))
    BY <1>2 DEF Pause
  <2>2. p \in Named
    BY <1>2, <2>1 DEF Pause, Busiest
  <2>3. p \in Pids /\ stops[p] \in Nat /\ stops'[p] = stops[p] + 1
    BY <2>1 DEF OneMore
  <2>4. stops'[p] > 0
    BY <2>3, OneMoreIsSome, Zenon
  <2> QED BY <1>1, <1>2, <2>2, <2>4 DEF Pause
<1>3. CASE PauseTooLate
  BY <1>1, <1>3 DEF PauseTooLate
<1>4. CASE PauseNext
  BY <1>1, <1>4 DEF PauseNext, processVars
<1>5. CASE NobodyToPause
  BY <1>1, <1>5 DEF NobodyToPause, processVars
<1> QED BY <1>2, <1>3, <1>4, <1>5

\* Every step keeps a paused writer, or none alive, behind a containment.
LEMMA NextKeepsWriter ==
  ASSUME PausesInv, WriterInv, [Next]_vars
  PROVE  WriterInv'
<1> USE DEF WriterInv, IncidentPausesAWriter, Named
<1>1. CASE Write \/ Delete \/ Rename
  <2>1. UNCHANGED <<pc, evs, suspects, alive, stops>>
    BY <1>1 DEF Write, Delete, Rename, judgeVars, findVars, actVars, processVars
  <2> QED BY <2>1
<1>2. CASE End
  BY <1>2 DEF End, Running, PausesInv, judgeVars, findVars, actVars
<1>3. CASE KillTree
  BY <1>3 DEF KillTree, judgeVars
<1>4. CASE LearnRun \/ Poll \/ JudgeRaises \/ JudgeBegin
  BY <1>4 DEF LearnRun, Poll, JudgeRaises, JudgeBegin
<1>5. CASE ReadFile
  BY <1>5 DEF ReadFile
<1>6. CASE Decide
  <2>1. \/ pc' = "idle"
        \/ pc' = "pausing" /\ suspects' = Named /\ evs' = evs
    BY <1>6 DEF Decide, findVars
  <2> QED BY <2>1
<1>7. CASE ListFolder \/ LockFile
  BY <1>7 DEF ListFolder, LockFile, Locking, exceptLocking, findVars, processVars
<1>8. CASE Contained
  BY <1>8 DEF Contained
<1>9. CASE Undo
  BY <1>9 DEF Undo, BeginUndo, Resume, AllResumed, Unlock, Undone
<1>10. CASE UNCHANGED vars
  BY <1>10 DEF vars, findVars, actVars, processVars
<1> QED BY <1>1, <1>2, <1>3, <1>4, <1>5, <1>6, <1>7, <1>8, <1>9, <1>10,
           PausingFindsAWriter DEF Next, Server, Verdict

\* While the files are locked, a program that was named for the incident stands
\* still, or none of them is left to go on writing.
THEOREM IncidentAlwaysPausesAWriter == Spec => []IncidentPausesAWriter
<1>1. Init => WriterInv
  BY DEF Init, WriterInv, IncidentPausesAWriter
<1>2. WriterInv => IncidentPausesAWriter
  BY DEF WriterInv
<1> QED BY <1>1, <1>2, PausesHold, NextKeepsWriter, PTL DEF Spec

-----------------------------------------------------------------------------
(* The files it locks.                                                     *)

\* The Judge never has on record what others keep locked.
LocksInv ==
  /\ LocksAreAccounted /\ takenFiles \cap (foreign \ moved) = {}
  /\ pc = "unlocking" => toDo \subseteq takenFiles

\* A rename carries the missing write bit along.
LEMMA RenameKeepsLocks ==
  ASSUME LocksInv, Rename
  PROVE  LocksInv'
<1>1. PICK f \in Files :
        /\ Renamed[f] # NoFile
        /\ readOnly' = Move(readOnly, f) /\ foreign' = Move(foreign, f)
        /\ moved' = IF f \in readOnly \cup foreign THEN moved \cup {Renamed[f]} ELSE moved
  BY DEF Rename
<1>2. UNCHANGED <<takenFiles, toDo, pc>>
  BY DEF Rename, judgeVars, takenVars, actVars
<1>3. Renamed[f] # Heartbeat
  BY JudgeAssumption
<1> QED BY <1>1, <1>2, <1>3 DEF LocksInv, LocksAreAccounted, Move

\* Every step keeps the account of the missing write bits.
LEMMA NextKeepsLocks ==
  ASSUME LocksInv, [Next]_vars
  PROVE  LocksInv'
<1> USE DEF LocksInv, LocksAreAccounted, fileVars, takenVars, actVars, findVars
<1>1. CASE Write \/ Delete \/ End
  BY <1>1 DEF Write, Delete, End, judgeVars
<1>2. CASE KillTree
  BY <1>2 DEF KillTree, judgeVars
<1>3. CASE LearnRun \/ Poll \/ JudgeRaises \/ JudgeBegin
  BY <1>3 DEF LearnRun, Poll, JudgeRaises, JudgeBegin
<1>4. CASE ReadFile \/ Decide
  BY <1>4 DEF ReadFile, Decide
<1>5. CASE Pause \/ PauseTooLate \/ PauseNext \/ NobodyToPause
  BY <1>5 DEF Pause, PauseTooLate, PauseNext, NobodyToPause, exceptPausing
<1>6. CASE ListFolder \/ Contained
  BY <1>6 DEF ListFolder, Contained
<1>7. CASE LockFile
  BY <1>7 DEF LockFile, Lockable
<1>8. CASE Unlock
  <2>1. NextFile \in toDo
    BY <1>8 DEF Unlock, NextFile
  <2> QED BY <1>8, <2>1 DEF Unlock
<1>9. CASE BeginUndo \/ Resume \/ AllResumed \/ Undone
  BY <1>9 DEF BeginUndo, Resume, AllResumed, Undone
<1>10. CASE UNCHANGED vars
  BY <1>10 DEF vars
<1> QED BY <1>1, <1>2, <1>3, <1>4, <1>5, <1>6, <1>7, <1>8, <1>9, <1>10,
           RenameKeepsLocks DEF Next, Server, Verdict, Undo

\* No write bit is missing that nobody took, what others locked stays locked,
\* and the heartbeat stays writable.
THEOREM LocksAlwaysAccounted == Spec => []LocksAreAccounted
<1>1. Init => LocksInv
  BY JudgeAssumption DEF Init, LocksInv, LocksAreAccounted
<1>2. LocksInv => LocksAreAccounted
  BY DEF LocksInv
<1> QED BY <1>1, <1>2, NextKeepsLocks, PTL DEF Spec

-----------------------------------------------------------------------------
(* The cards.                                                              *)

\* A run a card can be asked about: its job and its program are known ones.
Asked(run) == run.job \in Jobs /\ run.program \in Programs

\* The rows of every card are its program's, and the newest card of a job is
\* that of the program last seen behind it.
CardsInv ==
  /\ window \in Windows
  /\ versions \in [Jobs -> Seq(Programs)] /\ observed \in [Jobs -> Seq(Rows)]
  /\ lastProgram \in [Jobs -> Programs \cup {None}]
  /\ CardsAreOneProgram
  /\ \A j \in Jobs :
       lastProgram[j] # None =>
         /\ Len(versions[j]) > 0
         /\ versions[j][Len(versions[j])] = lastProgram[j]

\* What the cards are after version_for: none is lost, and the newest one is
\* the run's own.
LEMMA CardsAfterVersionFor ==
  ASSUME versions \in [Jobs -> Seq(Programs)], NEW run, Asked(run),
         NEW after, after = VersionFor(run)
  PROVE  /\ after \in [Jobs -> Seq(Programs)]
         /\ Len(after[run.job]) \in DOMAIN after[run.job] /\ Len(after[run.job]) > 0
         /\ after[run.job][Len(after[run.job])] = run.program
         /\ \A j \in Jobs \ {run.job} : after[j] = versions[j]
         /\ \A j \in Jobs : \A i \in DOMAIN versions[j] :
              i \in DOMAIN after[j] /\ after[j][i] = versions[j][i]
<1>1. PICK j : j = run.job
  OBVIOUS
<1>2. PICK s : s = versions[j]
  OBVIOUS
<1>3. j \in Jobs /\ s \in Seq(Programs) /\ run.program \in Programs
  BY <1>1, <1>2 DEF Asked
<1>4. Len(s) \in Nat /\ DOMAIN s = 1 .. Len(s)
  BY <1>3, LenProperties
<1>5. CASE IsCurrent(run)
  <2>1. after = versions /\ Len(s) > 0 /\ s[Len(s)] = run.program
    BY <1>1, <1>2, <1>5 DEF VersionFor, IsCurrent, Card
  <2>2. Len(s) \in DOMAIN s
    BY <1>4, <2>1
  <2> QED BY <1>1, <1>2, <2>1, <2>2
<1>6. CASE ~IsCurrent(run)
  <2>1. PICK t : t = Append(s, run.program)
    OBVIOUS
  <2>2. after = [versions EXCEPT ![j] = t]
    BY <1>1, <1>2, <1>6, <2>1 DEF VersionFor
  <2>3. /\ t \in Seq(Programs) /\ Len(t) = Len(s) + 1 /\ t[Len(s) + 1] = run.program
        /\ \A i \in 1 .. Len(s) : t[i] = s[i]
    BY <1>3, <2>1, AppendProperties
  <2>4. DOMAIN t = 1 .. Len(t)
    BY <2>3, LenProperties
  <2>5. Len(t) \in DOMAIN t /\ Len(t) > 0 /\ \A i \in DOMAIN s : i \in DOMAIN t
    BY <1>4, <2>3, <2>4
  <2>6. t[Len(t)] = run.program /\ \A i \in DOMAIN s : t[i] = s[i]
    BY <1>4, <2>3
  <2>7. after \in [Jobs -> Seq(Programs)] /\ after[j] = t
    BY <1>3, <2>2, <2>3
  <2>8. \A k \in Jobs \ {j} : after[k] = versions[k]
    BY <1>3, <2>2
  <2> QED BY <1>1, <1>2, <2>5, <2>6, <2>7, <2>8
<1> QED BY <1>5, <1>6

\* What a run leaves behind whether it is scored or learned.
Seen(run) ==
  /\ versions' = VersionFor(run)
  /\ lastProgram' = [lastProgram EXCEPT ![run.job] = run.program]

\* The newest cards after a run was seen.
LEMMA SeenKeepsNewest ==
  ASSUME CardsInv, NEW run, Asked(run), Seen(run)
  PROVE  /\ lastProgram' \in [Jobs -> Programs \cup {None}]
         /\ \A j \in Jobs :
              lastProgram'[j] # None =>
                /\ Len(versions'[j]) > 0
                /\ versions'[j][Len(versions'[j])] = lastProgram'[j]
<1>1. PICK after : after = VersionFor(run)
  OBVIOUS
<1>2. /\ Len(after[run.job]) > 0 /\ after[run.job][Len(after[run.job])] = run.program
      /\ \A j \in Jobs \ {run.job} : after[j] = versions[j]
  BY <1>1, CardsAfterVersionFor DEF CardsInv
<1>3. versions' = after
  BY <1>1 DEF Seen
<1>4. lastProgram'[run.job] = run.program
      /\ \A j \in Jobs \ {run.job} : lastProgram'[j] = lastProgram[j]
  BY DEF Seen, CardsInv, Asked
<1>5. lastProgram' \in [Jobs -> Programs \cup {None}]
  BY DEF Seen, CardsInv, Asked
<1> QED BY <1>2, <1>3, <1>4, <1>5 DEF CardsInv

\* A run that is scored opens a card of its own when it needs one.
LEMMA ScoreKeepsCards ==
  ASSUME CardsInv, NEW run, Asked(run), Score(run), Seen(run), window' \in Windows
  PROVE  CardsInv'
<1>1. PICK after : after = VersionFor(run)
  OBVIOUS
<1>2. /\ after \in [Jobs -> Seq(Programs)]
      /\ \A j \in Jobs : \A i \in DOMAIN versions[j] :
           i \in DOMAIN after[j] /\ after[j][i] = versions[j][i]
  BY <1>1, CardsAfterVersionFor DEF CardsInv
<1>3. versions' = after /\ observed' = observed
  BY <1>1 DEF Score
<1>4. CardsAreOneProgram'
  BY <1>2, <1>3 DEF CardsInv, CardsAreOneProgram
<1> QED BY <1>2, <1>3, <1>4, SeenKeepsNewest DEF CardsInv

\* A run that is learned becomes a row of its own program's card.
LEMMA LearnKeepsCards ==
  ASSUME CardsInv, NEW run, Asked(run), Learn(run), Seen(run), window' \in Windows
  PROVE  CardsInv'
<1>1. PICK after : after = VersionFor(run)
  OBVIOUS
<1>2. /\ after \in [Jobs -> Seq(Programs)]
      /\ Len(after[run.job]) \in DOMAIN after[run.job] /\ Len(after[run.job]) > 0
      /\ after[run.job][Len(after[run.job])] = run.program
      /\ \A j \in Jobs : \A i \in DOMAIN versions[j] :
           i \in DOMAIN after[j] /\ after[j][i] = versions[j][i]
  BY <1>1, CardsAfterVersionFor DEF CardsInv
<1>3. PICK row : row = [version |-> Len(after[run.job]), program |-> run.program]
  OBVIOUS
<1>4. row \in Rows
  <2>1. after[run.job] \in Seq(Programs)
    BY <1>2 DEF Asked
  <2>2. Len(after[run.job]) \in Nat
    BY <2>1, LenProperties
  <2> QED BY <1>3, <2>2 DEF Rows, Asked
<1>5. PICK s, t : s = observed[run.job] /\ t = Append(s, row)
  OBVIOUS
<1>6. s \in Seq(Rows)
  BY <1>5 DEF CardsInv, Asked
<1>7. /\ t \in Seq(Rows) /\ Len(t) = Len(s) + 1 /\ t[Len(s) + 1] = row
      /\ \A i \in 1 .. Len(s) : t[i] = s[i]
  BY <1>4, <1>5, <1>6, AppendProperties
<1>8. Len(s) \in Nat /\ DOMAIN s = 1 .. Len(s) /\ DOMAIN t = 1 .. Len(t)
  BY <1>6, <1>7, LenProperties
<1>9. \A i \in DOMAIN t : i \in DOMAIN s \/ i = Len(s) + 1
  BY <1>7, <1>8
<1>10. /\ versions' = after
       /\ observed' = [observed EXCEPT ![run.job] = t]
  BY <1>1, <1>3, <1>5 DEF Learn
<1>11. observed' \in [Jobs -> Seq(Rows)]
  BY <1>7, <1>10 DEF CardsInv, Asked
<1>12. \A i \in DOMAIN t : t[i].version \in DOMAIN after[run.job]
                           /\ after[run.job][t[i].version] = t[i].program
  <2>1. SUFFICES ASSUME NEW i \in DOMAIN t
                 PROVE  t[i].version \in DOMAIN after[run.job]
                        /\ after[run.job][t[i].version] = t[i].program
    OBVIOUS
  <2>2. CASE i \in DOMAIN s
    <3>1. t[i] = s[i]
      BY <1>7, <1>8, <2>2
    <3>2. s[i].version \in DOMAIN versions[run.job]
          /\ versions[run.job][s[i].version] = s[i].program
      BY <1>5, <2>2 DEF CardsInv, CardsAreOneProgram, Asked
    <3> QED BY <1>2, <3>1, <3>2 DEF Asked
  <2>3. CASE i = Len(s) + 1
    <3>1. t[i].version = Len(after[run.job]) /\ t[i].program = run.program
      BY <1>3, <1>7, <2>3
    <3> QED BY <1>2, <3>1
  <2> QED BY <1>9, <2>2, <2>3
<1>13. CardsAreOneProgram'
  <2>1. SUFFICES ASSUME NEW j \in Jobs, NEW i \in DOMAIN observed'[j]
                 PROVE  observed'[j][i].version \in DOMAIN after[j]
                        /\ after[j][observed'[j][i].version] = observed'[j][i].program
    BY <1>10 DEF CardsAreOneProgram
  <2>2. CASE j = run.job
    <3>1. observed'[j] = t
      BY <1>10, <2>2 DEF CardsInv, Asked
    <3> QED BY <1>12, <2>2, <3>1
  <2>3. CASE j # run.job
    <3>1. observed'[j] = observed[j]
      BY <1>10, <2>3 DEF CardsInv, Asked
    <3>2. observed[j][i].version \in DOMAIN versions[j]
          /\ versions[j][observed[j][i].version] = observed[j][i].program
      BY <3>1 DEF CardsInv, CardsAreOneProgram
    <3> QED BY <1>2, <3>1, <3>2
  <2> QED BY <2>2, <2>3
<1> QED BY <1>2, <1>10, <1>11, <1>13, SeenKeepsNewest DEF CardsInv

\* Every step keeps the cards apart.
LEMMA NextKeepsCards ==
  ASSUME CardsInv, [Next]_vars
  PROVE  CardsInv'
<1>1. ASSUME NEW b \in BOOLEAN
      PROVE  Asked(Run(b)) /\ Run(b).job = window.job /\ Run(b).program = window.program
  BY DEF CardsInv, Windows, Asked, Run
<1>2. CASE LearnRun
  <2>1. Learn(Run(FALSE)) /\ Seen(Run(FALSE)) /\ window' \in Windows
    BY <1>1, <1>2 DEF LearnRun, Learn, Sighted, Seen, NextWindow
  <2> QED BY <1>1, <2>1, LearnKeepsCards
<1>3. CASE Poll
  <2>1. Score(Run(FALSE)) /\ Seen(Run(FALSE)) /\ window' \in Windows
    BY <1>1, <1>3 DEF Poll, Score, Sighted, Seen, windowVars, CardsInv
  <2> QED BY <1>1, <2>1, ScoreKeepsCards
<1>4. CASE JudgeBegin
  <2>1. PICK b \in BOOLEAN : Score(Run(b))
    BY <1>4 DEF JudgeBegin
  <2>2. Seen(Run(b)) /\ window' \in Windows
    BY <1>1, <1>4, <2>1 DEF JudgeBegin, Score, Sighted, Seen, windowVars, NextWindow,
       CardsInv
  <2> QED BY <1>1, <2>1, <2>2, ScoreKeepsCards
<1>5. ASSUME UNCHANGED <<habitVars, lastProgram>>, window' \in Windows
      PROVE  CardsInv'
  BY <1>5 DEF CardsInv, CardsAreOneProgram, habitVars
<1>6. CASE Server \/ KillTree \/ UNCHANGED vars
  BY <1>5, <1>6 DEF Server, Write, Delete, Rename, End, KillTree, judgeVars, scoreVars,
     windowVars, vars, CardsInv
<1>7. CASE JudgeRaises
  BY <1>5, <1>7 DEF JudgeRaises, NextWindow, habitVars
<1>8. CASE Verdict
  BY <1>5, <1>8 DEF Verdict, ReadFile, Decide, Pause, PauseTooLate, PauseNext,
     NobodyToPause, ListFolder, LockFile, Contained, exceptPausing, exceptLocking,
     scoreVars, windowVars, CardsInv
<1>9. CASE Undo
  BY <1>5, <1>9 DEF Undo, BeginUndo, Resume, AllResumed, Unlock, Undone, exceptUndo,
     scoreVars, windowVars, CardsInv
<1> QED BY <1>2, <1>3, <1>4, <1>6, <1>7, <1>8, <1>9 DEF Next

\* The cards are kept apart in every reachable state.
LEMMA CardsHold == Spec => []CardsInv
<1>1. Init => CardsInv
  <2>1. ASSUME Init PROVE \A j \in Jobs : DOMAIN observed[j] = {}
    BY <2>1, EmptySeq, LenProperties DEF Init, HabitInit
  <2>2. \A S : <<>> \in Seq(S)
    BY EmptySeq
  <2> QED BY <2>1, <2>2 DEF Init, HabitInit, CardsInv, CardsAreOneProgram
<1> QED BY <1>1, NextKeepsCards, PTL DEF Spec

\* A card is never continued by the runs of another program, however programs
\* come, go and come back, and whatever polls and verdicts insert cards.
THEOREM CardsAlwaysOneProgram == Spec => []CardsAreOneProgram
<1>1. CardsInv => CardsAreOneProgram
  BY DEF CardsInv
<1> QED BY <1>1, CardsHold, PTL

\* A verdict on a job whose program is not the one last seen says so.
THEOREM ChangeIsAlwaysCalled == Spec => ChangeIsCalled
<1>1. ASSUME CardsInv, [Next]_vars, pc = "idle", pc' = "reading",
             lastProgram[window.job] \notin {None, window.program}
      PROVE  unusual'
  <2>1. JudgeBegin
    BY <1>1 DEF Next, Server, Write, Delete, Rename, End, KillTree, LearnRun, Poll,
       JudgeRaises, Verdict, ReadFile, Decide, Pause, PauseTooLate, PauseNext,
       NobodyToPause, ListFolder, LockFile, Locking, Contained, Undo, BeginUndo, Resume,
       AllResumed, Unlock, Undone, judgeVars, vars
  <2>2. PICK b \in BOOLEAN : unusual' = Unusual(Run(b))
    BY <2>1 DEF JudgeBegin
  <2>3. Run(b).job = window.job /\ Run(b).program = window.program
    BY DEF Run
  <2>4. IsNew(Run(b))
    BY <1>1, <2>3 DEF IsNew, IsCurrent, Card, CardsInv, Windows
  <2> QED BY <2>2, <2>4 DEF Unusual
<1>2. CardsInv /\ [Next]_vars
        => [pc = "idle" /\ pc' = "reading"
              /\ lastProgram[window.job] \notin {None, window.program} => unusual']_vars
  BY <1>1
<1> QED BY <1>2, CardsHold, PTL DEF Spec, ChangeIsCalled

-----------------------------------------------------------------------------
(* What normal is.                                                         *)

\* An event of a rename names both ends of it; no other event names an old path.
Told == {e \in Events : e.old = NoFile \/ (e.old \in Files /\ Renamed[e.old] = e.path)}

\* A file of a type the Judge can check, which no rename leads to, and which was
\* text or empty when it was last measured.
KnownGood(f) ==
  /\ TypeOf[f] \in Readable /\ \A g \in Files : Renamed[g] # f
  /\ baseline[f] \in {ZERO, LOW}

\* A known good file that was read as noise has made the verdict a ransom one.
GoodInv ==
  /\ content \in [Files -> Contents]
  /\ events \in Seq(Told) /\ evs \in Seq(Told) /\ unread \in 0 .. Len(evs)
  /\ readings \in [Files -> Entropies]
  /\ pc = "reading" =>
       \A f \in Files : KnownGood(f) /\ readings[f] = HIGH => scrambled

\* Nothing else touches what a verdict has found so far.
goodVars == <<content, events, evs, unread, readings, pc, scrambled, baseline>>

\* Every event the Watcher reports is told as Told says.
LEMMA ServerTells ==
  ASSUME GoodInv, Write \/ Delete \/ Rename
  PROVE  GoodInv'
<1>1. UNCHANGED <<evs, unread, readings, pc, scrambled, baseline>>
  BY DEF Write, Delete, Rename, judgeVars, findVars
<1>2. ASSUME NEW p \in Pids, NEW kind \in {"MODIFIED", "RENAMED", "DELETED"},
             NEW path \in Files, NEW old \in Files \cup {NoFile},
             old = NoFile \/ (old \in Files /\ Renamed[old] = path),
             Report(p, kind, path, old)
      PROVE  events' \in Seq(Told)
  <2>1. PICK pid \in {p, NoPid} :
          events' = Append(events, [kind |-> kind, path |-> path, old |-> old, pid |-> pid])
    BY <1>2 DEF Report
  <2>2. [kind |-> kind, path |-> path, old |-> old, pid |-> pid] \in Told
    BY <1>2, <2>1 DEF Told, Events
  <2> QED BY <2>1, <2>2, AppendProperties DEF GoodInv
<1>3. events' \in Seq(Told)
  <2>1. CASE Write
    BY <1>2, <2>1 DEF Write
  <2>2. CASE Delete
    BY <1>2, <2>2, JudgeAssumption DEF Delete
  <2>3. CASE Rename
    <3>1. PICK p \in Pids, f \in Files :
            Renamed[f] # NoFile /\ Report(p, "RENAMED", Renamed[f], f)
      BY <2>3 DEF Rename
    <3>2. Renamed[f] \in Files
      BY <3>1, JudgeAssumption
    <3> QED BY <1>2, <3>1, <3>2
  <2> QED BY <2>1, <2>2, <2>3
<1>4. content' \in [Files -> Contents]
  <2>1. CASE Write
    <3>1. PICK f \in Files :
            \E c \in Writes[f] : content' = [content EXCEPT ![f] = c]
      BY <2>1 DEF Write
    <3>2. Writes[f] \subseteq {PLAIN, NOISE, EMPTY}
      BY JudgeAssumption
    <3>3. \A c \in Writes[f] : c \in Contents
      BY <3>2 DEF Contents
    <3> QED BY <3>1, <3>3 DEF GoodInv
  <2>2. CASE Delete
    BY <2>2 DEF Delete, GoodInv, Contents
  <2>3. CASE Rename
    <3>1. PICK f \in Files :
            /\ Renamed[f] # NoFile
            /\ content' = [content EXCEPT ![f] = ABSENT, ![Renamed[f]] = content[f]]
      BY <2>3 DEF Rename
    <3>2. Renamed[f] \in Files /\ content[f] \in Contents /\ ABSENT \in Contents
      BY <3>1, JudgeAssumption DEF GoodInv, Contents
    <3> QED BY <3>1, <3>2 DEF GoodInv
  <2> QED BY <2>1, <2>2, <2>3
<1> QED BY <1>1, <1>3, <1>4 DEF GoodInv, KnownGood

\* The next event of a verdict is one of those it was given.
LEMMA NextUnread ==
  ASSUME NEW n \in Nat, NEW u \in 0 .. n, u > 0
  PROVE  n - u + 1 \in 1 .. n /\ u - 1 \in 0 .. n
OBVIOUS

\* Noise in a known good file is a jump.
LEMMA ReadingKeepsGood ==
  ASSUME GoodInv, ReadFile
  PROVE  GoodInv'
<1>1. Len(evs) \in Nat /\ unread \in 0 .. Len(evs) /\ unread > 0
  BY LenProperties DEF GoodInv, ReadFile
<1>2. Len(evs) - unread + 1 \in 1 .. Len(evs) /\ unread - 1 \in 0 .. Len(evs)
  BY <1>1, NextUnread
<1>3. PICK e : e = evs[Len(evs) - unread + 1]
  OBVIOUS
<1>4. e \in Told
  BY <1>2, <1>3, ElementOfSeq DEF GoodInv
<1>5. /\ UNCHANGED <<content, events, evs, pc, baseline>> /\ unread' = unread - 1
      /\ pc = "reading"
  BY DEF ReadFile, windowVars, fileVars
<1>6. \/ UNCHANGED <<scrambled, readings>>
      \/ \E c \in {content[e.path], EMPTY} :
           /\ content[e.path] # ABSENT
           /\ scrambled' = (scrambled \/ Scrambles(e, c))
           /\ readings' = [readings EXCEPT ![e.path] = EntropyOf(c)]
  BY <1>3 DEF ReadFile
<1>7. unread' \in 0 .. Len(evs')
  BY <1>2, <1>5, Zenon
<1>8. CASE UNCHANGED <<scrambled, readings>>
  BY <1>5, <1>7, <1>8 DEF GoodInv, KnownGood
<1>9. ASSUME NEW c \in {content[e.path], EMPTY}, content[e.path] # ABSENT,
             scrambled' = (scrambled \/ Scrambles(e, c)),
             readings' = [readings EXCEPT ![e.path] = EntropyOf(c)]
      PROVE  GoodInv'
  <2>1. e.path \in Files
    BY <1>4 DEF Told, Events
  <2>2. EntropyOf(c) \in Entropies /\ (EntropyOf(c) = HIGH => c = NOISE)
    <3>1. c \in {PLAIN, NOISE, EMPTY}
      BY <1>9, <2>1 DEF GoodInv, Contents
    <3>2. CASE c = PLAIN
      BY <3>2 DEF EntropyOf, Entropies, PLAIN, NOISE, EMPTY, LOW, ZERO, HIGH
    <3>3. CASE c = NOISE
      BY <3>3 DEF EntropyOf, Entropies, PLAIN, NOISE, EMPTY, LOW, ZERO, HIGH
    <3>4. CASE c = EMPTY
      BY <3>4 DEF EntropyOf, Entropies, PLAIN, NOISE, EMPTY, LOW, ZERO, HIGH
    <3> QED BY <3>1, <3>2, <3>3, <3>4
  <2>3. readings' \in [Files -> Entropies]
    BY <1>9, <2>1, <2>2 DEF GoodInv
  <2>4. ASSUME NEW f \in Files, KnownGood(f), readings'[f] = HIGH
        PROVE  scrambled'
    <3>1. CASE f # e.path
      BY <1>5, <1>9, <2>1, <2>4, <3>1 DEF GoodInv
    <3>2. CASE f = e.path
      <4>1. readings'[f] = EntropyOf(c)
        BY <1>9, <2>1, <3>2 DEF GoodInv
      <4>2. c = NOISE /\ e.old = NoFile
        BY <1>4, <2>2, <2>4, <3>2, <4>1 DEF Told, KnownGood
      <4>3. Original(e) = f
        BY <3>2, <4>2 DEF Original
      <4>4. Before(e) = baseline[f]
        BY <3>2, <4>3 DEF Before
      <4>5. Scrambles(e, c)
        BY <2>4, <4>2, <4>3, <4>4 DEF Scrambles, Existed, KnownGood, ZERO, LOW, HIGH,
           UNKNOWN
      <4> QED BY <1>9, <4>5
    <3> QED BY <3>1, <3>2
  <2> QED BY <1>5, <1>7, <2>3, <2>4 DEF GoodInv, KnownGood
<1> QED BY <1>6, <1>8, <1>9

\* Every step keeps the finding of a verdict with its readings.
LEMMA NextKeepsGood ==
  ASSUME GoodInv, [Next]_vars
  PROVE  GoodInv'
<1>1. ASSUME UNCHANGED goodVars PROVE GoodInv'
  BY <1>1 DEF GoodInv, KnownGood, goodVars
<1>2. Unmeasured \in [Files -> Entropies] /\ \A f \in Files : Unmeasured[f] # HIGH
  BY DEF Unmeasured, Entropies, UNKNOWN, HIGH
<1>3. <<>> \in Seq(Told) /\ 0 \in 0 .. Len(<<>>)
  BY EmptySeq
<1>4. CASE End \/ KillTree \/ UNCHANGED vars
  BY <1>1, <1>4 DEF End, KillTree, judgeVars, windowVars, fileVars, findVars, vars,
     goodVars
<1>5. CASE LearnRun \/ JudgeRaises
  <2>1. /\ events' = <<>>
        /\ UNCHANGED <<content, evs, unread, readings, pc, scrambled, baseline>>
    BY <1>5 DEF LearnRun, JudgeRaises, NextWindow, findVars, fileVars
  <2> QED BY <1>3, <2>1 DEF GoodInv, KnownGood
<1>6. CASE Poll
  BY <1>1, <1>6 DEF Poll, windowVars, findVars, fileVars, goodVars
<1>7. CASE JudgeBegin
  <2>1. /\ evs' = events /\ unread' = Len(events) /\ readings' = Unmeasured
        /\ events' \in {events, <<>>} /\ content' = content
    BY <1>7 DEF JudgeBegin, NextWindow, windowVars, fileVars
  <2>2. Len(events) \in 0 .. Len(events)
    BY LenProperties DEF GoodInv
  <2> QED BY <1>2, <1>3, <2>1, <2>2 DEF GoodInv
<1>8. CASE Decide \/ Contained
  <2>1. UNCHANGED <<content, events>> /\ pc' # "reading"
    BY <1>8 DEF Decide, Contained, windowVars, fileVars, exceptLocking
  <2>2. UNCHANGED findVars \/ Forget
    BY <1>8 DEF Decide, Contained
  <2> QED BY <1>2, <1>3, <2>1, <2>2 DEF GoodInv, Forget, findVars
<1>9. CASE Pause \/ PauseTooLate \/ PauseNext \/ NobodyToPause \/ ListFolder \/ LockFile
  <2>1. UNCHANGED <<content, events, evs, unread, readings, scrambled, baseline>>
        /\ pc' # "reading"
    BY <1>9 DEF Pause, PauseTooLate, PauseNext, NobodyToPause, ListFolder, LockFile,
       Locking, exceptPausing, exceptLocking, windowVars, fileVars, findVars
  <2> QED BY <2>1 DEF GoodInv
<1>10. CASE Undo
  <2>1. UNCHANGED <<content, events, evs, unread, readings, scrambled, baseline>>
        /\ pc' # "reading"
    BY <1>10 DEF Undo, BeginUndo, Resume, AllResumed, Unlock, Undone, exceptUndo,
       windowVars, fileVars, findVars
  <2> QED BY <2>1 DEF GoodInv
<1> QED BY <1>4, <1>5, <1>6, <1>7, <1>8, <1>9, <1>10, ServerTells, ReadingKeepsGood
     DEF Next, Server, Verdict

\* The finding of a verdict goes with its readings in every reachable state.
LEMMA GoodHolds == Spec => []GoodInv
<1>1. Init => GoodInv
  <2>1. <<>> \in Seq(Told) /\ 0 \in 0 .. Len(<<>>)
    BY EmptySeq
  <2>2. Unmeasured \in [Files -> Entropies]
    BY DEF Unmeasured, Entropies
  <2> QED BY <2>1, <2>2, JudgeAssumption DEF Init, GoodInv
<1> QED BY <1>1, NextKeepsGood, PTL DEF Spec

\* Only a quiet verdict moves the baseline, and one that has read noise in a
\* known good file is not quiet: text is never taught to be noise.
THEOREM KnownGoodAlwaysStaysGood == Spec => KnownGoodStaysGood
<1>1. ASSUME GoodInv, [Next]_vars, NEW f \in Files, KnownGood(f)
      PROVE  baseline'[f] # HIGH
  <2>1. CASE Decide
    <3>1. PICK killer \in BOOLEAN :
            baseline' = [g \in Files |-> IF Teaches(Level(killer)) /\ readings[g] # UNKNOWN
                                         THEN readings[g] ELSE baseline[g]]
      BY <2>1 DEF Decide
    <3>2. CASE readings[f] = HIGH
      <4>1. scrambled
        BY <1>1, <2>1, <3>2 DEF GoodInv, Decide
      <4>2. ~Teaches(Level(killer))
        BY <4>1 DEF Teaches, Level, INCIDENT, SUSPICIOUS, ODD, NORMAL
      <4>3. baseline'[f] = baseline[f]
        BY <3>1, <4>2
      <4> QED BY <1>1, <4>3 DEF KnownGood, ZERO, LOW, HIGH
    <3>3. CASE readings[f] # HIGH
      <4>1. baseline'[f] \in {readings[f], baseline[f]}
        BY <3>1
      <4> QED BY <1>1, <3>3, <4>1 DEF KnownGood, ZERO, LOW, HIGH
    <3> QED BY <3>2, <3>3
  <2>2. CASE ~Decide
    <3>1. baseline' = baseline
      BY <1>1, <2>2 DEF Next, Server, Write, Delete, Rename, End, KillTree, LearnRun,
         Poll, JudgeRaises, JudgeBegin, Verdict, ReadFile, Pause, PauseTooLate,
         PauseNext, NobodyToPause, ListFolder, LockFile, Contained, Undo, BeginUndo,
         Resume, AllResumed, Unlock, Undone, judgeVars, exceptPausing, exceptLocking,
         exceptUndo, vars
    <3> QED BY <1>1, <3>1 DEF KnownGood, ZERO, LOW, HIGH
  <2> QED BY <2>1, <2>2
<1>2. GoodInv /\ [Next]_vars
        => [\A f \in Files :
              /\ TypeOf[f] \in Readable /\ \A g \in Files : Renamed[g] # f
              /\ baseline[f] \in {ZERO, LOW}
              => baseline'[f] # HIGH]_vars
  BY <1>1 DEF KnownGood
<1> QED BY <1>2, GoodHolds, PTL DEF Spec, KnownGoodStaysGood

-----------------------------------------------------------------------------
(* The types, beside those that the invariants above hold.                 *)

LockedTypes ==
  /\ readOnly \subseteq Files /\ foreign \subseteq Files /\ moved \subseteq Files
  /\ takenFiles \subseteq Files /\ toDo \subseteq Files

FoundTypes ==
  /\ baseline \in [Files -> Entropies] /\ suspects \subseteq Pids
  /\ whole \in BOOLEAN /\ unusual \in BOOLEAN /\ scrambled \in BOOLEAN

PlaceTypes ==
  /\ pc \in {"idle", "reading", "pausing", "listData", "lockData", "lockShare",
             "resuming", "unlocking"}
  /\ edits \in Nat /\ runs \in Nat /\ undos \in Nat

SeenTypes == seen \in [Jobs -> SUBSET Types]

\* The verdict's and the undo's files are files.
LEMMA NextKeepsLockedTypes ==
  ASSUME LockedTypes, [Next]_vars
  PROVE  LockedTypes'
<1> USE DEF LockedTypes, fileVars, takenVars, actVars, findVars
<1>1. CASE Write \/ Delete \/ End \/ KillTree
  BY <1>1 DEF Write, Delete, End, KillTree, judgeVars
<1>2. CASE Rename
  <2>1. PICK f \in Files :
          /\ Renamed[f] # NoFile
          /\ readOnly' = Move(readOnly, f) /\ foreign' = Move(foreign, f)
          /\ moved' = IF f \in readOnly \cup foreign THEN moved \cup {Renamed[f]} ELSE moved
    BY <1>2 DEF Rename
  <2>2. UNCHANGED <<takenFiles, toDo>>
    BY <1>2 DEF Rename, judgeVars
  <2>3. Renamed[f] \in Files
    BY <2>1, JudgeAssumption
  <2> QED BY <2>1, <2>2, <2>3 DEF Move
<1>3. CASE LearnRun \/ Poll \/ JudgeRaises \/ JudgeBegin
  BY <1>3 DEF LearnRun, Poll, JudgeRaises, JudgeBegin
<1>4. CASE ReadFile \/ Decide
  BY <1>4 DEF ReadFile, Decide
<1>5. CASE Pause \/ PauseTooLate \/ PauseNext \/ NobodyToPause
  <2>1. UNCHANGED <<readOnly, foreign, moved, takenFiles, toDo>>
    BY <1>5 DEF Pause, PauseTooLate, PauseNext, NobodyToPause, exceptPausing
  <2> QED BY <2>1
<1>6. CASE ListFolder \/ Contained
  <2>1. /\ UNCHANGED <<readOnly, foreign, moved, takenFiles>>
        /\ \/ toDo' = toDo
           \/ toDo' = {f \in InData : content[f] # ABSENT}
           \/ toDo' = {f \in Files \ InData : content[f] # ABSENT}
    BY <1>6 DEF ListFolder, Contained
  <2>2. InData \subseteq Files
    BY JudgeAssumption
  <2> QED BY <2>1, <2>2
<1>7. CASE LockFile
  <2>1. NextFile \in toDo
    BY <1>7 DEF LockFile, Locking, NextFile
  <2>2. /\ UNCHANGED <<foreign, moved>> /\ toDo' \subseteq toDo
        /\ readOnly' \subseteq readOnly \cup {NextFile}
        /\ takenFiles' \subseteq takenFiles \cup {NextFile}
    BY <1>7 DEF LockFile
  <2> QED BY <2>1, <2>2
<1>8. CASE Undo
  BY <1>8 DEF Undo, BeginUndo, Resume, AllResumed, Unlock, Undone
<1>9. CASE UNCHANGED vars
  BY <1>9 DEF vars
<1> QED BY <1>1, <1>2, <1>3, <1>4, <1>5, <1>6, <1>7, <1>8, <1>9 DEF Next, Server, Verdict

\* Named are pids of the Watcher's events.
LEMMA NamedArePids ==
  ASSUME GoodInv
  PROVE  Named \subseteq Pids
<1>1. ASSUME NEW i \in DOMAIN evs PROVE evs[i] \in Told
  BY <1>1, ElementOfSeq, LenProperties DEF GoodInv
<1> QED BY <1>1 DEF Named, Told, Events

\* What a verdict finds, and what it teaches.
LEMMA NextKeepsFoundTypes ==
  ASSUME GoodInv, FoundTypes, [Next]_vars
  PROVE  FoundTypes'
<1> USE DEF FoundTypes
<1>1. CASE Server \/ KillTree \/ LearnRun \/ Poll \/ JudgeRaises \/ UNCHANGED vars
  <2>1. UNCHANGED <<baseline, suspects, whole, unusual, scrambled>>
    BY <1>1 DEF Server, Write, Delete, Rename, End, KillTree, judgeVars, LearnRun, Poll,
       JudgeRaises, vars, findVars, actVars
  <2> QED BY <2>1
<1>2. CASE JudgeBegin
  <2>1. /\ UNCHANGED <<baseline, suspects>> /\ scrambled' = FALSE
        /\ (whole' = TRUE \/ whole' = FALSE)
        /\ \E b \in BOOLEAN : unusual' = Unusual(Run(b))
    BY <1>2 DEF JudgeBegin, actVars
  <2>2. \A b \in BOOLEAN : Unusual(Run(b)) \in BOOLEAN
    BY DEF Unusual
  <2>3. unusual' \in BOOLEAN
    BY <2>1, <2>2, Zenon
  <2>4. scrambled' \in BOOLEAN /\ whole' \in BOOLEAN
    BY <2>1, Zenon
  <2> QED BY <2>1, <2>3, <2>4
<1>3. CASE ReadFile
  <2>1. /\ UNCHANGED <<baseline, suspects, whole, unusual>>
        /\ \/ scrambled' = scrambled
           \/ \E e, c : scrambled' = (scrambled \/ Scrambles(e, c))
    BY <1>3 DEF ReadFile, actVars
  <2>2. scrambled' \in BOOLEAN
    BY <2>1, Zenon
  <2> QED BY <2>1, <2>2
<1>4. CASE Decide
  <2>1. /\ suspects' \in {Named, suspects}
        /\ UNCHANGED <<whole, unusual, scrambled>> \/ Forget
        /\ \E killer \in BOOLEAN :
             baseline' = [f \in Files |-> IF Teaches(Level(killer)) /\ readings[f] # UNKNOWN
                                          THEN readings[f] ELSE baseline[f]]
    BY <1>4 DEF Decide, findVars
  <2>2. baseline' \in [Files -> Entropies]
    BY <2>1 DEF GoodInv
  <2>3. suspects' \subseteq Pids
    BY <2>1, NamedArePids
  <2>4. whole' \in BOOLEAN /\ unusual' \in BOOLEAN /\ scrambled' \in BOOLEAN
    BY <2>1, Zenon DEF Forget
  <2> QED BY <2>2, <2>3, <2>4
<1>5. CASE Pause \/ PauseTooLate \/ PauseNext \/ NobodyToPause
  <2>1. UNCHANGED <<baseline, whole, unusual, scrambled>> /\ suspects' \subseteq suspects
    BY <1>5 DEF Pause, PauseTooLate, PauseNext, NobodyToPause, exceptPausing, findVars
  <2> QED BY <2>1
<1>6. CASE ListFolder \/ LockFile \/ Undo
  <2>1. UNCHANGED <<baseline, suspects, whole, unusual, scrambled>>
    BY <1>6 DEF ListFolder, LockFile, Undo, BeginUndo, Resume, AllResumed, Unlock, Undone,
       exceptLocking, exceptUndo, findVars
  <2> QED BY <2>1
<1>7. CASE Contained
  <2>1. UNCHANGED <<baseline, suspects>> /\ Forget
    BY <1>7 DEF Contained, exceptLocking
  <2>2. whole' \in BOOLEAN /\ unusual' \in BOOLEAN /\ scrambled' \in BOOLEAN
    BY <2>1, Zenon DEF Forget
  <2> QED BY <2>1, <2>2
<1> QED BY <1>1, <1>2, <1>3, <1>4, <1>5, <1>6, <1>7 DEF Next, Verdict

\* The caller's thread goes from one of its places to another.
LEMMA NextKeepsPlace ==
  ASSUME PlaceTypes, [Next]_vars
  PROVE  PlaceTypes'
<1>1. ASSUME UNCHANGED <<runs, undos>>, pc' = pc, edits' \in {edits, edits + 1}
      PROVE  PlaceTypes'
  BY <1>1 DEF PlaceTypes
<1>2. ASSUME UNCHANGED <<edits, undos>>, pc' \in {pc, "reading"}, runs' \in {runs, runs + 1}
      PROVE  PlaceTypes'
  BY <1>2 DEF PlaceTypes
<1>3. ASSUME UNCHANGED <<edits, runs>>, undos' \in {undos, undos + 1},
             pc' \in {pc, "idle", "pausing", "listData", "lockData", "lockShare",
                      "resuming", "unlocking"}
      PROVE  PlaceTypes'
  BY <1>3 DEF PlaceTypes
<1>4. CASE Write
  BY <1>1, <1>4 DEF Write, Report, judgeVars, scoreVars
<1>5. CASE Delete
  BY <1>1, <1>5 DEF Delete, Report, judgeVars, scoreVars
<1>6. CASE Rename
  BY <1>1, <1>6 DEF Rename, Report, judgeVars, scoreVars
<1>7. CASE End \/ KillTree
  BY <1>1, <1>7 DEF End, KillTree, judgeVars, scoreVars, fileVars
<1>8. CASE LearnRun \/ Poll \/ JudgeRaises \/ JudgeBegin
  BY <1>2, <1>8 DEF LearnRun, Poll, JudgeRaises, JudgeBegin, fileVars
<1>9. CASE ReadFile \/ Decide
  BY <1>3, <1>9 DEF ReadFile, Decide, scoreVars, fileVars
<1>10. CASE ListFolder \/ LockFile \/ Contained
  BY <1>3, <1>10 DEF ListFolder, LockFile, Contained, exceptLocking, scoreVars, fileVars
<1>11. CASE Pause \/ PauseTooLate \/ PauseNext \/ NobodyToPause
  BY <1>3, <1>11 DEF Pause, PauseTooLate, PauseNext, NobodyToPause, exceptPausing,
     scoreVars, fileVars
<1>12. CASE Undo
  BY <1>3, <1>12 DEF Undo, BeginUndo, Resume, AllResumed, Unlock, Undone, exceptUndo,
     scoreVars, fileVars
<1>13. CASE UNCHANGED vars
  BY <1>1, <1>13 DEF vars, scoreVars, fileVars
<1> QED BY <1>4, <1>5, <1>6, <1>7, <1>8, <1>9, <1>10, <1>11, <1>12, <1>13
     DEF Next, Server, Verdict

\* A lesson adds the types of the files its run has touched.
LEMMA NextKeepsSeenTypes ==
  ASSUME GoodInv, CardsInv, SeenTypes, [Next]_vars
  PROVE  SeenTypes'
<1>1. CASE UNCHANGED seen
  BY <1>1 DEF SeenTypes
<1>2. CASE LearnRun
  <2>1. seen' = [seen EXCEPT ![Run(FALSE).job] = @ \cup Run(FALSE).types]
    BY <1>2 DEF LearnRun, Learn
  <2>2. Run(FALSE).types \subseteq Types
    <3>1. ASSUME NEW i \in DOMAIN events PROVE events[i].path \in Files
      <4>1. events[i] \in Told
        BY <3>1, ElementOfSeq, LenProperties DEF GoodInv
      <4> QED BY <4>1 DEF Told, Events
    <3>2. \A i \in DOMAIN events : TypeOf[events[i].path] \in Types
      BY <3>1, JudgeAssumption
    <3> QED BY <3>2 DEF Run
  <2> QED BY <2>1, <2>2 DEF SeenTypes
<1>3. CASE Poll \/ JudgeBegin
  BY <1>1, <1>3 DEF Poll, JudgeBegin, Score
<1>4. CASE Server \/ KillTree \/ JudgeRaises \/ UNCHANGED vars
  BY <1>1, <1>4 DEF Server, Write, Delete, Rename, End, KillTree, JudgeRaises, judgeVars,
     scoreVars, habitVars, vars
<1>5. CASE Verdict
  BY <1>1, <1>5 DEF Verdict, ReadFile, Decide, Pause, PauseTooLate, PauseNext,
     NobodyToPause, ListFolder, LockFile, Contained, exceptPausing, exceptLocking,
     scoreVars, habitVars
<1>6. CASE Undo
  BY <1>1, <1>6 DEF Undo, BeginUndo, Resume, AllResumed, Unlock, Undone, exceptUndo,
     scoreVars, habitVars
<1> QED BY <1>2, <1>3, <1>4, <1>5, <1>6 DEF Next

\* Every variable of the Judge and of its habit cards always has its type.
THEOREM JudgeTypeCorrect == Spec => []TypeOK
<1> DEFINE Rest == LockedTypes /\ FoundTypes /\ PlaceTypes /\ SeenTypes
<1>1. Init => Rest
  <2> SUFFICES ASSUME Init PROVE LockedTypes /\ FoundTypes /\ PlaceTypes /\ SeenTypes
    OBVIOUS
  <2>1. LockedTypes
    BY JudgeAssumption DEF Init, LockedTypes
  <2>2. FoundTypes
    <3>1. whole = FALSE /\ unusual = FALSE /\ scrambled = FALSE /\ suspects = {}
          /\ baseline = Unmeasured
      BY DEF Init
    <3>2. whole \in BOOLEAN /\ unusual \in BOOLEAN /\ scrambled \in BOOLEAN
      BY <3>1, Zenon
    <3> QED BY <3>1, <3>2 DEF FoundTypes, Unmeasured, Entropies
  <2>3. PlaceTypes
    BY DEF Init, PlaceTypes
  <2>4. SeenTypes
    BY DEF Init, HabitInit, SeenTypes
  <2> QED BY <2>1, <2>2, <2>3, <2>4
<1>2. Rest /\ PausesInv /\ CardsInv /\ GoodInv /\ [Next]_vars => Rest'
  BY NextKeepsLockedTypes, NextKeepsFoundTypes, NextKeepsPlace, NextKeepsSeenTypes
<1>3. Rest /\ PausesInv /\ CardsInv /\ GoodInv => TypeOK
  <2> SUFFICES ASSUME LockedTypes, FoundTypes, PlaceTypes, SeenTypes, PausesInv, CardsInv,
                      GoodInv
               PROVE  TypeOK
    OBVIOUS
  <2>1. Told \subseteq Events
    BY DEF Told
  <2>2. events \in Seq(Events) /\ evs \in Seq(Events)
    BY <2>1, SeqMonotonic DEF GoodInv
  <2>3. HabitTypeOK
    BY DEF CardsInv, SeenTypes, HabitTypeOK
  <2> QED BY <2>2, <2>3 DEF LockedTypes, FoundTypes, PlaceTypes, PausesInv, CardsInv,
          GoodInv, TypeOK
<1> QED BY <1>1, <1>2, <1>3, PausesHold, CardsHold, GoodHolds, PTL DEF Spec
=============================================================================
