-------------------------------- MODULE Judge --------------------------------
(***************************************************************************)
(* The Judge of src/nightkeep/judge/ with the habit cards it asks, while   *)
(* the programs it judges go on writing, renaming and ending.  Its caller  *)
(* is one thread: it learns a run, polls it, judges it whole or by the     *)
(* window seen so far, and undoes what was done.                           *)
(*                                                                         *)
(* A step of a verdict is one file read, one program suspended or one file *)
(* locked.  What a file's bytes say is abstracted to plain text (entropy   *)
(* well below the floor, header in order), noise (over the floor by the    *)
(* jump, header broken) or empty.                                          *)
(***************************************************************************)
EXTENDS Habit

CONSTANTS
  Files,      \* the files under data/ and share/
  InData,     \* those under data/, which are walked first
  Decoys,     \* the canary files
  Heartbeat,  \* the Watcher's heartbeat file
  HabitDb,    \* habit.db, which lies under data/ as well
  Renamed,    \* Renamed[f]: the name a program gives f, NoFile when none
  NoFile,
  TypeOf,     \* TypeOf[f]: the extension of f
  Readable,   \* the extensions whose header the Judge can check
  FirstFiles, \* what the files hold at first
  FirstReadOnly, \* the files others keep read-only
  Writes,     \* Writes[f]: what programs write to f
  Deletes,    \* the files programs delete
  Pids,       \* the processes that may be found writing
  NoPid,
  Children,   \* Children[p]: the processes p started, and those they started
  Burst,      \* rename_burst
  MaxEvents,  \* bound on file events
  MaxSteps,   \* bound on file events and on scores and lessons together
  MaxUndos    \* bound on calls of undo

PLAIN  == "plain"
NOISE  == "noise"
EMPTY  == "empty"
ABSENT == "absent"
Contents == {PLAIN, NOISE, EMPTY, ABSENT}

ASSUME JudgeAssumption ==
  /\ InData \subseteq Files /\ Decoys \subseteq Files \ InData
  /\ Heartbeat \in Files \ InData /\ HabitDb \in InData
  /\ NoFile \notin Files /\ Renamed \in [Files -> Files \cup {NoFile}]
  /\ Renamed[Heartbeat] = NoFile
  /\ \A f \in Files : Renamed[f] \notin {f, Heartbeat}
  /\ TypeOf \in [Files -> Types] /\ Readable \subseteq Types
  /\ FirstFiles \in [Files -> Contents]
  /\ Writes \in [Files -> SUBSET {PLAIN, NOISE, EMPTY}]
  /\ FirstReadOnly \subseteq Files \ {Heartbeat}
  /\ Writes[Heartbeat] = {} /\ Deletes \subseteq Files \ {Heartbeat}
  /\ NoPid \notin Pids /\ Children \in [Pids -> SUBSET Pids]
  /\ \A p \in Pids : p \notin Children[p]
  /\ {Burst, MaxEvents, MaxSteps, MaxUndos} \subseteq Nat

NORMAL     == "NORMAL"
ODD        == "ODD"
SUSPICIOUS == "SUSPICIOUS"
INCIDENT   == "INCIDENT"
Levels     == {NORMAL, ODD, SUSPICIOUS, INCIDENT}

(* Entropy as judge.db holds it: none, the 0.0 of an empty file, that of text
   and that of noise. *)
UNKNOWN == "unknown"
ZERO    == "zero"
LOW     == "low"
HIGH    == "high"
Entropies == {UNKNOWN, ZERO, LOW, HIGH}

VARIABLES
  content, readOnly,   \* the files, and which have lost their write bit
  alive, stops,        \* the processes, and how often each is suspended
  window,              \* the run under way
  events,              \* the Watcher's events of it so far
  baseline,            \* judge.db: file to last entropy
  takenPids,           \* Taken.suspended: how often each pid is in it
  takenFiles,          \* Taken.made_read_only
  pc,                  \* where the caller's thread is
  whole,               \* the verdict is on the run's own events
  evs,                 \* the events judged
  unread,              \* how many of them are still to be read
  unusual, scrambled,  \* what was found: the habit score; S3
  readings,            \* file to entropy, for the baseline
  suspects,            \* the pids still to try
  toDo,                \* the files still to lock or unlock
  edits, runs, undos,  \* counters behind the bounds
  lastProgram,         \* history: the program last scored or learned per job
  foreign,             \* history: the files others made read-only
  moved                \* history: the names of files renamed while locked by either

fileVars    == <<content, readOnly, foreign, moved, edits>>
processVars == <<alive, stops>>
windowVars  == <<window, events>>
takenVars   == <<takenPids, takenFiles>>
findVars    == <<whole, evs, unread, unusual, scrambled, readings>>
actVars     == <<suspects, toDo>>
scoreVars   == <<habitVars, lastProgram, runs>>
vars == <<scoreVars, fileVars, processVars, windowVars, baseline, takenVars, pc,
          findVars, actVars, undos>>

None == "None"

Windows == [job : Jobs, program : Programs]
Events  == [kind : {"MODIFIED", "RENAMED", "DELETED"}, path : Files,
            old : Files \cup {NoFile}, pid : Pids \cup {NoPid}]

Unmeasured == [f \in Files |-> UNKNOWN]

Init ==
  /\ HabitInit
  /\ content = FirstFiles
  /\ readOnly = FirstReadOnly
  /\ foreign = readOnly /\ moved = {}
  /\ alive = Pids /\ stops = [p \in Pids |-> 0]
  /\ window \in Windows /\ events = <<>>
  /\ baseline = Unmeasured
  /\ takenPids = [p \in Pids |-> 0] /\ takenFiles = {}
  /\ pc = "idle" /\ whole = FALSE /\ evs = <<>> /\ unread = 0
  /\ unusual = FALSE /\ scrambled = FALSE /\ readings = Unmeasured
  /\ suspects = {} /\ toDo = {}
  /\ edits = 0 /\ runs = 0 /\ undos = 0
  /\ lastProgram = [j \in Jobs |-> None]

-----------------------------------------------------------------------------
(* The programs on the server, as the Watcher reports them. *)

judgeVars == <<scoreVars, baseline, takenVars, pc, findVars, actVars, undos>>

Running(p) == p \in alive /\ stops[p] = 0

(* An event names the program that did it, or none. *)
Report(p, kind, path, old) ==
  /\ edits < MaxEvents /\ runs + edits < MaxSteps /\ edits' = edits + 1
  /\ \E pid \in {p, NoPid} :
       events' = Append(events, [kind |-> kind, path |-> path, old |-> old, pid |-> pid])

Write ==
  /\ \E p \in Pids, f \in Files \ readOnly : \E c \in Writes[f] \ {content[f]} :
       /\ Running(p)
       /\ content' = [content EXCEPT ![f] = c]
       /\ Report(p, "MODIFIED", f, NoFile)
  /\ UNCHANGED <<readOnly, foreign, moved, processVars, window, judgeVars>>

Delete ==
  /\ \E p \in Pids, f \in Deletes \ readOnly :
       /\ Running(p) /\ content[f] # ABSENT
       /\ content' = [content EXCEPT ![f] = ABSENT]
       /\ Report(p, "DELETED", f, NoFile)
  /\ UNCHANGED <<readOnly, foreign, moved, processVars, window, judgeVars>>

(* A missing write bit does not keep a file from being renamed. *)
Move(files, f) == IF f \in files THEN (files \ {f}) \cup {Renamed[f]} ELSE files

Rename ==
  /\ \E p \in Pids, f \in Files :
       /\ Running(p) /\ content[f] # ABSENT
       /\ Renamed[f] # NoFile /\ content[Renamed[f]] = ABSENT
       /\ content' = [content EXCEPT ![f] = ABSENT, ![Renamed[f]] = content[f]]
       /\ readOnly' = Move(readOnly, f) /\ foreign' = Move(foreign, f)
       /\ moved' = IF f \in readOnly \cup foreign THEN moved \cup {Renamed[f]} ELSE moved
       /\ Report(p, "RENAMED", Renamed[f], f)
  /\ UNCHANGED <<processVars, window, judgeVars>>

End ==
  /\ \E p \in Pids : Running(p) /\ alive' = alive \ {p}
  /\ UNCHANGED <<stops, fileVars, windowVars, judgeVars>>

Server == Write \/ Delete \/ Rename \/ End

-----------------------------------------------------------------------------
(* Between two calls of the Judge. *)

Run(strange) ==
  [job |-> window.job, program |-> window.program, strange |-> strange,
   types |-> {TypeOf[events[i].path] : i \in DOMAIN events}]

(* Only a program that has its card can be scored while habit.db is locked. *)
Scorable == HabitDb \in readOnly => IsCurrent(Run(FALSE))

Sighted == lastProgram' = [lastProgram EXCEPT ![window.job] = window.program]

NextWindow == window' \in Windows /\ events' = <<>>

LearnRun ==
  /\ pc = "idle" /\ runs + edits < MaxSteps /\ HabitDb \notin readOnly
  /\ Learn(Run(FALSE)) /\ Sighted /\ runs' = runs + 1 /\ NextWindow
  /\ UNCHANGED <<fileVars, processVars, baseline, takenVars, pc, findVars,
                 actVars, undos>>

(* would_incident: the answer is the caller's; the score leaves a card. *)
Poll ==
  /\ pc = "idle" /\ runs + edits < MaxSteps /\ Scorable
  /\ Score(Run(FALSE)) /\ Sighted /\ runs' = runs + 1
  /\ UNCHANGED <<fileVars, processVars, windowVars, baseline, takenVars, pc,
                 findVars, actVars, undos>>

(* An insert into a locked habit.db raises before anything is found. *)
JudgeRaises ==
  /\ pc = "idle" /\ runs + edits < MaxSteps /\ ~Scorable
  /\ runs' = runs + 1 /\ NextWindow
  /\ UNCHANGED <<habitVars, lastProgram, fileVars, processVars, baseline,
                 takenVars, pc, findVars, actVars, undos>>

(* verdict: the score first.  A whole run is over; a window goes on. *)
JudgeBegin ==
  /\ pc = "idle" /\ runs + edits < MaxSteps /\ Scorable
  /\ \E strange \in BOOLEAN : unusual' = Unusual(Run(strange)) /\ Score(Run(strange))
  /\ Sighted /\ runs' = runs + 1
  /\ evs' = events /\ unread' = Len(events)
  /\ scrambled' = FALSE /\ readings' = Unmeasured
  /\ \/ whole' = TRUE /\ NextWindow
     \/ whole' = FALSE /\ UNCHANGED windowVars
  /\ pc' = "reading"
  /\ UNCHANGED <<fileVars, processVars, baseline, takenVars, actVars, undos>>

(* The caller kills a program it launched, and all it started. *)
KillTree ==
  /\ pc = "idle"
  /\ \E p \in alive : /\ alive' = alive \ ({p} \cup Children[p])
                      /\ stops' = [q \in Pids |-> IF q \in alive' THEN stops[q] ELSE 0]
  /\ UNCHANGED <<fileVars, windowVars, judgeVars>>

-----------------------------------------------------------------------------
(* The signals. *)

EntropyOf(c) == CASE c = EMPTY -> ZERO [] c = PLAIN -> LOW [] c = NOISE -> HIGH

Original(e) == IF e.old = NoFile THEN e.path ELSE e.old

(* "a or b" of two lookups: the second whenever the first is none or 0.0. *)
Before(e) ==
  IF baseline[Original(e)] \in {UNKNOWN, ZERO} THEN baseline[e.path]
  ELSE baseline[Original(e)]

Existed(e) == e.kind = "RENAMED" \/ Before(e) # UNKNOWN

(* inspect: an existing file, broken, over the floor, and a jump if measured. *)
Scrambles(e, c) ==
  /\ Existed(e) /\ c = NOISE
  /\ TypeOf[Original(e)] \in Readable /\ Before(e) # HIGH

(* One event of scrambled_in_place.  A file that cannot be opened after all
   reads as empty. *)
ReadFile ==
  /\ pc = "reading" /\ unread > 0 /\ unread' = unread - 1
  /\ LET e == evs[Len(evs) - unread + 1]
     IN  \/ /\ e.kind # "DELETED" /\ content[e.path] # ABSENT
            /\ \E c \in {content[e.path], EMPTY} :
                 /\ scrambled' = (scrambled \/ Scrambles(e, c))
                 /\ readings' = [readings EXCEPT ![e.path] = EntropyOf(c)]
         \/ /\ e.kind = "DELETED" \/ content[e.path] = ABSENT
            /\ UNCHANGED <<scrambled, readings>>
  /\ UNCHANGED <<scoreVars, fileVars, processVars, windowVars, baseline, takenVars,
                 pc, whole, evs, unusual, actVars, undos>>

DecoyTouched ==
  \E i \in DOMAIN evs : evs[i].path \in Decoys \/ evs[i].old \in Decoys

MassRename ==
  \E t \in Types \ SeenAnywhere :
    LET to == {i \in DOMAIN evs : evs[i].kind = "RENAMED" /\ TypeOf[evs[i].path] = t}
    IN  to # {} /\ Cardinality(to) >= Burst

(* _level; killer is S5, found in a small file or in a running command. *)
Level(killer) ==
  LET unambiguous == DecoyTouched
      ransom      == scrambled \/ MassRename
  IN  IF unambiguous \/ (ransom /\ (unusual \/ killer)) THEN INCIDENT
      ELSE IF ransom \/ killer THEN SUSPICIOUS
      ELSE IF unusual THEN ODD ELSE NORMAL

Named == {evs[i].pid : i \in DOMAIN evs} \ {NoPid}

(* Seeded fault: every verdict that does not contain teaches the baseline. *)
Teaches_ButIncident(lv) == whole /\ lv # INCIDENT

(* Only a quiet whole run says what normal looks like. *)
Teaches(lv) == whole /\ lv \in {NORMAL, ODD}

(* What a verdict found is local to it. *)
Forget ==
  /\ whole' = FALSE /\ evs' = <<>> /\ unread' = 0
  /\ unusual' = FALSE /\ scrambled' = FALSE /\ readings' = Unmeasured

Decide ==
  /\ pc = "reading" /\ unread = 0
  /\ \E killer \in BOOLEAN :
       LET level == Level(killer)
       IN  /\ baseline' = [f \in Files |-> IF Teaches(level) /\ readings[f] # UNKNOWN
                                           THEN readings[f] ELSE baseline[f]]
           /\ IF level = INCIDENT
              THEN pc' = "pausing" /\ suspects' = Named /\ UNCHANGED findVars
              ELSE pc' = "idle" /\ UNCHANGED suspects /\ Forget
  /\ UNCHANGED <<scoreVars, fileVars, processVars, windowVars, takenVars, toDo, undos>>

-----------------------------------------------------------------------------
(* Containment. *)

EventsOf(p) == Cardinality({i \in DOMAIN evs : evs[i].pid = p})
Busiest(p)  == p \in suspects /\ \A q \in suspects : EventsOf(q) <= EventsOf(p)

OneMore(counts, ps) == [q \in Pids |-> IF q \in ps THEN counts[q] + 1 ELSE counts[q]]

Family(p) == Children[p] \cap alive

exceptPausing == <<scoreVars, fileVars, windowVars, baseline, takenFiles, findVars,
                   toDo, undos>>

(* suspend_process: the family first, then the program itself. *)
Pause ==
  /\ pc = "pausing"
  /\ \E p \in alive :
       /\ Busiest(p)
       /\ stops' = OneMore(stops, {p} \cup Family(p))
       /\ takenPids' = OneMore(takenPids, {p} \cup Family(p))
  /\ suspects' = {} /\ pc' = "listData"
  /\ UNCHANGED <<alive, exceptPausing>>

(* It ends while its family is being paused: not paused, the next one is. *)
PauseTooLate ==
  /\ pc = "pausing"
  /\ \E p \in alive :
       /\ Busiest(p) /\ Running(p) /\ alive' = alive \ {p}
       /\ stops' = OneMore(stops, Family(p))
       /\ takenPids' = OneMore(takenPids, Family(p))
       /\ suspects' = suspects \ {p}
  /\ UNCHANGED <<pc, exceptPausing>>

(* Seeded fault: only the busiest program is ever tried. *)
PauseNext_Never ==
  /\ pc = "pausing" /\ \E p \in Pids \ alive : Busiest(p) /\ suspects' = {}
  /\ UNCHANGED <<pc, processVars, takenPids, exceptPausing>>

(* It has already ended: the next busiest. *)
PauseNext ==
  /\ pc = "pausing"
  /\ \E p \in Pids \ alive : Busiest(p) /\ suspects' = suspects \ {p}
  /\ UNCHANGED <<pc, processVars, takenPids, exceptPausing>>

NobodyToPause ==
  /\ pc = "pausing" /\ suspects = {} /\ pc' = "listData"
  /\ UNCHANGED <<suspects, processVars, takenPids, exceptPausing>>

exceptLocking == <<scoreVars, processVars, windowVars, baseline, takenPids,
                   suspects, undos>>

(* make_read_only of data/, and then of share/: each is listed once. *)
ListFolder ==
  /\ \/ /\ pc = "listData" /\ pc' = "lockData"
        /\ toDo' = {f \in InData : content[f] # ABSENT}
     \/ /\ pc = "lockData" /\ toDo = {} /\ pc' = "lockShare"
        /\ toDo' = {f \in Files \ InData : content[f] # ABSENT}
  /\ UNCHANGED <<fileVars, takenFiles, findVars, exceptLocking>>

Locking == pc \in {"lockData", "lockShare"} /\ toDo # {}

(* The order of a listing; which one is of no consequence. *)
NextFile == CHOOSE f \in toDo : TRUE

Lockable(f) == f # Heartbeat /\ content[f] # ABSENT

(* Seeded fault: a file that is read-only already is recorded all the same. *)
LockFile_All ==
  /\ Locking
  /\ toDo' = toDo \ {NextFile}
  /\ IF Lockable(NextFile)
     THEN readOnly' = readOnly \cup {NextFile} /\ takenFiles' = takenFiles \cup {NextFile}
     ELSE UNCHANGED <<readOnly, takenFiles>>
  /\ UNCHANGED <<pc, content, foreign, moved, edits, findVars, exceptLocking>>

LockFile ==
  /\ Locking
  /\ toDo' = toDo \ {NextFile}
  /\ IF Lockable(NextFile) /\ NextFile \notin readOnly
     THEN readOnly' = readOnly \cup {NextFile} /\ takenFiles' = takenFiles \cup {NextFile}
     ELSE UNCHANGED <<readOnly, takenFiles>>
  /\ UNCHANGED <<pc, content, foreign, moved, edits, findVars, exceptLocking>>

Contained ==
  /\ pc = "lockShare" /\ toDo = {} /\ pc' = "idle" /\ Forget
  /\ UNCHANGED <<toDo, fileVars, takenFiles, exceptLocking>>

Verdict == \/ ReadFile \/ Decide \/ Pause \/ PauseTooLate \/ PauseNext
           \/ NobodyToPause \/ ListFolder \/ LockFile \/ Contained

-----------------------------------------------------------------------------
(* undo: the programs first, then the files. *)

exceptUndo == <<scoreVars, windowVars, baseline, findVars, suspects>>

BeginUndo ==
  /\ pc = "idle" /\ undos < MaxUndos /\ undos' = undos + 1 /\ pc' = "resuming"
  /\ UNCHANGED <<fileVars, processVars, takenVars, toDo, exceptUndo>>

(* Seeded fault: a program is resumed once, however often it was paused. *)
Resume_Once ==
  /\ pc = "resuming"
  /\ \E p \in Pids :
       /\ takenPids[p] > 0
       /\ takenPids' = [takenPids EXCEPT ![p] = 0]
       /\ stops' = IF p \in alive THEN [stops EXCEPT ![p] = @ - 1] ELSE stops
  /\ UNCHANGED <<alive, pc, takenFiles, toDo, undos, fileVars, exceptUndo>>

Resume ==
  /\ pc = "resuming"
  /\ \E p \in Pids :
       /\ takenPids[p] > 0
       /\ takenPids' = [takenPids EXCEPT ![p] = @ - 1]
       /\ stops' = IF p \in alive THEN [stops EXCEPT ![p] = @ - 1] ELSE stops
  /\ UNCHANGED <<alive, pc, takenFiles, toDo, undos, fileVars, exceptUndo>>

AllResumed ==
  /\ pc = "resuming" /\ \A p \in Pids : takenPids[p] = 0
  /\ pc' = "unlocking" /\ toDo' = takenFiles
  /\ UNCHANGED <<undos, fileVars, processVars, takenVars, exceptUndo>>

(* chmod of the recorded name; a file that is no longer there is passed over. *)
Unlock ==
  /\ pc = "unlocking"
  /\ toDo # {} /\ toDo' = toDo \ {NextFile}
  /\ takenFiles' = takenFiles \ {NextFile} /\ readOnly' = readOnly \ {NextFile}
  /\ UNCHANGED <<pc, undos, content, foreign, moved, edits, processVars, takenPids, exceptUndo>>

Undone ==
  /\ pc = "unlocking" /\ toDo = {} /\ pc' = "idle"
  /\ UNCHANGED <<toDo, undos, fileVars, processVars, takenVars, exceptUndo>>

Undo == BeginUndo \/ Resume \/ AllResumed \/ Unlock \/ Undone

Next == \/ Server \/ KillTree
        \/ LearnRun \/ Poll \/ JudgeRaises \/ JudgeBegin
        \/ Verdict \/ Undo

Spec == Init /\ [][Next]_vars

-----------------------------------------------------------------------------
(* Every variable holds a value of its type. *)
TypeOK ==
  /\ HabitTypeOK
  /\ content \in [Files -> Contents]
  /\ readOnly \subseteq Files /\ foreign \subseteq Files /\ moved \subseteq Files
  /\ alive \subseteq Pids /\ stops \in [Pids -> Nat]
  /\ window \in Windows /\ events \in Seq(Events)
  /\ baseline \in [Files -> Entropies] /\ readings \in [Files -> Entropies]
  /\ takenPids \in [Pids -> Nat] /\ takenFiles \subseteq Files
  /\ pc \in {"idle", "reading", "pausing", "listData", "lockData", "lockShare",
             "resuming", "unlocking"}
  /\ evs \in Seq(Events) /\ unread \in 0..Len(evs)
  /\ {whole, unusual, scrambled} \subseteq BOOLEAN
  /\ suspects \subseteq Pids /\ toDo \subseteq Files
  /\ edits \in Nat /\ runs \in Nat /\ undos \in Nat
  /\ lastProgram \in [Jobs -> Programs \cup {None}]

(* A program that is not the one last seen behind its job makes the next score
   of the job unusual, even when it has been behind the job before. *)
ChangeIsCalled ==
  [][pc = "idle" /\ pc' = "reading"
       /\ lastProgram[window.job] \notin {None, window.program} => unusual']_vars

(* A living program is suspended as often as the Judge has it on record, so
   that undo sets it free: over several incidents that paused the same
   program, families paused half-way, and programs ending in between. *)
PausesAreRecorded == \A p \in alive : stops[p] = takenPids[p]

(* The write bits that are missing are those others took, those the Judge has
   on record, and those of files that were renamed under its lock.  What
   others locked and nobody renamed stays locked, and the heartbeat is never
   locked. *)
LocksAreAccounted ==
  /\ readOnly \subseteq foreign \cup takenFiles \cup moved
  /\ foreign \ moved \subseteq readOnly
  /\ Heartbeat \notin readOnly

(* When the Judge goes on to the files, one of the programs that were named
   for the incident is paused, or every one of them has ended. *)
IncidentPausesAWriter ==
  pc \in {"listData", "lockData", "lockShare"} =>
    Named \cap alive = {} \/ \E p \in Named : stops[p] > 0

(* A file the Judge has measured and can check is never taught to be noise,
   however its scrambling falls into runs, windows and failed readings: once
   it has been text or empty, no verdict accepts noise as normal for it. *)
KnownGoodStaysGood ==
  [][\A f \in Files :
       /\ TypeOf[f] \in Readable /\ \A g \in Files : Renamed[g] # f
       /\ baseline[f] \in {ZERO, LOW}
       => baseline'[f] # HIGH]_vars

(* What undo says of itself, "Put everything back": when it has emptied its
   record, no file is read-only but those that others made read-only. *)
UndoPutsEverythingBack ==
  pc = "idle" /\ undos > 0 /\ takenFiles = {} => readOnly = foreign

(* What inspect says of a file that was never measured, that demanding a
   measurement "would let a first-night attack through": a file that held text
   when the Judge came, and is read as noise after it was modified, fires S3. *)
FirstNightIsCaught ==
  pc = "reading" /\ unread = 0 =>
    \A i \in DOMAIN evs :
      LET f == evs[i].path
      IN  /\ evs[i].kind = "MODIFIED" /\ TypeOf[f] \in Readable
          /\ FirstFiles[f] = PLAIN /\ baseline[f] = UNKNOWN /\ readings[f] = HIGH
          => scrambled

=============================================================================
