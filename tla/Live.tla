-------------------------------- MODULE Live --------------------------------
(***************************************************************************)
(* The live session of src/nightkeep/live.py: the engine's main loop, the  *)
(* thread that lives the simulated days, and the console that steers them  *)
(* through control.json.  The two threads meet at the office lock, the     *)
(* halted flag, the queue of finished days and the queue of acknowledge-   *)
(* ments.  The Judge, the Vault and the simulator appear by what they do   *)
(* to the session: a verdict contains or it does not, a pull is CLEAN or   *)
(* not and moves the clean point or not, the simulator runs or is gone.    *)
(*                                                                         *)
(* Job runs are numbered in the order they are launched, JobsPerDay to a   *)
(* day.                                                                    *)
(***************************************************************************)
EXTENDS Integers, Sequences

CONSTANTS
  Modes,         \* whether a session may be the guided demo, which attacks and
                 \* restores without the console: a set of BOOLEANs
  LearningDays,  \* clock.learning_days
  GuardDays,     \* clock.guard_days
  JobsPerDay,    \* job launches in one simulated day
  MaxDays,       \* bound on the days a session lives
  MaxRequests,   \* bound on what the console asks: attacks and restores
  MaxIncidents   \* bound on night jobs the Judge calls INCIDENT

ASSUME SessionAssumption ==
  /\ Modes \subseteq BOOLEAN
  /\ {LearningDays, GuardDays, JobsPerDay} \subseteq Nat \ {0}
  /\ {MaxDays, MaxRequests, MaxIncidents} \subseteq Nat

\* The phases of live_protocol.py.  CONTAINMENT, a note on the way from
\* ATTACK to VAULT that nothing acts on, is left out.
Running  == {"learning", "guard"}
Locked   == {"vault", "contained", "recovery"}
Finished == {"complete", "failed", "stopped"}
Phases   == Running \cup Locked \cup Finished \cup {"attack", "recovered"}

VARIABLES
  autopilot,                   \* is this the guided demo
  dayPc, day, jobsLeft,        \* the days thread
  launched,                    \* how many jobs have ended
  dayError,                    \* _day_error
  halted, wrapped,             \* _Office.halted; is _day.launch the office's
  frozen,                      \* the running job was suspended by the Judge
  runs,                        \* _Office._runs: ended, not yet taken
  daysDone, acks,              \* the two queues
  mainPc, after, resume,       \* the main loop, and where its calls return
  todo, digested,              \* the runs _digest holds; how many it has done
  nights,                      \* days_done
  phase, attack,               \* as status.json shows them
  view,                        \* _control: control.json as last read
  handledAttack, handledRestore,
  locked,                      \* the Judge holds the records read-only
  simulator,                   \* off, running, paused, or gone by itself
  incidents,                   \* night jobs contained
  snapshots, pin,              \* the Vault: how many pulls, which is pinned
  safeCopy,                    \* newest CLEAN pull before trouble, 0 for none
  restored,                    \* the snapshots that have a restore folder
  control, nextId,             \* LiveSession: control.json, the next request
  restoring,                   \* the snapshot a supervisor restores now, or 0
  ending,                      \* stop is written, or the console is gone
  verified,                    \* history: some restore passed its checks
  owed                         \* history: the last restore reported passed them,
                               \* and the records have been locked since before

dayVars     == <<dayPc, day, jobsLeft, launched, dayError>>
officeVars  == <<halted, wrapped, frozen, runs>>
queueVars   == <<daysDone, acks>>
mainVars    == <<mainPc, after, resume, todo, digested>>
sessionVars == <<nights, phase, attack, view, handledAttack, handledRestore>>
serverVars  == <<locked, simulator,  incidents>>
vaultVars   == <<snapshots, pin, safeCopy, restored>>
consoleVars == <<autopilot, control, nextId, restoring, ending, verified, owed>>
vars == <<dayVars, officeVars, queueVars, mainVars, sessionVars, serverVars,
          vaultVars, consoleVars>>

NoCommands == [attack |-> 0, restore |-> 0, ok |-> FALSE]

(* run(), once the days thread is started. *)
Init ==
  /\ autopilot \in Modes
  /\ dayPc = "top" /\ day = 0 /\ jobsLeft = 0 /\ launched = 0 /\ dayError = FALSE
  /\ halted = FALSE /\ wrapped = TRUE /\ frozen = FALSE /\ runs = <<>>
  /\ daysDone = <<>> /\ acks = 0
  /\ mainPc = "poll" /\ after = "finish" /\ resume = "restored?"
  /\ todo = <<>> /\ digested = 0
  /\ nights = 0 /\ phase = "learning" /\ attack = "none"
  /\ view = NoCommands /\ handledAttack = 0 /\ handledRestore = 0
  /\ locked = FALSE /\ simulator = "off" /\ incidents = 0
  /\ snapshots = 0 /\ pin = 0 /\ safeCopy = 0 /\ restored = {}
  /\ control = NoCommands /\ nextId = 1 /\ restoring = 0 /\ ending = FALSE
  /\ verified = FALSE /\ owed = FALSE

-----------------------------------------------------------------------------
(* The days thread.  It dies with the engine's process. *)
EngineUp == mainPc # "done"

DaysOver == dayPc = "over"

exceptDays == <<officeVars, queueVars, mainVars, sessionVars, serverVars,
                vaultVars, consoleVars>>

BeginDay ==
  /\ EngineUp /\ dayPc = "top" /\ ~halted
  /\ ~(autopilot /\ day = LearningDays + GuardDays) /\ day < MaxDays
  /\ dayPc' = "between" /\ day' = day + 1 /\ jobsLeft' = JobsPerDay
  /\ UNCHANGED <<launched, dayError, exceptDays>>

EndDays ==
  /\ EngineUp /\ dayPc = "top"
  /\ halted \/ (autopilot /\ day = LearningDays + GuardDays)
  /\ dayPc' = "over"
  /\ UNCHANGED <<day, jobsLeft, launched, dayError, exceptDays>>

(* land_transactions writes the database between two jobs, under no lock of
   the office; read-only records make it raise. *)
ShopsFail ==
  /\ EngineUp /\ dayPc = "between" /\ jobsLeft > 0 /\ locked
  /\ dayPc' = "raised"
  /\ UNCHANGED <<day, jobsLeft, launched, dayError, exceptDays>>

(* _launch takes the office lock and keeps it while the job runs.  Once
   stop() has put the original launch back, neither lock nor flag is asked. *)
LaunchJob ==
  /\ EngineUp /\ dayPc = "between" /\ jobsLeft > 0
  /\ wrapped => ~halted
  /\ dayPc' = "job"
  /\ UNCHANGED <<day, jobsLeft, launched, dayError, exceptDays>>

LaunchRefused ==
  /\ EngineUp /\ dayPc = "between" /\ jobsLeft > 0 /\ wrapped /\ halted
  /\ dayPc' = "over"
  /\ UNCHANGED <<day, jobsLeft, launched, dayError, exceptDays>>

(* A job ends, well or (when it could not write) badly: its window is
   recorded either way.  A job the engine left behind ends unrecorded. *)
JobEnds ==
  /\ dayPc = "job" /\ ~frozen
  /\ IF wrapped
     THEN launched' = launched + 1 /\ runs' = Append(runs, launched + 1)
     ELSE UNCHANGED <<launched, runs>>
  /\ jobsLeft' = jobsLeft - 1
  /\ \/ dayPc' = "between"
     \/ locked /\ dayPc' = "raised"
  /\ UNCHANGED <<day, dayError, halted, wrapped, frozen, queueVars, mainVars,
                 sessionVars, serverVars, vaultVars, consoleVars>>

(* except BaseException: halted decides whether the problem is reported. *)
DayRaised ==
  /\ EngineUp /\ dayPc = "raised"
  /\ dayPc' = "over" /\ dayError' = (dayError \/ ~halted)
  /\ UNCHANGED <<day, jobsLeft, launched, exceptDays>>

NightEnds ==
  /\ EngineUp /\ dayPc = "between" /\ jobsLeft = 0
  /\ daysDone' = Append(daysDone, day) /\ dayPc' = "ack?"
  /\ UNCHANGED <<day, jobsLeft, launched, dayError, officeVars, acks, mainVars,
                 sessionVars, serverVars, vaultVars, consoleVars>>

TakeAck ==
  /\ EngineUp /\ dayPc = "ack?" /\ acks > 0
  /\ acks' = acks - 1 /\ dayPc' = "top"
  /\ UNCHANGED <<day, jobsLeft, launched, dayError, officeVars, daysDone,
                 mainVars, sessionVars, serverVars, vaultVars, consoleVars>>

Days == \/ BeginDay \/ EndDays \/ ShopsFail \/ LaunchJob \/ LaunchRefused
        \/ JobEnds \/ DayRaised \/ NightEnds \/ TakeAck

-----------------------------------------------------------------------------
(* The main loop. *)

exceptMain == <<dayVars, officeVars, queueVars, sessionVars, serverVars,
                vaultVars, consoleVars>>

(* The top of _loop: the way out, or a digest of what has settled by now. *)
PollLeaves ==
  /\ mainPc = "poll" /\ ending
  /\ mainPc' = "cleanup" /\ view' = control
  /\ UNCHANGED <<dayVars, officeVars, queueVars, after, resume, todo, digested,
                 nights, phase, attack, handledAttack, handledRestore,
                 serverVars, vaultVars, consoleVars>>

PollRaises ==
  /\ mainPc = "poll" /\ ~ending /\ dayError
  /\ mainPc' = "cleanup" /\ view' = control /\ phase' = "failed"
  /\ UNCHANGED <<dayVars, officeVars, queueVars, after, resume, todo, digested,
                 nights, attack, handledAttack, handledRestore, serverVars,
                 vaultVars, consoleVars>>

(* Seeded fault: take_settled hands runs out and keeps them. *)
PollTakesSettled_Keeps ==
  /\ mainPc = "poll" /\ ~ending /\ ~dayError
  /\ view' = control
  /\ \E k \in 0..Len(runs) : todo' = SubSeq(runs, 1, k)
  /\ mainPc' = "digest" /\ after' = "finish"
  /\ UNCHANGED <<dayVars, officeVars, queueVars, resume, digested, nights,
                 phase, attack, handledAttack, handledRestore, serverVars,
                 vaultVars, consoleVars>>

PollTakesSettled ==
  /\ mainPc = "poll" /\ ~ending /\ ~dayError
  /\ view' = control
  /\ \E k \in 0..Len(runs) : /\ todo' = SubSeq(runs, 1, k)
                             /\ runs' = SubSeq(runs, k + 1, Len(runs))
  /\ mainPc' = "digest" /\ after' = "finish"
  /\ UNCHANGED <<dayVars, halted, wrapped, frozen, queueVars, resume, digested,
                 nights, phase, attack, handledAttack, handledRestore,
                 serverVars, vaultVars, consoleVars>>

DayOf(run) == (run - 1) \div JobsPerDay + 1

(* _digest: a run of a learning day is learned, a later one is judged. *)
DigestQuiet ==
  /\ mainPc = "digest" /\ todo # <<>>
  /\ todo' = Tail(todo) /\ digested' = digested + 1
  /\ UNCHANGED <<mainPc, after, resume, exceptMain>>

(* An INCIDENT: the Judge locks the records, and suspends a program of the
   run's window that still runs.  That can be the next job. *)
DigestContains ==
  /\ mainPc = "digest" /\ todo # <<>> /\ DayOf(Head(todo)) > LearningDays
  /\ incidents < MaxIncidents /\ incidents' = incidents + 1
  /\ locked' = TRUE
  /\ \/ frozen' = frozen
     \/ dayPc = "job" /\ Head(todo) = launched /\ frozen' = TRUE
  /\ mainPc' = "incident"
  /\ UNCHANGED <<dayVars, halted, wrapped, runs, queueVars, after, resume, todo,
                 digested, sessionVars, simulator,  vaultVars, consoleVars>>

(* Only then does _digest halt the office, without taking its lock. *)
DigestHalts ==
  /\ mainPc = "incident"
  /\ todo' = Tail(todo) /\ digested' = digested + 1 /\ mainPc' = "digest"
  /\ halted' = TRUE /\ attack' = "contained" /\ phase' = "contained"
  /\ UNCHANGED <<dayVars, wrapped, frozen, runs, queueVars, after, resume,
                 nights, view, handledAttack, handledRestore, serverVars,
                 vaultVars, consoleVars>>

DigestReturns ==
  /\ mainPc = "digest" /\ todo = <<>> /\ mainPc' = after
  /\ UNCHANGED <<after, resume, todo, digested, exceptMain>>

(* _finish_days *)
NoDayDone ==
  /\ mainPc = "finish" /\ daysDone = <<>> /\ mainPc' = "attack?"
  /\ UNCHANGED <<after, resume, todo, digested, exceptMain>>

SkipCutDay ==
  /\ mainPc = "finish" /\ daysDone # <<>> /\ halted
  /\ daysDone' = Tail(daysDone) /\ acks' = acks + 1
  /\ UNCHANGED <<dayVars, officeVars, mainVars, sessionVars, serverVars,
                 vaultVars, consoleVars>>

(* Seeded fault: the settle window is not waited out before the pull. *)
DigestNight_NoWait ==
  /\ mainPc = "finish" /\ daysDone # <<>> /\ ~halted
  /\ mainPc' = "digest" /\ after' = "pull"
  /\ UNCHANGED <<dayVars, officeVars, queueVars, resume, todo, digested,
                 sessionVars, serverVars, vaultVars, consoleVars>>

DigestNight ==
  /\ mainPc = "finish" /\ daysDone # <<>> /\ ~halted
  /\ todo' = runs /\ runs' = <<>> /\ mainPc' = "digest" /\ after' = "pull"
  /\ UNCHANGED <<dayVars, halted, wrapped, frozen, queueVars, resume, digested,
                 sessionVars, serverVars, vaultVars, consoleVars>>

(* Vault.pull: a CLEAN snapshot may become the clean point. *)
Pull(clean) ==
  /\ snapshots' = snapshots + 1
  /\ \/ pin' = pin
     \/ clean /\ pin' = snapshots + 1
  /\ restored' = restored

PullNight ==
  /\ mainPc = "pull"
  /\ \E clean \in BOOLEAN :
       /\ Pull(clean)
       /\ safeCopy' = IF clean /\ attack = "none" THEN snapshots + 1 ELSE safeCopy
  /\ nights' = Head(daysDone)
  /\ phase' = IF Head(daysDone) = LearningDays /\ phase = "learning" THEN "guard" ELSE phase
  /\ daysDone' = Tail(daysDone) /\ acks' = acks + 1
  /\ mainPc' = "finish"
  /\ UNCHANGED <<dayVars, officeVars, after, resume, todo, digested, attack, view,
                 handledAttack, handledRestore, serverVars, consoleVars>>

-----------------------------------------------------------------------------
(* _obey_commands, the attack *)

(* attack_readiness *)
Ready == phase \in Running /\ attack = "none" /\ pin # 0

NewAttack == view.attack \notin {0, handledAttack}

IgnoreAttack ==
  /\ mainPc = "attack?" /\ ~(NewAttack /\ Ready)
  /\ handledAttack' = IF NewAttack THEN view.attack ELSE handledAttack
  /\ mainPc' = "restored?"
  /\ UNCHANGED <<dayVars, officeVars, queueVars, after, resume, todo, digested,
                 nights, phase, attack, view, handledRestore, serverVars,
                 vaultVars, consoleVars>>

BeginAttack ==
  /\ mainPc = "attack?" /\ NewAttack /\ Ready
  /\ handledAttack' = view.attack
  /\ attack' = "waiting" /\ phase' = "attack"
  /\ mainPc' = "halt" /\ resume' = "restored?"
  /\ UNCHANGED <<dayVars, officeVars, queueVars, after, todo, digested, nights,
                 view, handledRestore, serverVars, vaultVars, consoleVars>>

(* Seeded fault: the flag is set without waiting for the running job. *)
HaltOffice_NoLock ==
  /\ mainPc = "halt"
  /\ halted' = TRUE /\ acks' = acks + 1
  /\ todo' = runs /\ runs' = <<>> /\ mainPc' = "digest" /\ after' = "strike"
  /\ UNCHANGED <<dayVars, wrapped, frozen, daysDone, resume, digested,
                 sessionVars, serverVars, vaultVars, consoleVars>>

(* Seeded fault: the attack waits for the days thread to end, not for a job. *)
HaltOffice_Joins ==
  /\ mainPc = "halt" /\ DaysOver
  /\ halted' = TRUE /\ acks' = acks + 1
  /\ todo' = runs /\ runs' = <<>> /\ mainPc' = "digest" /\ after' = "strike"
  /\ UNCHANGED <<dayVars, wrapped, frozen, daysDone, resume, digested,
                 sessionVars, serverVars, vaultVars, consoleVars>>

(* halt() waits for the office lock: no job runs, none will. *)
HaltOffice ==
  /\ mainPc = "halt" /\ dayPc # "job"
  /\ halted' = TRUE /\ acks' = acks + 1
  /\ todo' = runs /\ runs' = <<>> /\ mainPc' = "digest" /\ after' = "strike"
  /\ UNCHANGED <<dayVars, wrapped, frozen, daysDone, resume, digested,
                 sessionVars, serverVars, vaultVars, consoleVars>>

(* A night job's own incident got there first. *)
CallOff ==
  /\ mainPc = "strike" /\ phase # "attack" /\ mainPc' = resume
  /\ UNCHANGED <<after, resume, todo, digested, exceptMain>>

(* _judge_attack_live *)
Strike ==
  /\ mainPc = "strike" /\ phase = "attack"
  /\ attack' = "running" /\ simulator' = "running"
  /\ mainPc' = "battle"
  /\ UNCHANGED <<dayVars, officeVars, queueVars, after, resume, todo, digested,
                 nights, phase, view, handledAttack, handledRestore, locked,
                 incidents, vaultVars, consoleVars>>

SimulatorEnds ==
  /\ simulator = "running" /\ simulator' = "gone"
  /\ UNCHANGED <<dayVars, officeVars, queueVars, mainVars, sessionVars, locked,
                  incidents, vaultVars, consoleVars>>

Catch ==
  /\ mainPc = "battle"
  /\ locked' = TRUE /\ mainPc' = "caught"
  /\ simulator' = IF simulator = "running" THEN "paused" ELSE simulator
  /\ UNCHANGED <<dayVars, officeVars, queueVars, after, resume, todo, digested,
                 sessionVars,  incidents, vaultVars, consoleVars>>

Miss ==
  /\ mainPc = "battle" /\ simulator = "gone" /\ mainPc' = "missed"
  /\ UNCHANGED <<after, resume, todo, digested, exceptMain>>

(* The check before the launch, or the launch itself, raises: the attack state
   already says running, and run() ends the session FAILED. *)
StrikeRaises ==
  /\ mainPc = "strike" /\ phase = "attack"
  /\ attack' = "running" /\ phase' = "failed" /\ mainPc' = "cleanup"
  /\ UNCHANGED <<dayVars, officeVars, queueVars, after, resume, todo, digested,
                 nights, view, handledAttack, handledRestore, serverVars,
                 vaultVars, consoleVars>>

(* Judging raises: the simulator is killed, whatever the Judge had locked by
   then stays locked until the cleanup, and the attack state stays running. *)
JudgingRaises ==
  /\ mainPc \in {"battle", "caught"}
  /\ locked' \in BOOLEAN /\ (locked => locked')
  /\ simulator' = "off" /\ phase' = "failed" /\ mainPc' = "cleanup"
  /\ UNCHANGED <<dayVars, officeVars, queueVars, after, resume, todo, digested,
                 nights, attack, view, handledAttack, handledRestore, incidents,
                 vaultVars, consoleVars>>

(* The simulator is killed; the Judge's lock is left as it is. *)
EndBattle ==
  /\ mainPc \in {"caught", "missed"}
  /\ simulator' = "off"
  /\ attack' = IF mainPc = "caught" THEN "contained" ELSE "missed"
  /\ phase' = "vault" /\ mainPc' = "pullDamage"
  /\ UNCHANGED <<dayVars, officeVars, queueVars, after, resume, todo, digested,
                 nights, view, handledAttack, handledRestore, locked,
                 incidents, vaultVars, consoleVars>>

(* The pull after the attack, and what follows from catching it or not. *)
PullDamage ==
  /\ mainPc = "pullDamage"
  /\ \E clean \in BOOLEAN : Pull(clean)
  /\ IF attack = "missed"
     THEN phase' = "failed" /\ locked' = FALSE /\ frozen' = FALSE /\ mainPc' = resume
     ELSE /\ phase' = IF autopilot THEN "recovery" ELSE "contained"
          /\ mainPc' = IF autopilot THEN "recover" ELSE resume
          /\ UNCHANGED <<locked, frozen>>
  /\ UNCHANGED <<dayVars, halted, wrapped, runs, queueVars, after, resume, todo,
                 digested, nights, attack, view, handledAttack, handledRestore,
                 simulator,  incidents, safeCopy, consoleVars>>

(* Vault.restore raises on no snapshot and on one restored before. *)
Restorable(snapshot) == snapshot # 0 /\ snapshot \notin restored

AutopilotRestores ==
  /\ mainPc = "recover" /\ Restorable(pin)
  /\ restored' = restored \cup {pin}
  /\ locked' = FALSE /\ frozen' = FALSE
  /\ phase' \in {"complete", "failed"} /\ mainPc' = resume
  /\ UNCHANGED <<dayVars, halted, wrapped, runs, queueVars, after, resume, todo,
                 digested, nights, attack, view, handledAttack, handledRestore,
                 simulator,  incidents, snapshots, pin, safeCopy, consoleVars>>

AutopilotCannotRestore ==
  /\ mainPc = "recover" /\ ~Restorable(pin)
  /\ phase' = "failed" /\ mainPc' = "cleanup"
  /\ UNCHANGED <<dayVars, officeVars, queueVars, after, resume, todo, digested,
                 nights, attack, view, handledAttack, handledRestore,
                 serverVars, vaultVars, consoleVars>>

(* A call into Habit, the Judge or the Vault raises while the main thread
   digests, contains, pulls or restores; the run in hand is lost with it. *)
CallRaises ==
  /\ \/ mainPc = "digest" /\ todo # <<>>
     \/ mainPc \in {"incident", "pull", "pullDamage", "recover"}
  /\ phase' = "failed" /\ mainPc' = "cleanup"
  /\ UNCHANGED <<dayVars, officeVars, queueVars, after, resume, todo, digested,
                 nights, attack, view, handledAttack, handledRestore,
                 serverVars, vaultVars, consoleVars>>

-----------------------------------------------------------------------------
(* _obey_commands, the restore; and the rest of the loop *)

NewRestore == view.restore \notin {0, handledRestore}

(* Seeded fault: a restore is ticked off whatever the checks said. *)
ObeyRestore_AnyResult ==
  /\ mainPc = "restored?" /\ mainPc' = "autopilot?"
  /\ handledRestore' = IF NewRestore THEN view.restore ELSE handledRestore
  /\ IF NewRestore /\ phase = "contained"
     THEN locked' = FALSE /\ frozen' = FALSE /\ phase' = "recovered"
          /\ owed' = FALSE
     ELSE UNCHANGED <<locked, frozen, phase, owed>>
  /\ UNCHANGED <<dayVars, halted, wrapped, runs, queueVars, after, resume, todo,
                 digested, nights, attack, view, handledAttack, simulator,
                 incidents, vaultVars, autopilot, control, nextId, restoring,
                 ending, verified>>

(* Only a restore whose checks passed releases the records; one that comes
   while the attack is still handled is kept for the next round. *)
ObeyRestore ==
  /\ mainPc = "restored?" /\ mainPc' = "autopilot?"
  /\ handledRestore' = IF NewRestore /\ (phase = "contained" \/ phase \notin Locked)
                       THEN view.restore ELSE handledRestore
  /\ IF NewRestore /\ phase = "contained" /\ view.ok
     THEN locked' = FALSE /\ frozen' = FALSE /\ phase' = "recovered"
          /\ owed' = FALSE
     ELSE UNCHANGED <<locked, frozen, phase, owed>>
  /\ UNCHANGED <<dayVars, halted, wrapped, runs, queueVars, after, resume, todo,
                 digested, nights, attack, view, handledAttack, simulator,
                 incidents, vaultVars, autopilot, control, nextId, restoring,
                 ending, verified>>

AutopilotAttackDue == autopilot /\ DaysOver /\ attack = "none" /\ phase \in Running

AutopilotStrikes ==
  /\ mainPc = "autopilot?" /\ AutopilotAttackDue
  /\ attack' = "waiting" /\ phase' = "attack"
  /\ mainPc' = "halt" /\ resume' = "sleep"
  /\ UNCHANGED <<dayVars, officeVars, queueVars, after, todo, digested, nights,
                 view, handledAttack, handledRestore, serverVars, vaultVars,
                 consoleVars>>

AutopilotWaits ==
  /\ mainPc = "autopilot?" /\ ~AutopilotAttackDue /\ mainPc' = "sleep"
  /\ UNCHANGED <<after, resume, todo, digested, exceptMain>>

LoopAgain ==
  /\ mainPc = "sleep"
  /\ mainPc' = IF phase \in Finished THEN "cleanup" ELSE "poll"
  /\ UNCHANGED <<after, resume, todo, digested, exceptMain>>

(* Seeded fault: the engine also waits for the days thread to be over. *)
CleanupHalts_Joins ==
  /\ mainPc = "cleanup" /\ DaysOver
  /\ halted' = TRUE /\ mainPc' = "unwrap"
  /\ UNCHANGED <<dayVars, wrapped, frozen, runs, queueVars, after, resume, todo,
                 digested, sessionVars, serverVars, vaultVars, consoleVars>>

(* The finally of run().  halt() waits for the lock of a recorded job ... *)
CleanupHalts ==
  /\ mainPc = "cleanup" /\ dayPc # "job"
  /\ halted' = TRUE /\ mainPc' = "unwrap"
  /\ UNCHANGED <<dayVars, wrapped, frozen, runs, queueVars, after, resume, todo,
                 digested, sessionVars, serverVars, vaultVars, consoleVars>>

(* ... stop() puts the original launch back, and the day gets its ack ... *)
CleanupUnwraps ==
  /\ mainPc = "unwrap"
  /\ wrapped' = FALSE /\ acks' = acks + 1 /\ mainPc' = "undo"
  /\ UNCHANGED <<dayVars, halted, frozen, runs, daysDone, after, resume, todo,
                 digested, sessionVars, serverVars, vaultVars, consoleVars>>

(* ... the monitor and the agent are stopped, and the Judge lets go ... *)
CleanupUndoes ==
  /\ mainPc = "undo"
  /\ locked' = FALSE /\ frozen' = FALSE /\ mainPc' = "exit"
  /\ phase' = IF phase \in Finished THEN phase ELSE "stopped"
  /\ UNCHANGED <<dayVars, halted, wrapped, runs, queueVars, after, resume, todo,
                 digested, nights, attack, view, handledAttack, handledRestore,
                 simulator,  incidents, vaultVars, consoleVars>>

(* ... and the process ends, a daemon thread with it. *)
Exit ==
  /\ mainPc = "exit" /\ mainPc' = "done"
  /\ UNCHANGED <<after, resume, todo, digested, exceptMain>>

Main == \/ PollLeaves \/ PollRaises \/ PollTakesSettled
        \/ DigestQuiet \/ DigestContains \/ DigestHalts \/ DigestReturns
        \/ NoDayDone \/ SkipCutDay \/ DigestNight \/ PullNight
        \/ IgnoreAttack \/ BeginAttack \/ HaltOffice \/ CallOff \/ Strike
        \/ StrikeRaises \/ Catch \/ Miss \/ JudgingRaises \/ EndBattle
        \/ PullDamage \/ CallRaises
        \/ AutopilotRestores \/ AutopilotCannotRestore \/ ObeyRestore
        \/ AutopilotStrikes \/ AutopilotWaits \/ LoopAgain
        \/ CleanupHalts \/ CleanupUnwraps \/ CleanupUndoes \/ Exit

-----------------------------------------------------------------------------
(* The console: LiveSession, and the supervisor's restore. *)

exceptConsole == <<autopilot, dayVars, officeVars, queueVars, mainVars, sessionVars, serverVars>>

(* Seeded fault: a command replaces the control file instead of joining it. *)
RequestAttack_Replaces ==
  /\ ~ending /\ nextId <= MaxRequests
  /\ control' = [NoCommands EXCEPT !.attack = nextId] /\ nextId' = nextId + 1
  /\ UNCHANGED <<restoring, ending, verified, owed, vaultVars, exceptConsole>>

RequestAttack ==
  /\ ~ending /\ nextId <= MaxRequests
  /\ control' = [control EXCEPT !.attack = nextId] /\ nextId' = nextId + 1
  /\ UNCHANGED <<restoring, ending, verified, owed, vaultVars, exceptConsole>>

(* The restore route: the newest CLEAN snapshot from before the trouble goes
   into a folder of its own name; one with a folder already is refused. *)
BeginRestore ==
  /\ ~ending /\ nextId <= MaxRequests /\ restoring = 0 /\ Restorable(safeCopy)
  /\ restoring' = safeCopy /\ restored' = restored \cup {safeCopy}
  /\ UNCHANGED <<control, nextId, ending, verified, owed, snapshots, pin, safeCopy,
                 exceptConsole>>

(* record_restore, with the checks passed or not. *)
ReportRestore ==
  /\ ~ending /\ restoring # 0 /\ nextId <= MaxRequests
  /\ \E ok \in BOOLEAN :
       /\ control' = [control EXCEPT !.restore = nextId, !.ok = ok]
       /\ verified' = (verified \/ ok) /\ owed' = (ok /\ locked)
  /\ nextId' = nextId + 1 /\ restoring' = 0
  /\ UNCHANGED <<ending, vaultVars, exceptConsole>>

EndSession ==
  /\ ~ending /\ ending' = TRUE
  /\ UNCHANGED <<control, nextId, restoring, verified, owed, vaultVars, exceptConsole>>

Console == RequestAttack \/ BeginRestore \/ ReportRestore \/ EndSession

Next == Days \/ Main \/ SimulatorEnds \/ Console

Spec == Init /\ [][Next]_vars

(* The two threads are scheduled, and the simulator ends by itself. *)
FairSpec == Spec /\ WF_vars(Days) /\ WF_vars(Main) /\ WF_vars(SimulatorEnds)

-----------------------------------------------------------------------------
(* Every variable holds a value of its type. *)
TypeOK ==
  /\ dayPc \in {"top", "between", "job", "raised", "ack?", "over"}
  /\ day \in 0..MaxDays /\ jobsLeft \in 0..JobsPerDay /\ launched \in Nat
  /\ {dayError, halted, wrapped, frozen, locked, ending, verified, owed} \subseteq BOOLEAN
  /\ runs \in Seq(Nat) /\ todo \in Seq(Nat) /\ digested \in Nat
  /\ daysDone \in Seq(1..MaxDays) /\ acks \in Nat
  /\ mainPc \in {"poll", "digest", "incident", "finish", "pull", "attack?", "halt",
                 "strike", "battle", "caught", "missed", "pullDamage", "recover",
                 "restored?", "autopilot?", "sleep", "cleanup", "unwrap", "undo",
                 "exit", "done"}
  /\ after \in {"finish", "pull", "strike"} /\ resume \in {"restored?", "sleep"}
  /\ nights \in 0..MaxDays /\ phase \in Phases
  /\ attack \in {"none", "waiting", "running", "contained", "missed"}
  /\ {control, view} \subseteq [attack : Nat, restore : Nat, ok : BOOLEAN]
  /\ handledAttack \in Nat /\ handledRestore \in Nat
  /\ simulator \in {"off", "running", "paused", "gone"}
  /\ incidents \in 0..MaxIncidents
  /\ snapshots \in Nat /\ {pin, safeCopy, restoring} \subseteq 0..snapshots
  /\ restored \subseteq 1..snapshots /\ nextId \in Nat

(* No night job runs while the simulator does: the attack waited for the
   running one, and every later launch is refused. *)
NoJobUnderAttack == simulator # "off" => dayPc # "job"

(* Before the Vault pulls a night, each job of it has been learned or judged. *)
NightIsJudgedFirst ==
  mainPc = "pull" => runs = <<>> /\ todo = <<>> /\ digested = JobsPerDay * Head(daysDone)

(* Habit and the Judge see every ended job once, in the order they ran,
   however the settle window cuts them into digests. *)
RunsInOrder ==
  todo \o runs = [i \in 1..(launched - digested) |-> digested + i]

(* While the phase tells the office its records are locked until a restore,
   the Judge does hold them.  The phase says recovered only when it has let go
   and some restore passed its checks (or is just containing another run), and
   when the process is gone it holds nothing and no simulator is left. *)
LockMatchesPhase ==
  /\ phase \in {"contained", "recovery"} => locked
  /\ phase = "recovered" => verified /\ (~locked \/ mainPc = "incident")
  /\ mainPc = "done" => ~locked /\ simulator = "off"

(* An engine that is told to stop, or whose console has gone, ends, unless
   the Judge has suspended the very job whose lock the cleanup waits for. *)
EndingEnds == ending ~> mainPc = "done" \/ frozen

(* An attack that was begun is contained or missed, or the session has FAILED:
   waiting for the running job, and for the runs still to be digested, comes to
   an end, and so does judging that raises. *)
AttackIsSettled ==
  attack = "waiting" ~> attack \in {"contained", "missed"} \/ phase = "failed"

(* While the session goes on, a restore that passed its checks and was reported
   with the records locked is not left unanswered, whatever else is asked for. *)
RestoreReleases == []<>~(phase = "contained" /\ owed /\ ~ending)

(* What run() says of its cleanup: it waits for a running night job, so that
   no job's process outlives the engine. *)
NothingOutlivesTheEngine == mainPc = "done" => dayPc # "job"

(* What _digest says of an incident on a guard night: the Judge has contained
   it, and the office waits for a restore like after any other incident. *)
IncidentWaitsForRestore ==
  [][phase = "contained" /\ phase' # "contained" => phase' \in {"recovered", "stopped"}]_vars

(* What the engine says of CONTAINED, "The records are locked until they are
   restored": until a restore has passed its checks, with the clean copy held,
   one can be made. *)
RestoreRemainsAvailable ==
  phase = "contained" /\ safeCopy # 0 => Restorable(safeCopy) \/ restoring # 0 \/ owed

=============================================================================
