------------------------------- MODULE DemoRun -------------------------------
(***************************************************************************)
(* run_demo: the one-shot proof, on its main thread, over the Vault it     *)
(* builds.  The Vault's own thread, the liveness monitor, runs beside it   *)
(* from the first day to the last line, and so does the Watcher's agent,   *)
(* until the watcher-killer ends it.  The Judge appears by its answers,    *)
(* the simulator by the files it has scrambled when its call returns (the  *)
(* call itself is LiveAttack).                                             *)
(***************************************************************************)
EXTENDS Vault

CONSTANTS QuietDays,    \* learning_days + guard_days
          Quiet,        \* Quiet[p]: the versions the jobs write at p
          Cipher        \* what the simulator makes of a file

ASSUME DemoAssumption ==
  /\ QuietDays \in Nat \ {0}
  /\ Quiet \in [Paths -> SUBSET Versions]
  /\ Cipher \in Versions /\ HighEntropy[Cipher]
  /\ \A p \in Paths : FirstShare[p] # Cipher /\ Cipher \notin Quiet[p]

\* What the jobs write opens as its type, and as only the district's generator
\* adds ration cards, every backup of a quiet day holds as many.  The first pull
\* comes after day 1's jobs: FirstShare stands for what they leave, a backup
\* among it, and its count for the ration_cards of the configuration.
ASSUME QuietAssumption ==
  /\ \A p \in Paths : \A v \in Quiet[p] \cup ({FirstShare[p]} \ {Absent}) : HeaderOk[p][v]
  /\ \A p \in Backups : \A v \in Quiet[p] \cup ({FirstShare[p]} \ {Absent}) :
       Cards[v] = RecordCount(FirstShare)
  /\ RecordCount(FirstShare) # Unreadable

VARIABLES
  step,          \* where the main thread is
  variant,       \* "fast", or "watcher-killer"; the other two run as fast does
  day,           \* quiet days lived
  caught,        \* the Judge called the attack INCIDENT
  falseAlarm,    \* or one of the quiet days
  before, after, \* liveness_before.alive, liveness_after.alive
  timedOut,      \* _await_silence gave up
  pinBefore, pinAfter,
  restored,      \* the snapshot that was restored, 0 for none
  raised,        \* something the run calls has raised
  passed         \* the last line of the proof

told == <<caught, falseAlarm, before, after, timedOut, pinBefore, pinAfter,
          restored, raised, passed>>
runVars == <<step, variant, day, told>>
allVars == <<vars, runVars>>

RunInit ==
  /\ Init
  /\ step = "agent" /\ variant \in {"fast", "watcher-killer"} /\ day = 0
  /\ caught = FALSE /\ falseAlarm = FALSE /\ before = FALSE /\ after = FALSE
  /\ timedOut = FALSE /\ pinBefore = 0 /\ pinAfter = 0 /\ restored = 0
  /\ raised = FALSE /\ passed = FALSE

Goes(from, to) == step = from /\ step' = to

-----------------------------------------------------------------------------
(* Setting up.                                                             *)

\* _start_watcher_agent comes back when the first beat is there.
AgentStarts ==
  /\ Goes("agent", "monitor")
  /\ agent' = TRUE /\ heartbeat' = "fresh" /\ starts' = starts + 1
  /\ UNCHANGED <<share, edits, stalls, vaultVars, variant, day, told>>

MonitorStarts ==
  /\ Goes("monitor", "day")
  /\ StartMonitor
  /\ UNCHANGED <<variant, day, told>>

-----------------------------------------------------------------------------
(* Quiet days: the jobs, their judging, the pull.                          *)

JobsWrite ==
  /\ step = "day" /\ edits < MaxEdits
  /\ \E p \in Paths : \E v \in Quiet[p] \ {share[p]} :
       share' = [share EXCEPT ![p] = v]
  /\ edits' = edits + 1
  /\ UNCHANGED <<agent, heartbeat, starts, stalls, vaultVars, runVars>>

\* The runs of the day are learned or judged.
DayIsPulled ==
  /\ Goes("day", "dayPull")
  /\ PullBegin
  /\ falseAlarm' \in (IF falseAlarm THEN {TRUE} ELSE BOOLEAN)
  /\ day' = day + 1
  /\ UNCHANGED <<variant, caught, before, after, timedOut, pinBefore, pinAfter,
                 restored, raised, passed>>

DayEnds ==
  /\ pullPc = "idle"
  /\ Goes("dayPull", IF day < QuietDays THEN "day" ELSE "strike")
  /\ before' = IF day < QuietDays THEN before ELSE heartbeat = "fresh"
  /\ UNCHANGED <<vars, variant, day, caught, falseAlarm, after, timedOut,
                 pinBefore, pinAfter, restored, raised, passed>>

\* A job that fails, a simulator that cannot be launched: run_day and Popen
\* raise, and the finally block follows.
RunRaises ==
  /\ step \in {"day", "strike"} /\ step' = "finally"
  /\ raised' = TRUE
  /\ UNCHANGED <<vars, variant, day, caught, falseAlarm, before, after, timedOut,
                 pinBefore, pinAfter, restored, passed>>

-----------------------------------------------------------------------------
(* The attack.                                                             *)

\* Rewritten in place, and renamed where the share has a name for it.
FileIsScrambled ==
  /\ step = "strike" /\ variant = "fast"
  /\ \E p \in Present(share) :
       /\ share[p] # Cipher
       /\ share' = [q \in Paths |-> IF Stem[q] = p THEN Cipher
                                    ELSE IF q # p THEN share[q]
                                    ELSE IF \E r \in Paths : Stem[r] = p THEN Absent
                                    ELSE Cipher]
  /\ UNCHANGED <<agent, heartbeat, edits, starts, stalls, vaultVars, runVars>>

\* _judge_attack_live returns: the Judge has called it, or has not.
AttackReturns ==
  /\ variant = "fast" /\ Goes("strike", "look")
  /\ caught' \in BOOLEAN
  /\ UNCHANGED <<vars, variant, day, falseAlarm, before, after, timedOut,
                 pinBefore, pinAfter, restored, raised, passed>>

\* The killer ends the agent and touches no file.
KillerReturns ==
  /\ variant = "watcher-killer" /\ Goes("strike", "await")
  /\ KillAgent
  /\ UNCHANGED <<variant, day, told>>

\* Fault: the run's own reading of the heartbeat is enough.
SilenceIsRecorded_ByReading ==
  /\ Goes("await", "look")
  /\ heartbeat # "fresh"
  /\ UNCHANGED <<vars, variant, day, told>>

\* _await_silence: the heartbeat is old, and the Vault has recorded that.
SilenceIsRecorded ==
  /\ Goes("await", "look")
  /\ heartbeat # "fresh" /\ ProtectMode
  /\ UNCHANGED <<vars, variant, day, told>>

AwaitTimesOut ==
  /\ Goes("await", "look")
  /\ timedOut' = TRUE
  /\ UNCHANGED <<vars, variant, day, caught, falseAlarm, before, after, pinBefore,
                 pinAfter, restored, raised, passed>>

-----------------------------------------------------------------------------
(* The Vault after the attack, the restore, the checks.                    *)

LastPullBegins ==
  /\ Goes("look", "lastPull")
  /\ PullBegin
  /\ after' = (heartbeat = "fresh") /\ pinBefore' = pin
  /\ UNCHANGED <<variant, day, caught, falseAlarm, before, timedOut, pinAfter,
                 restored, raised, passed>>

\* Fault: what is restored is the newest copy.
RestoreTarget_Newest == Len(manifests)

\* The pinned snapshot, after the pull.
RestoreTarget == pin

\* restore(None) raises.
Restores ==
  /\ pullPc = "idle" /\ Goes("lastPull", "finally")
  /\ pinAfter' = pin /\ restored' = RestoreTarget
  /\ raised' = (RestoreTarget = 0)
  /\ UNCHANGED <<vars, variant, day, caught, falseAlarm, before, after, timedOut,
                 pinBefore, passed>>

\* stop_liveness_monitor joins the thread, and the agent is ended.
Finally ==
  /\ Goes("finally", "report")
  /\ monitorPc' = "off" /\ sample' = None /\ monitorAlert' = NoAlert
  /\ agent' = FALSE
  /\ UNCHANGED <<share, heartbeat, edits, starts, stalls, diskVars, alertLog,
                 verdictVars, lastLiveness, latestHealth, pullVars, restarts,
                 variant, day, told>>

\* The restore's checks: every file opens as its type, no card is missing.
RestoreOk ==
  LET files_ == manifests[restored].files
  IN  /\ \A p \in Present(files_) : HeaderOk[p][files_[p]]
      /\ RecordCount(files_) = RecordCount(FirstShare)

DamagedHealth == manifests[Len(manifests)].health

FastChecks ==
  /\ caught /\ DamagedHealth = SUSPECT /\ pinBefore = pinAfter /\ after

KillerChecks ==
  /\ before /\ ~caught /\ ~after
  /\ CombinedVerdict(IF after THEN ALIVE ELSE SILENT, DamagedHealth) = SUSPICIOUS
  /\ pinBefore = pinAfter /\ DamagedHealth = CLEAN

\* The checks are made of what was told, after the finally block; a run that
\* raised has no last line.
Reports ==
  /\ Goes("report", "over")
  /\ passed' = (~raised /\ ~falseAlarm /\ RestoreOk
                /\ IF variant = "fast" THEN FastChecks ELSE KillerChecks)
  /\ UNCHANGED <<vars, variant, day, caught, falseAlarm, before, after, timedOut,
                 pinBefore, pinAfter, restored, raised>>

\* The Vault's threads and the agent go on by themselves.
Beside ==
  /\ PullStep \/ MonitorStep \/ Beat \/ HeartbeatAges
  /\ UNCHANGED runVars

MainStep ==
  \/ AgentStarts \/ MonitorStarts \/ JobsWrite \/ DayIsPulled \/ DayEnds
  \/ RunRaises \/ FileIsScrambled \/ AttackReturns \/ KillerReturns
  \/ SilenceIsRecorded \/ AwaitTimesOut \/ LastPullBegins \/ Restores
  \/ Finally \/ Reports

RunNext == MainStep \/ Beside

RunSpec == RunInit /\ [][RunNext]_allVars

-----------------------------------------------------------------------------
\* Every variable of the run keeps its type.
RunTypeOK ==
  /\ step \in {"agent", "monitor", "day", "dayPull", "strike", "await", "look",
               "lastPull", "finally", "report", "over"}
  /\ day \in 0 .. QuietDays
  /\ {caught, falseAlarm, before, after, timedOut, raised, passed} \subseteq BOOLEAN
  /\ {pinBefore, pinAfter, restored} \subseteq 0 .. MaxPulls

\* "Proof PASSED" is said only when a copy from before the attack has been
\* restored that holds nothing the simulator has made.
PassedMeansRecovered ==
  passed =>
    /\ restored \in 1 .. QuietDays
    /\ \A p \in Paths : manifests[restored].files[p] # Cipher

\* "Proof FAILED" is not said of the protection's own timing: there was a job
\* called an INCIDENT, a quiet day's copy that was SUSPECT, an attack the Judge
\* or S7 did not see, a silence not recorded in time, a living agent whose
\* heartbeat grew old, or a step that raised.
FailsForAReason ==
  step = "over" /\ ~passed =>
    \/ falseAlarm \/ timedOut \/ stalls > 0
    \/ raised /\ Len(manifests) <= QuietDays
    \/ \E n \in DOMAIN manifests : n <= QuietDays /\ manifests[n].health = SUSPECT
    \/ variant = "fast" /\ (~caught \/ DamagedHealth = CLEAN)
=============================================================================
