# NightKeep, verified parts

NightKeep watches the nightly jobs of an old ration-shop server (the "PDS
server"), judges what they do, keeps copies of the server's share in a separate
Vault, and locks the records when a program behaves like ransomware. This
directory holds TLA+ models of its parts, above all where threads, processes,
restarts and kills meet; the TLC configurations that check them; and proofs
that TLAPS checks. All source paths below are under `src/nightkeep/` unless
they begin with `src/`.

## 1. The system

| Part | State it keeps | Operations | Talks to |
| --- | --- | --- | --- |
| Vault (`vault/__init__.py`, `_store.py`, `_manifest.py`) | blobs, manifests, `clean_point`, `alerts.jsonl`; in memory the two witnesses (S6: is the Watcher alive, S7: newest snapshot's health) and the verdict | `pull`, `start/stop_liveness_monitor`, `check_watcher_liveness`, `restore` | reads the share and the heartbeat in it; called by the live engine and the demo |
| S7 health check (`vault/_health.py`) | none | `assess` | called by `pull` |
| Restore (`vault/__init__.py`, `_restore.py`) | a folder per restored snapshot | copy, five checks | called by the console and the autopilot |
| Live engine (`live.py`, `live_protocol.py`) | phase, attack state, `_Office` (lock, halted flag, ended runs), queues of finished days and acknowledgements, `status.json` | main loop, days thread, attack, autopilot, cleanup | Judge, Vault, Watcher, simulator; reads `control.json` |
| Console side of a session (`console/session.py`, `console/app.py`) | the engine's process, `control.json`, request ids | start, stop, request_attack, record_restore | the engine, only through files |
| Showcase (`console/showcase.py`) | a status file, the demo's process | start, read_status | the session, or a one-shot demo, by its log |
| Live attack (`demo_run.py`, `_judge_attack_live`) | the simulator's process | launch, poll the Judge, contain, drain, kill | Judge, Watcher |
| One-shot demo run (`demo_run.py`, `run_demo`) | what the proof has seen so far | quiet days, attack, pull, restore, report | all of the above |
| Watcher (`watcher/`) | event log, sightings, heartbeat file | record, sweep, stamp; readers of the log | file system; read by engine and Vault |
| Judge (`judge/`) | entropy baseline, history, what it locked and suspended | `would_incident`, `verdict`, `undo` | Habit; locks `data/` and `share/` |
| Habit (`habit/`) | programs, versions, runs, seen extensions | `learn`, `score`, `cards` | its SQLite file |
| Simulator (`simulator/`) | none that lasts | four variants of an attack on a scratch district; `decrypt.py` | files of the district |
| Mock PDS (`mock_pds/`) | the district's database, exports and backups | `run_day`, six jobs | files |
| Console pages and providers, configuration, server alert | views | - | read files |

The parts meet in four ways: two threads inside the Vault share a lock; two
threads inside the engine share a lock, a flag and two queues; engine, console
and demo share a few files; everything shares the district's files. What is
hard here: the liveness monitor against `pull()`; a crash between the Vault's
writes; a share that changes while it is read; an attack or a restore asked for
while a night job runs; an incident found in the middle of an attack; a
simulator that is faster than the event log; events blamed on the wrong
program; a console that dies and leaves its engine or its demo behind; ordinary
jobs that look like damage. `PROJECT.json` lists these hazards, each at its
line and with the property that would catch it, or the reason none does.

What makes each part correct, in a sentence. The Vault's clean point is a clean
copy and never takes over damage; its verdict is the design table's answer and
both raises and clears. A restore that says it is whole is whole, whatever a
crash has torn. The engine never lets a job, a pull and an attack overlap,
judges every run once and in order before the night is pulled, and holds the
records locked exactly while it says so. A console has one engine at a time, in
a district no other engine has built in since the wipe but one an earlier
console left booting, and one demo. A touched decoy, or a burst of renames that
leaves recovery commands behind, is called an incident (a burst alone is only
suspicious), and no simulator is left behind. The demo says PASSED only of a
copy from before the attack. The Watcher's readers get each event once, and it
blames the program that wrote. The Judge contains only on a threat signal, has
on record exactly what it took, and never learns that scrambled is normal. Habit
keeps one card per program and calls each change. What the simulator scrambles
can be brought back. The office's jobs follow each other and lose nothing.

## 2. Modules

The Vault:

- `VaultHealth` - S7 as operators. A pulled share is a function from paths to
  versions (or `Absent`); what the check reads off a file's bytes (header,
  entropy, card count) is a constant function of path and version. `Assess` is
  the disjunction of the six reasons of `assess()`, with the two thresholds as
  percentages.
- `Vault` - the two threads of `vault/__init__.py`. `pullPc` and `monitorPc`
  are the places where the other thread can be seen: a file read, a file
  written, a lock section. `pull()` is `PullBegin`, `PullReadFile` (one file at
  a time: the share may change between two), `PullWriteManifest`,
  `PullReadProtectMode`, `PullWritePin`, `PullSetHealth`, `PullRefresh`,
  `PullAppendAlert`; the monitor's loop is `MonitorCheck`, `MonitorRecord`,
  `MonitorRefresh`, `MonitorAppendAlert`, `MonitorWake`. The environment
  rewrites and renames files and starts, stalls and kills the Watcher's agent.
  `Restart` ends the process between any two steps and builds a new Vault on
  the same files. `changes` and `heldThroughout` are history variables.
- `VaultPromise` - the abstract specification: snapshots are recorded one after
  another, and the newest may become the clean point if it is CLEAN and there
  was a moment after it was recorded with no alarm. `Vault!ImplementsPromise`
  maps `manifests` to their healths, `pin` to the clean point, Protect mode to
  the alarm.
- `VaultDisk` - the same pull, and `restore`, over the store's own files. Each
  of `write_locked`'s files is truncated and then filled (`BlobBegins`,
  `BlobEnds`, and so on); `Crash` ends the process between any two writes and
  `Rebuild` is the constructor, which raises on a torn newest manifest. A blob
  that exists is not written again, torn or whole. What S7 and Protect mode
  decide is free here. The files of a restore are copied and compared one by
  one; the other checks may fail on bytes that match.
- `MCVault`, `MCVaultDisk` - the instances for TLC: an export, its `.locked`
  name and a database backup, in versions that are ordinary, encrypted, or
  short of cards; two files with two contents.

The live session:

- `Live` - the days thread (`dayPc`), the main loop (`mainPc`, where `after`
  and `resume` say where the calls of `_digest` and `_attack` return to), the
  office lock (`dayPc = "job"` holds it), the halted flag, the two queues, and
  the console (`control`; `view` is the copy the engine read last). `autopilot`
  is chosen at the start from `Modes`: an interactive session, or the guided
  one. The Judge, the Vault and the simulator appear by outcome: a run of a
  guard night is quiet or contained, a pull is CLEAN or not and moves the pin
  or not, an attack is caught or missed. `DigestContains` and `DigestHalts` are
  two steps because the Judge's lock and the engine's flag are. Where the main
  thread calls out it can raise: in the poll (`PollRaises`), before and at the
  launch of the simulator (`StrikeRaises`), while the attack is judged
  (`JudgingRaises`) and in the calls into Habit, the Judge and the Vault
  (`CallRaises`). `run` then ends the session FAILED, with the attack state and
  the lock as they stood.
- `Session` - the console's `LiveSession` with request threads, the lock of a
  start, the engines it launches, kills and forgets, and consoles that die. An
  engine is its boot, its poll (`ReadsStop`), the stretches in which it reads no
  command (`busy`) and its cleanup, which writes a status into whatever folder
  is there by then. The boot is two steps, with no lock between them:
  `BootChecks` looks for leftovers, `BootBuilds` builds the district, over what
  another engine may have begun by then; `district` is the set of the engines
  that have built since the last wipe. `frozen` engines are those whose office
  lock is held by a job the Judge has suspended: their cleanup waits for it
  until a restore resumes the job (`Thaws`) or somebody kills the engine.
  `cutOff` is history: the engines that were booting when their console died.
- `Showcase` EXTENDS `Session` - the Live Demo page's two controllers. With
  the session's, its start is `Session!AskGuidedStart`; without one,
  `ShowcaseController` launches a demo that outlives the console. `_save`
  truncates and then writes; `Alive` is `_alive`, where another console's
  demo is known by a pid that may be someone else's by now.

The attack:

- `Simulator` - the four variants that can be launched, write by write: a file
  is opened (which empties it), written, renamed; a locked one raises. Read-only
  is a mode of a name, `Own(f)` or `Locked(f)`, as on Windows: such a file
  cannot be opened for writing, removed or replaced, but it can be renamed, and
  the mode goes with it (`moved` remembers which did). What a file holds is the
  number of layers of the known key over the original. It can be suspended and
  killed between any two writes. `decrypt.py` is the second process: open,
  write, unlink, and it too can be interrupted, or denied.
- `LiveAttack` EXTENDS `Simulator` - `_judge_attack_live`: drain, verdict on the
  whole window, poll, the final drain with its quiet turns and its deadline,
  the containment (`Suspend`, `ListShare`, `LockFile` for one file after the
  other, `LockEnds`, `Proof`, with an exception after any of them), the listing
  of the tree and its kill, the undo. The Watcher is a queue between the
  simulator and the cursor; of the events in it, those that are renames, touch
  a decoy or write a note with the recovery commands are marked. `Answers` is
  the table of `_level` over the signals the window can give: S2 and S4 are
  read off the events, S3 is free once there is one, S5 is certain with such a
  note and free while the echo shell runs. `Unusual` is the habit score of the
  job "simulator": its newest card is of another variant, which the first
  verdict of a call finds and thereby ends; a first sighting is not unusual.
  `record` is what the Judge has locked and not released, by name.
- `DemoRun` EXTENDS `Vault` - `run_demo` on its main thread, step by step to
  the last line, over the whole two-thread Vault: the pull, the monitor and the
  heartbeat are Vault's own actions. The attack is any set of scrambled files;
  what the jobs write on quiet days is any content `QuietAssumption` allows.
- `MCDemoRun` - two exports, one `.locked` name, a backup.

Watching and judging:

- `Watcher` - the observer thread handles a change (`HandleKnown`,
  `HandleRateLimited`, `HandleSweeps`, then `FallbackAppends`, `TakeFresh`,
  `Record`), the poll thread sweeps (`PollBegins`, `PollAppends`), both into
  one list that is searched from its end. A line reaches the log whole or in
  two pieces. `reader` is the live attack with its cursor or the engine with
  the window of a settled run; the agent can be killed anywhere.
- `Habit` - the habit cards: per job the list of programs seen behind it, the
  rows each card was learned from, and the file types produced. `VersionFor`,
  `Learn`, `Score` and `Unusual` are the store's and the class's methods; the
  floating-point features are one bit, whether the run is strange for its card.
- `Judge` EXTENDS `Habit` - `verdict()`, `would_incident()` and `undo()` of one
  calling thread (`pc`), against programs that go on writing, deleting,
  renaming and ending. `ReadFile` is one event of `scrambled_in_place`,
  `Decide` the level and the baseline, `Pause`, `PauseTooLate` and `PauseNext`
  the outcomes of `suspend_process`, `ListFolder` and `LockFile` the walk of
  `make_read_only`, `Resume` and `Unlock` the two loops of `undo`.
  `takenPids` and `takenFiles` are `Taken`: a pid can be in it twice. `stops`
  counts as Windows does, the system the product runs on: a process goes on
  when it has been resumed as often as it was suspended. (Elsewhere the first
  resume is enough, and the second one does nothing.)
  `lastProgram`, `foreign` and `moved` are history; `moved` holds the new names
  of files that were renamed while read-only, whoever had made them so. What a
  file holds is text, noise or nothing; only events the signals look at are
  made (no CREATED). Whether S5 fires is left free. A missing write bit stops
  writing and deleting a file, not renaming it. habit.db lies under `data/` and
  is opened per call, so the Judge's own lock makes inserts into it raise
  (`Scorable`); judge.db is held open and is not affected.
- `MCJudge` - an export and its `.locked` name, a decoy, a file others keep
  read-only, habit.db and the heartbeat; a program and its child.

The office:

- `Nights` - `run_day`: the clock that pushes a late job on, the operator, the
  allocations and the vendor's second run of them, the export that may be
  skipped, the backup, `fix_dat.vbs` (delete, then move; then rewrite) and
  `archive_old.bat` (zip, then delete one by one), and the night's pull judged
  by `VaultHealth` against the clean point. Nothing in it is hostile.
- `MCNights` - the start windows, overlapping ones among them.

Proofs: `VaultProofs`, `VaultDiskProofs`, `LiveProofs`, `SessionProofs`,
`WatcherProofs`, `JudgeProofs`, `NightsProofs`, `LiveAttackProofs` - the
theorems of section 5, each beside the module it is named after. `SessionProofs`
also holds those about `Showcase`, `VaultProofs` those about `DemoRun`; Vault's
own cite none of DemoRun's assumptions.

An action whose name ends in a fault (`PullRefresh_Missing`,
`HaltOffice_NoLock`, ...) stands beside the definition it would replace and is
in no next-state relation: it is a plausible slip in the code that the named
property must notice.

## 3. Runs

| Run | Shows |
| --- | --- |
| `vault` (MCVault.cfg) | 3 pulls, 2 changes of the share, the Watcher's agent started once, pull and monitor interleaved: the clean point is clean, is held, takes no damage; the alert log has every change once. 1.9 million states. |
| `vault_restart` (MCVaultRestart.cfg) | 2 pulls, 1 change, 1 restart at any step, with fairness: verdict = table; refinement of `VaultPromise`; a killed Watcher is noticed for good; Protect mode lets go. |
| `vault_disk` (MCVaultDisk.cfg) | 2 files, 2 contents, 2 pulls, 2 crashes between any two writes, any restores: a restore that says ok has put back what was pulled; what a manifest lists has a blob. 1.3 million states. |
| `live` (MCLive.cfg) | both kinds of session, 1 learning and 1 guard day of 2 jobs, 2 console requests, 2 night incidents, stop at any moment: order of jobs, digests, pulls and attacks; the lock and the phase; attack settled or session failed, with a call that raises at every stand of the main thread; restore answered, session ends. 665,622 states. |
| `judge` (MCJudge.cfg) | 2 file events, 4 events, lessons, polls and verdicts in all, 1 undo, at every interleaving with the programs: every pause and lock is on record, an incident pauses a living writer, a changed program is called, known good files are not taught to be noise. 1.9 million states. |
| `watcher` (MCWatcher.cfg) | 2 programs, 2 changes, 2 sweeps, a clock of 3 ticks: the cursor reads once, a settled run misses one event at most, the dead are blamed in two known cases only. |
| `attack` (MCLiveAttack.cfg) | 2 files under the share, the second a decoy, a burst of 1, 2 calls one after another with decrypt between them: caught, killed, locked or released as agreed, and all but the interrupted files brought back; every call ends. 670,226 states. |
| `nights` (MCNights.cfg) | 5 shops, 4 nights, the month's first in the second: jobs do not overlap, nothing is lost, S7 is SUSPECT for clean-ups only. |
| `session` (MCShowcase.cfg) | 2 request threads, 3 starts, 1 console death, 3 demos: one engine acts for its console, one demo runs, and engines end but for a frozen one. 398,339 states. |
| `demo_run` (MCDemoRun.cfg) | 2 quiet days, 3 writes by jobs, an attack on any files or the killing of the agent: what PASSED and FAILED mean. 4.7 million states. |
| `ordinary_night`, `canary_archived` | two statements of the repository that the code does not keep, see section 4. |

Bounds and why they are enough. Three pulls are a clean point, a copy that may
be SUSPECT, and the pull after it, which is the longest history any Vault
property mentions; two edits make a rename of an encrypted file, or damage
followed by a loss of cards. One start of the agent gives missing, fresh and
stale heartbeats; stalls of a living agent are bounded by `MaxStalls` (0 in the
Vault's runs, where a dead agent's heartbeat goes stale by itself; 1 in
`demo_run`, where a stall is one of the reasons for FAILED). In `vault_disk` one
crash tears a file and the second comes while the torn file is used; files and
contents are interchangeable there, and their permutations are the symmetry (no
temporal property is checked in that run). One learning and one guard day have
both branches of `_digest`; two jobs a day give a run that settles before the
next one starts and one that does not. Two requests are an attack and a restore,
two attacks, or two restores in any order, in one poll or in two; two incidents
are one before and one after a recovery. In `judge`, two events and two verdicts
are a measurement followed by a scrambling, or one incident judged twice before
the undo, which is the only way to have a pid on record twice; one event and
three scores are a program that changes and changes back; two processes are a
family and also two rival writers. In `watcher`, two programs are a writer and
its successor, and two sweeps are one per thread, which is what it takes to
append them in the wrong order. In `attack`, a recovery-killer of one file
(`BurstLimit`) renames the record that is no decoy, so a burst with a note is
met without S2, and the other variants go on to the decoy; two files are the
least of which one is locked and the other is still to be, and the second call
finds files the first one left scrambled, locked, or read-only under their new
name. In `nights`, with five shops a night can go either way on the half of the
baseline, and four nights have exports for two archives. In `session`, three
starts are an engine that is killed and two that race to replace it. Deadlock is
not checked in the modules whose system may really stop: a session that has
ended, a district whose nights are over, a run that has written its last line, a
server whose programs have all exited, a Vault whose constructor raises.

Fairness. `Vault!Fairness`: the interpreter runs both threads, the monitor's
`wait` times out, a dead agent's stamp grows old. Nothing is assumed of the
share, of the agent, or of when `pull()` is called. `Live!FairSpec`: both
threads are scheduled and the simulator ends by itself (it transforms a finite
district). Nothing is assumed of the console; `EndSession` may never come.
A job that the Judge suspended does not end, which is why `EndingEnds` excepts
`frozen`: see the hazard at live.py:299. `Session!Fairness`: a wait of the
console ends one way or the other, and an engine boots, comes back from what
keeps it busy, reads its control file and cleans up, unless it is frozen; it is
not assumed that a killed process goes away, nor that a frozen engine thaws,
which is why `EnginesEnd` excepts it: one whose console has died has nobody to
kill it. `LiveAttack!FairSpec`: the calling thread, the
simulator and the agent's log are scheduled. Beside it, `LogIsInTime` is what
the final drain takes for granted of the agent: its first event within `Delay`
turns and the next ones before `Quiet` turns have passed. Without it
`AttackIsCaught` would be about how slow a disk may be.

## 4. Findings, and statements the code does not keep

Two runs end with a counterexample.

1. `ordinary_night`: S7 counts each file of the clean baseline that is changed
   or gone, also one that `fix_dat` renamed from `.tmp` to `.dat`, or that
   `archive_old` zipped. A night in which these are more than half of a small
   baseline is SUSPECT; Protect mode then keeps the baseline, which later
   nights move further away from. The test that ordinary nights stay CLEAN
   (src/tests/test_vault_ordinary_night.py:1) passes with the configured seed;
   `OnlyCleanUpsAreSuspect` shows that nothing else can be the reason.
2. `canary_archived`: `epos_day_end_*.csv` matches the decoy among the exports,
   whose date makes it the first of them. The archive job zips and deletes it
   at its first run, which is a canary signal (S2) on an ordinary night, in
   spite of "No legitimate job touches them" (config.yaml:148).

The modules state ten more sentences of the repository that are not kept. No
run is spent on them: the models' counterexamples are short, and what does hold
beside each is checked.

| Statement | Where it says so | What happens, and what holds instead |
| --- | --- | --- |
| `Vault!AlertsOldestFirst` | vault/__init__.py:397, "oldest first" | Both threads append after releasing the verdict's lock, so two changes can stand in the wrong order. `AlertsAreTheChanges`: each is there once. |
| `Vault!ProtectModeHoldsThePin` | vault/__init__.py:370 | The check and the write of the pin are not one step; the monitor can raise Protect mode in between. `HeldThroughoutKeepsPin`, `SuspectHoldsTheNextPull` and the abstract promise, all three proved. |
| `Live!NothingOutlivesTheEngine` | live.py:295, "the job's own process would outlive the engine" | The cleanup waits for the running job, then restores the unguarded launcher while the days thread is between two jobs. `EndingEnds`. |
| `Live!IncidentWaitsForRestore` | live.py:462, "waits for a restore like any other incident" | Between the Judge's lock and the engine's flag a job can fail on the read-only files, or a later call can raise; the session ends FAILED and the lock is lifted with no restore. `LockMatchesPhase`. |
| `Live!RestoreRemainsAvailable` | live.py:600, "locked until they are restored" | One restore with failed checks, or one from before the attack, leaves a folder, and the next restore of the held copy is refused; only a stop lifts the lock. `RestoreReleases`. |
| `Session!OneSessionPerFolder` | live.py:240, "A district or Vault already here is an older session's" | The check and the building are two steps. A console that dies while its engine is between them, or still before them, leaves an engine that asks after its console only at its first poll; the next console wipes the folder and starts its own, and both find it empty and build. `OneEngine`: this is the only way. |
| `Judge!UndoPutsEverythingBack` | judge/_actions.py:109, "Put everything back" | A file renamed under the lock by a program that is not suspended stays read-only under its new name and is on no record. `LocksAreAccounted`: this is the only way. `LiveAttack!RecordsAreAsAgreed` says the same of the simulator. |
| `Judge!FirstNightIsCaught` | judge/entropy_signal.py:150, "would let a first-night attack through" | `inspect` has a rule for files that were never measured; its caller passes every such file as new unless it was renamed, so an in-place write never reaches the rule. `KnownGoodStaysGood`: measured files are not forgotten. |
| `Watcher!SweepFindsTheWriter` | watcher/__init__.py:190, "Sweep now and take the writer that is really running" | The poll thread can append an older sweep behind the fallback's, and the newest sighting is then the older one. `BlameOfTheDead`: this and the rate limit are the only ways. |
| `Simulator!DecryptAlwaysReverses` | simulator/__init__.py:26, "always reverses it" | A simulator that was ended between emptying a file and renaming it leaves that file empty, or scrambled under its own name. `LostOnesWereInterrupted`: one file per interruption. |

## 5. Proofs

Every theorem holds for every value of the constants that the named ASSUMEs
allow. None of the assumptions says what S7, the Judge or the simulator will
find, but for one: `DemoRun!QuietAssumption` says that what the jobs write on
quiet days opens as its type, and that every quiet backup holds as many ration
cards as the first, because only the district's generator
(`mock_pds/_generate.py`) inserts cards. Only the last parts of `VaultProofs`
use it. Each module proves an inductive invariant and draws the property from
it.

`VaultProofs`:

- `TypeCorrect`: `Spec => []TypeOK`. Needs that `Assess` returns a health, that
  the newest backup is a present path, and that `NextToRead` picks a path.
- `CleanPointInv`, the inductive invariant behind the next four. `PinIsClean`
  is not inductive: the pin is written two steps after the health is known.
  `Deciding` carries the fact across them (the newest manifest is CLEAN, the
  pin is older, and the health was measured against the very snapshot the pin
  still names: the monitor cannot move it). `SuspectHoldsTheNextPull` needs
  `WitnessIsTheNewest`: where, between the pulls, `_latest_health` already or
  still speaks of which snapshot, and that a SUSPECT witness means Protect mode
  except in the refresh window. `HoldIsAHold` ties the history variable to the
  verdict.
- From it: `PinAlwaysClean`, `SuspectAlwaysHoldsTheNextPull`,
  `HeldThroughoutAlwaysKeepsPin`, and the action property
  `CleanPointNeverTakesDamage` (by `Deciding`, a pinned snapshot was CLEAN
  against its predecessor; by the definition of `Assess`, it has no broken or
  scrambled rewrite).
- `VerdictAlwaysFollowsWitnesses`, with its own small invariant.
- `AlertsAreAlwaysTheChanges`, from `AlertsInv`: a record is in the log or in
  the hands of the thread that moved the verdict, never in both, all numbers are
  apart, and each record goes on from the one before. A crash ends only the
  part about completeness, as the property says.
- `VaultKeepsItsPromise`: initial states map to initial states and every step
  to a step of `VaultPromise` or a stutter, with `CleanPointInv` for `Advance`
  and `Offer`.

Its last parts are about the one-shot run over the same Vault, and only they use
the assumptions of `DemoRun`:

- `PassedAlwaysMeansRecovered`, from `RunInv`: `PullsInv` (whether a pull may be
  under way at each place of the main thread, and the share untouched while days
  are quiet), `CopiesInv` (at most one copy for a quiet day before the last
  pull, none of them with a scrambled file) and `SeenInv` (the pin that was seen
  before the last pull names such a copy): PASSED requires that the pin did not
  move.
- `FailedAlwaysHasAReason`, from `ReasonInv`, which adds what it takes to rule
  out a FAILED of the protection's own making: one copy for each quiet day
  (`DaysInv`), each of them CLEAN against the one before (`QuietInv`); a living
  agent that never stalled is never heard as silent, whatever reading a thread
  still has in its hands (`BeatInv`, `ReadInv`); Protect mode is up only for a
  silence on record (`ProtectInv`); the pin is the newest quiet copy and the
  last pull leaves it there (`PinInv`); and what the last lines say is what
  happened (`ToldInv`).
- `RunTypeCorrect`, with `RoomInv`: a pull under way has room for its manifest.

`VaultDiskProofs`: `DiskInv` is the type, `WhatIsListedIsThere` and what a pull
and a restore have already done when they are cut. `PullInFlight`: whatever
stands in `entries` has a blob, and the pin is only begun behind a whole
manifest that is CLEAN. `RestoreInFlight`: while the comparison still says yes,
the folder's bytes are right. From it `RestoresAreTrue` and `ListingsAreTrue`.

`LiveProofs`:

- `NoJobIsUnderAttack`, from `OfficeInv`: the office is halted for good, was
  halted when no job held its lock, and the launcher that asks the flag stays
  in place until the cleanup has halted it.
- `LockAlwaysMatchesPhase`, from `LockInv` and, for the copy of the control
  file that the engine holds, `CommandsInv`. The invariant needs the moment
  between the Judge's lock and the engine's flag also when the phase is
  RECOVERED: a second incident of the same night. The property's first wording
  missed it and the proof stopped there; the run now has two incidents.
- `RunsAreAlwaysInOrder`, from `LineInv`: what has been digested, what is in
  hand, what is queued and what has ended stand in one line, and cutting the
  queue anywhere keeps the line (`LineIsCut`).
- `NightsAreJudgedFirst`, from `NightInv`: the acknowledgements count the
  nights, and a finished day waits for its own runs.

`SessionProofs`:

- `OneEngineActs`, from `SessionInv`: a thread that waits for an engine or
  wipes the folder holds the lock; while it waits there is an engine it waits
  for, and by the time it wipes the console knows none. Whoever has built since
  the wipe is the console's engine or `cutOff`; a booting engine of an earlier
  console is `cutOff` from its console's death on, so the exception the
  property names is the only one.
- `PageAlwaysTellsOfOneDemo`, from `PageInv`: whatever demo runs is on file, or
  about to be put there by the call that launched it; the log is that demo's.
  The step that needs most is a console that dies while it puts an ended demo
  on file: the file is then torn or still says running, and either is safe.

`WatcherProofs`:

- `CursorAlwaysReadsOnce`, from `CursorInv`: the lines a reader can see are the
  events up to the one in the observer's hands (`Readable`), terminated or not,
  so the cursor counts events and not newlines.
- `BlameIsAsSwept`, from `AgentInv` and `BlameInv`. `SweptSince(n)`: sweep n and
  every later one, begun or appended by either thread, lists the program at
  work and nothing else, because that program was at work when they began. So a
  newest sighting with another program has a lower number than the fallback's,
  which is what `overtaken` says.
- `RunAlwaysMissesOneAtMost`, from `WindowInv`: once a run is read it misses
  nothing and can lose the change in the observer's hands, or it misses one and
  the change in hand was stamped after its window.

`JudgeProofs`, one invariant for each of its six theorems:

- `PausesAlwaysRecorded` (`PausesInv`): a process is stopped as often as it
  stands in the record, also in the middle of the walk and of the undo.
- `IncidentAlwaysPausesAWriter` (`WriterInv`): a named program that lives is
  stopped or still on the list of suspects.
- `LocksAlwaysAccounted` (`LocksInv`): the record and what others have made
  read-only are disjoint, but for files that were moved on.
- `CardsAlwaysOneProgram` and `ChangeIsAlwaysCalled` (`CardsInv`): the newest
  card of a job is the one of the program last seen behind it.
- `KnownGoodAlwaysStaysGood` (`GoodInv`): a noise reading in the hands of a
  verdict, of a file whose baseline is text or empty, has been called scrambled
  in that same verdict, so `Teaches` is false.

`NightsProofs`: `JobsNeverOverlap`, from `ClockInv` (the clock is never behind
the end of the last job); `NothingIsEverLost`, from `FilesInv`: what a clean-up
still has to do is safe (a `.dat` is deleted only while its `.tmp` is there;
what is left to delete is in an archive); and `OnlyCleanUpsAreEverSuspect`, from
`CopiesInv`, which adds that no backup of a night to come exists (`BackupsInv`)
and that the kept files of two copies have one content for good (`KeptInv`): of
S7's six reasons only the count of changed files is left. The two shares are
counted on different paths, which `SameCardinality` bridges.

`LiveAttackProofs`, all from `AttackInv`, whose parts are `Types`, `HandsInv`,
`TreeInv`, `ModeInv`, `LockInv`, `WindowInv` and `HarmInv`:

- `AttackIsAlwaysCaught`, from `WindowInv`: once the final drain begins the
  simulator is gone, so the window cannot grow under the last verdict; what it
  made is in the log or still to come, and a drain that has stopped with time
  left has it all. `LastVerdictSeesAll`: the verdict on all of a blatant attack
  can only be INCIDENT, whatever the free signals and the habit say.
- `NothingEverSurvives`, from `TreeInv`: a simulator that was suspended when its
  tree was listed still is when the tree is killed, and its shell is on the
  list.
- `RecordsAlwaysAsAgreed`, from `ModeInv` and `LockInv`. `ModeInv`: what is
  read-only is on record or was renamed while it was, and never both, so an undo
  at any point of the walk leaves exactly the renamed ones. `LockInv`: while the
  share is walked, every file under its own name is locked or still on the list
  (`Listed`); from the containment to the release all of them are locked
  (`Covered`).
- `LostOnesWereAlwaysInterrupted`, from `HandsInv` and `HarmInv`: a process has
  one file in hand, a file that is neither whole nor reversible was in the hands
  of one that was ended, and so there are no more of these than interruptions.
  Both processes take the least file that is left; that there is one is
  `LeastIsThere`.

The type invariants of all the modules that have variables are theorems too
(`TypeCorrect`, `DiskTypeCorrect`, `RunTypeCorrect`, `LiveTypeCorrect`,
`SessionTypeCorrect`, `PageTypeCorrect`, `AttackTypeCorrect`,
`WatcherTypeCorrect`, `JudgeTypeCorrect` with the habit cards, and
`NightsTypeCorrect`). Several need more than types: that of `Live` needs that a
copy on offer has been pulled, that of `Watcher` that the cursor does not pass
the end of the log, that of `Nights` that an archive holds only what was made
(`MadeInv`). They are stated without a run of their own.

Only model-checked: the liveness properties `KilledWatcherIsNoticed`,
`ProtectModeLetsGo`, `EndingEnds`, `AttackIsSettled`, `RestoreReleases`,
`EnginesEnd` and `CallEnds`. Liveness under fairness and ENABLED are out of the
proof system's reach here, as is induction over data and anything behind a
RECURSIVE operator; no module declares one. Every other property of a run that
passes is a theorem.

## 6. Not modelled, and what could come next

Not modelled, and why:

- the web pages, their providers and translations: read-only views of files
  that other parts write. Where one decides something (`newest_clean_before`,
  the start of the guided demo), the decision is in `Live` and `Session`;
- the configuration loader: sequential, once, at start. Its values are the
  CONSTANTS of the modules, its checks their ASSUMEs;
- the server's alert window: output in a process of its own;
- `demo.py`, an older runner over the same parts, and `mock_pds/_generate.py`,
  which makes the district's data before anything runs;
- floating-point arithmetic: Habit's features are one bit, entropy is text,
  noise or nothing;
- ids and paths as text. Two pulls within one second get suffixes whose text
  order fails at ten; no caller pulls ten times in a second;
- `stop_liveness_monitor`'s five seconds, after which the thread is forgotten;
  I/O errors other than a vanished file, a denied write and a torn one;
- a keyboard interrupt of the engine: it goes through the same cleanup as a
  stop, with the phase STOPPED.

What is left of the plan: `Judge`'s denied suspends and failed chmods; and Live
composed with Session, so that an engine that outlives its console is the full
one.
