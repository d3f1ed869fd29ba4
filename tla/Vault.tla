------------------------------- MODULE Vault -------------------------------
(***************************************************************************)
(* The Vault of src/nightkeep/vault/__init__.py while two of its threads   *)
(* run: the caller of pull(), and the liveness monitor.  They share the    *)
(* two witnesses (S6: is the Watcher alive; S7: the newest snapshot's      *)
(* health), the verdict computed from them and the alert log.  The share   *)
(* the Vault pulls, and the Watcher agent that stamps a heartbeat into it, *)
(* are the Vault's environment.                                            *)
(*                                                                         *)
(* A step is what one thread does between two points where the other can   *)
(* be seen: a lock held, a file read, a file written.                      *)
(***************************************************************************)
EXTENDS VaultHealth, Sequences

CONSTANTS
  Rewrites,     \* Rewrites[p]: versions programs on the server write at p
  FirstShare,   \* the share's files when the Vault is first built
  MaxPulls,     \* bound on pulls
  MaxEdits,     \* bound on changes to the share
  MaxStarts,    \* bound on starts of the Watcher agent
  MaxStalls,    \* bound on heartbeats that grow stale under a living agent
  MaxRestarts   \* bound on restarts of the Vault's process

ASSUME EnvironmentAssumption ==
  /\ Rewrites \in [Paths -> SUBSET (Versions \cup {Absent})]
  /\ FirstShare \in Contents
  /\ {MaxPulls, MaxEdits, MaxStarts, MaxStalls, MaxRestarts} \subseteq Nat

NORMAL     == "NORMAL"
SUSPICIOUS == "SUSPICIOUS"
INCIDENT   == "INCIDENT"
Verdicts   == {NORMAL, SUSPICIOUS, INCIDENT}
None       == "None"

VARIABLES
  share,            \* the files under share/, the heartbeat aside
  agent,            \* does the Watcher agent run
  heartbeat,        \* the heartbeat file: missing, fresh or over the limit
  manifests,        \* the manifests on disk, oldest first
  pin,              \* the clean_point file: an index in manifests, 0 for none
  alertLog,         \* the lines of alerts.jsonl
  verdict,          \* _verdict
  previousVerdict,  \* _previous_verdict
  lastLiveness,     \* _last_liveness: None, or its alive field
  latestHealth,     \* _latest_health
  pullPc, toRead, files, health, pullAlert,   \* the thread in pull()
  monitorPc, sample, monitorAlert,            \* the thread in _liveness_loop
  edits, starts, stalls, restarts,            \* counters behind the bounds
  changes,          \* history: verdict changes made so far
  heldThroughout    \* history: the verdict left NORMAL before this pull
                    \* began and has not been NORMAL since

diskVars    == <<manifests, pin>>
verdictVars == <<verdict, previousVerdict, changes, heldThroughout>>
pullVars    == <<pullPc, toRead, files, health, pullAlert>>
monitorVars == <<monitorPc, sample, monitorAlert>>
serverVars  == <<share, agent, heartbeat, edits, starts, stalls>>
vars == <<serverVars, diskVars, alertLog, verdictVars, lastLiveness,
          latestHealth, pullVars, monitorVars, restarts>>

NoAlert == [n |-> 0, verdict |-> NORMAL, previous |-> NORMAL]
Alerts  == [n : Nat, verdict : Verdicts, previous : Verdicts]

Manifests == [health : Healths, files : Contents]

(* __init__ on an empty root: nothing on disk, nothing known of the Watcher. *)
Init ==
  /\ share = FirstShare
  /\ agent = FALSE /\ heartbeat = "missing"
  /\ manifests = <<>> /\ pin = 0 /\ alertLog = <<>>
  /\ verdict = NORMAL /\ previousVerdict = NORMAL
  /\ lastLiveness = None /\ latestHealth = None
  /\ pullPc = "idle" /\ toRead = {} /\ files = NoFiles
  /\ health = CLEAN /\ pullAlert = NoAlert
  /\ monitorPc = "off" /\ sample = None /\ monitorAlert = NoAlert
  /\ edits = 0 /\ starts = 0 /\ stalls = 0 /\ restarts = 0
  /\ changes = 0 /\ heldThroughout = FALSE

-----------------------------------------------------------------------------
(* The PDS server: its jobs, the attack, and the Watcher agent. *)

vaultVars == <<diskVars, alertLog, verdictVars, lastLiveness, latestHealth,
               pullVars, monitorVars, restarts>>

(* A program on the server writes, or deletes, one file of the share. *)
Rewrite ==
  /\ edits < MaxEdits
  /\ \E p \in Paths : \E v \in Rewrites[p] \ {share[p]} :
       share' = [share EXCEPT ![p] = v]
  /\ edits' = edits + 1
  /\ UNCHANGED <<agent, heartbeat, starts, stalls, vaultVars>>

(* An encrypted file is renamed to its own name with an extension added. *)
Rename ==
  /\ edits < MaxEdits
  /\ \E p \in Paths :
       /\ Stem[p] \in Present(share)
       /\ share' = [share EXCEPT ![p] = share[Stem[p]], ![Stem[p]] = Absent]
  /\ edits' = edits + 1
  /\ UNCHANGED <<agent, heartbeat, starts, stalls, vaultVars>>

StartAgent ==
  /\ ~agent /\ starts < MaxStarts
  /\ agent' = TRUE /\ starts' = starts + 1
  /\ UNCHANGED <<share, heartbeat, edits, stalls, vaultVars>>

(* write_heartbeat: a rename over the old file, never seen half-written. *)
Beat ==
  /\ agent /\ heartbeat # "fresh"
  /\ heartbeat' = "fresh"
  /\ UNCHANGED <<share, agent, edits, starts, stalls, vaultVars>>

KillAgent ==
  /\ agent /\ agent' = FALSE
  /\ UNCHANGED <<share, heartbeat, edits, starts, stalls, vaultVars>>

(* The stamp passes watcher_silence_seconds: the agent is dead, or stalled. *)
HeartbeatAges ==
  /\ heartbeat = "fresh" /\ heartbeat' = "stale"
  /\ agent => stalls < MaxStalls
  /\ stalls' = IF agent THEN stalls + 1 ELSE stalls
  /\ UNCHANGED <<share, agent, edits, starts, vaultVars>>

Server == Rewrite \/ Rename \/ StartAgent \/ Beat \/ KillAgent \/ HeartbeatAges


-----------------------------------------------------------------------------
(* The Vault's own verdict. *)

ALIVE  == "alive"
SILENT == "silent"

(* combined_verdict; a health of None is read as CLEAN by its caller. *)
CombinedVerdict(liveness, snapshotHealth) ==
  LET silent  == liveness = SILENT
      suspect == snapshotHealth = SUSPECT
  IN  IF silent /\ suspect THEN INCIDENT
      ELSE IF silent \/ suspect THEN SUSPICIOUS
      ELSE NORMAL

ProtectMode == verdict \in {SUSPICIOUS, INCIDENT}

(* The part of _refresh_vault_state under the lock, when the verdict moves. *)
MoveVerdict(new) ==
  /\ verdict' = new /\ previousVerdict' = verdict
  /\ changes' = changes + 1
  /\ heldThroughout' = (heldThroughout /\ new # NORMAL)

(* Seeded fault: the record is filled in after previous_verdict has moved on. *)
AlertFor_Late(new) == [n |-> changes + 1, verdict |-> new, previous |-> previousVerdict]

AlertFor(new) == [n |-> changes + 1, verdict |-> new, previous |-> verdict]

-----------------------------------------------------------------------------
(* pull(), on the thread that calls it. *)

(* Where the next file of _pull_files is read: sorted path order. *)
NextToRead == CHOOSE p \in toRead : \A q \in toRead : Rank[p] <= Rank[q]

(* The share's paths are listed once, before any of them is read. *)
PullBegin ==
  /\ pullPc = "idle" /\ Len(manifests) < MaxPulls
  /\ pullPc' = "reading" /\ toRead' = Present(share) /\ files' = NoFiles
  /\ heldThroughout' = ProtectMode
  /\ UNCHANGED <<serverVars, diskVars, alertLog, verdict, previousVerdict,
                 changes, lastLiveness, latestHealth, health, pullAlert,
                 monitorVars, restarts>>

(* One file: its bytes now, or nothing when is_file() no longer finds it. *)
PullReadFile ==
  /\ pullPc = "reading" /\ toRead # {}
  /\ files' = [files EXCEPT ![NextToRead] = share[NextToRead]]
  /\ toRead' = toRead \ {NextToRead}
  /\ UNCHANGED <<serverVars, diskVars, alertLog, verdictVars, lastLiveness,
                 latestHealth, pullPc, health, pullAlert, monitorVars, restarts>>

(* A listed file vanishes between is_file() and read_bytes(): pull raises. *)
PullRaises ==
  /\ pullPc = "reading" /\ toRead # {} /\ share[NextToRead] = Absent
  /\ pullPc' = "idle" /\ toRead' = {} /\ files' = NoFiles
  /\ UNCHANGED <<serverVars, diskVars, alertLog, verdictVars, lastLiveness,
                 latestHealth, health, pullAlert, monitorVars, restarts>>

(* _clean_baseline: the files of the pinned snapshot. *)
Baseline == IF pin = 0 THEN NoBaseline ELSE manifests[pin].files

(* Seeded fault: a pull is offered as clean point whatever its health. *)
PullWriteManifest_AnyHealth ==
  /\ pullPc = "reading" /\ toRead = {}
  /\ health' = Assess(files, Baseline)
  /\ manifests' = Append(manifests, [health |-> health', files |-> files])
  /\ pullPc' = "protect?"
  /\ UNCHANGED <<serverVars, pin, alertLog, verdictVars, lastLiveness,
                 latestHealth, toRead, files, pullAlert, monitorVars, restarts>>

(* The health check and the manifest.  Nothing it reads on the way (the pin,
   the newest manifest) is written by another thread. *)
PullWriteManifest ==
  /\ pullPc = "reading" /\ toRead = {}
  /\ LET judged == Assess(files, Baseline)
     IN  /\ health' = judged
         /\ manifests' = Append(manifests, [health |-> judged, files |-> files])
         /\ pullPc' = IF judged = CLEAN THEN "protect?" ELSE "witness"
  /\ UNCHANGED <<serverVars, pin, alertLog, verdictVars, lastLiveness,
                 latestHealth, toRead, files, pullAlert, monitorVars, restarts>>

(* Seeded fault: only INCIDENT holds the pin. *)
PullReadProtectMode_OnlyIncident ==
  /\ pullPc = "protect?"
  /\ pullPc' = IF verdict = INCIDENT THEN "witness" ELSE "pin"
  /\ UNCHANGED <<serverVars, diskVars, alertLog, verdictVars, lastLiveness,
                 latestHealth, toRead, files, health, pullAlert, monitorVars,
                 restarts>>

(* protect_mode is read under the lock, and the lock let go. *)
PullReadProtectMode ==
  /\ pullPc = "protect?"
  /\ pullPc' = IF ProtectMode THEN "witness" ELSE "pin"
  /\ UNCHANGED <<serverVars, diskVars, alertLog, verdictVars, lastLiveness,
                 latestHealth, toRead, files, health, pullAlert, monitorVars,
                 restarts>>

PullWritePin ==
  /\ pullPc = "pin"
  /\ pin' = Len(manifests) /\ pullPc' = "witness"
  /\ UNCHANGED <<serverVars, manifests, alertLog, verdictVars, lastLiveness,
                 latestHealth, toRead, files, health, pullAlert, monitorVars,
                 restarts>>

(* Seeded fault: the snapshot's health never becomes the S7 witness. *)
PullSetHealth_Forgets ==
  /\ pullPc = "witness" /\ pullPc' = "refresh" /\ files' = NoFiles
  /\ UNCHANGED <<serverVars, diskVars, alertLog, verdictVars, lastLiveness,
                 latestHealth, toRead, health, pullAlert, monitorVars, restarts>>

PullSetHealth ==
  /\ pullPc = "witness"
  /\ latestHealth' = health /\ pullPc' = "refresh"
  /\ files' = NoFiles
  /\ UNCHANGED <<serverVars, diskVars, alertLog, verdictVars, lastLiveness,
                 toRead, health, pullAlert, monitorVars, restarts>>

(* Seeded fault: the pull leaves recomputing the verdict to the monitor. *)
PullRefresh_Missing ==
  /\ pullPc = "refresh" /\ pullPc' = "idle"
  /\ UNCHANGED <<serverVars, diskVars, alertLog, verdictVars, lastLiveness,
                 latestHealth, toRead, files, health, pullAlert, monitorVars,
                 restarts>>

PullRefresh ==
  LET new == CombinedVerdict(lastLiveness, latestHealth)
  IN /\ pullPc = "refresh"
     /\ \/ /\ new = verdict
           /\ pullPc' = "idle"
           /\ UNCHANGED <<verdictVars, pullAlert>>
        \/ /\ new # verdict
           /\ MoveVerdict(new)
           /\ pullAlert' = AlertFor(new) /\ pullPc' = "alert"
     /\ UNCHANGED <<serverVars, diskVars, alertLog, lastLiveness, latestHealth,
                    toRead, files, health, monitorVars, restarts>>

(* _append_alert and the state hook run after the lock is let go. *)
PullAppendAlert ==
  /\ pullPc = "alert"
  /\ alertLog' = Append(alertLog, pullAlert)
  /\ pullAlert' = NoAlert /\ pullPc' = "idle"
  /\ UNCHANGED <<serverVars, diskVars, verdictVars, lastLiveness, latestHealth,
                 toRead, files, health, monitorVars, restarts>>

PullStep == \/ PullReadFile \/ PullRaises \/ PullWriteManifest
            \/ PullReadProtectMode \/ PullWritePin \/ PullSetHealth
            \/ PullRefresh \/ PullAppendAlert

-----------------------------------------------------------------------------
(* _liveness_loop, on the monitor's thread. *)

(* start_liveness_monitor: its callers start it between two pulls. *)
StartMonitor ==
  /\ monitorPc = "off" /\ pullPc = "idle"
  /\ monitorPc' = "check"
  /\ UNCHANGED <<serverVars, diskVars, alertLog, verdictVars, lastLiveness,
                 latestHealth, pullVars, sample, monitorAlert, restarts>>

(* Seeded fault: any heartbeat file, however old, is a living Watcher. *)
MonitorCheck_AnyAge ==
  /\ monitorPc = "check" /\ monitorPc' = "record"
  /\ sample' = (IF heartbeat # "missing" THEN ALIVE ELSE SILENT)
  /\ UNCHANGED <<serverVars, diskVars, alertLog, verdictVars, lastLiveness,
                 latestHealth, pullVars, monitorAlert, restarts>>

(* check_watcher_liveness: a missing heartbeat and an old one are both S6. *)
MonitorCheck ==
  /\ monitorPc = "check"
  /\ sample' = (IF heartbeat = "fresh" THEN ALIVE ELSE SILENT)
  /\ monitorPc' = "record"
  /\ UNCHANGED <<serverVars, diskVars, alertLog, verdictVars, lastLiveness,
                 latestHealth, pullVars, monitorAlert, restarts>>

MonitorRecord ==
  /\ monitorPc = "record"
  /\ lastLiveness' = sample /\ sample' = None
  /\ monitorPc' = "refresh"
  /\ UNCHANGED <<serverVars, diskVars, alertLog, verdictVars, latestHealth,
                 pullVars, monitorAlert, restarts>>

(* Seeded fault: the monitor raises the verdict and never lowers it. *)
MonitorRefresh_Latches ==
  LET new == CombinedVerdict(lastLiveness, latestHealth)
  IN /\ monitorPc = "refresh"
     /\ \/ /\ new \in {verdict, NORMAL}
           /\ monitorPc' = "wait"
           /\ UNCHANGED <<verdictVars, monitorAlert>>
        \/ /\ new \notin {verdict, NORMAL}
           /\ MoveVerdict(new)
           /\ monitorAlert' = AlertFor(new) /\ monitorPc' = "alert"
     /\ UNCHANGED <<serverVars, diskVars, alertLog, lastLiveness, latestHealth,
                    pullVars, sample, restarts>>

MonitorRefresh ==
  LET new == CombinedVerdict(lastLiveness, latestHealth)
  IN /\ monitorPc = "refresh"
     /\ \/ /\ new = verdict
           /\ monitorPc' = "wait"
           /\ UNCHANGED <<verdictVars, monitorAlert>>
        \/ /\ new # verdict
           /\ MoveVerdict(new)
           /\ monitorAlert' = AlertFor(new) /\ monitorPc' = "alert"
     /\ UNCHANGED <<serverVars, diskVars, alertLog, lastLiveness, latestHealth,
                    pullVars, sample, restarts>>

MonitorAppendAlert ==
  /\ monitorPc = "alert"
  /\ alertLog' = Append(alertLog, monitorAlert)
  /\ monitorAlert' = NoAlert /\ monitorPc' = "wait"
  /\ UNCHANGED <<serverVars, diskVars, verdictVars, lastLiveness, latestHealth,
                 pullVars, sample, restarts>>

(* The check interval runs out. *)
MonitorWake ==
  /\ monitorPc = "wait" /\ monitorPc' = "check"
  /\ UNCHANGED <<serverVars, diskVars, alertLog, verdictVars, lastLiveness,
                 latestHealth, pullVars, sample, monitorAlert, restarts>>

MonitorStep == \/ MonitorCheck \/ MonitorRecord \/ MonitorRefresh
               \/ MonitorAppendAlert \/ MonitorWake

-----------------------------------------------------------------------------
(* _newest_snapshot_health *)
NewestSnapshotHealth ==
  IF manifests = <<>> THEN None ELSE manifests[Len(manifests)].health

(* The process ends between two steps and another Vault is built on the same
   root: what was in memory is gone, alerts not yet written included. *)
Restart ==
  /\ restarts < MaxRestarts /\ restarts' = restarts + 1
  /\ verdict' = NORMAL /\ previousVerdict' = NORMAL /\ heldThroughout' = FALSE
  /\ lastLiveness' = None /\ latestHealth' = NewestSnapshotHealth
  /\ pullPc' = "idle" /\ toRead' = {} /\ files' = NoFiles
  /\ health' = CLEAN /\ pullAlert' = NoAlert
  /\ monitorPc' = "off" /\ sample' = None /\ monitorAlert' = NoAlert
  /\ UNCHANGED <<serverVars, diskVars, alertLog, changes>>

Next == Server \/ PullBegin \/ PullStep \/ StartMonitor \/ MonitorStep \/ Restart

Spec == Init /\ [][Next]_vars

-----------------------------------------------------------------------------
(* Fairness: the interpreter runs both threads, the monitor's wait times out,
   and the stamp of a dead agent grows old.  Nothing is assumed of the server
   or of when pull() is called. *)
Fairness ==
  /\ WF_vars(PullStep)
  /\ WF_vars(MonitorStep)
  /\ WF_vars(~agent /\ HeartbeatAges)

FairSpec == Spec /\ Fairness

-----------------------------------------------------------------------------
(* Every variable holds a value of its type. *)
TypeOK ==
  /\ share \in Contents /\ agent \in BOOLEAN
  /\ heartbeat \in {"missing", "fresh", "stale"}
  /\ manifests \in Seq(Manifests)
  /\ pin \in Nat
  /\ alertLog \in Seq(Alerts)
  /\ verdict \in Verdicts /\ previousVerdict \in Verdicts
  /\ lastLiveness \in {None, ALIVE, SILENT}
  /\ latestHealth \in Healths \cup {None}
  /\ pullPc \in {"idle", "reading", "protect?", "pin", "witness", "refresh", "alert"}
  /\ toRead \subseteq Paths /\ files \in Contents
  /\ health \in Healths /\ pullAlert \in Alerts
  /\ monitorPc \in {"off", "check", "record", "refresh", "alert", "wait"}
  /\ sample \in {None, ALIVE, SILENT} /\ monitorAlert \in Alerts
  /\ edits \in Nat /\ starts \in Nat /\ stalls \in Nat /\ restarts \in Nat
  /\ changes \in Nat
  /\ heldThroughout \in BOOLEAN

(* The clean point, when there is one, is a snapshot on disk that was judged
   CLEAN: wherever pull() stops between its writes, the pin never names a
   SUSPECT copy or one that was never written. *)
PinIsClean ==
  pin # 0 => pin \in DOMAIN manifests /\ manifests[pin].health = CLEAN

(* Files that differ from the older copy and are damaged: they do not open as
   their own type, or are scrambled and no archive. *)
NewDamage(newer, older) ==
  {p \in Paths : /\ newer[p] \notin {Absent, older[p]}
                 /\ \/ ~HeaderOk[p][newer[p]]
                    \/ HighEntropy[newer[p]] /\ Suffix[p] \notin ArchiveExtensions}

(* The clean point never moves to a snapshot holding damage that the clean
   point before it did not hold, whatever is written to the share while it is
   read and whatever SUSPECT pulls, held pulls and restarts lie between. *)
CleanPointTakesNoDamage ==
  [][pin # 0 /\ pin' # pin =>
       NewDamage(manifests'[pin'].files, manifests[pin].files) = {}]_vars

(* The snapshot after a SUSPECT one is never pinned, CLEAN or not: the pull
   before it left Protect mode on, and nothing but another CLEAN pull lets go
   of it while the process lives. *)
SuspectHoldsTheNextPull ==
  pullPc = "pin" /\ restarts = 0 /\ Len(manifests) > 1 =>
    manifests[Len(manifests) - 1].health = CLEAN

(* A pull that Protect mode covered from its first step to its pin decision
   does not pin, whatever the monitor does in between. *)
HeldThroughoutKeepsPin == pullPc = "pin" => ~heldThroughout

(* When neither thread is between moving a witness and recomputing the
   verdict, the verdict is the design table's answer for the two witnesses.
   A rebuilt Vault is NORMAL until its monitor's first check. *)
VerdictFollowsWitnesses ==
  /\ "refresh" \notin {pullPc, monitorPc}
  /\ restarts = 0 \/ lastLiveness # None
  => verdict = CombinedVerdict(lastLiveness, latestHealth)

Pending == {a \in {pullAlert, monitorAlert} : a.n # 0}
Logged  == {alertLog[i] : i \in DOMAIN alertLog}

(* The alert log holds each verdict change at most once, whichever thread
   made it; only a crash loses one; and sorted by the moment of the change
   the records chain from verdict to verdict. *)
AlertsAreTheChanges ==
  /\ \A i, j \in DOMAIN alertLog : alertLog[i].n = alertLog[j].n => i = j
  /\ restarts = 0 => {a.n : a \in Logged \cup Pending} = 1..changes
  /\ restarts = 0 => \A a, b \in Logged \cup Pending :
                       b.n = a.n + 1 => b.previous = a.verdict

(* What makes the four properties of the clean point inductive: what pull()
   knows of its own snapshot and of the pin while it has still to decide, that
   the hold is a hold, and where the S7 witness stands in the history. *)
Newest == Len(manifests)

Deciding ==
  pullPc \in {"protect?", "pin"} =>
    /\ pin < Newest /\ manifests[Newest].health = CLEAN
    /\ pin # 0 => Assess(manifests[Newest].files, manifests[pin].files) = CLEAN

HoldIsAHold == heldThroughout => ProtectMode

WitnessIsTheNewest ==
  restarts = 0 =>
    /\ latestHealth = SUSPECT /\ pullPc # "refresh" => ProtectMode
    /\ pullPc \in {"idle", "reading", "refresh", "alert"} /\ Newest > 0
         => latestHealth = manifests[Newest].health
    /\ pullPc \in {"protect?", "pin", "witness"} =>
         /\ Newest > 0 /\ health = manifests[Newest].health
         /\ Newest > 1 => latestHealth = manifests[Newest - 1].health

CleanPointInv ==
  /\ PinIsClean /\ Deciding
  /\ HoldIsAHold /\ HeldThroughoutKeepsPin
  /\ WitnessIsTheNewest /\ SuspectHoldsTheNextPull

(* What the docstring of alerts() says of the file: "Every verdict change the
   Vault has recorded, oldest first". *)
AlertsOldestFirst ==
  \A i, j \in DOMAIN alertLog : i < j => alertLog[i].n < alertLog[j].n

(* What the docstring of protect_mode says: while it is on, even a CLEAN pull
   does not advance the pin. *)
ProtectModeHoldsThePin == [][ProtectMode => pin' = pin]_vars

MonitorOn == monitorPc # "off"

(* A Watcher that is killed for good, with the monitor running, ends in
   Protect mode for good: nothing the share, the pulls or a late reading of
   the old heartbeat does can hide the silence. *)
KilledWatcherIsNoticed ==
  <>[](~agent /\ MonitorOn) => <>[]ProtectMode

(* Protect mode lets go by itself: once the heartbeat stays fresh and the
   newest snapshot stays not SUSPECT, the verdict returns to NORMAL. *)
ProtectModeLetsGo ==
  <>[](heartbeat = "fresh" /\ MonitorOn /\ latestHealth # SUSPECT)
    => <>[](verdict = NORMAL)

(* The refinement: what pull() may do with the clean point. *)
Promise == INSTANCE VaultPromise WITH
  healths    <- [i \in DOMAIN manifests |-> manifests[i].health],
  cleanPoint <- pin,
  alarm      <- ProtectMode,
  offered    <- pullPc = "pin"

ImplementsPromise == Promise!Spec

=============================================================================
