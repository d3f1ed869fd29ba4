---------------------------- MODULE VaultProofs ----------------------------
(***************************************************************************)
(* Proofs about Vault, for every share, every instance of the health check *)
(* and every value of the bounds; and about the one-shot run over it       *)
(* (DemoRun, in the last part).                                            *)
(***************************************************************************)
EXTENDS DemoRun, FiniteSetTheorems, SequenceTheorems, TLAPS

(* What the health check hands back is a health. *)
LEMMA AssessIsHealth ==
  ASSUME NEW cur, NEW base
  PROVE  Assess(cur, base) \in Healths
BY DEF Assess, Healths

(* A copy judged CLEAN against another holds no damage the other did not. *)
LEMMA CleanMeansNoNewDamage ==
  ASSUME NEW cur \in Contents, NEW base \in Contents, Assess(cur, base) = CLEAN
  PROVE  NewDamage(cur, base) = {}
<1>1. base # NoBaseline
  BY BaselineAssumption DEF Contents
<1>2. Broken(cur, base) = {} /\ Scrambled(cur, base) = {}
  BY <1>1 DEF Assess, CLEAN, SUSPECT
<1>3. QED
  BY <1>2 DEF NewDamage, Broken, Scrambled, Rewritten, Present

(* The verdict table answers with one of the Vault's verdicts. *)
LEMMA CombinedVerdictIsVerdict ==
  ASSUME NEW liveness, NEW snapshotHealth
  PROVE  CombinedVerdict(liveness, snapshotHealth) \in Verdicts
BY DEF CombinedVerdict, Verdicts, NORMAL, SUSPICIOUS, INCIDENT

\* The empty share is a content of the share.
LEMMA NoFilesIsContents == NoFiles \in Contents
BY DEF NoFiles, Contents

\* "No alert pending" is one of the values an alert can take.
LEMMA NoAlertIsAlert == NoAlert \in Alerts
BY DEF NoAlert, Alerts, Verdicts

-----------------------------------------------------------------------------
(* Type correctness: no interleaving of the two threads, the server and
   restarts of the Vault takes a variable out of its type. *)
THEOREM TypeCorrect == Spec => []TypeOK
<1>1. ASSUME Init
      PROVE  TypeOK
  <2>1. manifests \in Seq(Manifests) /\ alertLog \in Seq(Alerts)
    BY <1>1 DEF Init
  <2>2. /\ share \in Contents /\ files \in Contents /\ toRead \subseteq Paths
        /\ pullAlert \in Alerts /\ monitorAlert \in Alerts
    BY <1>1, EnvironmentAssumption, NoFilesIsContents, NoAlertIsAlert DEF Init
  <2>3. /\ verdict \in Verdicts /\ previousVerdict \in Verdicts
        /\ health \in Healths /\ latestHealth \in Healths \cup {None}
    BY <1>1 DEF Init, Verdicts, Healths
  <2>4. agent \in BOOLEAN /\ heldThroughout \in BOOLEAN
    BY <1>1 DEF Init
  <2>5. QED
    BY <1>1, <2>1, <2>2, <2>3, <2>4 DEF Init, TypeOK
<1>2. ASSUME TypeOK, [Next]_vars
      PROVE  TypeOK'
  <2> USE <1>2 DEF TypeOK
  <2>1. CASE Rewrite
    <3>1. share' \in Contents
      BY <2>1, EnvironmentAssumption DEF Rewrite, Contents
    <3>2. QED
      BY <2>1, <3>1 DEF Rewrite, vaultVars, diskVars, verdictVars, pullVars, monitorVars
  <2>2. CASE Rename
    <3>1. share' \in Contents
      BY <2>2 DEF Rename, Contents, Present
    <3>2. QED
      BY <2>2, <3>1 DEF Rename, vaultVars, diskVars, verdictVars, pullVars, monitorVars
  <2>3. CASE StartAgent \/ Beat \/ KillAgent \/ HeartbeatAges
    <3>1. UNCHANGED vaultVars /\ UNCHANGED <<share, edits>>
      BY <2>3 DEF StartAgent, Beat, KillAgent, HeartbeatAges
    <3>2. heartbeat' \in {"missing", "fresh", "stale"} /\ starts' \in Nat /\ stalls' \in Nat
      BY <2>3 DEF StartAgent, Beat, KillAgent, HeartbeatAges
    <3>3. agent' \in BOOLEAN
      BY <2>3 DEF StartAgent, Beat, KillAgent, HeartbeatAges
    <3>4. QED
      BY <3>1, <3>2, <3>3 DEF vaultVars, diskVars, verdictVars, pullVars, monitorVars
  <2>4. CASE PullBegin
    BY <2>4, NoFilesIsContents
    DEF PullBegin, ProtectMode, Present, serverVars, diskVars, monitorVars
  <2>5. CASE PullReadFile
    <3>1. files' \in Contents
      BY <2>5 DEF PullReadFile, Contents
    <3>2. QED
      BY <2>5, <3>1 DEF PullReadFile, serverVars, diskVars, verdictVars, monitorVars
  <2>6. CASE PullRaises
    BY <2>6, NoFilesIsContents
    DEF PullRaises, serverVars, diskVars, verdictVars, monitorVars
  <2>7. CASE PullWriteManifest
    <3>1. health' \in Healths
      BY <2>7, AssessIsHealth DEF PullWriteManifest
    <3>2. manifests' \in Seq(Manifests)
      BY <2>7, AssessIsHealth DEF PullWriteManifest, Manifests
    <3>3. QED
      BY <2>7, <3>1, <3>2 DEF PullWriteManifest, serverVars, verdictVars, monitorVars
  <2>8. CASE PullReadProtectMode
    BY <2>8 DEF PullReadProtectMode, serverVars, diskVars, verdictVars, monitorVars
  <2>9. CASE PullWritePin
    BY <2>9 DEF PullWritePin, serverVars, verdictVars, monitorVars
  <2>10. CASE PullSetHealth
    BY <2>10, NoFilesIsContents
    DEF PullSetHealth, serverVars, diskVars, verdictVars, monitorVars
  <2>11. CASE PullRefresh
    <3>1. /\ verdict' \in Verdicts /\ previousVerdict' \in Verdicts
          /\ changes' \in Nat /\ pullAlert' \in Alerts
      BY <2>11, CombinedVerdictIsVerdict
      DEF PullRefresh, MoveVerdict, AlertFor, Alerts, verdictVars
    <3>2. heldThroughout' \in BOOLEAN
      BY <2>11 DEF PullRefresh, MoveVerdict, verdictVars
    <3>3. QED
      BY <2>11, <3>1, <3>2 DEF PullRefresh, serverVars, diskVars, monitorVars
  <2>12. CASE PullAppendAlert
    BY <2>12, NoAlertIsAlert
    DEF PullAppendAlert, serverVars, diskVars, verdictVars, monitorVars
  <2>13. CASE StartMonitor
    BY <2>13 DEF StartMonitor, serverVars, diskVars, verdictVars, pullVars
  <2>14. CASE MonitorCheck \/ MonitorRecord \/ MonitorWake
    <3>1. UNCHANGED <<serverVars, diskVars, alertLog, verdictVars, latestHealth,
                      pullVars, monitorAlert, restarts>>
      BY <2>14 DEF MonitorCheck, MonitorRecord, MonitorWake
    <3>2. /\ lastLiveness' \in {None, ALIVE, SILENT} /\ sample' \in {None, ALIVE, SILENT}
          /\ monitorPc' \in {"off", "check", "record", "refresh", "alert", "wait"}
      BY <2>14 DEF MonitorCheck, MonitorRecord, MonitorWake
    <3>3. QED
      BY <3>1, <3>2 DEF serverVars, diskVars, verdictVars, pullVars
  <2>15. CASE MonitorRefresh
    <3>1. /\ verdict' \in Verdicts /\ previousVerdict' \in Verdicts
          /\ changes' \in Nat /\ monitorAlert' \in Alerts
      BY <2>15, CombinedVerdictIsVerdict
      DEF MonitorRefresh, MoveVerdict, AlertFor, Alerts, verdictVars
    <3>2. heldThroughout' \in BOOLEAN
      BY <2>15 DEF MonitorRefresh, MoveVerdict, verdictVars
    <3>3. QED
      BY <2>15, <3>1, <3>2 DEF MonitorRefresh, serverVars, diskVars, pullVars
  <2>16. CASE MonitorAppendAlert
    BY <2>16, NoAlertIsAlert
    DEF MonitorAppendAlert, serverVars, diskVars, verdictVars, pullVars
  <2>17. CASE Restart
    <3>1. NewestSnapshotHealth \in Healths \cup {None}
      <4>1. CASE manifests = <<>>
        BY <4>1 DEF NewestSnapshotHealth
      <4>2. CASE manifests # <<>>
        <5>1. manifests[Len(manifests)] \in Manifests
          BY <4>2
        <5>2. QED
          BY <4>2, <5>1 DEF NewestSnapshotHealth, Manifests
      <4>3. QED
        BY <4>1, <4>2
    <3>2. verdict' \in Verdicts /\ previousVerdict' \in Verdicts /\ health' \in Healths
      BY <2>17 DEF Restart, Verdicts, Healths
    <3>3. heldThroughout' \in BOOLEAN
      BY <2>17 DEF Restart
    <3>4. restarts' \in Nat
      BY <2>17 DEF Restart
    <3>5. QED
      BY <2>17, <3>1, <3>2, <3>3, <3>4, NoFilesIsContents, NoAlertIsAlert
      DEF Restart, serverVars, diskVars
  <2>18. CASE UNCHANGED vars
    BY <2>18 DEF vars, serverVars, diskVars, verdictVars, pullVars, monitorVars
  <2>19. QED
    BY <1>2, <2>1, <2>2, <2>3, <2>4, <2>5, <2>6, <2>7, <2>8, <2>9, <2>10, <2>11,
       <2>12, <2>13, <2>14, <2>15, <2>16, <2>17, <2>18
    DEF Next, Server, PullStep, MonitorStep
<1>3. QED
  BY <1>1, <1>2, PTL DEF Spec

-----------------------------------------------------------------------------
(* A SUSPECT snapshot always reads as an alarm in the verdict table. *)
LEMMA SuspectIsAlarm ==
  ASSUME NEW liveness, NEW snapshotHealth, snapshotHealth = SUSPECT
  PROVE  CombinedVerdict(liveness, snapshotHealth) \in {SUSPICIOUS, INCIDENT}
BY DEF CombinedVerdict

(* The verdicts are three, so not NORMAL is Protect mode. *)
LEMMA AlarmIsProtect ==
  ASSUME verdict \in Verdicts
  PROVE  ProtectMode <=> verdict # NORMAL
BY DEF ProtectMode, Verdicts, NORMAL, SUSPICIOUS, INCIDENT

(* The variables the clean point's invariant reads. *)
cleanPointVars == <<manifests, pin, verdict, heldThroughout, latestHealth,
                    health, pullPc, restarts>>

\* A step that leaves pin, snapshots, verdict and the pull's progress alone keeps
\* what is known of the clean point.
LEMMA CleanPointFrame ==
  ASSUME CleanPointInv, UNCHANGED cleanPointVars
  PROVE  CleanPointInv'
BY DEF CleanPointInv, cleanPointVars, PinIsClean, Deciding, HoldIsAHold, Newest,
       HeldThroughoutKeepsPin, WitnessIsTheNewest, SuspectHoldsTheNextPull, ProtectMode

(* Recomputing the verdict, on either thread. *)
LEMMA RefreshKeepsCleanPoint ==
  ASSUME TypeOK, CleanPointInv,
         UNCHANGED <<manifests, pin, latestHealth, health, restarts>>,
         LET new == CombinedVerdict(lastLiveness, latestHealth)
         IN  \/ new = verdict /\ UNCHANGED verdictVars
             \/ new # verdict /\ MoveVerdict(new),
         \/ pullPc' = pullPc
         \/ pullPc = "refresh" /\ pullPc' \in {"idle", "alert"}
  PROVE  CleanPointInv'
<1> USE DEF TypeOK
<1>1. verdict' = CombinedVerdict(lastLiveness, latestHealth)
  BY DEF MoveVerdict, verdictVars
<1>2. verdict' \in Verdicts /\ (latestHealth = SUSPECT => ProtectMode')
  BY <1>1, CombinedVerdictIsVerdict, SuspectIsAlarm DEF ProtectMode
<1>3. heldThroughout' => heldThroughout /\ ProtectMode'
  <2>1. CASE UNCHANGED verdictVars
    BY <2>1 DEF verdictVars, CleanPointInv, HoldIsAHold, ProtectMode
  <2>2. CASE MoveVerdict(CombinedVerdict(lastLiveness, latestHealth))
    <3>1. heldThroughout' => heldThroughout /\ verdict' # NORMAL
      BY <2>2 DEF MoveVerdict
    <3>2. verdict' # NORMAL => ProtectMode'
      BY <1>2 DEF ProtectMode, Verdicts, NORMAL, SUSPICIOUS, INCIDENT
    <3>3. QED
      BY <3>1, <3>2
  <2>3. QED
    BY <2>1, <2>2
<1>4. PinIsClean' /\ Deciding' /\ SuspectHoldsTheNextPull'
  BY DEF CleanPointInv, PinIsClean, Deciding, SuspectHoldsTheNextPull, Newest
<1>5. HoldIsAHold' /\ HeldThroughoutKeepsPin'
  BY <1>3 DEF CleanPointInv, HoldIsAHold, HeldThroughoutKeepsPin
<1>6. WitnessIsTheNewest'
  BY <1>2 DEF CleanPointInv, WitnessIsTheNewest, Newest
<1>7. QED
  BY <1>4, <1>5, <1>6 DEF CleanPointInv

(* Recording a snapshot. *)
LEMMA WriteManifestKeepsCleanPoint ==
  ASSUME TypeOK, CleanPointInv, PullWriteManifest
  PROVE  CleanPointInv'
<1> USE DEF TypeOK
<1> DEFINE judged == Assess(files, Baseline)
           m == [health |-> judged, files |-> files]
<1>1. manifests' = Append(manifests, m) /\ Len(manifests) \in Nat
  BY DEF PullWriteManifest
<1>2. /\ Len(manifests') = Len(manifests) + 1
      /\ manifests'[Len(manifests) + 1] = m
      /\ \A i \in DOMAIN manifests : i \in DOMAIN manifests' /\ manifests'[i] = manifests[i]
  BY <1>1
<1>3. UNCHANGED <<pin, verdict, heldThroughout, latestHealth, restarts>>
  BY DEF PullWriteManifest, verdictVars
<1>4. PinIsClean' /\ (pin # 0 => pin \in DOMAIN manifests)
  BY <1>2, <1>3 DEF CleanPointInv, PinIsClean
<1>5. pin < Len(manifests')
  BY <1>2, <1>4
<1>6. health' = judged /\ m.health = judged /\ m.files = files
  BY DEF PullWriteManifest
<1>7. pullPc' = IF judged = CLEAN THEN "protect?" ELSE "witness"
  BY DEF PullWriteManifest
<1>8. Deciding'
  <2>1. pin # 0 => Baseline = manifests'[pin].files
    BY <1>2, <1>4 DEF Baseline
  <2>2. QED
    BY <1>2, <1>3, <1>5, <1>6, <1>7, <2>1 DEF Deciding, Newest
<1>9. HoldIsAHold' /\ HeldThroughoutKeepsPin' /\ SuspectHoldsTheNextPull'
  BY <1>3, <1>7
  DEF CleanPointInv, HoldIsAHold, HeldThroughoutKeepsPin, SuspectHoldsTheNextPull, ProtectMode
<1>10. WitnessIsTheNewest'
  <2>1. pullPc = "reading" /\ pullPc' \in {"protect?", "witness"}
    BY <1>7 DEF PullWriteManifest
  <2>2. restarts = 0 /\ Len(manifests) > 0 => latestHealth = manifests[Len(manifests)].health
    BY <2>1 DEF CleanPointInv, WitnessIsTheNewest, Newest
  <2>3. Len(manifests) > 0 => manifests'[Len(manifests)] = manifests[Len(manifests)]
    BY <1>2
  <2>4. restarts = 0 /\ latestHealth = SUSPECT => ProtectMode
    BY <2>1 DEF CleanPointInv, WitnessIsTheNewest
  <2>5. QED
    BY <1>2, <1>3, <1>6, <2>1, <2>2, <2>3, <2>4 DEF WitnessIsTheNewest, Newest, ProtectMode
<1>11. QED
  BY <1>4, <1>8, <1>9, <1>10 DEF CleanPointInv

(* No step of either thread, the server or a restart breaks the invariant. *)
LEMMA CleanPointStep ==
  ASSUME TypeOK, CleanPointInv, [Next]_vars
  PROVE  CleanPointInv'
<1> USE DEF TypeOK
<1>1. CASE Server \/ StartMonitor \/ MonitorCheck \/ MonitorRecord
           \/ MonitorAppendAlert \/ MonitorWake \/ PullReadFile \/ UNCHANGED vars
  <2>1. UNCHANGED cleanPointVars
    BY <1>1 DEF Server, Rewrite, Rename, StartAgent, Beat, KillAgent, HeartbeatAges,
       StartMonitor, MonitorCheck, MonitorRecord, MonitorAppendAlert, MonitorWake,
       PullReadFile, vars, vaultVars, diskVars, verdictVars, pullVars, cleanPointVars
  <2>2. QED
    BY <2>1, CleanPointFrame
<1>2. CASE PullBegin \/ PullRaises
  <2>1. UNCHANGED <<manifests, pin, verdict, latestHealth, health, restarts>>
    BY <1>2 DEF PullBegin, PullRaises, diskVars, verdictVars
  <2>2. pullPc \in {"idle", "reading"} /\ pullPc' \in {"idle", "reading"}
    BY <1>2 DEF PullBegin, PullRaises
  <2>3. HoldIsAHold'
    BY <1>2, <2>1
    DEF PullBegin, PullRaises, verdictVars, CleanPointInv, HoldIsAHold, ProtectMode
  <2>4. WitnessIsTheNewest'
    BY <2>1, <2>2 DEF CleanPointInv, WitnessIsTheNewest, Newest, ProtectMode
  <2>5. PinIsClean' /\ Deciding' /\ HeldThroughoutKeepsPin' /\ SuspectHoldsTheNextPull'
    BY <2>1, <2>2
    DEF CleanPointInv, PinIsClean, Deciding, HeldThroughoutKeepsPin, SuspectHoldsTheNextPull
  <2>6. QED
    BY <2>3, <2>4, <2>5 DEF CleanPointInv
<1>3. CASE PullWriteManifest
  BY <1>3, WriteManifestKeepsCleanPoint
<1>4. CASE PullReadProtectMode
  <2>1. UNCHANGED <<manifests, pin, verdict, heldThroughout, latestHealth, health, restarts>>
    BY <1>4 DEF PullReadProtectMode, diskVars, verdictVars
  <2>2. pullPc = "protect?" /\ pullPc' = IF ProtectMode THEN "witness" ELSE "pin"
    BY <1>4 DEF PullReadProtectMode
  <2>3. PinIsClean' /\ Deciding' /\ HoldIsAHold' /\ HeldThroughoutKeepsPin'
    BY <2>1, <2>2
    DEF CleanPointInv, PinIsClean, Deciding, Newest, HoldIsAHold, HeldThroughoutKeepsPin,
        ProtectMode
  <2>4. WitnessIsTheNewest'
    BY <2>1, <2>2 DEF CleanPointInv, WitnessIsTheNewest, Newest, ProtectMode
  <2>5. SuspectHoldsTheNextPull'
    <3>1. SUFFICES ASSUME pullPc' = "pin", restarts = 0, Len(manifests) > 1
                   PROVE  manifests[Len(manifests) - 1].health = CLEAN
      BY <2>1 DEF SuspectHoldsTheNextPull
    <3>2. latestHealth # SUSPECT /\ latestHealth = manifests[Len(manifests) - 1].health
      BY <2>2, <3>1 DEF CleanPointInv, WitnessIsTheNewest, Newest
    <3>3. manifests[Len(manifests) - 1] \in Manifests
      BY <3>1
    <3>4. QED
      BY <3>2, <3>3 DEF Manifests, Healths
  <2>6. QED
    BY <2>3, <2>4, <2>5 DEF CleanPointInv
<1>5. CASE PullWritePin
  <2>1. UNCHANGED <<manifests, verdict, heldThroughout, latestHealth, health, restarts>>
    BY <1>5 DEF PullWritePin, verdictVars
  <2>2. pullPc = "pin" /\ pullPc' = "witness" /\ pin' = Len(manifests)
    BY <1>5 DEF PullWritePin
  <2>3. PinIsClean'
    BY <2>1, <2>2 DEF CleanPointInv, PinIsClean, Deciding, Newest
  <2>4. WitnessIsTheNewest'
    BY <2>1, <2>2 DEF CleanPointInv, WitnessIsTheNewest, Newest, ProtectMode
  <2>5. Deciding' /\ HoldIsAHold' /\ HeldThroughoutKeepsPin' /\ SuspectHoldsTheNextPull'
    BY <2>1, <2>2
    DEF CleanPointInv, Deciding, HoldIsAHold, HeldThroughoutKeepsPin,
        SuspectHoldsTheNextPull, ProtectMode
  <2>6. QED
    BY <2>3, <2>4, <2>5 DEF CleanPointInv
<1>6. CASE PullSetHealth
  <2>1. UNCHANGED <<manifests, pin, verdict, heldThroughout, health, restarts>>
    BY <1>6 DEF PullSetHealth, diskVars, verdictVars
  <2>2. pullPc = "witness" /\ pullPc' = "refresh" /\ latestHealth' = health
    BY <1>6 DEF PullSetHealth
  <2>3. WitnessIsTheNewest'
    BY <2>1, <2>2 DEF CleanPointInv, WitnessIsTheNewest, Newest
  <2>4. /\ PinIsClean' /\ Deciding' /\ HoldIsAHold'
        /\ HeldThroughoutKeepsPin' /\ SuspectHoldsTheNextPull'
    BY <2>1, <2>2
    DEF CleanPointInv, PinIsClean, Deciding, HoldIsAHold, HeldThroughoutKeepsPin,
        SuspectHoldsTheNextPull, ProtectMode
  <2>5. QED
    BY <2>3, <2>4 DEF CleanPointInv
<1>7. CASE PullRefresh \/ MonitorRefresh
  <2>1. UNCHANGED <<manifests, pin, latestHealth, health, restarts>>
    BY <1>7 DEF PullRefresh, MonitorRefresh, diskVars, pullVars
  <2>2. LET new == CombinedVerdict(lastLiveness, latestHealth)
        IN  \/ new = verdict /\ UNCHANGED verdictVars
            \/ new # verdict /\ MoveVerdict(new)
    BY <1>7 DEF PullRefresh, MonitorRefresh
  <2>3. \/ pullPc' = pullPc
        \/ pullPc = "refresh" /\ pullPc' \in {"idle", "alert"}
    BY <1>7 DEF PullRefresh, MonitorRefresh, pullVars
  <2>4. QED
    BY <2>1, <2>2, <2>3, RefreshKeepsCleanPoint
<1>8. CASE PullAppendAlert
  <2>1. UNCHANGED <<manifests, pin, verdict, heldThroughout, latestHealth, health, restarts>>
    BY <1>8 DEF PullAppendAlert, diskVars, verdictVars
  <2>2. pullPc = "alert" /\ pullPc' = "idle"
    BY <1>8 DEF PullAppendAlert
  <2>3. QED
    BY <2>1, <2>2
    DEF CleanPointInv, PinIsClean, Deciding, HoldIsAHold, HeldThroughoutKeepsPin,
        WitnessIsTheNewest, SuspectHoldsTheNextPull, Newest, ProtectMode
<1>9. CASE Restart
  <2>1. UNCHANGED <<manifests, pin>> /\ restarts' # 0
    BY <1>9 DEF Restart, diskVars
  <2>2. pullPc' = "idle" /\ ~heldThroughout'
    BY <1>9 DEF Restart
  <2>3. QED
    BY <2>1, <2>2
    DEF CleanPointInv, PinIsClean, Deciding, HoldIsAHold, HeldThroughoutKeepsPin,
        WitnessIsTheNewest, SuspectHoldsTheNextPull
<1>10. QED
  BY <1>1, <1>2, <1>3, <1>4, <1>5, <1>6, <1>7, <1>8, <1>9
  DEF Next, PullStep, MonitorStep

(* The invariant of the clean point holds in every reachable state. *)
LEMMA CleanPointAlways == Spec => []CleanPointInv
<1>1. Init => CleanPointInv
  BY DEF Init, CleanPointInv, PinIsClean, Deciding, HoldIsAHold, Newest,
         HeldThroughoutKeepsPin, WitnessIsTheNewest, SuspectHoldsTheNextPull, SUSPECT, None
<1>2. TypeOK /\ CleanPointInv /\ [Next]_vars => CleanPointInv'
  BY CleanPointStep
<1>3. QED
  BY <1>1, <1>2, TypeCorrect, PTL DEF Spec

(* The clean point is always a CLEAN snapshot on disk, whatever interleaving
   of pull(), the monitor and restarts. *)
THEOREM PinAlwaysClean == Spec => []PinIsClean
BY CleanPointAlways, PTL DEF CleanPointInv

(* A snapshot that follows a SUSPECT one is never pinned, as long as the
   Vault's process lives. *)
THEOREM SuspectAlwaysHoldsTheNextPull == Spec => []SuspectHoldsTheNextPull
BY CleanPointAlways, PTL DEF CleanPointInv

(* Protect mode kept up from a pull's first step to its decision holds the
   pin: the gap between reading protect_mode and writing the pin cannot be
   reached with the alarm already raised and never cleared. *)
THEOREM HeldThroughoutAlwaysKeepsPin == Spec => []HeldThroughoutKeepsPin
BY CleanPointAlways, PTL DEF CleanPointInv

(* The pin moves in one place only. *)
LEMMA PinMovesOnlyInPull ==
  ASSUME [Next]_vars, pin' # pin
  PROVE  PullWritePin
BY DEF Next, Server, Rewrite, Rename, StartAgent, Beat, KillAgent, HeartbeatAges,
   PullBegin, PullStep, PullReadFile, PullRaises, PullWriteManifest, PullReadProtectMode,
   PullSetHealth, PullRefresh, PullAppendAlert, StartMonitor, MonitorStep, MonitorCheck,
   MonitorRecord, MonitorRefresh, MonitorAppendAlert, MonitorWake, Restart,
   vars, vaultVars, diskVars

(* No step moves the clean point from one snapshot to another that holds
   damage the first did not, for any share, any thresholds, any edits made
   while the share is read. *)
THEOREM CleanPointNeverTakesDamage == Spec => CleanPointTakesNoDamage
<1>1. ASSUME TypeOK, CleanPointInv, [Next]_vars, pin # 0, pin' # pin
      PROVE  NewDamage(manifests'[pin'].files, manifests[pin].files) = {}
  <2>1. /\ pullPc = "pin" /\ pin' = Len(manifests) /\ manifests' = manifests
    BY <1>1, PinMovesOnlyInPull DEF PullWritePin
  <2>2. /\ Len(manifests) \in DOMAIN manifests /\ pin \in DOMAIN manifests
        /\ Assess(manifests[Len(manifests)].files, manifests[pin].files) = CLEAN
    BY <1>1, <2>1 DEF TypeOK, CleanPointInv, Deciding, PinIsClean, Newest
  <2>3. manifests[Len(manifests)].files \in Contents /\ manifests[pin].files \in Contents
    <3>1. manifests[Len(manifests)] \in Manifests /\ manifests[pin] \in Manifests
      BY <1>1, <2>2 DEF TypeOK
    <3>2. QED
      BY <3>1 DEF Manifests
  <2>4. QED
    BY <2>1, <2>2, <2>3, CleanMeansNoNewDamage
<1>2. TypeOK /\ CleanPointInv /\ [Next]_vars
        => [pin # 0 /\ pin' # pin =>
              NewDamage(manifests'[pin'].files, manifests[pin].files) = {}]_vars
  BY <1>1
<1>3. QED
  BY <1>2, TypeCorrect, CleanPointAlways, PTL DEF Spec, CleanPointTakesNoDamage

-----------------------------------------------------------------------------
(* The variables VerdictFollowsWitnesses reads. *)
witnessVars == <<verdict, lastLiveness, latestHealth, pullPc, monitorPc, restarts>>

\* Every step keeps the verdict in step with the two witnesses.
LEMMA VerdictStep ==
  ASSUME TypeOK, VerdictFollowsWitnesses, [Next]_vars
  PROVE  VerdictFollowsWitnesses'
<1> USE DEF TypeOK
<1>1. CASE Server \/ UNCHANGED vars
  <2>1. UNCHANGED witnessVars
    BY <1>1 DEF Server, Rewrite, Rename, StartAgent, Beat, KillAgent, HeartbeatAges,
       vars, vaultVars, verdictVars, pullVars, monitorVars, witnessVars
  <2>2. QED
    BY <2>1 DEF witnessVars, VerdictFollowsWitnesses
<1>2. CASE \/ PullBegin \/ PullReadFile \/ PullRaises \/ PullWriteManifest
           \/ PullReadProtectMode \/ PullWritePin \/ PullAppendAlert
  <2>1. UNCHANGED <<verdict, lastLiveness, latestHealth, monitorPc, restarts>>
    BY <1>2 DEF PullBegin, PullReadFile, PullRaises, PullWriteManifest,
       PullReadProtectMode, PullWritePin, PullAppendAlert, verdictVars, monitorVars
  <2>2. pullPc # "refresh"
    BY <1>2 DEF PullBegin, PullReadFile, PullRaises, PullWriteManifest,
       PullReadProtectMode, PullWritePin, PullAppendAlert
  <2>3. QED
    BY <2>1, <2>2 DEF VerdictFollowsWitnesses
<1>3. CASE PullSetHealth
  BY <1>3 DEF PullSetHealth, VerdictFollowsWitnesses
<1>4. CASE StartMonitor \/ MonitorCheck \/ MonitorAppendAlert \/ MonitorWake
  <2>1. /\ UNCHANGED <<verdict, lastLiveness, latestHealth, pullPc, restarts>>
        /\ monitorPc # "refresh"
    BY <1>4 DEF StartMonitor, MonitorCheck, MonitorAppendAlert, MonitorWake,
       verdictVars, pullVars
  <2>2. QED
    BY <2>1 DEF VerdictFollowsWitnesses
<1>5. CASE MonitorRecord
  BY <1>5 DEF MonitorRecord, VerdictFollowsWitnesses
<1>6. CASE PullRefresh \/ MonitorRefresh
  <2>1. verdict' = CombinedVerdict(lastLiveness, latestHealth)
    BY <1>6 DEF PullRefresh, MonitorRefresh, MoveVerdict, verdictVars
  <2>2. UNCHANGED <<lastLiveness, latestHealth>>
    BY <1>6 DEF PullRefresh, MonitorRefresh
  <2>3. QED
    BY <2>1, <2>2 DEF VerdictFollowsWitnesses, CombinedVerdict
<1>7. CASE Restart
  BY <1>7 DEF Restart, VerdictFollowsWitnesses
<1>8. QED
  BY <1>1, <1>2, <1>3, <1>4, <1>5, <1>6, <1>7 DEF Next, PullStep, MonitorStep

(* Outside the instants between moving a witness and recomputing, the verdict
   is the table's answer, whichever thread moved the witness last: no refresh
   computed from old witnesses can overwrite a newer one. *)
THEOREM VerdictAlwaysFollowsWitnesses == Spec => []VerdictFollowsWitnesses
<1>1. Init => VerdictFollowsWitnesses
  BY DEF Init, VerdictFollowsWitnesses, CombinedVerdict, None, SILENT, SUSPECT
<1>2. TypeOK /\ VerdictFollowsWitnesses /\ [Next]_vars => VerdictFollowsWitnesses'
  BY VerdictStep
<1>3. QED
  BY <1>1, <1>2, TypeCorrect, PTL DEF Spec

-----------------------------------------------------------------------------
(* The refinement's view of the manifests: their healths, in order. *)
HealthsOf(m) == [i \in DOMAIN m |-> m[i].health]

\* Recording a snapshot appends its health to the history of healths.
LEMMA HealthsOfAppend ==
  ASSUME NEW m \in Seq(Manifests), NEW x \in Manifests
  PROVE  HealthsOf(Append(m, x)) = Append(HealthsOf(m), x.health)
<1>1. HealthsOf(m) \in Seq(Healths) /\ Len(HealthsOf(m)) = Len(m)
  <2>1. \A i \in 1..Len(m) : m[i].health \in Healths
    <3>1. \A i \in 1..Len(m) : m[i] \in Manifests
      OBVIOUS
    <3>2. QED
      BY <3>1 DEF Manifests
  <2>2. HealthsOf(m) = [i \in 1..Len(m) |-> m[i].health]
    BY DEF HealthsOf
  <2>3. QED
    BY <2>1, <2>2
<1>2. x.health \in Healths
  BY DEF Manifests
<1>3. DOMAIN Append(m, x) = 1..(Len(m) + 1)
  OBVIOUS
<1>4. DOMAIN Append(HealthsOf(m), x.health) = 1..(Len(m) + 1)
  BY <1>1, <1>2
<1>5. ASSUME NEW i \in 1..(Len(m) + 1)
      PROVE  Append(m, x)[i].health = Append(HealthsOf(m), x.health)[i]
  <2>1. CASE i = Len(m) + 1
    BY <1>1, <1>2, <2>1
  <2>2. CASE i # Len(m) + 1
    <3>1. i \in 1..Len(m)
      BY <2>2
    <3>2. Append(m, x)[i] = m[i] /\ Append(HealthsOf(m), x.health)[i] = HealthsOf(m)[i]
      BY <1>1, <1>2, <3>1
    <3>3. QED
      BY <3>1, <3>2 DEF HealthsOf
  <2>3. QED
    BY <2>1, <2>2
<1>6. HealthsOf(Append(m, x)) = [i \in 1..(Len(m) + 1) |-> Append(m, x)[i].health]
  BY <1>3 DEF HealthsOf
<1>7. Append(HealthsOf(m), x.health)
        = [i \in 1..(Len(m) + 1) |-> Append(HealthsOf(m), x.health)[i]]
  BY <1>1, <1>2, <1>4
<1>8. QED
  BY <1>5, <1>6, <1>7

\* The history of healths is as long as the list of snapshots.
LEMMA HealthsOfLength ==
  ASSUME NEW m \in Seq(Manifests)
  PROVE  /\ Len(HealthsOf(m)) = Len(m)
         /\ \A i \in DOMAIN m : HealthsOf(m)[i] = m[i].health
<1>1. HealthsOf(m) = [i \in 1..Len(m) |-> m[i].health]
  BY DEF HealthsOf
<1>2. QED
  BY <1>1

(* The abstract state is a function of these four. *)
promiseVars == <<manifests, pin, verdict, pullPc>>

\* Every step of the Vault is a step of the promise, or a stutter.
LEMMA PromiseStep ==
  ASSUME TypeOK, TypeOK', CleanPointInv, [Next]_vars
  PROVE  [Promise!Next]_(Promise!vars)
<1> USE DEF TypeOK
<1>1. ASSUME UNCHANGED <<manifests, pin>>, ProtectMode' = ProtectMode,
             (pullPc' = "pin") = (pullPc = "pin")
      PROVE  UNCHANGED Promise!vars
  BY <1>1 DEF Promise!vars
<1>2. CASE \/ Server \/ StartMonitor \/ MonitorCheck \/ MonitorRecord
           \/ MonitorAppendAlert \/ MonitorWake \/ UNCHANGED vars
  <2>1. UNCHANGED promiseVars
    BY <1>2 DEF Server, Rewrite, Rename, StartAgent, Beat, KillAgent, HeartbeatAges,
       StartMonitor, MonitorCheck, MonitorRecord, MonitorAppendAlert, MonitorWake,
       vars, vaultVars, diskVars, verdictVars, pullVars, promiseVars
  <2>2. QED
    BY <1>1, <2>1 DEF promiseVars, ProtectMode
<1>3. CASE \/ PullBegin \/ PullReadFile \/ PullRaises \/ PullSetHealth \/ PullAppendAlert
  <2>1. UNCHANGED <<manifests, pin, verdict>>
    BY <1>3 DEF PullBegin, PullReadFile, PullRaises, PullSetHealth, PullAppendAlert,
       diskVars, verdictVars
  <2>2. pullPc # "pin" /\ pullPc' # "pin"
    BY <1>3 DEF PullBegin, PullReadFile, PullRaises, PullSetHealth, PullAppendAlert
  <2>3. QED
    BY <1>1, <2>1, <2>2 DEF ProtectMode
<1>4. CASE PullWriteManifest
  <2> DEFINE judged == Assess(files, Baseline)
             x == [health |-> judged, files |-> files]
  <2>1. x \in Manifests
    BY AssessIsHealth DEF Manifests
  <2>2. /\ manifests' = Append(manifests, x) /\ UNCHANGED <<pin, verdict>>
        /\ pullPc = "reading" /\ pullPc' # "pin"
    BY <1>4 DEF PullWriteManifest, verdictVars
  <2>3. HealthsOf(manifests)' = Append(HealthsOf(manifests), judged)
    BY <2>1, <2>2, HealthsOfAppend
  <2>4. judged \in {"CLEAN", "SUSPECT"}
    BY AssessIsHealth DEF Healths, CLEAN, SUSPECT
  <2>5. Promise!Record
    BY <2>2, <2>3, <2>4 DEF Promise!Record, HealthsOf, ProtectMode
  <2>6. QED
    BY <2>5 DEF Promise!Next
<1>5. CASE PullReadProtectMode
  <2>1. UNCHANGED <<manifests, pin, verdict>>
    BY <1>5 DEF PullReadProtectMode, diskVars, verdictVars
  <2>2. pullPc = "protect?" /\ pullPc' = IF ProtectMode THEN "witness" ELSE "pin"
    BY <1>5 DEF PullReadProtectMode
  <2>3. CASE ProtectMode
    BY <1>1, <2>1, <2>2, <2>3 DEF ProtectMode
  <2>4. CASE ~ProtectMode
    <3>1. /\ pin < Len(manifests) /\ manifests[Len(manifests)].health = CLEAN
      BY <2>2 DEF CleanPointInv, Deciding, Newest
    <3>2. /\ Len(HealthsOf(manifests)) = Len(manifests)
          /\ HealthsOf(manifests)[Len(manifests)] = "CLEAN"
      BY <3>1, HealthsOfLength DEF CLEAN
    <3>3. Promise!Offer
      BY <2>1, <2>2, <2>4, <3>1, <3>2 DEF Promise!Offer, HealthsOf, ProtectMode
    <3>4. QED
      BY <3>3 DEF Promise!Next
  <2>5. QED
    BY <2>3, <2>4
<1>6. CASE PullWritePin
  <2>1. /\ UNCHANGED <<manifests, verdict>> /\ pin' = Len(manifests)
        /\ pullPc = "pin" /\ pullPc' # "pin"
    BY <1>6 DEF PullWritePin, verdictVars
  <2>2. Promise!Advance
    BY <2>1, HealthsOfLength DEF Promise!Advance, HealthsOf, ProtectMode
  <2>3. QED
    BY <2>2 DEF Promise!Next
<1>7. CASE PullRefresh \/ MonitorRefresh
  <2>1. UNCHANGED <<manifests, pin>> /\ (pullPc' = "pin") = (pullPc = "pin")
    BY <1>7 DEF PullRefresh, MonitorRefresh, diskVars, pullVars
  <2>2. CASE ProtectMode' = ProtectMode
    BY <1>1, <2>1, <2>2
  <2>3. CASE ProtectMode' # ProtectMode
    <3>1. ProtectMode' = ~ProtectMode
      BY <2>3 DEF ProtectMode
    <3>2. Promise!RaiseOrClear
      BY <2>1, <3>1 DEF Promise!RaiseOrClear
    <3>3. QED
      BY <3>2 DEF Promise!Next
  <2>4. QED
    BY <2>2, <2>3
<1>8. CASE Restart
  <2>1. UNCHANGED <<manifests, pin>> /\ ~ProtectMode' /\ pullPc' # "pin"
    BY <1>8 DEF Restart, diskVars, ProtectMode, NORMAL, SUSPICIOUS, INCIDENT
  <2>2. Promise!Rebuild
    BY <2>1 DEF Promise!Rebuild
  <2>3. QED
    BY <2>2 DEF Promise!Next
<1>9. QED
  BY <1>2, <1>3, <1>4, <1>5, <1>6, <1>7, <1>8 DEF Next, PullStep, MonitorStep

(* The threaded Vault implements its promise: the clean point is only ever
   moved to the newest snapshot, only when it is CLEAN, and only after a
   moment with no alarm since that snapshot was recorded. *)
THEOREM VaultKeepsItsPromise == Spec => ImplementsPromise
<1>1. ASSUME Init
      PROVE  Promise!Init
  <2>1. manifests = <<>> /\ pin = 0 /\ verdict = NORMAL /\ pullPc = "idle"
    BY <1>1 DEF Init
  <2>2. [i \in DOMAIN manifests |-> manifests[i].health] = <<>>
    BY <2>1
  <2>3. ~ProtectMode
    BY <2>1 DEF ProtectMode, NORMAL, SUSPICIOUS, INCIDENT
  <2>4. QED
    BY <2>1, <2>2, <2>3 DEF Promise!Init
<1>2. TypeOK /\ TypeOK' /\ CleanPointInv /\ [Next]_vars => [Promise!Next]_(Promise!vars)
  BY PromiseStep
<1>3. QED
  BY <1>1, <1>2, TypeCorrect, CleanPointAlways, PTL DEF Spec, ImplementsPromise, Promise!Spec

-----------------------------------------------------------------------------
(* The alert log.  A record is in the log, or still in the hands of the    *)
(* thread that moved the verdict, and never in both.                       *)
Records == Logged \cup Pending

\* Where records are, and that their numbers are apart.
AlertsApart ==
  /\ \A i, j \in DOMAIN alertLog : alertLog[i].n = alertLog[j].n => i = j
  /\ \A a \in Logged, b \in Pending : a.n # b.n
  /\ pullAlert.n = monitorAlert.n => pullAlert.n = 0
  /\ pullPc = "alert" <=> pullAlert.n # 0
  /\ monitorPc = "alert" <=> monitorAlert.n # 0

\* What they say together, while no crash has taken one.
AlertsChain ==
  /\ \A a \in Records : a.n \in 1 .. changes
  /\ restarts = 0 =>
       /\ \A n \in 1 .. changes : \E a \in Records : a.n = n
       /\ \A a, b \in Records : b.n = a.n + 1 => b.previous = a.verdict
       /\ \A a \in Records : a.n = changes => a.verdict = verdict

AlertsInv == AlertsApart /\ AlertsChain

\* A record that a thread writes out is in the log from then on, and nothing
\* else is.
LEMMA LogGrows ==
  ASSUME TypeOK, NEW a \in Alerts, alertLog' = Append(alertLog, a)
  PROVE  /\ Logged' = Logged \cup {a}
         /\ DOMAIN alertLog' = 1 .. Len(alertLog) + 1 /\ DOMAIN alertLog = 1 .. Len(alertLog)
         /\ Len(alertLog) \in Nat
         /\ alertLog'[Len(alertLog) + 1] = a
         /\ \A i \in 1 .. Len(alertLog) : alertLog'[i] = alertLog[i]
<1>1. alertLog \in Seq(Alerts) /\ Len(alertLog) \in Nat
  BY DEF TypeOK
<1>2. /\ DOMAIN alertLog' = 1 .. Len(alertLog) + 1 /\ DOMAIN alertLog = 1 .. Len(alertLog)
      /\ alertLog'[Len(alertLog) + 1] = a
      /\ \A i \in 1 .. Len(alertLog) : alertLog'[i] = alertLog[i]
  BY <1>1
<1>3. 1 .. Len(alertLog) + 1 = (1 .. Len(alertLog)) \cup {Len(alertLog) + 1}
  BY <1>1
<1>4. Logged' = {alertLog'[i] : i \in 1 .. Len(alertLog)} \cup {alertLog'[Len(alertLog) + 1]}
  BY <1>2, <1>3, Zenon DEF Logged
<1>5. {alertLog'[i] : i \in 1 .. Len(alertLog)} = Logged
  BY <1>2 DEF Logged
<1> QED BY <1>1, <1>2, <1>4, <1>5

\* Writing a record out moves it from a thread's hands to the log.
LEMMA RecordMoves ==
  ASSUME TypeOK, AlertsInv, UNCHANGED <<verdict, changes, restarts>>,
         NEW a \in Alerts, a.n # 0, alertLog' = Append(alertLog, a),
         \/ /\ a = pullAlert /\ pullAlert' = NoAlert /\ pullPc = "alert" /\ pullPc' # "alert"
            /\ UNCHANGED <<monitorAlert, monitorPc>>
         \/ /\ a = monitorAlert /\ monitorAlert' = NoAlert
            /\ monitorPc = "alert" /\ monitorPc' # "alert"
            /\ UNCHANGED <<pullAlert, pullPc>>
  PROVE  AlertsInv'
<1> USE DEF AlertsApart, Pending
<1>1. NoAlert.n = 0
  BY DEF NoAlert
<1>2. a \in Pending /\ Pending' = Pending \ {a} /\ \A b \in Pending' : b.n # a.n
  BY <1>1 DEF AlertsInv
<1>3. Logged' = Logged \cup {a}
  BY LogGrows
<1>4. Records' = Records
  BY <1>2, <1>3 DEF Records
<1>5. AlertsChain'
  BY <1>4 DEF AlertsInv, AlertsChain
<1>6. \A i \in DOMAIN alertLog : alertLog[i].n # a.n
  BY <1>2 DEF AlertsInv, Logged
<1>7. ASSUME NEW i \in DOMAIN alertLog', NEW j \in DOMAIN alertLog',
             alertLog'[i].n = alertLog'[j].n
      PROVE  i = j
  BY <1>6, <1>7, LogGrows DEF AlertsInv
<1>8. \A c \in Logged', b \in Pending' : c.n # b.n
  BY <1>2, <1>3 DEF AlertsInv
<1>9. /\ pullAlert'.n = monitorAlert'.n => pullAlert'.n = 0
      /\ pullPc' = "alert" <=> pullAlert'.n # 0
      /\ monitorPc' = "alert" <=> monitorAlert'.n # 0
  BY <1>1 DEF AlertsInv
<1> QED BY <1>5, <1>7, <1>8, <1>9 DEF AlertsInv

\* A change of the verdict leaves its record with the thread that made it.
LEMMA RecordIsMade ==
  ASSUME TypeOK, AlertsInv, NEW new \in Verdicts, verdict' = new, changes' = changes + 1,
         UNCHANGED <<alertLog, restarts>>,
         \/ /\ pullAlert' = AlertFor(new) /\ pullPc # "alert" /\ pullPc' = "alert"
            /\ UNCHANGED <<monitorAlert, monitorPc>>
         \/ /\ monitorAlert' = AlertFor(new) /\ monitorPc # "alert" /\ monitorPc' = "alert"
            /\ UNCHANGED <<pullAlert, pullPc>>
  PROVE  AlertsInv'
<1> DEFINE r == AlertFor(new)
<1>1. r.n = changes + 1 /\ r.verdict = new /\ r.previous = verdict /\ changes \in Nat
  BY DEF AlertFor, TypeOK
<1>2. Logged' = Logged
  BY DEF Logged
<1> HIDE DEF r
<1>3. Pending' = Pending \cup {r}
  BY <1>1 DEF Pending, AlertsInv, AlertsApart, r
<1>4. Records' = Records \cup {r} /\ \A a \in Records : a.n \in 1 .. changes
  BY <1>2, <1>3 DEF Records, AlertsInv, AlertsChain
<1>5. \A a \in Records : a.n \in Nat /\ a.n # r.n /\ a.n <= changes
  BY <1>1, <1>4
<1>6. AlertsChain'
  <2>1. \A a \in Records' : a.n \in 1 .. changes'
    BY <1>1, <1>4
  <2>2. ASSUME restarts = 0
        PROVE  \A n \in 1 .. changes' : \E a \in Records' : a.n = n
    <3>1. ASSUME NEW n \in 1 .. changes'
          PROVE  n \in 1 .. changes \/ n = r.n
      BY <1>1
    <3> QED BY <3>1, <2>2, <1>4 DEF AlertsInv, AlertsChain
  <2>3. ASSUME restarts = 0, NEW a \in Records', NEW b \in Records', b.n = a.n + 1
        PROVE  b.previous = a.verdict
    <3>1. CASE b = r
      <4>1. a # r /\ a \in Records /\ a.n = changes
        BY <1>1, <1>4, <1>5, <2>3, <3>1
      <4> QED BY <4>1, <3>1, <1>1, <2>3 DEF AlertsInv, AlertsChain
    <3>2. CASE b # r
      <4>1. a # r /\ a \in Records /\ b \in Records
        BY <1>1, <1>4, <1>5, <2>3, <3>2
      <4> QED BY <4>1, <2>3 DEF AlertsInv, AlertsChain
    <3> QED BY <3>1, <3>2
  <2>4. ASSUME restarts = 0, NEW a \in Records', a.n = changes'
        PROVE  a.verdict = verdict'
    BY <1>1, <1>4, <1>5, <2>4
  <2> QED BY <2>1, <2>2, <2>3, <2>4 DEF AlertsChain
<1>7. \A a \in Logged', b \in Pending' : a.n # b.n
  BY <1>2, <1>3, <1>5 DEF AlertsInv, AlertsApart, Records
<1>8. pullAlert'.n = monitorAlert'.n => pullAlert'.n = 0
  <2>1. (pullAlert.n # 0 => pullAlert \in Records) /\ (monitorAlert.n # 0 => monitorAlert \in Records)
    BY DEF Records, Pending
  <2>2. r.n # 0
    BY <1>1
  <2> QED BY <1>5, <2>1, <2>2 DEF AlertsInv, AlertsApart, r
<1>9. /\ pullPc' = "alert" <=> pullAlert'.n # 0
      /\ monitorPc' = "alert" <=> monitorAlert'.n # 0
  BY <1>1 DEF AlertsInv, AlertsApart, r
<1>10. AlertsApart'
  BY <1>7, <1>8, <1>9 DEF AlertsApart, AlertsInv
<1> QED BY <1>6, <1>10 DEF AlertsInv

\* No other step touches a record, and a crash only loses some.
LEMMA AlertsStep ==
  ASSUME TypeOK, AlertsInv, [Next]_vars
  PROVE  AlertsInv'
<1> DEFINE elsewhere == /\ UNCHANGED <<alertLog, pullAlert, monitorAlert, verdict, changes, restarts>>
                        /\ pullPc # "alert" <=> pullPc' # "alert"
                        /\ monitorPc # "alert" <=> monitorPc' # "alert"
<1>a. ASSUME elsewhere PROVE AlertsInv'
  BY <1>a DEF AlertsInv, AlertsApart, AlertsChain, Records, Logged, Pending
<1>1. CASE Server \/ UNCHANGED vars
  <2>1. elsewhere
    BY <1>1 DEF Server, Rewrite, Rename, StartAgent, Beat, KillAgent, HeartbeatAges,
       vars, vaultVars, verdictVars, pullVars, monitorVars
  <2> QED BY <2>1, <1>a
<1>2. CASE \/ PullBegin \/ PullReadFile \/ PullRaises \/ PullWriteManifest
           \/ PullReadProtectMode \/ PullWritePin \/ PullSetHealth
  <2>1. elsewhere
    BY <1>2 DEF PullBegin, PullReadFile, PullRaises, PullWriteManifest,
       PullReadProtectMode, PullWritePin, PullSetHealth, verdictVars, monitorVars
  <2> QED BY <2>1, <1>a
<1>3. CASE StartMonitor \/ MonitorCheck \/ MonitorRecord \/ MonitorWake
  <2>1. elsewhere
    BY <1>3 DEF StartMonitor, MonitorCheck, MonitorRecord, MonitorWake, verdictVars, pullVars
  <2> QED BY <2>1, <1>a
<1>4. CASE PullRefresh \/ MonitorRefresh
  <2> DEFINE new == CombinedVerdict(lastLiveness, latestHealth)
  <2>1. new \in Verdicts
    BY CombinedVerdictIsVerdict
  <2>2. CASE new = verdict
    <3>1. elsewhere
      BY <1>4, <2>2 DEF PullRefresh, MonitorRefresh, verdictVars, pullVars, monitorVars
    <3> QED BY <3>1, <1>a
  <2>3. CASE new # verdict
    <3>1. /\ verdict' = new /\ changes' = changes + 1 /\ UNCHANGED <<alertLog, restarts>>
          /\ \/ /\ pullAlert' = AlertFor(new) /\ pullPc # "alert" /\ pullPc' = "alert"
                /\ UNCHANGED <<monitorAlert, monitorPc>>
             \/ /\ monitorAlert' = AlertFor(new) /\ monitorPc # "alert" /\ monitorPc' = "alert"
                /\ UNCHANGED <<pullAlert, pullPc>>
      BY <1>4, <2>3 DEF PullRefresh, MonitorRefresh, MoveVerdict, pullVars, monitorVars
    <3> HIDE DEF new
    <3> QED BY <2>1, <3>1, RecordIsMade
  <2> QED BY <2>2, <2>3
<1>5. CASE PullAppendAlert
  <2>1. pullAlert \in Alerts /\ pullAlert.n # 0
    BY <1>5 DEF PullAppendAlert, TypeOK, AlertsInv, AlertsApart
  <2> QED BY <1>5, <2>1, RecordMoves DEF PullAppendAlert, verdictVars, monitorVars
<1>6. CASE MonitorAppendAlert
  <2>1. monitorAlert \in Alerts /\ monitorAlert.n # 0
    BY <1>6 DEF MonitorAppendAlert, TypeOK, AlertsInv, AlertsApart
  <2> QED BY <1>6, <2>1, RecordMoves DEF MonitorAppendAlert, verdictVars, pullVars
<1>7. CASE Restart
  <2>1. /\ alertLog' = alertLog /\ changes' = changes /\ restarts' # 0
        /\ pullAlert' = NoAlert /\ monitorAlert' = NoAlert
        /\ pullPc' # "alert" /\ monitorPc' # "alert"
    BY <1>7 DEF Restart, TypeOK
  <2>2. Logged' = Logged /\ Pending' = {} /\ NoAlert.n = 0
    BY <2>1 DEF Logged, Pending, NoAlert
  <2> QED BY <2>1, <2>2 DEF AlertsInv, AlertsApart, AlertsChain, Records
<1> QED BY <1>1, <1>2, <1>3, <1>4, <1>5, <1>6, <1>7 DEF Next, PullStep, MonitorStep

(* Every verdict change is in the log once, or in the hands of the thread that
   made it, whichever thread that was and whichever writes first; a crash loses
   records and doubles none. *)
THEOREM AlertsAreAlwaysTheChanges == Spec => []AlertsAreTheChanges
<1>1. Init => AlertsInv
  <2> SUFFICES ASSUME Init PROVE AlertsInv
    OBVIOUS
  <2>1. Logged = {} /\ Pending = {} /\ changes = 0 /\ alertLog = <<>>
    BY DEF Init, Logged, Pending, NoAlert
  <2>2. pullAlert.n = 0 /\ monitorAlert.n = 0
    BY DEF Init, NoAlert
  <2> QED BY <2>1, <2>2 DEF Init, AlertsInv, AlertsApart, AlertsChain, Records
<1>2. TypeOK /\ AlertsInv => AlertsAreTheChanges
  <2> SUFFICES ASSUME TypeOK, AlertsInv PROVE AlertsAreTheChanges
    OBVIOUS
  <2>1. ASSUME restarts = 0 PROVE {a.n : a \in Records} = 1 .. changes
    BY <2>1 DEF AlertsInv, AlertsChain
  <2> QED BY <2>1 DEF AlertsInv, AlertsApart, AlertsChain, AlertsAreTheChanges, Records
<1>3. TypeOK /\ AlertsInv /\ [Next]_vars => AlertsInv'
  BY AlertsStep
<1> QED BY <1>1, <1>2, <1>3, TypeCorrect, PTL DEF Spec
-----------------------------------------------------------------------------
(* The one-shot run over that Vault.                                       *)

\* Nothing in it is the simulator's.
Untouched(copy) == \A p \in Paths : copy[p] # Cipher

Quietly == step \in {"agent", "monitor", "day", "dayPull"}
Striking == step \in {"strike", "await", "look"}
Afterwards == step \in {"lastPull", "finally", "report", "over"}

\* A pull that has begun and not yet written its manifest.
UnderWay == IF pullPc = "reading" THEN 1 ELSE 0

\* What the share and the pull hold, and where a pull may be at all.
PullsInv ==
  /\ share \in Contents /\ files \in Contents /\ toRead \subseteq Paths
  /\ manifests \in Seq(Manifests)
  /\ day \in Nat
  /\ Quietly \/ Striking \/ Afterwards
  /\ pullPc # "idle" => step \in {"dayPull", "lastPull"}
  /\ Quietly => Untouched(share) /\ Untouched(files)

\* There is no more than one copy for a quiet day until the last pull, and none
\* of them holds anything of the simulator's; the clean point is one of the copies.
CopiesInv ==
  /\ pin \in 0 .. Len(manifests)
  /\ day <= QuietDays /\ (step = "day" => day < QuietDays)
  /\ step \in {"agent", "monitor"} => day = 0
  /\ Quietly => Len(manifests) + UnderWay <= day
  /\ Striking => Len(manifests) <= QuietDays
  /\ Quietly \/ Striking =>
       \A n \in 1 .. Len(manifests) : Untouched(manifests[n].files)

\* The clean point the run saw before its last pull.
SeenInv ==
  /\ pinBefore \in 0 .. Len(manifests) /\ pinBefore <= QuietDays
  /\ pinBefore > 0 => Untouched(manifests[pinBefore].files)
  /\ restored = pinAfter
  /\ step \in {"finally", "report", "over"} /\ restored = 0 => raised
  /\ passed => step = "over" /\ ~raised /\ pinBefore = pinAfter

RunInv == PullsInv /\ CopiesInv /\ SeenInv

-----------------------------------------------------------------------------
(* The pulls.                                                              *)

\* Where the Vault writes, and the run reads.
vaultSide == <<share, files, toRead, manifests, pin, pullPc>>

\* The Vault's other steps, and the monitor's.
LEMMA BesideKeepsPulls ==
  ASSUME RunInv, UNCHANGED <<share, manifests, pin, runVars>>,
         files' \in {files, NoFiles}, toRead' \in {toRead, {}},
         pullPc' = pullPc \/ (pullPc # "idle" /\ pullPc' # "reading")
  PROVE  RunInv'
<1>1. NoFiles \in Contents /\ Untouched(NoFiles)
  BY DemoAssumption, VersionsAssumption, PathsAssumption
  DEF NoFiles, Contents, Untouched
<1>2. files' \in Contents /\ (Quietly => Untouched(files'))
  BY <1>1 DEF RunInv, PullsInv
<1>3. UNCHANGED <<step, day, pinBefore, pinAfter, restored, raised, passed>>
  BY DEF runVars, told
<1>4. Len(manifests) \in Nat
  BY LenProperties DEF RunInv, PullsInv
<1>5. Quietly => Len(manifests) + UnderWay' <= day
  BY <1>4 DEF RunInv, PullsInv, CopiesInv, UnderWay
<1>6. PullsInv'
  BY <1>2, <1>3 DEF RunInv, PullsInv, Quietly, Striking, Afterwards, Untouched
<1>7. CopiesInv'
  BY <1>3, <1>5 DEF RunInv, CopiesInv, Quietly, Striking, Untouched
<1>8. SeenInv'
  BY <1>3 DEF RunInv, SeenInv, Untouched
<1> QED BY <1>6, <1>7, <1>8 DEF RunInv

\* A pull puts what the share holds into its copy.
LEMMA ReadingKeepsPulls ==
  ASSUME RunInv, PullReadFile, UNCHANGED runVars
  PROVE  RunInv'
<1>1. UNCHANGED <<step, day, pinBefore, pinAfter, restored, raised, passed>>
  BY DEF runVars, told
<1>2. UNCHANGED <<share, manifests, pin, pullPc>> /\ toRead' \subseteq toRead
      /\ files' = [files EXCEPT ![NextToRead] = share[NextToRead]]
  BY DEF PullReadFile, serverVars, diskVars
<1>3. NextToRead \in Paths => share[NextToRead] \in Versions \cup {Absent}
  BY DEF RunInv, PullsInv, Contents
<1>4. files' \in Contents
  BY <1>2, <1>3 DEF RunInv, PullsInv, Contents
<1>5. Quietly => Untouched(files')
  BY <1>2 DEF RunInv, PullsInv, Untouched, Contents
<1>6. PullsInv'
  BY <1>1, <1>2, <1>4, <1>5 DEF RunInv, PullsInv, Quietly, Striking, Afterwards, Untouched
<1>7. CopiesInv' /\ SeenInv'
  BY <1>1, <1>2
  DEF RunInv, CopiesInv, SeenInv, Quietly, Striking, Untouched, UnderWay
<1> QED BY <1>6, <1>7 DEF RunInv

\* One more copy, behind the others.
LEMMA WritingKeepsPulls ==
  ASSUME RunInv, PullWriteManifest, UNCHANGED runVars
  PROVE  RunInv'
<1>1. UNCHANGED <<step, day, pinBefore, pinAfter, restored, raised, passed>>
  BY DEF runVars, told
<1>2. PICK judged : judged = Assess(files, Baseline)
  OBVIOUS
<1>3. PICK m : m = [health |-> judged, files |-> files]
  OBVIOUS
<1>4. /\ UNCHANGED <<share, pin, files, toRead>> /\ pullPc = "reading"
      /\ manifests' = Append(manifests, m) /\ pullPc' \in {"protect?", "witness"}
  BY <1>2, <1>3 DEF PullWriteManifest, serverVars
<1>5. m \in Manifests /\ m.files = files
  <2>1. judged \in Healths
    BY <1>2 DEF Assess, Healths
  <2> QED BY <1>3, <2>1 DEF Manifests, RunInv, PullsInv
<1>6. PICK n : n = Len(manifests)
  OBVIOUS
<1>7. /\ manifests' \in Seq(Manifests) /\ Len(manifests') = n + 1
      /\ manifests'[n + 1] = m /\ \A i \in 1 .. n : manifests'[i] = manifests[i]
  BY <1>4, <1>5, <1>6, AppendProperties DEF RunInv, PullsInv
<1>8. n \in Nat /\ pin \in 0 .. n /\ pinBefore \in 0 .. n /\ pinBefore <= QuietDays
      /\ QuietDays \in Nat
  BY <1>6, LenProperties, DemoAssumption DEF RunInv, PullsInv, CopiesInv, SeenInv
<1>9. step \in {"dayPull", "lastPull"}
  BY <1>4 DEF RunInv, PullsInv
<1>10. PullsInv'
  BY <1>1, <1>4, <1>7, <1>9
  DEF RunInv, PullsInv, Quietly, Striking, Afterwards, Untouched
<1>11. step = "dayPull" => n + 1 <= day /\ \A i \in 1 .. n + 1 : Untouched(manifests'[i].files)
  <2>1. ASSUME NEW i \in 1 .. n + 1 PROVE i \in 1 .. n \/ i = n + 1
    BY <1>8
  <2>2. step = "dayPull" => n + 1 <= day
    BY <1>4, <1>6 DEF RunInv, CopiesInv, UnderWay, Quietly
  <2>3. step = "dayPull" => Untouched(files)
                            /\ \A i \in 1 .. n : Untouched(manifests[i].files)
    BY <1>6 DEF RunInv, PullsInv, CopiesInv, Quietly
  <2> QED BY <1>5, <1>7, <2>1, <2>2, <2>3
<1>12. pin \in 0 .. n + 1 /\ pinBefore \in 0 .. n + 1
  BY <1>8
<1>13. step = "dayPull" => n + 1 + UnderWay' <= day
  <2>1. UnderWay' = 0
    BY <1>4 DEF UnderWay
  <2>2. n + 1 \in Nat /\ n + 1 + 0 = n + 1
    BY <1>8
  <2> QED BY <1>11, <2>1, <2>2
<1>14. CopiesInv'
  BY <1>1, <1>4, <1>7, <1>9, <1>11, <1>12, <1>13
  DEF RunInv, CopiesInv, Quietly, Striking, Untouched
<1>15. pinBefore > 0 => Untouched(manifests'[pinBefore].files)
  <2>1. pinBefore > 0 => pinBefore \in 1 .. n
    BY <1>8
  <2> QED BY <1>7, <2>1 DEF RunInv, SeenInv
<1>16. SeenInv'
  BY <1>1, <1>7, <1>8, <1>12, <1>15 DEF RunInv, SeenInv, Untouched
<1> QED BY <1>10, <1>14, <1>16 DEF RunInv

\* The clean point moves to the newest copy.
LEMMA PinningKeepsPulls ==
  ASSUME RunInv, PullWritePin, UNCHANGED runVars
  PROVE  RunInv'
<1>1. UNCHANGED <<step, day, pinBefore, pinAfter, restored, raised, passed>>
  BY DEF runVars, told
<1>2. /\ UNCHANGED <<share, files, toRead, manifests>>
      /\ pullPc = "pin" /\ pullPc' = "witness" /\ pin' = Len(manifests)
  BY DEF PullWritePin, serverVars
<1>3. Len(manifests) \in Nat
  BY LenProperties DEF RunInv, PullsInv
<1>4. pin' \in 0 .. Len(manifests) /\ UnderWay' = UnderWay
  BY <1>2, <1>3 DEF UnderWay
<1>5. PullsInv'
  BY <1>1, <1>2 DEF RunInv, PullsInv, Quietly, Striking, Afterwards, Untouched
<1>6. CopiesInv'
  BY <1>1, <1>2, <1>4 DEF RunInv, CopiesInv, Quietly, Striking, Untouched
<1>7. SeenInv'
  BY <1>1, <1>2 DEF RunInv, SeenInv, Untouched
<1> QED BY <1>5, <1>6, <1>7 DEF RunInv

\* The Vault's threads and the agent keep what the run relies on.
LEMMA BesideKeepsRun ==
  ASSUME RunInv, Beside
  PROVE  RunInv'
<1>1. UNCHANGED runVars
  BY DEF Beside
<1>2. CASE PullReadFile \/ PullWriteManifest \/ PullWritePin
  BY <1>1, <1>2, ReadingKeepsPulls, WritingKeepsPulls, PinningKeepsPulls
<1>3. CASE PullRaises \/ PullReadProtectMode \/ PullSetHealth \/ PullRefresh
           \/ PullAppendAlert
  <2>1. /\ UNCHANGED <<share, manifests, pin>>
        /\ files' \in {files, NoFiles} /\ toRead' \in {toRead, {}}
        /\ pullPc # "idle" /\ pullPc' # "reading"
    BY <1>3 DEF PullRaises, PullReadProtectMode, PullSetHealth, PullRefresh,
       PullAppendAlert, serverVars, diskVars, pullVars
  <2> QED BY <1>1, <2>1, BesideKeepsPulls
<1>4. CASE MonitorStep \/ Beat \/ HeartbeatAges
  <2>1. UNCHANGED vaultSide
    BY <1>4 DEF MonitorStep, MonitorCheck, MonitorRecord, MonitorRefresh,
       MonitorAppendAlert, MonitorWake, Beat, HeartbeatAges, serverVars, diskVars,
       vaultVars, pullVars, vaultSide
  <2> QED BY <1>1, <2>1, BesideKeepsPulls DEF vaultSide
<1> QED BY <1>2, <1>3, <1>4 DEF Beside, PullStep

-----------------------------------------------------------------------------
(* The main thread.                                                        *)

\* It goes on without touching share, copies or clean point.
LEMMA WaitingKeepsRun ==
  ASSUME RunInv, UNCHANGED <<vaultSide, day, pinBefore, pinAfter, restored, raised, passed>>,
         pullPc = "idle", Quietly \/ Striking,
         \/ step \in {"agent", "monitor"} /\ step' \in {"monitor", "day"}
         \/ step = "dayPull" /\ day < QuietDays /\ step' = "day"
         \/ step = "dayPull" /\ step' = "strike"
         \/ Striking /\ step' \in {"await", "look"}
  PROVE  RunInv'
<1>1. Len(manifests) \in Nat /\ day \in Nat /\ QuietDays \in Nat /\ QuietDays > 0
  BY LenProperties, DemoAssumption DEF RunInv, PullsInv
<1>2. Quietly => Len(manifests) <= day /\ day <= QuietDays
  <2>1. UnderWay = 0
    BY DEF UnderWay
  <2>2. Quietly => Len(manifests) + 0 <= day
    BY <2>1 DEF RunInv, CopiesInv
  <2> QED BY <1>1, <2>2 DEF RunInv, CopiesInv
<1>3. Len(manifests) <= QuietDays
  <2>1. CASE Quietly
    BY <1>1, <1>2, <2>1
  <2>2. CASE Striking
    BY <2>2 DEF RunInv, CopiesInv
  <2> QED BY <2>1, <2>2
<1>4. step' \in {"monitor", "day"} => Quietly /\ UnderWay' = UnderWay
  BY DEF Quietly, Striking, UnderWay, vaultSide
<1>5. PullsInv'
  BY <1>4 DEF RunInv, PullsInv, Quietly, Striking, Afterwards, Untouched, vaultSide
<1>6. step' = "day" => day < QuietDays
  BY <1>1 DEF RunInv, CopiesInv, Striking
<1>7. CopiesInv'
  BY <1>3, <1>4, <1>6
  DEF RunInv, CopiesInv, Quietly, Striking, Untouched, vaultSide
<1>8. SeenInv'
  BY DEF RunInv, SeenInv, Quietly, Striking, Untouched, vaultSide
<1> QED BY <1>5, <1>7, <1>8 DEF RunInv

\* The share is written to, by a job on a quiet day or by the simulator.
LEMMA ServerKeepsRun ==
  ASSUME RunInv, UNCHANGED <<files, toRead, manifests, pin, pullPc, runVars>>,
         share' \in Contents, Quietly => Untouched(share')
  PROVE  RunInv'
<1>1. UNCHANGED <<step, day, pinBefore, pinAfter, restored, raised, passed>>
  BY DEF runVars, told
<1> QED BY <1>1 DEF RunInv, PullsInv, CopiesInv, SeenInv, Quietly, Striking, Afterwards,
        Untouched, UnderWay

\* The pull of a quiet day begins.
LEMMA DayPullKeepsRun ==
  ASSUME RunInv, DayIsPulled
  PROVE  RunInv'
<1>1. NoFiles \in Contents /\ Untouched(NoFiles)
  BY DemoAssumption, VersionsAssumption, PathsAssumption
  DEF NoFiles, Contents, Untouched
<1>2. /\ UNCHANGED <<share, manifests, pin, pinBefore, pinAfter, restored, raised, passed>>
      /\ files' = NoFiles /\ toRead' = Present(share) /\ pullPc' = "reading"
      /\ pullPc = "idle" /\ day' = day + 1 /\ step = "day" /\ step' = "dayPull"
  BY DEF DayIsPulled, PullBegin, Goes, serverVars, diskVars
<1>3. PullsInv'
  BY <1>1, <1>2
  DEF RunInv, PullsInv, Quietly, Striking, Afterwards, Untouched, Present
<1>4. Len(manifests) \in Nat /\ day \in Nat /\ QuietDays \in Nat /\ day < QuietDays
  BY <1>2, LenProperties, DemoAssumption DEF RunInv, PullsInv, CopiesInv
<1>5. UnderWay = 0 /\ UnderWay' = 1
  BY <1>2 DEF UnderWay
<1>6. Len(manifests) + 0 <= day
  BY <1>2, <1>5 DEF RunInv, CopiesInv, Quietly
<1>7. Len(manifests) + 1 <= day + 1 /\ day + 1 <= QuietDays
  BY <1>4, <1>6
<1>8. CopiesInv'
  BY <1>2, <1>5, <1>7 DEF RunInv, CopiesInv, Quietly, Striking, Untouched
<1>9. SeenInv'
  BY <1>2 DEF RunInv, SeenInv, Untouched
<1> QED BY <1>3, <1>8, <1>9 DEF RunInv

\* The pull after the attack begins: the clean point is one of the quiet days'.
LEMMA LastPullKeepsRun ==
  ASSUME RunInv, LastPullBegins
  PROVE  RunInv'
<1>1. NoFiles \in Contents
  BY DEF NoFiles, Contents
<1>2. /\ UNCHANGED <<share, manifests, pin, day, pinAfter, restored, raised, passed>>
      /\ files' = NoFiles /\ toRead' = Present(share) /\ pinBefore' = pin
      /\ step = "look" /\ step' = "lastPull"
  BY DEF LastPullBegins, PullBegin, Goes, serverVars, diskVars
<1>3. PullsInv'
  BY <1>1, <1>2
  DEF RunInv, PullsInv, Quietly, Striking, Afterwards, Untouched, Present
<1>4. CopiesInv'
  BY <1>2 DEF RunInv, CopiesInv, Quietly, Striking, Untouched
<1>5. /\ Len(manifests) \in Nat /\ QuietDays \in Nat /\ Len(manifests) <= QuietDays
      /\ pin \in 0 .. Len(manifests)
  BY <1>2, LenProperties, DemoAssumption DEF RunInv, PullsInv, CopiesInv, Striking
<1>6. pin <= QuietDays /\ (pin > 0 => pin \in 1 .. Len(manifests))
  BY <1>5
<1>7. pin > 0 => Untouched(manifests[pin].files)
  BY <1>2, <1>6 DEF RunInv, CopiesInv, Striking
<1>8. SeenInv'
  BY <1>2, <1>5, <1>6, <1>7 DEF RunInv, SeenInv, Untouched
<1> QED BY <1>3, <1>4, <1>8 DEF RunInv

\* After the last pull, or after something has raised, nothing but what is told
\* changes.
LEMMA EndingKeepsRun ==
  ASSUME RunInv, RunRaises \/ Restores \/ Finally \/ Reports
  PROVE  RunInv'
<1>1. /\ UNCHANGED <<vaultSide, day, pinBefore>> /\ pullPc = "idle"
      /\ ~Quietly' /\ ~Striking' /\ Afterwards' /\ step' # "day"
      /\ step' \notin {"agent", "monitor", "lastPull"}
  <2>1. UNCHANGED <<vaultSide, day, pinBefore>>
    BY DEF RunRaises, Restores, Finally, Reports, vars, serverVars, diskVars, pullVars,
       vaultSide, told
  <2>2. /\ step \in {"day", "strike", "lastPull", "finally", "report"}
        /\ step' \in {"finally", "report", "over"}
    BY DEF RunRaises, Restores, Finally, Reports, Goes
  <2>3. pullPc = "idle"
    BY <2>2 DEF Restores, RunRaises, Finally, Reports, Goes, RunInv, PullsInv
  <2> QED BY <2>1, <2>2, <2>3 DEF Quietly, Striking, Afterwards
<1>2. PullsInv' /\ CopiesInv'
  BY <1>1 DEF RunInv, PullsInv, CopiesInv, Untouched, vaultSide
<1>3. /\ pinBefore' \in 0 .. Len(manifests') /\ pinBefore' <= QuietDays
      /\ (pinBefore' > 0 => Untouched(manifests'[pinBefore'].files))
  BY <1>1 DEF RunInv, SeenInv, vaultSide
<1>4. CASE RunRaises
  <2>1. /\ step # "over" /\ raised' = TRUE
        /\ UNCHANGED <<pinAfter, restored, passed>>
    BY <1>4 DEF RunRaises
  <2> QED BY <1>2, <1>3, <2>1 DEF RunInv, SeenInv, Untouched
<1>5. CASE Restores
  <2>1. /\ step # "over" /\ passed' = passed /\ restored' = pin /\ pinAfter' = pin
        /\ raised' = (pin = 0)
    BY <1>5 DEF Restores, RestoreTarget, Goes
  <2> QED BY <1>2, <1>3, <2>1 DEF RunInv, SeenInv, Untouched
<1>6. CASE Finally
  <2>1. /\ step = "finally" /\ UNCHANGED <<pinAfter, restored, raised, passed>>
    BY <1>6 DEF Finally, Goes, told
  <2> QED BY <1>2, <1>3, <2>1 DEF RunInv, SeenInv, Untouched
<1>7. CASE Reports
  <2>1. /\ step = "report" /\ step' = "over"
        /\ UNCHANGED <<pinAfter, restored, raised>>
        /\ passed' => ~raised /\ pinBefore = pinAfter
    BY <1>7 DEF Reports, Goes, FastChecks, KillerChecks
  <2> QED BY <1>1, <1>2, <1>3, <2>1 DEF RunInv, SeenInv, Untouched
<1> QED BY <1>4, <1>5, <1>6, <1>7

\* Every step of the main thread.
LEMMA MainKeepsRun ==
  ASSUME RunInv, MainStep
  PROVE  RunInv'
<1>1. CASE AgentStarts \/ MonitorStarts \/ DayEnds
  <2>1. /\ UNCHANGED <<vaultSide, day, pinBefore, pinAfter, restored, raised, passed>>
        /\ step \in {"agent", "monitor", "dayPull"}
    BY <1>1 DEF AgentStarts, MonitorStarts, StartMonitor, DayEnds, Goes, vars, vaultVars,
       serverVars, diskVars, pullVars, vaultSide, told
  <2>2. \/ step \in {"agent", "monitor"} /\ step' \in {"monitor", "day"}
        \/ step = "dayPull" /\ day < QuietDays /\ step' = "day"
        \/ step = "dayPull" /\ step' = "strike"
    BY <1>1 DEF AgentStarts, MonitorStarts, DayEnds, Goes
  <2>3. pullPc = "idle"
    BY <1>1, <2>1 DEF AgentStarts, MonitorStarts, DayEnds, Goes, RunInv, PullsInv
  <2> QED BY <2>1, <2>2, <2>3, WaitingKeepsRun DEF Quietly
<1>2. CASE AttackReturns \/ KillerReturns \/ SilenceIsRecorded \/ AwaitTimesOut
  <2>1. /\ UNCHANGED <<vaultSide, day, pinBefore, pinAfter, restored, raised, passed>>
        /\ Striking /\ step' \in {"await", "look"}
    BY <1>2 DEF AttackReturns, KillerReturns, KillAgent, SilenceIsRecorded, AwaitTimesOut,
       Goes, vars, vaultVars, serverVars, diskVars, pullVars, vaultSide, told, Striking
  <2>2. pullPc = "idle"
    BY <2>1 DEF RunInv, PullsInv, Striking
  <2> QED BY <2>1, <2>2, WaitingKeepsRun
<1>3. CASE JobsWrite
  <2>1. PICK p \in Paths : \E v \in Quiet[p] \ {share[p]} :
          share' = [share EXCEPT ![p] = v]
    BY <1>3 DEF JobsWrite
  <2>2. \A v \in Quiet[p] : v \in Versions /\ v # Cipher
    BY DemoAssumption
  <2>3. share' \in Contents
    BY <2>1, <2>2 DEF RunInv, PullsInv, Contents
  <2>4. Untouched(share) => Untouched(share')
    BY <2>1, <2>2 DEF RunInv, PullsInv, Contents, Untouched
  <2>5. UNCHANGED <<files, toRead, manifests, pin, pullPc, runVars>>
    BY <1>3 DEF JobsWrite, vaultVars, diskVars, pullVars
  <2> QED BY <2>3, <2>4, <2>5, ServerKeepsRun DEF RunInv, PullsInv
<1>4. CASE FileIsScrambled
  <2>1. PICK p \in Paths :
          share' = [q \in Paths |-> IF Stem[q] = p THEN Cipher
                                    ELSE IF q # p THEN share[q]
                                    ELSE IF \E r \in Paths : Stem[r] = p THEN Absent
                                    ELSE Cipher]
    BY <1>4 DEF FileIsScrambled, Present
  <2>2. share' \in Contents
    BY <2>1, DemoAssumption DEF RunInv, PullsInv, Contents
  <2>3. UNCHANGED <<files, toRead, manifests, pin, pullPc, runVars>> /\ ~Quietly
    BY <1>4 DEF FileIsScrambled, vaultVars, diskVars, pullVars, Quietly
  <2> QED BY <2>2, <2>3, ServerKeepsRun
<1> QED BY <1>1, <1>2, <1>3, <1>4, DayPullKeepsRun, LastPullKeepsRun, EndingKeepsRun
     DEF MainStep

\* The run begins that way,
LEMMA RunInvAtFirst ==
  ASSUME RunInit
  PROVE  RunInv
<1>1. /\ share = FirstShare /\ files = NoFiles /\ toRead = {} /\ manifests = <<>>
      /\ pin = 0 /\ pullPc = "idle" /\ step = "agent" /\ day = 0 /\ pinBefore = 0
      /\ pinAfter = 0 /\ restored = 0 /\ passed = FALSE
  BY DEF RunInit, Init
<1>2. FirstShare \in Contents /\ Untouched(FirstShare)
  BY EnvironmentAssumption, DemoAssumption DEF Untouched
<1>3. NoFiles \in Contents /\ Untouched(NoFiles)
  BY DemoAssumption, VersionsAssumption, PathsAssumption
  DEF NoFiles, Contents, Untouched
<1>4. <<>> \in Seq(Manifests) /\ Len(<<>>) = 0
  BY EmptySeq
<1>5. QuietDays \in Nat /\ 0 <= QuietDays
  BY DemoAssumption
<1>6. PullsInv
  BY <1>1, <1>2, <1>3, <1>4 DEF PullsInv, Quietly
<1>7. CopiesInv
  BY <1>1, <1>4, <1>5 DEF CopiesInv, UnderWay, Quietly, Striking
<1>8. SeenInv
  BY <1>1, <1>4, <1>5 DEF SeenInv
<1> QED BY <1>6, <1>7, <1>8 DEF RunInv

\* and goes on that way.
LEMMA RunInvForEver ==
  ASSUME RunInv, [RunNext]_allVars
  PROVE  RunInv'
<1>1. ASSUME RunInv, UNCHANGED allVars PROVE RunInv'
  BY <1>1 DEF RunInv, PullsInv, CopiesInv, SeenInv, Quietly, Striking, Afterwards,
     Untouched, UnderWay, allVars, vars, serverVars, diskVars, pullVars, runVars, told
<1> QED BY <1>1, MainKeepsRun, BesideKeepsRun DEF RunNext

\* PASSED is said only of a restored copy that was taken on a quiet day and in
\* which no file is the simulator's, whatever files it scrambled, whatever the
\* Judge, S7 and the monitor made of it, and however the pulls fell.
THEOREM PassedAlwaysMeansRecovered == RunSpec => []PassedMeansRecovered
<1>1. RunInit => RunInv
  BY RunInvAtFirst
<1>2. RunInv /\ [RunNext]_allVars => RunInv'
  BY RunInvForEver
<1>3. RunInv => PassedMeansRecovered
  <2> SUFFICES ASSUME RunInv, passed PROVE PassedMeansRecovered
    BY DEF PassedMeansRecovered
  <2>1. restored = pinBefore /\ restored # 0
    BY DEF RunInv, SeenInv
  <2>2. Len(manifests) \in Nat /\ pinBefore \in 0 .. Len(manifests)
        /\ pinBefore <= QuietDays /\ QuietDays \in Nat
    BY LenProperties, DemoAssumption DEF RunInv, PullsInv, SeenInv
  <2>3. pinBefore > 0 /\ pinBefore \in 1 .. QuietDays
    BY <2>1, <2>2
  <2> QED BY <2>1, <2>3 DEF RunInv, SeenInv, Untouched, PassedMeansRecovered
<1> QED BY <1>1, <1>2, <1>3, PTL DEF RunSpec

-----------------------------------------------------------------------------
(* What a run that fails can be told: for every share, quiet day, attack   *)
(* and interleaving there is a reason outside the protection's own timing. *)

\* Of some files the one that sorts first, and the one that sorts last, is there.
LEMMA FirstAndLast ==
  ASSUME NEW S \in SUBSET Paths, S # {}
  PROVE  /\ \E p \in S : \A q \in S : Rank[p] <= Rank[q]
         /\ \E p \in S : \A q \in S : Rank[q] <= Rank[p]
<1> USE PathsAssumption
<1> DEFINE Lower(p) == {q \in S : Rank[q] < Rank[p]}
           Higher(p) == {q \in S : Rank[q] > Rank[p]}
<1>1. IsFiniteSet(S)
  BY FS_Subset
<1>2. \A T \in SUBSET S : T \in FiniteSubsetsOf(S)
  BY <1>1, FS_Subset DEF FiniteSubsetsOf
<1>3. \E p \in S : \A q \in S : Rank[p] <= Rank[q]
  <2> DEFINE All == {Lower(p) : p \in S}
  <2>0. All \subseteq FiniteSubsetsOf(S) /\ All # {}
    <3>1. \A p \in S : Lower(p) \in SUBSET S
      OBVIOUS
    <3>2. \A p \in S : Lower(p) \in FiniteSubsetsOf(S)
      BY <1>2, <3>1
    <3>3. \E p \in S : Lower(p) \in All
      OBVIOUS
    <3> HIDE DEF Lower
    <3> QED BY <3>2, <3>3
  <2>1. PICK L \in All : \A M \in All : <<M, L>> \notin StrictSubsetOrdering(S)
    <3> HIDE DEF All
    <3> QED BY <2>0, FS_StrictSubsetOrderingWellFounded, WFMin
  <2>2. PICK p \in S : L = Lower(p)
    BY <2>1
  <2>3. ASSUME NEW q \in S, Rank[q] < Rank[p] PROVE FALSE
    <3>1. Lower(q) \subseteq Lower(p) /\ q \in Lower(p) /\ q \notin Lower(q)
      BY <2>3
    <3>2. <<Lower(q), Lower(p)>> \in StrictSubsetOrdering(S)
      BY <3>1 DEF StrictSubsetOrdering
    <3> QED BY <2>1, <2>2, <3>2
  <2> QED BY <2>3
<1>4. \E p \in S : \A q \in S : Rank[q] <= Rank[p]
  <2> DEFINE All == {Higher(p) : p \in S}
  <2>0. All \subseteq FiniteSubsetsOf(S) /\ All # {}
    <3>1. \A p \in S : Higher(p) \in SUBSET S
      OBVIOUS
    <3>2. \A p \in S : Higher(p) \in FiniteSubsetsOf(S)
      BY <1>2, <3>1
    <3>3. \E p \in S : Higher(p) \in All
      OBVIOUS
    <3> HIDE DEF Higher
    <3> QED BY <3>2, <3>3
  <2>1. PICK L \in All : \A M \in All : <<M, L>> \notin StrictSubsetOrdering(S)
    <3> HIDE DEF All
    <3> QED BY <2>0, FS_StrictSubsetOrderingWellFounded, WFMin
  <2>2. PICK p \in S : L = Higher(p)
    BY <2>1
  <2>3. ASSUME NEW q \in S, Rank[q] > Rank[p] PROVE FALSE
    <3>1. Higher(q) \subseteq Higher(p) /\ q \in Higher(p) /\ q \notin Higher(q)
      BY <2>3
    <3>2. <<Higher(q), Higher(p)>> \in StrictSubsetOrdering(S)
      BY <3>1 DEF StrictSubsetOrdering
    <3> QED BY <2>1, <2>2, <3>2
  <2> QED BY <2>3
<1> QED BY <1>3, <1>4

\* The next file that a pull reads is one it has listed.
LEMMA NextIsListed ==
  ASSUME toRead \subseteq Paths, toRead # {}
  PROVE  NextToRead \in toRead
<1>1. \E p \in toRead : \A q \in toRead : Rank[p] <= Rank[q]
  BY FirstAndLast
<1> QED BY <1>1 DEF NextToRead

\* The newest backup is one of the backups there are.
LEMMA NewestIsThere ==
  ASSUME NEW c, Present(c) \cap Backups # {}
  PROVE  NewestBackup(c) \in Present(c) \cap Backups
<1>1. Present(c) \cap Backups \in SUBSET Paths
  BY DEF Present
<1>2. \E p \in Present(c) \cap Backups :
        \A q \in Present(c) \cap Backups : Rank[q] <= Rank[p]
  BY <1>1, FirstAndLast
<1> QED BY <1>2 DEF NewestBackup

\* A share of the quiet days: nothing in it but what was there or a job wrote.
OfQuietDays(c) == \A p \in Paths : c[p] \in Quiet[p] \cup {FirstShare[p]}

\* Every file of it opens as its type, and no card is missing.
LEMMA QuietIsWhole ==
  ASSUME NEW c \in Contents, OfQuietDays(c)
  PROVE  /\ \A p \in Present(c) : HeaderOk[p][c[p]]
         /\ RecordCount(c) = RecordCount(FirstShare) /\ RecordCount(c) \in Nat
<1>1. \A p \in Present(c) : p \in Paths /\ c[p] \in Quiet[p] \cup ({FirstShare[p]} \ {Absent})
  BY DEF Present, OfQuietDays
<1>2. \A p \in Present(c) : HeaderOk[p][c[p]]
  BY <1>1, QuietAssumption
<1>3. PICK b \in Present(FirstShare) \cap Backups : TRUE
  BY QuietAssumption DEF RecordCount
<1>4. c[b] # Absent /\ b \in Paths
  BY <1>3, DemoAssumption, PathsAssumption DEF Present, OfQuietDays
<1>5. Present(c) \cap Backups # {}
  BY <1>3, <1>4 DEF Present
<1>6. NewestBackup(c) \in Present(c) \cap Backups
  BY <1>5, NewestIsThere
<1>7. RecordCount(c) = Cards[c[NewestBackup(c)]] /\ c[NewestBackup(c)] \in Versions
  BY <1>5, <1>6 DEF RecordCount, Present, Contents
<1>8. RecordCount(c) = RecordCount(FirstShare)
  BY <1>1, <1>6, <1>7, QuietAssumption
<1>9. RecordCount(c) \in Nat
  BY <1>7, <1>8, QuietAssumption, VersionsAssumption
<1> QED BY <1>2, <1>8, <1>9

\* Nothing has happened to it: against itself it is CLEAN.
LEMMA SameIsClean ==
  ASSUME NEW c \in Contents, OfQuietDays(c)
  PROVE  Assess(c, c) = CLEAN
<1>1. Damaged(c, c) = {} /\ Rewritten(c, c) = {}
  BY DEF Damaged, Rewritten
<1>2. Broken(c, c) = {} /\ Scrambled(c, c) = {}
  BY <1>1 DEF Broken, Scrambled
<1>3. RenamedAway(c, c) = {}
  BY DEF RenamedAway
<1>4. Cardinality(Present(c)) \in Nat /\ Cardinality({}) = 0
  BY PathsAssumption, FS_Subset, FS_CardinalityType, FS_EmptySet DEF Present
<1>5. ~TooManyDamaged(c, c)
  <2>1. ChangedPct \in Nat
    BY ThresholdsAssumption
  <2>2. \A a, b \in Nat : ~(100 * 0 > a * b)
    OBVIOUS
  <2> QED BY <1>1, <1>4, <2>1, <2>2 DEF TooManyDamaged
<1>6. RecordCount(c) \in Nat /\ RecordCount(c) # Unreadable
  BY QuietIsWhole, VersionsAssumption
<1>7. ~RecordsFell(c, c)
  <2>1. DropPct \in Nat
    BY ThresholdsAssumption
  <2>2. \A a, b \in Nat : ~(100 * (a - a) > b * a)
    OBVIOUS
  <2> QED BY <1>6, <2>1, <2>2 DEF RecordsFell
<1> QED BY <1>2, <1>3, <1>5, <1>6, <1>7 DEF Assess

-----------------------------------------------------------------------------
(* What keeps the protection in time.                                      *)

\* One copy for each quiet day, then one more; each what the share held when its
\* pull began, for nothing writes to the share while a pull reads it.
DaysInv ==
  /\ variant \in {"fast", "watcher-killer"}
  /\ Quietly => Newest + UnderWay = day
  /\ Striking \/ step = "lastPull" => day = QuietDays
  /\ Striking => Newest = QuietDays
  /\ step = "lastPull" => Newest + UnderWay = QuietDays + 1
  /\ pullPc = "reading" =>
       /\ toRead \subseteq Present(share)
       /\ files = [p \in Paths |-> IF p \in toRead THEN Absent ELSE share[p]]
  /\ pullPc \in {"protect?", "pin", "witness"} =>
       Newest > 0 /\ health = manifests[Newest].health
  /\ pullPc \in {"protect?", "pin"} => health = CLEAN

\* What the quiet days left, in the share and in the copies.
QuietInv ==
  /\ Quietly \/ variant = "watcher-killer" => OfQuietDays(share)
  /\ \A n \in 1 .. Newest : n <= QuietDays => OfQuietDays(manifests[n].files)
  /\ \/ step = "dayPull" /\ pullPc # "reading"
     \/ variant = "watcher-killer" /\ (Striking \/ step = "lastPull")
     => manifests[day].files = share

\* Where the agent is alive.
Watched ==
  \/ step \in {"monitor", "day", "dayPull", "strike"}
  \/ (variant = "fast" /\ step \in {"look", "lastPull"})

\* The killer has ended it.
Unwatched == variant = "watcher-killer" /\ step \in {"await", "look", "lastPull"}

\* A living agent that never stalled is never heard as silent, and once a dead
\* one's silence is recorded no older reading of its heartbeat is under way.
BeatInv ==
  /\ stalls \in Nat
  /\ step = "await" => variant = "watcher-killer"
  /\ Watched => agent
  /\ Unwatched => ~agent
  /\ step \in {"agent", "monitor"} =>
       monitorPc = "off" /\ sample = None /\ lastLiveness = None
  /\ monitorPc = "record" => sample \in {ALIVE, SILENT}
  /\ stalls = 0 =>
       /\ agent => heartbeat = "fresh"
       /\ SILENT \in {sample, lastLiveness} => ~agent /\ heartbeat # "fresh"
       /\ lastLiveness = SILENT => sample # ALIVE

\* What the run has read of the heartbeat, and the Judge said.
ReadInv ==
  /\ step \notin {"finally", "report", "over"} => ~raised
  /\ variant = "watcher-killer" => ~caught
  /\ stalls = 0 /\ (Striking \/ step = "lastPull") => before
  /\ stalls = 0 /\ step = "lastPull" /\ variant = "fast" => after
  /\ Unwatched /\ ~timedOut /\ step # "await" => heartbeat # "fresh"
  /\ Unwatched /\ ~timedOut /\ step = "lastPull" => ~after

\* The quiet days were quiet to S6 and S7.
Calm ==
  /\ stalls = 0
  /\ \A n \in 1 .. Newest : n <= QuietDays => manifests[n].health = CLEAN

\* Until the last pull has made its pin decision.
Undecided ==
  Quietly \/ Striking \/ (step = "lastPull" /\ pullPc \in {"reading", "protect?"})

\* The attack was not seen by S7, or its silence not recorded in time.
Excused ==
  \/ variant = "fast" /\ Newest > QuietDays /\ manifests[Newest].health = CLEAN
  \/ variant = "watcher-killer" /\ timedOut

\* Protect mode is on for one reason, a recorded silence; and it is on when the
\* run has waited for that.
ProtectInv ==
  /\ Calm /\ Undecided =>
       latestHealth # SUSPECT /\ (ProtectMode => lastLiveness = SILENT)
  /\ Calm /\ Undecided /\ Unwatched /\ step # "await" /\ ~timedOut =>
       ProtectMode /\ lastLiveness = SILENT

\* The clean point is the newest quiet copy, and the last pull leaves it.
PinInv ==
  /\ Calm /\ (Quietly \/ Striking) =>
       pin = IF pullPc \in {"protect?", "pin"} THEN Newest - 1 ELSE Newest
  /\ Calm /\ step = "lastPull" =>
       /\ pinBefore = QuietDays
       /\ ~Excused => pin = QuietDays /\ pullPc # "pin"
       /\ Unwatched /\ ~timedOut /\ Newest > QuietDays =>
            manifests[Newest].health = CLEAN

\* What the run has to tell in the end.
ToldInv ==
  Calm /\ step \in {"finally", "report", "over"} =>
    \/ Excused
    \/ raised /\ Newest <= QuietDays
    \/ /\ ~raised /\ Newest = QuietDays + 1
       /\ restored = QuietDays /\ pinBefore = QuietDays /\ pinAfter = QuietDays
       /\ variant = "fast" => after
       /\ variant = "watcher-killer" =>
            before /\ ~after /\ ~caught /\ manifests[Newest].health = CLEAN

ReasonInv ==
  /\ RunInv /\ DaysInv /\ QuietInv /\ BeatInv /\ ReadInv
  /\ ProtectInv /\ PinInv /\ ToldInv /\ FailsForAReason

-----------------------------------------------------------------------------
(* The quiet days and their copies.                                        *)

\* The counters count.
LEMMA Counts ==
  ASSUME RunInv
  PROVE  /\ Newest \in Nat /\ day \in Nat /\ day <= QuietDays
         /\ QuietDays \in Nat /\ QuietDays > 0 /\ manifests \in Seq(Manifests)
BY LenProperties, DemoAssumption DEF RunInv, PullsInv, CopiesInv, Newest

\* A manifest is written behind the others.
LEMMA OneMore ==
  ASSUME RunInv, PullWriteManifest
  PROVE  /\ Newest' = Newest + 1
         /\ manifests'[Newest + 1].health = Assess(files, Baseline)
         /\ manifests'[Newest + 1].files = files
         /\ \A n \in 1 .. Newest : manifests'[n] = manifests[n]
<1>1. PICK m : m = [health |-> Assess(files, Baseline), files |-> files]
  OBVIOUS
<1>2. manifests' = Append(manifests, m)
  BY <1>1 DEF PullWriteManifest
<1>3. m \in Manifests /\ m.health = Assess(files, Baseline) /\ m.files = files
  BY <1>1, AssessIsHealth DEF Manifests, RunInv, PullsInv
<1> QED BY <1>2, <1>3, Counts, AppendProperties DEF Newest

\* What a step on the monitor's or the agent's side leaves alone.
copyVars == <<vaultSide, health, step, variant, day>>

\* The pull has read all it listed: its copy is what the share holds.
LEMMA AllIsRead ==
  ASSUME RunInv, DaysInv, pullPc = "reading", toRead = {}
  PROVE  files = share
BY DEF RunInv, PullsInv, DaysInv, Contents

\* A quiet share stays one until the simulator has it, and each copy is of it.
LEMMA NextKeepsDays ==
  ASSUME RunInv, RunInv', DaysInv, QuietInv, [RunNext]_allVars
  PROVE  DaysInv' /\ QuietInv'
<1> USE Counts
<1> USE DEF DaysInv, QuietInv, Quietly, Striking, UnderWay, Newest
<1>1. CASE UNCHANGED copyVars
  BY <1>1 DEF copyVars, vaultSide, OfQuietDays, Present
<1>2. ASSUME MonitorStep \/ Beat \/ HeartbeatAges, UNCHANGED runVars
      PROVE  UNCHANGED copyVars
  BY <1>2 DEF MonitorStep, MonitorCheck, MonitorRecord, MonitorRefresh, runVars,
     MonitorAppendAlert, MonitorWake, Beat, HeartbeatAges, serverVars, diskVars,
     vaultVars, pullVars, vaultSide, copyVars
<1>3. ASSUME PullReadFile, UNCHANGED runVars
      PROVE  DaysInv' /\ QuietInv'
  <2>1. /\ UNCHANGED <<share, manifests, pullPc, step, variant, day>>
        /\ pullPc = "reading" /\ toRead' = toRead \ {NextToRead}
        /\ files' = [files EXCEPT ![NextToRead] = share[NextToRead]]
    BY <1>3 DEF PullReadFile, serverVars, diskVars, runVars
  <2>2. NextToRead \in toRead /\ toRead \subseteq Paths
    BY <1>3, NextIsListed DEF PullReadFile, RunInv, PullsInv
  <2>3. files' = [p \in Paths |-> IF p \in toRead' THEN Absent ELSE share'[p]]
    BY <2>1, <2>2
  <2> QED BY <2>1, <2>3 DEF OfQuietDays, Present
<1>4. ASSUME PullRaises
      PROVE  FALSE
  <2>1. NextToRead \in toRead /\ toRead \subseteq Present(share)
    BY <1>4, NextIsListed DEF PullRaises, RunInv, PullsInv
  <2> QED BY <1>4, <2>1 DEF PullRaises, Present
<1>5. ASSUME PullWriteManifest, UNCHANGED runVars
      PROVE  DaysInv' /\ QuietInv'
  <2>1. /\ UNCHANGED <<share, files, toRead, step, variant, day>>
        /\ pullPc = "reading" /\ pullPc' # "reading" /\ toRead = {}
        /\ health' = Assess(files, Baseline)
        /\ pullPc' \in {"protect?", "pin"} => health' = CLEAN
    BY <1>5 DEF PullWriteManifest, serverVars, runVars
  <2>2. /\ Newest' = Newest + 1 /\ manifests'[Newest + 1].files = share
        /\ manifests'[Newest + 1].health = health'
        /\ \A n \in 1 .. Newest : manifests'[n] = manifests[n]
    BY <1>5, <2>1, AllIsRead, OneMore
  <2>3. step \in {"dayPull", "lastPull"}
    BY <2>1 DEF RunInv, PullsInv
  <2>4. \A n \in 1 .. Newest' : n \in 1 .. Newest \/ n = Newest + 1
    BY <2>2
  <2>5. DaysInv'
    BY <2>1, <2>2, <2>3
  <2>6. \A n \in 1 .. Newest' : n <= QuietDays => OfQuietDays(manifests'[n].files)
    <3> TAKE n \in 1 .. Newest'
    <3> HAVE n <= QuietDays
    <3>1. CASE n \in 1 .. Newest
      BY <2>2, <3>1
    <3>2. CASE n = Newest + 1
      <4>1. step = "dayPull"
        BY <2>1, <2>3, <3>2
      <4> QED BY <2>2, <3>2, <4>1
    <3> QED BY <2>4, <3>1, <3>2
  <2>7. step = "dayPull" => Newest + 1 = day
    BY <2>1
  <2>8. step = "lastPull" => day = QuietDays /\ Newest = QuietDays
    BY <2>1
  <2>9. QuietInv'
    BY <2>1, <2>2, <2>3, <2>6, <2>7, <2>8 DEF OfQuietDays
  <2> QED BY <2>5, <2>9
<1>6. ASSUME \/ PullReadProtectMode \/ PullWritePin \/ PullSetHealth \/ PullRefresh
             \/ PullAppendAlert,
             UNCHANGED runVars
      PROVE  DaysInv' /\ QuietInv'
  <2>1. /\ UNCHANGED <<share, manifests, health, step, variant, day>>
        /\ pullPc # "reading" /\ pullPc' # "reading"
        /\ pullPc' \in {"protect?", "pin", "witness"} =>
             pullPc \in {"protect?", "pin", "witness"}
        /\ pullPc' \in {"protect?", "pin"} => pullPc \in {"protect?", "pin"}
    BY <1>6 DEF PullReadProtectMode, PullWritePin, PullSetHealth, PullRefresh,
       PullAppendAlert, serverVars, diskVars, pullVars, runVars
  <2> QED BY <2>1 DEF OfQuietDays
<1>7. CASE \/ AgentStarts \/ MonitorStarts \/ DayEnds \/ RunRaises \/ AttackReturns
           \/ KillerReturns \/ SilenceIsRecorded \/ AwaitTimesOut \/ Restores
           \/ Finally \/ Reports
  <2>1. UNCHANGED <<share, manifests, pullPc, health, variant, day>>
    BY <1>7 DEF AgentStarts, MonitorStarts, StartMonitor, DayEnds, RunRaises,
       AttackReturns, KillerReturns, KillAgent, SilenceIsRecorded, AwaitTimesOut, told,
       Restores, Finally, Reports, vars, vaultVars, serverVars, diskVars, pullVars
  <2>2. \/ step \in {"agent", "monitor"} /\ step' \in {"monitor", "day"}
        \/ step = "dayPull" /\ step' = "day"
        \/ step = "dayPull" /\ step' = "strike" /\ day = QuietDays
        \/ Striking /\ step' \in {"await", "look"}
        \/ step' \in {"finally", "report", "over"}
    BY <1>7 DEF AgentStarts, MonitorStarts, DayEnds, RunRaises, AttackReturns, Goes,
       KillerReturns, SilenceIsRecorded, AwaitTimesOut, Restores, Finally, Reports,
       RunInv, CopiesInv
  <2>3. pullPc = "idle"
    BY <1>7 DEF AgentStarts, MonitorStarts, DayEnds, RunRaises, AttackReturns, Goes,
       KillerReturns, SilenceIsRecorded, AwaitTimesOut, Restores, Finally, Reports,
       RunInv, PullsInv
  <2>4. DaysInv'
    BY <2>1, <2>2, <2>3
  <2>5. QuietInv'
    BY <2>1, <2>2, <2>3 DEF OfQuietDays
  <2> QED BY <2>4, <2>5
<1>8. CASE JobsWrite
  <2>1. PICK p \in Paths : \E v \in Quiet[p] \ {share[p]} :
          share' = [share EXCEPT ![p] = v]
    BY <1>8 DEF JobsWrite
  <2>2. OfQuietDays(share) => OfQuietDays(share')
    BY <2>1 DEF OfQuietDays, RunInv, PullsInv, Contents
  <2>3. step = "day" /\ pullPc = "idle"
        /\ UNCHANGED <<manifests, health, pullPc, step, variant, day>>
    BY <1>8 DEF JobsWrite, vaultVars, diskVars, pullVars, runVars, RunInv, PullsInv
  <2> QED BY <2>2, <2>3 DEF OfQuietDays
<1>9. CASE FileIsScrambled
  <2>1. step = "strike" /\ variant = "fast" /\ pullPc = "idle"
        /\ UNCHANGED <<manifests, health, pullPc, step, variant, day>>
    BY <1>9 DEF FileIsScrambled, vaultVars, diskVars, pullVars, runVars, RunInv, PullsInv
  <2> QED BY <2>1 DEF OfQuietDays
<1>10. CASE DayIsPulled \/ LastPullBegins
  <2>1. /\ UNCHANGED <<share, manifests, variant>> /\ pullPc = "idle"
        /\ files' = NoFiles /\ toRead' = Present(share) /\ pullPc' = "reading"
        /\ \/ step = "day" /\ step' = "dayPull" /\ day' = day + 1
           \/ step = "look" /\ step' = "lastPull" /\ day' = day
    BY <1>10 DEF DayIsPulled, LastPullBegins, PullBegin, Goes, serverVars, diskVars
  <2>2. files' = [p \in Paths |-> IF p \in toRead' THEN Absent ELSE share'[p]]
    BY <2>1 DEF NoFiles, Present
  <2>3. DaysInv'
    BY <2>1, <2>2 DEF Present
  <2>4. QuietInv'
    BY <2>1 DEF OfQuietDays
  <2> QED BY <2>3, <2>4
<1>11. CASE UNCHANGED allVars
  BY <1>1, <1>11 DEF allVars, vars, runVars, serverVars, diskVars, pullVars, copyVars,
     vaultSide
<1>12. CASE Beside
  BY <1>1, <1>2, <1>3, <1>4, <1>5, <1>6, <1>12 DEF Beside, PullStep
<1> QED BY <1>7, <1>8, <1>9, <1>10, <1>11, <1>12 DEF RunNext, MainStep

-----------------------------------------------------------------------------
(* The agent, its heartbeat, and what is read of it.                       *)

\* What a step of the pull leaves alone.
beatVars == <<agent, heartbeat, stalls, monitorPc, sample, lastLiveness, runVars>>

\* A living agent that never stalled is never heard as silent.
LEMMA NextKeepsBeat ==
  ASSUME RunInv, DaysInv, BeatInv, [RunNext]_allVars
  PROVE  BeatInv'
<1> USE DEF BeatInv, Watched, Unwatched, None, ALIVE, SILENT
<1> DEFINE agentSide == <<agent, heartbeat, stalls>>
           monitorSide == <<monitorPc, sample, lastLiveness>>
<1>1. CASE UNCHANGED beatVars
  BY <1>1 DEF beatVars, runVars, told
<1>2. CASE PullStep /\ UNCHANGED runVars
  <2>1. UNCHANGED beatVars
    BY <1>2 DEF PullStep, PullReadFile, PullRaises, PullWriteManifest, beatVars,
       PullReadProtectMode, PullWritePin, PullSetHealth, PullRefresh, PullAppendAlert,
       serverVars, monitorVars
  <2> QED BY <1>1, <2>1
<1>3. CASE MonitorCheck /\ UNCHANGED runVars
  <2>1. /\ UNCHANGED <<agentSide, lastLiveness, step, variant, timedOut>>
        /\ monitorPc = "check" /\ monitorPc' = "record"
        /\ sample' = (IF heartbeat = "fresh" THEN ALIVE ELSE SILENT)
    BY <1>3 DEF MonitorCheck, serverVars, runVars, told
  <2> QED BY <2>1
<1>4. CASE MonitorRecord /\ UNCHANGED runVars
  <2>1. /\ UNCHANGED <<agentSide, step, variant, timedOut>>
        /\ monitorPc = "record" /\ monitorPc' = "refresh"
        /\ lastLiveness' = sample /\ sample' = None
    BY <1>4 DEF MonitorRecord, serverVars, runVars, told
  <2> QED BY <2>1
<1>5. CASE (MonitorRefresh \/ MonitorAppendAlert \/ MonitorWake) /\ UNCHANGED runVars
  <2>1. /\ UNCHANGED <<agentSide, sample, lastLiveness, step, variant, timedOut>>
        /\ monitorPc \notin {"off", "record"} /\ monitorPc' # "record"
    BY <1>5 DEF MonitorRefresh, MonitorAppendAlert, MonitorWake, serverVars, runVars,
       told
  <2> QED BY <2>1
<1>6. CASE (Beat \/ HeartbeatAges) /\ UNCHANGED runVars
  <2>1. /\ UNCHANGED <<agent, monitorSide, step, variant, timedOut>>
        /\ \/ agent /\ heartbeat' = "fresh" /\ stalls' = stalls
           \/ agent /\ stalls' = stalls + 1
           \/ ~agent /\ stalls' = stalls /\ heartbeat' = "stale"
    BY <1>6 DEF Beat, HeartbeatAges, vaultVars, monitorVars, runVars, told
  <2> QED BY <2>1
<1>7. CASE AgentStarts
  <2>1. /\ UNCHANGED <<monitorSide, stalls, variant, timedOut>>
        /\ step = "agent" /\ step' = "monitor" /\ agent' = TRUE /\ heartbeat' = "fresh"
    BY <1>7 DEF AgentStarts, Goes, vaultVars, monitorVars, told
  <2> QED BY <2>1
<1>8. CASE MonitorStarts
  <2>1. /\ UNCHANGED <<agentSide, sample, lastLiveness, variant, timedOut>>
        /\ step = "monitor" /\ step' = "day" /\ monitorPc' = "check"
    BY <1>8 DEF MonitorStarts, StartMonitor, Goes, serverVars, told
  <2> QED BY <2>1
<1>9. CASE \/ JobsWrite \/ DayIsPulled \/ DayEnds \/ RunRaises \/ FileIsScrambled
           \/ AttackReturns \/ Restores \/ Reports
  <2>1. UNCHANGED <<agentSide, monitorSide, variant, timedOut>>
    BY <1>9 DEF JobsWrite, DayIsPulled, DayEnds, RunRaises, FileIsScrambled,
       AttackReturns, Restores, Reports, PullBegin, serverVars, monitorVars, vaultVars,
       vars, runVars, told
  <2>2. \/ step \in {"day", "dayPull", "strike"} /\ step' \in {"day", "dayPull", "strike"}
        \/ step = "strike" /\ step' = "look" /\ variant = "fast"
        \/ step' \in {"finally", "report", "over"}
    BY <1>9 DEF JobsWrite, DayIsPulled, DayEnds, RunRaises, FileIsScrambled,
       AttackReturns, Restores, Reports, runVars, told, Goes
  <2> QED BY <2>1, <2>2
<1>10. CASE KillerReturns
  <2>1. /\ UNCHANGED <<heartbeat, stalls, monitorSide, variant, timedOut>>
        /\ agent' = FALSE /\ step = "strike" /\ step' = "await"
        /\ agent /\ variant = "watcher-killer"
    BY <1>10 DEF KillerReturns, KillAgent, Goes, vaultVars, monitorVars, told
  <2> QED BY <2>1
<1>11. CASE SilenceIsRecorded \/ AwaitTimesOut
  <2>1. /\ UNCHANGED <<agentSide, monitorSide, variant>>
        /\ step = "await" /\ step' = "look"
    BY <1>11 DEF SilenceIsRecorded, AwaitTimesOut, Goes, vars, serverVars, monitorVars,
       told
  <2> QED BY <2>1, Zenon
<1>12. CASE LastPullBegins
  <2>1. /\ UNCHANGED <<agentSide, monitorSide, variant, timedOut>>
        /\ step = "look" /\ step' = "lastPull"
    BY <1>12 DEF LastPullBegins, PullBegin, Goes, serverVars, monitorVars
  <2> QED BY <2>1
<1>13. CASE Finally
  <2>1. /\ UNCHANGED <<heartbeat, stalls, lastLiveness>>
        /\ agent' = FALSE /\ monitorPc' = "off" /\ sample' = None /\ step' = "report"
    BY <1>13 DEF Finally, Goes
  <2> QED BY <2>1
<1>14. CASE UNCHANGED allVars
  BY <1>1, <1>14 DEF allVars, vars, serverVars, monitorVars, beatVars
<1> QED BY <1>2, <1>3, <1>4, <1>5, <1>6, <1>7, <1>8, <1>9, <1>10, <1>11, <1>12, <1>13,
        <1>14 DEF RunNext, MainStep, Beside, MonitorStep

\* What the run has read of the heartbeat is how it was.
LEMMA NextKeepsRead ==
  ASSUME RunInv, DaysInv, BeatInv, BeatInv', ReadInv, [RunNext]_allVars
  PROVE  ReadInv'
<1> USE DEF ReadInv, Watched, Unwatched, Striking
<1>1. ASSUME Beside PROVE ReadInv'
  <2>1. UNCHANGED <<step, variant, caught, before, after, timedOut, raised>>
    BY <1>1 DEF Beside, runVars, told
  <2>2. stalls' = 0 => stalls = 0
    BY <1>1 DEF Beside, PullStep, PullReadFile, PullRaises, PullWriteManifest,
       PullReadProtectMode, PullWritePin, PullSetHealth, PullRefresh, PullAppendAlert,
       MonitorStep, MonitorCheck, MonitorRecord, MonitorRefresh, MonitorAppendAlert,
       MonitorWake, Beat, HeartbeatAges, serverVars, BeatInv
  <2>3. ~agent /\ heartbeat # "fresh" => heartbeat' # "fresh"
    BY <1>1 DEF Beside, PullStep, PullReadFile, PullRaises, PullWriteManifest,
       PullReadProtectMode, PullWritePin, PullSetHealth, PullRefresh, PullAppendAlert,
       MonitorStep, MonitorCheck, MonitorRecord, MonitorRefresh, MonitorAppendAlert,
       MonitorWake, Beat, HeartbeatAges, serverVars
  <2> QED BY <2>1, <2>2, <2>3 DEF BeatInv
<1>2. CASE AgentStarts \/ MonitorStarts \/ JobsWrite \/ DayIsPulled \/ FileIsScrambled
  <2>1. /\ UNCHANGED <<stalls, variant, caught, raised>>
        /\ \/ step' \in {"monitor", "day", "dayPull"} /\ step \notin {"finally", "report", "over"}
           \/ step' = "strike" /\ UNCHANGED <<step, before>>
    BY <1>2 DEF AgentStarts, MonitorStarts, StartMonitor, JobsWrite, DayIsPulled,
       PullBegin, FileIsScrambled, Goes, runVars, told, vaultVars, serverVars
  <2> QED BY <2>1
<1>3. CASE DayEnds
  <2>1. /\ UNCHANGED <<stalls, variant, caught, raised, agent, heartbeat>>
        /\ step = "dayPull"
        /\ \/ step' = "day"
           \/ step' = "strike" /\ before' = (heartbeat = "fresh")
    BY <1>3 DEF DayEnds, Goes, vars, serverVars
  <2> QED BY <2>1 DEF BeatInv
<1>4. CASE RunRaises \/ Restores \/ Finally \/ Reports
  <2>1. UNCHANGED <<variant, caught>> /\ step' \in {"finally", "report", "over"}
    BY <1>4 DEF RunRaises, Restores, Finally, Reports, Goes, told
  <2> QED BY <2>1
<1>5. CASE AttackReturns
  BY <1>5 DEF AttackReturns, Goes, vars, serverVars
<1>6. CASE KillerReturns
  BY <1>6 DEF KillerReturns, KillAgent, Goes, told
<1>7. CASE SilenceIsRecorded \/ AwaitTimesOut
  <2>1. /\ step = "await" /\ step' = "look"
        /\ UNCHANGED <<stalls, heartbeat, variant, caught, before, raised>>
        /\ timedOut' = TRUE \/ heartbeat # "fresh"
    BY <1>7 DEF SilenceIsRecorded, AwaitTimesOut, Goes, vars, serverVars, told
  <2> QED BY <2>1
<1>8. CASE LastPullBegins
  <2>1. /\ step = "look" /\ step' = "lastPull"
        /\ UNCHANGED <<stalls, agent, heartbeat, variant, caught, before, raised, timedOut>>
        /\ after' = (heartbeat = "fresh")
    BY <1>8 DEF LastPullBegins, PullBegin, Goes, serverVars
  <2> QED BY <2>1 DEF BeatInv
<1>9. CASE UNCHANGED allVars
  BY <1>9 DEF allVars, vars, serverVars, runVars, told
<1> QED BY <1>1, <1>2, <1>3, <1>4, <1>5, <1>6, <1>7, <1>8, <1>9 DEF RunNext, MainStep

-----------------------------------------------------------------------------
(* Protect mode and the clean point.                                       *)

\* What decides about the pin, and what only the run's own steps move.
decisionVars == <<verdict, latestHealth, lastLiveness, manifests, pin, pullPc>>
courseVars == <<step, variant, timedOut, pinBefore>>

\* No step makes a day quiet that was not.
LEMMA CalmBefore ==
  ASSUME RunInv, BeatInv, [RunNext]_allVars, Calm'
  PROVE  Calm
<1>1. stalls = 0
  <2>1. stalls' = stalls \/ stalls' = stalls + 1
    BY DEF RunNext, MainStep, Beside, PullStep, MonitorStep, PullReadFile, PullRaises,
       PullWriteManifest, PullReadProtectMode, PullWritePin, PullSetHealth, PullRefresh,
       PullAppendAlert, MonitorCheck, MonitorRecord, MonitorRefresh, MonitorAppendAlert,
       MonitorWake, Beat, HeartbeatAges, AgentStarts, MonitorStarts, StartMonitor,
       JobsWrite, DayIsPulled, DayEnds, RunRaises, FileIsScrambled, AttackReturns,
       KillerReturns, KillAgent, SilenceIsRecorded, AwaitTimesOut, LastPullBegins,
       PullBegin, Restores, Finally, Reports, serverVars, vars, allVars
  <2> QED BY <2>1 DEF Calm, BeatInv
<1>2. CASE PullWriteManifest
  <2>1. /\ Newest' = Newest + 1
        /\ \A n \in 1 .. Newest : manifests'[n] = manifests[n]
    BY <1>2, OneMore
  <2>2. \A n \in 1 .. Newest : n \in 1 .. Newest'
    BY <2>1, Counts
  <2> QED BY <1>1, <2>1, <2>2 DEF Calm
<1>3. CASE ~PullWriteManifest
  <2>1. manifests' = manifests
    BY <1>3 DEF RunNext, MainStep, Beside, PullStep, MonitorStep, PullReadFile,
       PullRaises, PullReadProtectMode, PullWritePin, PullSetHealth, PullRefresh,
       PullAppendAlert, MonitorCheck, MonitorRecord, MonitorRefresh, MonitorAppendAlert,
       MonitorWake, Beat, HeartbeatAges, AgentStarts, MonitorStarts, StartMonitor,
       JobsWrite, DayIsPulled, DayEnds, RunRaises, FileIsScrambled, AttackReturns,
       KillerReturns, KillAgent, SilenceIsRecorded, AwaitTimesOut, LastPullBegins,
       PullBegin, Restores, Finally, Reports, diskVars, vaultVars, vars, allVars
  <2> QED BY <1>1, <2>1 DEF Calm, Newest
<1> QED BY <1>2, <1>3

\* With S7 content the verdict is SUSPICIOUS for a recorded silence, or NORMAL.
LEMMA VerdictOfSilence ==
  ASSUME latestHealth # SUSPECT, verdict' = CombinedVerdict(lastLiveness, latestHealth)
  PROVE  ProtectMode' <=> lastLiveness = SILENT
BY DEF CombinedVerdict, ProtectMode, NORMAL, SUSPICIOUS, INCIDENT

\* The watched agent has not been heard as silent, so there is no Protect mode.
LEMMA WatchedIsNormal ==
  ASSUME BeatInv, ProtectInv, Calm, Undecided, Watched
  PROVE  ~ProtectMode
BY DEF BeatInv, ProtectInv, Calm

\* The copy of a share the killer left alone is CLEAN, as the one before it was.
LEMMA KillersCopyIsClean ==
  ASSUME RunInv, DaysInv, QuietInv, PinInv, Calm, PullWriteManifest,
         Unwatched, ~timedOut, step = "lastPull"
  PROVE  manifests'[Newest'].health = CLEAN
<1> USE Counts
<1>1. pullPc = "reading" /\ toRead = {}
  BY DEF PullWriteManifest
<1>2. Newest = QuietDays /\ day = QuietDays
  BY <1>1 DEF DaysInv, UnderWay
<1>3. ~Excused
  BY DEF Excused, Unwatched
<1>4. pin = QuietDays
  BY <1>3 DEF PinInv
<1>5. files = share /\ share = manifests[pin].files
  BY <1>1, <1>2, <1>4, AllIsRead DEF QuietInv, Unwatched
<1>6. Baseline = files
  BY <1>4, <1>5 DEF Baseline
<1>7. OfQuietDays(files) /\ files \in Contents
  BY <1>5 DEF QuietInv, Unwatched, RunInv, PullsInv
<1> QED BY <1>6, <1>7, SameIsClean, OneMore

\* Beside the pull: the monitor, the agent.
LEMMA MonitorKeepsPin ==
  ASSUME ReasonInv, Calm, MonitorStep \/ Beat \/ HeartbeatAges, UNCHANGED runVars, Calm'
  PROVE  ProtectInv' /\ PinInv'
<1> USE DEF ReasonInv
<1>1. UNCHANGED <<courseVars, latestHealth, manifests, pin, pullPc>>
  BY DEF MonitorStep, MonitorCheck, MonitorRecord, MonitorRefresh, MonitorAppendAlert,
     MonitorWake, Beat, HeartbeatAges, diskVars, pullVars, vaultVars, runVars, told,
     courseVars
<1>2. PinInv'
  BY <1>1 DEF PinInv, Quietly, Striking, Excused, Unwatched, Newest, courseVars
<1>3. CASE MonitorRecord
  <2>1. /\ UNCHANGED verdict /\ lastLiveness' = sample /\ monitorPc = "record"
    BY <1>3 DEF MonitorRecord, verdictVars
  <2>2. lastLiveness = SILENT => lastLiveness' = SILENT
    BY <2>1 DEF BeatInv, Calm
  <2> QED BY <1>1, <1>2, <2>1, <2>2
          DEF ProtectInv, Undecided, Quietly, Striking, Unwatched, ProtectMode, courseVars
<1>4. CASE MonitorRefresh
  <2>1. /\ UNCHANGED lastLiveness
        /\ verdict' = CombinedVerdict(lastLiveness, latestHealth)
    BY <1>4 DEF MonitorRefresh, MoveVerdict, verdictVars
  <2>2. latestHealth # SUSPECT => (ProtectMode' <=> lastLiveness = SILENT)
    BY <2>1, VerdictOfSilence
  <2> QED BY <1>1, <1>2, <2>1, <2>2
          DEF ProtectInv, Undecided, Quietly, Striking, Unwatched, courseVars
<1>5. CASE ~MonitorRecord /\ ~MonitorRefresh
  <2>1. UNCHANGED <<verdict, lastLiveness>>
    BY <1>5 DEF MonitorStep, MonitorCheck, MonitorAppendAlert, MonitorWake, Beat,
       HeartbeatAges, verdictVars, vaultVars
  <2> QED BY <1>1, <1>2, <2>1
          DEF ProtectInv, Undecided, Quietly, Striking, Unwatched, ProtectMode, courseVars
<1> QED BY <1>3, <1>4, <1>5

\* The pull: it pins the copy of every quiet day, and not the last one.
LEMMA PullKeepsPin ==
  ASSUME ReasonInv, Calm, PullStep, UNCHANGED runVars, Calm', DaysInv'
  PROVE  ProtectInv' /\ PinInv'
<1> USE Counts DEF ReasonInv
<1>1. UNCHANGED <<courseVars, day, lastLiveness>>
  BY DEF PullStep, PullReadFile, PullRaises, PullWriteManifest, PullReadProtectMode,
     PullWritePin, PullSetHealth, PullRefresh, PullAppendAlert, runVars, told, courseVars
<1>2. step \in {"dayPull", "lastPull"}
  BY DEF RunInv, PullsInv, PullStep, PullReadFile, PullRaises, PullWriteManifest,
     PullReadProtectMode, PullWritePin, PullSetHealth, PullRefresh, PullAppendAlert
<1> USE DEF Quietly, Striking, Undecided, Unwatched, courseVars
<1>3. step = "dayPull" => Newest + UnderWay = day /\ ~Unwatched
  BY DEF DaysInv
<1>4. step = "lastPull" => Newest + UnderWay = QuietDays + 1
  BY DEF DaysInv
<1>5. CASE PullReadFile \/ PullRaises
  <2>1. /\ UNCHANGED <<verdict, latestHealth, manifests, pin>>
        /\ pullPc = "reading" /\ pullPc' \in {"reading", "idle"}
    BY <1>5 DEF PullReadFile, PullRaises, diskVars, verdictVars
  <2>2. ProtectInv'
    BY <1>1, <1>2, <2>1 DEF ProtectInv, ProtectMode
  <2>3. Excused' <=> Excused
    BY <1>1, <2>1 DEF Excused, Newest
  <2> QED BY <1>1, <1>2, <2>1, <2>2, <2>3 DEF PinInv, Newest
<1>6. CASE PullWriteManifest
  <2>1. UNCHANGED <<verdict, latestHealth, pin>> /\ pullPc = "reading"
        /\ pullPc' = IF Assess(files, Baseline) = CLEAN THEN "protect?" ELSE "witness"
    BY <1>6 DEF PullWriteManifest, verdictVars
  <2>2. /\ Newest' = Newest + 1
        /\ manifests'[Newest + 1].health = Assess(files, Baseline)
    BY <1>6, OneMore
  <2>3. ProtectInv'
    BY <1>1, <1>2, <2>1 DEF ProtectInv, ProtectMode
  <2>4. CASE step = "dayPull"
    <3>1. Newest' \in 1 .. Newest' /\ Newest' <= QuietDays
      BY <1>3, <2>1, <2>2, <2>4 DEF UnderWay
    <3>2. manifests'[Newest'].health = CLEAN
      BY <3>1 DEF Calm
    <3>3. pullPc' = "protect?" /\ pin = Newest
      BY <2>1, <2>2, <2>4, <3>2 DEF PinInv
    <3> QED BY <1>1, <2>1, <2>2, <2>3, <2>4, <3>3 DEF PinInv
  <2>5. CASE step = "lastPull"
    <3>1. Newest = QuietDays /\ ~(Newest > QuietDays)
      BY <1>4, <2>1, <2>5 DEF UnderWay
    <3>2. Excused => Excused'
      BY <1>1, <3>1 DEF Excused
    <3>3. Unwatched /\ ~timedOut => manifests'[Newest'].health = CLEAN
      BY <1>6, <2>5, KillersCopyIsClean
    <3> QED BY <1>1, <2>1, <2>3, <2>5, <3>2, <3>3 DEF PinInv
  <2> QED BY <1>2, <2>4, <2>5
<1>7. CASE PullReadProtectMode
  <2>1. UNCHANGED <<verdict, latestHealth, manifests, pin>> /\ pullPc = "protect?"
        /\ pullPc' = IF ProtectMode THEN "witness" ELSE "pin"
    BY <1>7 DEF PullReadProtectMode, diskVars, verdictVars
  <2>2. ProtectInv'
    BY <1>1, <2>1 DEF ProtectInv, ProtectMode
  <2>3. CASE step = "dayPull"
    <3>1. ~ProtectMode
      BY <2>3, WatchedIsNormal DEF Watched
    <3> QED BY <1>1, <2>1, <2>2, <2>3, <3>1 DEF PinInv, Newest
  <2>4. CASE step = "lastPull"
    <3>1. manifests[Newest].health = CLEAN /\ Newest > QuietDays
      BY <1>4, <2>1, <2>4 DEF DaysInv, UnderWay
    <3>2. Excused' <=> Excused
      BY <1>1, <2>1 DEF Excused, Newest
    <3>3. ~Excused => Unwatched /\ ~timedOut
      BY <2>4, <3>1 DEF Excused, DaysInv
    <3>4. ~Excused => ProtectMode
      BY <2>1, <2>4, <3>3 DEF ProtectInv
    <3> QED BY <1>1, <2>1, <2>2, <2>4, <3>2, <3>4 DEF PinInv, Newest
  <2> QED BY <1>2, <2>3, <2>4
<1>8. CASE PullWritePin
  <2>1. UNCHANGED <<verdict, latestHealth, manifests>> /\ pullPc = "pin"
        /\ pullPc' = "witness" /\ pin' = Newest
    BY <1>8 DEF PullWritePin, verdictVars, Newest
  <2>2. ProtectInv'
    BY <1>1, <2>1 DEF ProtectInv, ProtectMode
  <2>3. step = "lastPull" => Excused
    BY <2>1 DEF PinInv
  <2>4. Excused' <=> Excused
    BY <1>1, <2>1 DEF Excused, Newest
  <2> QED BY <1>1, <2>1, <2>2, <2>3, <2>4 DEF PinInv, Newest
<1>9. CASE PullSetHealth
  <2>1. UNCHANGED <<verdict, manifests, pin>> /\ pullPc = "witness"
        /\ pullPc' = "refresh" /\ latestHealth' = health
    BY <1>9 DEF PullSetHealth, diskVars, verdictVars
  <2>2. step = "dayPull" => health = CLEAN
    <3>1. step = "dayPull" => Newest \in 1 .. Newest /\ Newest <= QuietDays
      BY <1>3, <2>1 DEF UnderWay, DaysInv
    <3> QED BY <2>1, <3>1 DEF Calm, DaysInv
  <2>3. ProtectInv'
    BY <1>1, <1>2, <2>1, <2>2 DEF ProtectInv, ProtectMode, CLEAN, SUSPECT
  <2> QED BY <1>1, <2>1, <2>3 DEF PinInv, Excused, Newest
<1>10. CASE PullRefresh
  <2>1. UNCHANGED <<latestHealth, manifests, pin>> /\ pullPc = "refresh"
        /\ pullPc' \in {"idle", "alert"}
        /\ verdict' = CombinedVerdict(lastLiveness, latestHealth)
    BY <1>10 DEF PullRefresh, MoveVerdict, verdictVars, diskVars
  <2>2. latestHealth # SUSPECT => (ProtectMode' <=> lastLiveness = SILENT)
    BY <2>1, VerdictOfSilence
  <2>3. ProtectInv'
    BY <1>1, <1>2, <2>1, <2>2 DEF ProtectInv
  <2> QED BY <1>1, <2>1, <2>3 DEF PinInv, Excused, Newest
<1>11. CASE PullAppendAlert
  <2>1. UNCHANGED <<verdict, latestHealth, manifests, pin>> /\ pullPc = "alert"
        /\ pullPc' = "idle"
    BY <1>11 DEF PullAppendAlert, diskVars, verdictVars
  <2> QED BY <1>1, <1>2, <2>1 DEF ProtectInv, PinInv, Excused, Newest, ProtectMode
<1> QED BY <1>5, <1>6, <1>7, <1>8, <1>9, <1>10, <1>11 DEF PullStep

\* The main thread: it waits for the silence, and looks at the pin in time.
LEMMA MainKeepsPin ==
  ASSUME ReasonInv, Calm, MainStep, Calm'
  PROVE  ProtectInv' /\ PinInv'
<1> USE Counts DEF ReasonInv, Quietly, Striking, Undecided, Unwatched
<1>1. UNCHANGED <<verdict, latestHealth, lastLiveness, manifests, pin, variant>>
  BY DEF MainStep, AgentStarts, MonitorStarts, StartMonitor, JobsWrite, DayIsPulled,
     DayEnds, RunRaises, FileIsScrambled, AttackReturns, KillerReturns, KillAgent,
     SilenceIsRecorded, AwaitTimesOut, LastPullBegins, PullBegin, Restores, Finally,
     Reports, vars, vaultVars, diskVars, verdictVars, runVars, told
<1>2. CASE \/ AgentStarts \/ MonitorStarts \/ JobsWrite \/ DayIsPulled \/ DayEnds
           \/ FileIsScrambled \/ AttackReturns \/ KillerReturns
  <2>1. /\ step \in {"agent", "monitor", "day", "dayPull", "strike"} /\ pullPc = "idle"
        /\ pullPc' \in {"idle", "reading"}
        /\ \/ step' \in {"monitor", "day", "dayPull", "strike", "await"}
           \/ step' = "look" /\ variant = "fast"
    BY <1>2 DEF AgentStarts, MonitorStarts, StartMonitor, JobsWrite, DayIsPulled,
       DayEnds, FileIsScrambled, AttackReturns, KillerReturns, KillAgent, PullBegin,
       Goes, vars, vaultVars, pullVars, runVars, RunInv, PullsInv
  <2> QED BY <1>1, <2>1 DEF ProtectInv, PinInv, Newest, ProtectMode
<1>3. CASE SilenceIsRecorded \/ AwaitTimesOut
  <2>1. /\ step = "await" /\ step' = "look" /\ pullPc' = pullPc
        /\ timedOut' = TRUE \/ ProtectMode
    BY <1>3 DEF SilenceIsRecorded, AwaitTimesOut, Goes, vars, pullVars
  <2> QED BY <1>1, <2>1 DEF ProtectInv, PinInv, Newest, ProtectMode
<1>4. CASE LastPullBegins
  <2>1. /\ step = "look" /\ step' = "lastPull" /\ pinBefore' = pin
        /\ pullPc = "idle" /\ pullPc' = "reading" /\ timedOut' = timedOut
    BY <1>4 DEF LastPullBegins, PullBegin, Goes
  <2>2. pin = QuietDays /\ Newest = QuietDays
    BY <2>1 DEF PinInv, DaysInv
  <2> QED BY <1>1, <2>1, <2>2 DEF ProtectInv, PinInv, Newest, ProtectMode
<1>5. CASE RunRaises \/ Restores \/ Finally \/ Reports
  <2>1. step' \in {"finally", "report", "over"}
    BY <1>5 DEF RunRaises, Restores, Finally, Reports, Goes
  <2> QED BY <2>1 DEF ProtectInv, PinInv
<1> QED BY <1>2, <1>3, <1>4, <1>5 DEF MainStep

\* Every step keeps the clean point where the quiet days put it.
LEMMA NextKeepsPin ==
  ASSUME ReasonInv, [RunNext]_allVars, DaysInv'
  PROVE  ProtectInv' /\ PinInv'
<1>1. CASE ~Calm'
  BY <1>1 DEF ProtectInv, PinInv
<1>2. CASE Calm' /\ RunNext
  <2>1. Calm
    BY <1>2, CalmBefore DEF ReasonInv
  <2> QED BY <1>2, <2>1, MonitorKeepsPin, PullKeepsPin, MainKeepsPin
          DEF RunNext, Beside
<1>3. CASE UNCHANGED allVars
  <2>1. UNCHANGED <<decisionVars, courseVars, stalls>>
    BY <1>3 DEF allVars, vars, serverVars, diskVars, verdictVars, pullVars, runVars, told,
       decisionVars, courseVars
  <2> QED BY <2>1 DEF ReasonInv, ProtectInv, PinInv, Calm, Undecided, Quietly, Striking,
          Unwatched, Excused, Newest, ProtectMode, decisionVars, courseVars
<1> QED BY <1>1, <1>2, <1>3

-----------------------------------------------------------------------------
(* The last line.                                                          *)

\* After the attack nothing but the main thread changes what it has to tell.
LEMMA BesideKeepsTold ==
  ASSUME ReasonInv, Beside, step \in {"finally", "report", "over"}
  PROVE  /\ UNCHANGED <<manifests, runVars>>
         /\ stalls \in Nat /\ stalls' \in {stalls, stalls + 1}
<1>1. pullPc = "idle"
  BY DEF ReasonInv, RunInv, PullsInv
<1> QED BY <1>1 DEF Beside, PullStep, MonitorStep, PullReadFile, PullRaises,
    PullWriteManifest, PullReadProtectMode, PullWritePin, PullSetHealth, PullRefresh,
    PullAppendAlert, MonitorCheck, MonitorRecord, MonitorRefresh, MonitorAppendAlert,
    MonitorWake, Beat, HeartbeatAges, serverVars, diskVars, vaultVars, ReasonInv, BeatInv

\* What the run tells in the end: that it raised on a quiet day, or that the copy
\* of the last of them is restored and the witnesses said what they should.
LEMMA NextKeepsTold ==
  ASSUME ReasonInv, [RunNext]_allVars
  PROVE  ToldInv'
<1> USE Counts DEF ReasonInv
<1>1. SUFFICES ASSUME Calm', step' \in {"finally", "report", "over"}
               PROVE  ToldInv'
  BY DEF ToldInv
<1>2. Calm
  BY <1>1, CalmBefore
<1>3. CASE Beside
  <2>1. step \in {"finally", "report", "over"} /\ UNCHANGED <<manifests, runVars>>
    BY <1>1, <1>3, BesideKeepsTold DEF Beside, runVars
  <2> QED BY <1>2, <2>1 DEF ToldInv, Excused, Newest, runVars, told
<1>4. CASE RunRaises
  <2>1. step \in {"day", "strike"} /\ raised' = TRUE /\ manifests' = manifests
    BY <1>4 DEF RunRaises, vars, diskVars
  <2>2. pullPc = "idle"
    BY <2>1 DEF RunInv, PullsInv
  <2>3. Newest <= QuietDays
    BY <2>1, <2>2 DEF DaysInv, UnderWay, Quietly, Striking
  <2> QED BY <2>1, <2>3 DEF ToldInv, Newest
<1>5. CASE Restores
  <2>1. /\ step = "lastPull" /\ pullPc = "idle" /\ restored' = pin /\ pinAfter' = pin
        /\ raised' = (pin = 0)
        /\ UNCHANGED <<manifests, variant, timedOut, pinBefore, before, after, caught>>
    BY <1>5 DEF Restores, RestoreTarget, Goes, vars, diskVars
  <2>2. Newest = QuietDays + 1 /\ Newest > QuietDays
    BY <2>1 DEF DaysInv, UnderWay
  <2>3. Excused' <=> Excused
    BY <2>1 DEF Excused, Newest
  <2>4. SUFFICES ASSUME ~Excused PROVE ToldInv'
    BY <2>3 DEF ToldInv
  <2>5. pin = QuietDays /\ pinBefore = QuietDays /\ pin # 0
    BY <1>2, <2>1, <2>4 DEF PinInv
  <2>6. variant = "fast" => after
    BY <1>2, <2>1 DEF ReadInv, Calm
  <2>7. variant = "watcher-killer" =>
          before /\ ~after /\ ~caught /\ manifests[Newest].health = CLEAN
    BY <1>2, <2>1, <2>2, <2>4 DEF ReadInv, PinInv, Calm, Excused, Unwatched
  <2> QED BY <2>1, <2>2, <2>5, <2>6, <2>7 DEF ToldInv, Newest
<1>6. CASE Finally \/ Reports
  <2>1. /\ UNCHANGED <<manifests, variant, timedOut, pinBefore, pinAfter, restored,
                       raised, before, after, caught>>
        /\ step \in {"finally", "report"}
    BY <1>6 DEF Finally, Reports, Goes, vars, diskVars, told
  <2> QED BY <1>2, <2>1 DEF ToldInv, Excused, Newest
<1>7. CASE \/ AgentStarts \/ MonitorStarts \/ JobsWrite \/ DayIsPulled \/ DayEnds
           \/ FileIsScrambled \/ AttackReturns \/ KillerReturns \/ SilenceIsRecorded
           \/ AwaitTimesOut \/ LastPullBegins
  <2>1. step' \notin {"finally", "report", "over"}
    BY <1>7 DEF AgentStarts, MonitorStarts, JobsWrite, DayIsPulled, DayEnds,
       FileIsScrambled, AttackReturns, KillerReturns, SilenceIsRecorded, AwaitTimesOut,
       LastPullBegins, Goes, runVars
  <2> QED BY <1>1, <2>1
<1>8. CASE UNCHANGED allVars
  BY <1>2, <1>8 DEF allVars, vars, diskVars, runVars, told, ToldInv, Excused, Newest
<1> QED BY <1>3, <1>4, <1>5, <1>6, <1>7, <1>8 DEF RunNext, MainStep

\* When what it has to tell is that, its checks hold.
LEMMA ChecksHold ==
  ASSUME ReasonInv, Calm, step = "report", ~Excused, ~raised \/ Newest > QuietDays,
         variant = "fast" => caught /\ DamagedHealth # CLEAN
  PROVE  /\ ~raised /\ RestoreOk
         /\ IF variant = "fast" THEN FastChecks ELSE KillerChecks
<1> USE Counts DEF ReasonInv
<1>1. /\ ~raised /\ Newest = QuietDays + 1
      /\ restored = QuietDays /\ pinBefore = QuietDays /\ pinAfter = QuietDays
      /\ variant = "fast" => after
      /\ variant = "watcher-killer" =>
           before /\ ~after /\ ~caught /\ manifests[Newest].health = CLEAN
  BY DEF ToldInv
<1>2. restored \in 1 .. Newest /\ restored <= QuietDays /\ Newest \in 1 .. Len(manifests)
  BY <1>1 DEF Newest
<1>3. manifests[restored] \in Manifests /\ manifests[Newest] \in Manifests
  BY <1>1, <1>2, ElementOfSeq DEF Newest
<1>4. manifests[restored].files \in Contents /\ OfQuietDays(manifests[restored].files)
  BY <1>2, <1>3 DEF QuietInv, Manifests
<1>5. RestoreOk
  BY <1>4, QuietIsWhole DEF RestoreOk
<1>6. DamagedHealth = manifests[Newest].health /\ DamagedHealth \in {CLEAN, SUSPECT}
  BY <1>3 DEF DamagedHealth, Newest, Manifests, Healths
<1>7. variant = "fast" => FastChecks
  BY <1>1, <1>6 DEF FastChecks
<1>8. variant = "watcher-killer" => KillerChecks
  <2>1. CombinedVerdict(SILENT, CLEAN) = SUSPICIOUS
    BY DEF CombinedVerdict, SILENT, CLEAN, SUSPECT
  <2> QED BY <1>1, <1>6, <2>1 DEF KillerChecks
<1>9. variant \in {"fast", "watcher-killer"}
  BY DEF DaysInv
<1> QED BY <1>1, <1>5, <1>7, <1>8, <1>9

\* A last line that says FAILED has its reason.
LEMMA NextKeepsReason ==
  ASSUME ReasonInv, [RunNext]_allVars
  PROVE  FailsForAReason'
<1> USE Counts DEF ReasonInv
<1>1. CASE Reports
  <2>1. /\ UNCHANGED <<vars, variant, caught, falseAlarm, timedOut, raised>>
        /\ step = "report"
        /\ passed' = (~raised /\ ~falseAlarm /\ RestoreOk
                      /\ IF variant = "fast" THEN FastChecks ELSE KillerChecks)
    BY <1>1 DEF Reports, Goes
  <2>2. UNCHANGED <<manifests, stalls>>
    BY <2>1 DEF vars, diskVars, serverVars
  <2>3. SUFFICES ASSUME ~passed', ~falseAlarm, ~timedOut, ~(stalls > 0),
                        ~(raised /\ Newest <= QuietDays),
                        \A n \in DOMAIN manifests :
                          ~(n <= QuietDays /\ manifests[n].health = SUSPECT),
                        ~(variant = "fast" /\ (~caught \/ DamagedHealth = CLEAN))
                 PROVE  FALSE
    BY <2>1, <2>2 DEF FailsForAReason, DamagedHealth, Newest
  <2>4. Calm
    <3>1. \A n \in 1 .. Newest : manifests[n] \in Manifests /\ n \in DOMAIN manifests
      BY LenProperties, ElementOfSeq DEF Newest
    <3>2. \A n \in 1 .. Newest : manifests[n].health \in {CLEAN, SUSPECT}
      BY <3>1 DEF Manifests, Healths
    <3> QED BY <2>3, <3>1, <3>2 DEF Calm, BeatInv
  <2>5. ~Excused
    BY <2>3 DEF Excused, DamagedHealth, Newest
  <2>6. ~raised \/ Newest > QuietDays
    BY <2>3
  <2>7. ~raised /\ RestoreOk /\ IF variant = "fast" THEN FastChecks ELSE KillerChecks
    BY <2>1, <2>3, <2>4, <2>5, <2>6, ChecksHold
  <2> QED BY <2>1, <2>3, <2>7
<1>2. CASE Beside
  <2>1. CASE step = "over"
    <3>1. UNCHANGED <<manifests, runVars>> /\ (stalls > 0 => stalls' > 0)
      BY <1>2, <2>1, BesideKeepsTold
    <3> QED BY <3>1 DEF FailsForAReason, DamagedHealth, runVars, told
  <2>2. CASE step # "over"
    BY <1>2, <2>2 DEF Beside, runVars, FailsForAReason
  <2> QED BY <2>1, <2>2
<1>3. CASE MainStep /\ ~Reports
  <2>1. step' # "over"
    BY <1>3 DEF MainStep, AgentStarts, MonitorStarts, JobsWrite, DayIsPulled, DayEnds,
       RunRaises, FileIsScrambled, AttackReturns, KillerReturns, SilenceIsRecorded,
       AwaitTimesOut, LastPullBegins, Restores, Finally, Goes, runVars
  <2> QED BY <2>1 DEF FailsForAReason
<1>4. CASE UNCHANGED allVars
  BY <1>4 DEF allVars, vars, diskVars, serverVars, runVars, told, FailsForAReason,
     DamagedHealth
<1> QED BY <1>1, <1>2, <1>3, <1>4 DEF RunNext

\* FAILED is never said of the protection's own timing: not of a pin that moved
\* after all, nor of a copy that was taken too late, nor of a monitor that read
\* the old heartbeat once more.  A share of any size, any number of quiet days and
\* any interleaving of monitor, pulls and agent.
THEOREM FailedAlwaysHasAReason == RunSpec => []FailsForAReason
<1>1. RunInit => ReasonInv
  <2> SUFFICES ASSUME RunInit PROVE ReasonInv
    OBVIOUS
  <2>1. RunInv
    BY RunInvAtFirst
  <2>2. /\ share = FirstShare /\ manifests = <<>> /\ pin = 0 /\ pullPc = "idle"
        /\ step = "agent" /\ variant \in {"fast", "watcher-killer"} /\ day = 0
        /\ verdict = NORMAL /\ latestHealth = None /\ lastLiveness = None
        /\ sample = None /\ monitorPc = "off" /\ agent = FALSE /\ heartbeat = "missing"
        /\ stalls = 0 /\ ~raised /\ ~caught
    BY DEF RunInit, Init
  <2>3. Newest = 0 /\ ~Watched /\ ~Unwatched /\ ~ProtectMode
    BY <2>2 DEF Newest, Watched, Unwatched, ProtectMode, NORMAL, SUSPICIOUS, INCIDENT
  <2>4. DaysInv
    BY <2>2, <2>3 DEF DaysInv, Quietly, Striking, UnderWay
  <2>5. QuietInv
    BY <2>2, <2>3 DEF QuietInv, OfQuietDays, Striking
  <2>6. BeatInv /\ ReadInv
    BY <2>2, <2>3 DEF BeatInv, ReadInv, Striking, None, SILENT, ALIVE
  <2>7. ProtectInv /\ PinInv
    BY <2>2, <2>3 DEF ProtectInv, PinInv, None, SUSPECT
  <2>8. ToldInv /\ FailsForAReason
    BY <2>2 DEF ToldInv, FailsForAReason
  <2> QED BY <2>1, <2>4, <2>5, <2>6, <2>7, <2>8 DEF ReasonInv
<1>2. ReasonInv /\ [RunNext]_allVars => ReasonInv'
  <2> SUFFICES ASSUME ReasonInv, [RunNext]_allVars PROVE ReasonInv'
    OBVIOUS
  <2>1. RunInv'
    BY RunInvForEver DEF ReasonInv
  <2>2. DaysInv' /\ QuietInv'
    BY <2>1, NextKeepsDays DEF ReasonInv
  <2>3. BeatInv'
    BY NextKeepsBeat DEF ReasonInv
  <2>4. ReadInv'
    BY <2>3, NextKeepsRead DEF ReasonInv
  <2>5. ProtectInv' /\ PinInv'
    BY <2>2, NextKeepsPin
  <2>6. ToldInv' /\ FailsForAReason'
    BY NextKeepsTold, NextKeepsReason
  <2> QED BY <2>1, <2>2, <2>3, <2>4, <2>5, <2>6 DEF ReasonInv
<1>3. ReasonInv => FailsForAReason
  BY DEF ReasonInv
<1> QED BY <1>1, <1>2, <1>3, PTL DEF RunSpec

-----------------------------------------------------------------------------
(* The run's types.                                                        *)

\* What the run is told, and where it is; a pull is begun only where the bound on
\* them leaves room for its manifest.
RunTypes ==
  /\ step \in {"agent", "monitor", "day", "dayPull", "strike", "await", "look",
               "lastPull", "finally", "report", "over"}
  /\ caught \in BOOLEAN /\ falseAlarm \in BOOLEAN /\ before \in BOOLEAN
  /\ after \in BOOLEAN /\ timedOut \in BOOLEAN /\ raised \in BOOLEAN
  /\ passed \in BOOLEAN
  /\ pinAfter \in 0 .. MaxPulls

RoomInv == Len(manifests) + UnderWay <= MaxPulls

\* Every step leaves room for what is under way.
LEMMA NextKeepsRoom ==
  ASSUME RunInv, RoomInv, [RunNext]_allVars
  PROVE  RoomInv'
<1>1. Len(manifests) \in Nat /\ MaxPulls \in Nat
  BY LenProperties, EnvironmentAssumption DEF RunInv, PullsInv
<1>2. CASE UNCHANGED <<manifests, pullPc>>
  BY <1>2 DEF RoomInv, UnderWay
<1>3. CASE PullBegin
  <2>1. Len(manifests) < MaxPulls /\ manifests' = manifests
    BY <1>3 DEF PullBegin, diskVars
  <2> QED BY <1>1, <2>1 DEF RoomInv, UnderWay
<1>4. CASE PullWriteManifest
  <2>1. PICK judged : judged = Assess(files, Baseline)
    OBVIOUS
  <2>2. PICK m : m = [health |-> judged, files |-> files]
    OBVIOUS
  <2>3. manifests' = Append(manifests, m) /\ pullPc = "reading" /\ pullPc' # "reading"
    BY <1>4, <2>1, <2>2 DEF PullWriteManifest
  <2>4. m \in Manifests
    <3>1. judged \in Healths
      BY <2>1 DEF Assess, Healths
    <3> QED BY <2>2, <3>1 DEF Manifests, RunInv, PullsInv
  <2>5. Len(manifests') = Len(manifests) + 1
    BY <2>3, <2>4, AppendProperties DEF RunInv, PullsInv
  <2>6. UnderWay = 1 /\ UnderWay' = 0
    BY <2>3 DEF UnderWay
  <2> QED BY <1>1, <2>5, <2>6 DEF RoomInv
<1>5. CASE manifests' = manifests /\ pullPc' # "reading"
  BY <1>1, <1>5 DEF RoomInv, UnderWay
<1>6. CASE Beside
  <2>1. CASE PullReadFile \/ PullRaises \/ PullReadProtectMode \/ PullWritePin
             \/ PullSetHealth \/ PullRefresh \/ PullAppendAlert
    BY <1>2, <1>5, <2>1 DEF PullReadFile, PullRaises, PullReadProtectMode, PullWritePin,
       PullSetHealth, PullRefresh, PullAppendAlert, diskVars
  <2>2. CASE MonitorStep \/ Beat \/ HeartbeatAges
    BY <1>2, <2>2 DEF MonitorStep, MonitorCheck, MonitorRecord, MonitorRefresh,
       MonitorAppendAlert, MonitorWake, Beat, HeartbeatAges, diskVars, vaultVars, pullVars
  <2> QED BY <1>4, <1>6, <2>1, <2>2 DEF Beside, PullStep
<1>7. CASE MainStep
  <2>1. CASE DayIsPulled \/ LastPullBegins
    BY <1>3, <2>1 DEF DayIsPulled, LastPullBegins
  <2>2. CASE MainStep /\ ~DayIsPulled /\ ~LastPullBegins
    BY <1>2, <2>2 DEF MainStep, AgentStarts, MonitorStarts, StartMonitor, JobsWrite, DayEnds,
       RunRaises, FileIsScrambled, AttackReturns, KillerReturns, KillAgent,
       SilenceIsRecorded, AwaitTimesOut, Restores, Finally, Reports, vars, vaultVars,
       diskVars, pullVars
  <2> QED BY <1>7, <2>1, <2>2
<1>8. CASE UNCHANGED allVars
  BY <1>2, <1>8 DEF allVars, vars, diskVars, pullVars
<1> QED BY <1>6, <1>7, <1>8 DEF RunNext

\* And what the run is told has its type.
LEMMA NextKeepsRunTypes ==
  ASSUME RunInv, RoomInv, RunTypes, [RunNext]_allVars
  PROVE  RunTypes'
<1>1. CASE UNCHANGED runVars
  BY <1>1 DEF RunTypes, runVars, told
<1>2. CASE AgentStarts \/ MonitorStarts \/ KillerReturns \/ SilenceIsRecorded \/ Finally
  <2>1. UNCHANGED told /\ step' \in {"monitor", "day", "await", "look", "report"}
    BY <1>2 DEF AgentStarts, MonitorStarts, KillerReturns, SilenceIsRecorded, Finally, Goes
  <2> QED BY <2>1 DEF RunTypes, told
<1>3. CASE DayIsPulled
  BY <1>3 DEF DayIsPulled, Goes, RunTypes
<1>4. CASE DayEnds
  BY <1>4 DEF DayEnds, Goes, RunTypes
<1>5. CASE RunRaises \/ AttackReturns \/ AwaitTimesOut
  BY <1>5 DEF RunRaises, AttackReturns, AwaitTimesOut, Goes, RunTypes
<1>6. CASE LastPullBegins
  BY <1>6 DEF LastPullBegins, Goes, RunTypes
<1>7. CASE Restores
  <2>1. /\ step' = "finally" /\ pinAfter' = pin /\ raised' = (RestoreTarget = 0)
        /\ UNCHANGED <<caught, falseAlarm, before, after, timedOut, passed>>
    BY <1>7 DEF Restores, Goes
  <2>2. pin \in 0 .. MaxPulls
    <3>1. Len(manifests) \in Nat /\ MaxPulls \in Nat /\ UnderWay \in {0, 1}
      BY LenProperties, EnvironmentAssumption DEF RunInv, PullsInv, UnderWay
    <3>2. Len(manifests) <= MaxPulls
      BY <3>1 DEF RoomInv
    <3> QED BY <3>1, <3>2 DEF RunInv, CopiesInv
  <2>3. raised' \in BOOLEAN
    BY <2>1, Zenon
  <2> QED BY <2>1, <2>2, <2>3 DEF RunTypes
<1>8. CASE Reports
  BY <1>8 DEF Reports, Goes, RunTypes
<1>9. CASE JobsWrite \/ FileIsScrambled \/ Beside
  BY <1>1, <1>9 DEF JobsWrite, FileIsScrambled, Beside
<1>10. CASE UNCHANGED allVars
  BY <1>1, <1>10 DEF allVars
<1> QED BY <1>2, <1>3, <1>4, <1>5, <1>6, <1>7, <1>8, <1>9, <1>10 DEF RunNext, MainStep

\* Every variable of the run always has its type: the copies it names are none or
\* one of those that may be pulled, and it lives no more quiet days than configured.
THEOREM RunTypeCorrect == RunSpec => []RunTypeOK
<1> DEFINE Inv == RunInv /\ RoomInv /\ RunTypes
<1>1. RunInit => Inv
  <2> SUFFICES ASSUME RunInit PROVE RunInv /\ RoomInv /\ RunTypes
    OBVIOUS
  <2>1. /\ manifests = <<>> /\ pullPc = "idle" /\ step = "agent" /\ pinAfter = 0
        /\ caught = FALSE /\ falseAlarm = FALSE /\ before = FALSE /\ after = FALSE
        /\ timedOut = FALSE /\ raised = FALSE /\ passed = FALSE
    BY DEF RunInit, Init
  <2>2. Len(<<>>) = 0 /\ MaxPulls \in Nat
    BY EmptySeq, EnvironmentAssumption
  <2>3. RoomInv
    BY <2>1, <2>2 DEF RoomInv, UnderWay
  <2>4. /\ caught \in BOOLEAN /\ falseAlarm \in BOOLEAN /\ before \in BOOLEAN
        /\ after \in BOOLEAN /\ timedOut \in BOOLEAN /\ raised \in BOOLEAN
        /\ passed \in BOOLEAN
    BY <2>1, Zenon
  <2>5. RunTypes
    BY <2>1, <2>2, <2>4 DEF RunTypes
  <2> QED BY <2>3, <2>5, RunInvAtFirst
<1>2. Inv /\ [RunNext]_allVars => Inv'
  BY RunInvForEver, NextKeepsRoom, NextKeepsRunTypes
<1>3. Inv => RunTypeOK
  <2> SUFFICES ASSUME RunInv, RoomInv, RunTypes PROVE RunTypeOK
    OBVIOUS
  <2>1. Len(manifests) \in Nat /\ MaxPulls \in Nat /\ UnderWay \in {0, 1}
    BY LenProperties, EnvironmentAssumption DEF RunInv, PullsInv, UnderWay
  <2>2. Len(manifests) <= MaxPulls
    BY <2>1 DEF RoomInv
  <2>3. pinBefore \in 0 .. MaxPulls
    BY <2>1, <2>2 DEF RunInv, SeenInv
  <2>4. restored \in 0 .. MaxPulls
    BY DEF RunInv, SeenInv, RunTypes
  <2>5. day \in 0 .. QuietDays
    BY DemoAssumption DEF RunInv, PullsInv, CopiesInv
  <2> QED BY <2>3, <2>4, <2>5 DEF RunTypes, RunTypeOK
<1> QED BY <1>1, <1>2, <1>3, PTL DEF RunSpec
=============================================================================
