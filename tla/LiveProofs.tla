------------------------------ MODULE LiveProofs ------------------------------
(***************************************************************************)
(* The live session, for every number of days, jobs, requests and          *)
(* incidents: no job under attack, the lock that the phase speaks of, and  *)
(* every run judged once, in order and before its night is pulled.         *)
(***************************************************************************)
EXTENDS Live, SequenceTheorems, TLAPS

-----------------------------------------------------------------------------
(* The office.                                                             *)

\* From the moment the office is halted for an attack until the attack is over.
AtAttack == \/ mainPc \in {"strike", "battle", "caught", "missed"}
            \/ mainPc \in {"digest", "incident"} /\ after = "strike"

\* The office is halted for good, and was halted when no job held its lock;
\* the launcher that asks the flag is in place until the cleanup has halted it.
OfficeInv ==
  /\ after \in {"finish", "pull", "strike"} /\ resume \in {"restored?", "sleep"}
  /\ mainPc \in {"unwrap", "undo", "exit", "done"} => halted
  /\ ~wrapped => mainPc \in {"undo", "exit", "done"}
  /\ AtAttack => halted /\ dayPc # "job"
  /\ simulator # "off" => mainPc \in {"battle", "caught", "missed"}

\* The days thread never touches the halt, and launches no job under it.
LEMMA DaysKeepOffice ==
  ASSUME OfficeInv, Days
  PROVE  OfficeInv'
<1> USE DEF OfficeInv, AtAttack, exceptDays, officeVars, mainVars, serverVars
<1>1. CASE LaunchJob
  BY <1>1 DEF LaunchJob
<1>2. CASE JobEnds
  BY <1>2 DEF JobEnds
<1>3. CASE BeginDay \/ EndDays \/ ShopsFail \/ LaunchRefused \/ DayRaised
  BY <1>3 DEF BeginDay, EndDays, ShopsFail, LaunchRefused, DayRaised
<1>4. CASE NightEnds \/ TakeAck
  BY <1>4 DEF NightEnds, TakeAck
<1> QED BY <1>1, <1>2, <1>3, <1>4 DEF Days

\* The main thread strikes only after it has halted the office, with no job running.
LEMMA MainKeepsOffice ==
  ASSUME OfficeInv, Main
  PROVE  OfficeInv'
<1> USE DEF OfficeInv, AtAttack, exceptMain, dayVars, officeVars, mainVars, serverVars
<1>1. CASE PollLeaves \/ PollRaises \/ PollTakesSettled
  BY <1>1 DEF PollLeaves, PollRaises, PollTakesSettled
<1>2. CASE DigestQuiet \/ DigestReturns
  BY <1>2 DEF DigestQuiet, DigestReturns
<1>3. CASE DigestContains \/ DigestHalts
  BY <1>3 DEF DigestContains, DigestHalts
<1>4. CASE NoDayDone \/ SkipCutDay \/ DigestNight \/ PullNight
  BY <1>4 DEF NoDayDone, SkipCutDay, DigestNight, PullNight
<1>5. CASE IgnoreAttack \/ BeginAttack \/ HaltOffice \/ CallOff
  BY <1>5 DEF IgnoreAttack, BeginAttack, HaltOffice, CallOff
<1>6. CASE Strike \/ Catch \/ Miss
  BY <1>6 DEF Strike, Catch, Miss
<1>7. CASE EndBattle \/ PullDamage
  BY <1>7 DEF EndBattle, PullDamage
<1>8. CASE AutopilotRestores \/ AutopilotCannotRestore \/ ObeyRestore
  BY <1>8 DEF AutopilotRestores, AutopilotCannotRestore, ObeyRestore
<1>9. CASE AutopilotStrikes \/ AutopilotWaits \/ LoopAgain
  BY <1>9 DEF AutopilotStrikes, AutopilotWaits, LoopAgain
<1>10. CASE CleanupHalts \/ CleanupUnwraps \/ CleanupUndoes \/ Exit
  BY <1>10 DEF CleanupHalts, CleanupUnwraps, CleanupUndoes, Exit
<1>11. CASE StrikeRaises \/ JudgingRaises \/ CallRaises
  BY <1>11 DEF StrikeRaises, JudgingRaises, CallRaises
<1> QED BY <1>1, <1>2, <1>3, <1>4, <1>5, <1>6, <1>7, <1>8, <1>9, <1>10, <1>11 DEF Main

\* Neither the simulator's end nor the console touches the office.
LEMMA NextKeepsOffice ==
  ASSUME OfficeInv, [Next]_vars
  PROVE  OfficeInv'
<1>1. CASE SimulatorEnds
  BY <1>1 DEF SimulatorEnds, OfficeInv, AtAttack, dayVars, officeVars, mainVars
<1>2. CASE Console
  BY <1>2 DEF Console, RequestAttack, BeginRestore, ReportRestore, EndSession,
     exceptConsole, OfficeInv, AtAttack, dayVars, officeVars, mainVars, serverVars
<1>3. CASE UNCHANGED vars
  BY <1>3 DEF vars, OfficeInv, AtAttack, dayVars, officeVars, mainVars, serverVars
<1> QED BY <1>1, <1>2, <1>3, DaysKeepOffice, MainKeepsOffice DEF Next

\* No night job runs while the simulator does.
THEOREM NoJobIsUnderAttack == Spec => []NoJobUnderAttack
<1>1. Init => OfficeInv
  BY DEF Init, OfficeInv, AtAttack
<1>2. OfficeInv /\ [Next]_vars => OfficeInv'
  BY NextKeepsOffice
<1>3. OfficeInv => NoJobUnderAttack
  BY DEF OfficeInv, AtAttack, NoJobUnderAttack
<1> QED BY <1>1, <1>2, <1>3, PTL DEF Spec

-----------------------------------------------------------------------------
(* The lock.                                                               *)

Commands == [attack : Nat, restore : Nat, ok : BOOLEAN]

\* control.json, as it is and as it was read last.
CommandsInv == control \in Commands /\ view \in Commands /\ nextId \in Nat

\* A restore's report is one more command.
LEMMA ReportIsACommand ==
  ASSUME NEW c \in Commands, NEW id \in Nat, NEW ok \in BOOLEAN
  PROVE  [c EXCEPT !.restore = id, !.ok = ok] \in Commands
BY Zenon DEF Commands

\* Every step, the console's included, leaves the control file and the engine's
\* copy of it in order.
LEMMA NextKeepsCommands ==
  ASSUME CommandsInv, [Next]_vars
  PROVE  CommandsInv'
<1> USE DEF CommandsInv, Commands, consoleVars, sessionVars, exceptDays, exceptMain,
        exceptConsole
<1>1. CASE Days
  BY <1>1 DEF Days, BeginDay, EndDays, ShopsFail, LaunchJob, LaunchRefused, JobEnds,
     DayRaised, NightEnds, TakeAck
<1>2. CASE PollLeaves \/ PollRaises \/ PollTakesSettled
  BY <1>2 DEF PollLeaves, PollRaises, PollTakesSettled
<1>3. CASE DigestQuiet \/ DigestContains \/ DigestHalts \/ DigestReturns
  BY <1>3 DEF DigestQuiet, DigestContains, DigestHalts, DigestReturns
<1>4. CASE NoDayDone \/ SkipCutDay \/ DigestNight \/ PullNight
  BY <1>4 DEF NoDayDone, SkipCutDay, DigestNight, PullNight
<1>5. CASE IgnoreAttack \/ BeginAttack \/ HaltOffice \/ CallOff
  BY <1>5 DEF IgnoreAttack, BeginAttack, HaltOffice, CallOff
<1>6. CASE Strike \/ Catch \/ Miss \/ EndBattle \/ PullDamage
  BY <1>6 DEF Strike, Catch, Miss, EndBattle, PullDamage
<1>7. CASE AutopilotRestores \/ AutopilotCannotRestore \/ ObeyRestore
  BY <1>7 DEF AutopilotRestores, AutopilotCannotRestore, ObeyRestore
<1>8. CASE AutopilotStrikes \/ AutopilotWaits \/ LoopAgain
  BY <1>8 DEF AutopilotStrikes, AutopilotWaits, LoopAgain
<1>9. CASE CleanupHalts \/ CleanupUnwraps \/ CleanupUndoes \/ Exit
  BY <1>9 DEF CleanupHalts, CleanupUnwraps, CleanupUndoes, Exit
<1>10. CASE SimulatorEnds \/ UNCHANGED vars
  BY <1>10 DEF SimulatorEnds, vars
<1>11. CASE RequestAttack \/ BeginRestore \/ EndSession
  BY <1>11 DEF RequestAttack, BeginRestore, EndSession
<1>12. CASE ReportRestore
  <2>1. PICK ok \in BOOLEAN :
          control' = [control EXCEPT !.restore = nextId, !.ok = ok]
    BY <1>12 DEF ReportRestore
  <2>2. view' = view /\ nextId' = nextId + 1
    BY <1>12 DEF ReportRestore
  <2>3. control' \in Commands
    BY <2>1, ReportIsACommand
  <2> QED BY <2>2, <2>3
<1>13. CASE StrikeRaises \/ JudgingRaises \/ CallRaises
  BY <1>13 DEF StrikeRaises, JudgingRaises, CallRaises
<1> QED BY <1>1, <1>2, <1>3, <1>4, <1>5, <1>6, <1>7, <1>8, <1>9, <1>10, <1>11,
           <1>12, <1>13 DEF Next, Main, Console

\* The Judge's lock is on between its verdict and the phase that tells of it,
\* an attack keeps its phase while it lasts, and what control.json says of a
\* restore, then or when it was read, is what some restore's checks said.
LockInv ==
  /\ control.ok \/ view.ok => verified
  /\ mainPc \in {"incident", "caught"} => locked
  /\ mainPc \in {"battle", "caught", "missed"} => phase = "attack"
  /\ mainPc = "pullDamage" => phase = "vault" /\ (attack = "missed" \/ locked)
  /\ mainPc \in {"exit", "done"} => ~locked
  /\ LockMatchesPhase

\* The days thread neither locks the records nor moves the phase.
LEMMA DaysKeepLock ==
  ASSUME LockInv, Days
  PROVE  LockInv'
<1> USE DEF LockInv, LockMatchesPhase, exceptDays, mainVars, sessionVars, serverVars,
        consoleVars
<1>1. CASE BeginDay \/ EndDays \/ ShopsFail \/ LaunchJob \/ LaunchRefused \/ DayRaised
  BY <1>1 DEF BeginDay, EndDays, ShopsFail, LaunchJob, LaunchRefused, DayRaised
<1>2. CASE JobEnds \/ NightEnds \/ TakeAck
  BY <1>2 DEF JobEnds, NightEnds, TakeAck
<1> QED BY <1>1, <1>2 DEF Days

\* Every step of the main loop, the attack and the cleanup moves lock and phase together.
LEMMA MainKeepsLock ==
  ASSUME OfficeInv, LockInv, Main
  PROVE  LockInv'
<1> USE DEF LockInv, LockMatchesPhase, exceptMain, mainVars, sessionVars, serverVars,
        consoleVars, Running, Locked, Finished
<1>1. CASE PollLeaves \/ PollRaises \/ PollTakesSettled
  BY <1>1 DEF PollLeaves, PollRaises, PollTakesSettled
<1>2. CASE DigestQuiet \/ DigestReturns
  BY <1>2 DEF DigestQuiet, DigestReturns, OfficeInv
<1>3. CASE DigestContains \/ DigestHalts
  BY <1>3 DEF DigestContains, DigestHalts
<1>4. CASE NoDayDone \/ SkipCutDay \/ DigestNight \/ PullNight
  BY <1>4 DEF NoDayDone, SkipCutDay, DigestNight, PullNight
<1>5. CASE IgnoreAttack \/ BeginAttack \/ HaltOffice \/ CallOff
  BY <1>5 DEF IgnoreAttack, BeginAttack, Ready, HaltOffice, CallOff, OfficeInv
<1>6. CASE Strike \/ Catch \/ Miss
  BY <1>6 DEF Strike, Catch, Miss
<1>7. CASE EndBattle \/ PullDamage
  BY <1>7 DEF EndBattle, PullDamage, OfficeInv
<1>8. CASE AutopilotRestores \/ AutopilotCannotRestore
  BY <1>8 DEF AutopilotRestores, AutopilotCannotRestore, OfficeInv
<1>9. CASE ObeyRestore
  BY <1>9 DEF ObeyRestore
<1>10. CASE AutopilotStrikes \/ AutopilotWaits \/ LoopAgain
  BY <1>10 DEF AutopilotStrikes, AutopilotWaits, AutopilotAttackDue, LoopAgain
<1>11. CASE CleanupHalts \/ CleanupUnwraps \/ CleanupUndoes
  BY <1>11 DEF CleanupHalts, CleanupUnwraps, CleanupUndoes
<1>12. CASE Exit
  BY <1>12 DEF Exit, OfficeInv
<1>13. CASE StrikeRaises \/ JudgingRaises \/ CallRaises
  BY <1>13 DEF StrikeRaises, JudgingRaises, CallRaises, OfficeInv
<1> QED BY <1>1, <1>2, <1>3, <1>4, <1>5, <1>6, <1>7, <1>8, <1>9, <1>10, <1>11,
           <1>12, <1>13 DEF Main

\* A request or a restore result of the console changes neither the lock nor the phase.
LEMMA ConsoleKeepsLock ==
  ASSUME CommandsInv, LockInv, Console
  PROVE  LockInv'
<1> USE DEF LockInv, LockMatchesPhase, exceptConsole, mainVars, sessionVars,
        serverVars
<1>1. CASE RequestAttack
  BY <1>1 DEF RequestAttack
<1>2. CASE BeginRestore \/ EndSession
  BY <1>2 DEF BeginRestore, EndSession
<1>3. CASE ReportRestore
  <2>1. PICK ok \in BOOLEAN :
          /\ control' = [control EXCEPT !.restore = nextId, !.ok = ok]
          /\ verified' = (verified \/ ok)
    BY <1>3 DEF ReportRestore
  <2>2. control'.ok = ok
    BY <2>1 DEF CommandsInv, Commands
  <2>3. control'.ok \/ view.ok => verified'
    BY <2>1, <2>2
  <2>4. phase = "recovered" => verified'
    BY <2>1
  <2>5. UNCHANGED <<mainPc, phase, attack, view, locked, simulator>>
    BY <1>3 DEF ReportRestore
  <2> QED BY <2>3, <2>4, <2>5
<1> QED BY <1>1, <1>2, <1>3 DEF Console

\* The records are locked while the phase says so, released only for a restore
\* that passed its checks, and never left locked by an engine that has ended.
THEOREM LockAlwaysMatchesPhase == Spec => []LockMatchesPhase
<1> DEFINE Inv == OfficeInv /\ CommandsInv /\ LockInv
<1>1. Init => Inv
  BY DEF Init, OfficeInv, AtAttack, CommandsInv, LockInv, LockMatchesPhase, NoCommands,
     Commands
<1>2. Inv /\ [Next]_vars => Inv'
  <2> SUFFICES ASSUME OfficeInv, CommandsInv, LockInv, [Next]_vars PROVE LockInv'
    BY NextKeepsOffice, NextKeepsCommands
  <2>1. CASE SimulatorEnds
    BY <2>1 DEF SimulatorEnds, OfficeInv, LockInv, LockMatchesPhase, mainVars,
       sessionVars, consoleVars
  <2>2. CASE UNCHANGED vars
    BY <2>2 DEF vars, LockInv, LockMatchesPhase, mainVars, sessionVars, serverVars,
       consoleVars
  <2> QED BY <2>1, <2>2, DaysKeepLock, MainKeepsLock, ConsoleKeepsLock DEF Next
<1>3. Inv => LockMatchesPhase
  BY DEF LockInv
<1> QED BY <1>1, <1>2, <1>3, PTL DEF Spec

-----------------------------------------------------------------------------
(* The runs.                                                               *)

\* d runs are done and l have ended: the others stand once and in order, first
\* in the sequence t, then in r.
InLine(t, r, d, l) ==
  /\ d + Len(t) + Len(r) = l
  /\ \A i \in 1 .. Len(t) : t[i] = d + i
  /\ \A i \in 1 .. Len(r) : r[i] = d + Len(t) + i

\* A run more has ended.
LEMMA OneMoreInLine ==
  ASSUME NEW t, NEW r, NEW s, NEW d \in Nat, NEW l \in Nat,
         Len(t) \in Nat, Len(r) \in Nat, InLine(t, r, d, l),
         Len(s) = Len(r) + 1, s[Len(r) + 1] = l + 1,
         \A i \in 1 .. Len(r) : s[i] = r[i]
  PROVE  InLine(t, s, d, l + 1)
BY DEF InLine

\* A run that ends joins the line at its end, in the order of its number.
LEMMA LineGrows ==
  ASSUME NEW t \in Seq(Nat), NEW r \in Seq(Nat), NEW d \in Nat, NEW l \in Nat,
         InLine(t, r, d, l)
  PROVE  Append(r, l + 1) \in Seq(Nat) /\ InLine(t, Append(r, l + 1), d, l + 1)
<1>1. Len(t) \in Nat /\ Len(r) \in Nat
  BY LenProperties
<1>2. /\ Append(r, l + 1) \in Seq(Nat) /\ Len(Append(r, l + 1)) = Len(r) + 1
      /\ \A i \in 1 .. Len(r) : Append(r, l + 1)[i] = r[i]
      /\ Append(r, l + 1)[Len(r) + 1] = l + 1
  BY AppendProperties
<1> QED BY <1>1, <1>2, OneMoreInLine

\* A digest begins with the runs, as far as they have settled.
LEMMA LineInTwo ==
  ASSUME NEW r, NEW t, NEW s, NEW k, NEW d \in Nat, NEW l \in Nat,
         Len(r) \in Nat, k \in 0 .. Len(r),
         d + Len(r) = l, \A i \in 1 .. Len(r) : r[i] = d + i,
         Len(t) = k, \A i \in 1 .. k : t[i] = r[i],
         Len(s) = Len(r) - k, \A i \in 1 .. Len(r) - k : s[i] = r[k + i]
  PROVE  InLine(t, s, d, l)
<1>1. d + Len(t) + Len(s) = l
  <2>1. ASSUME NEW a \in Nat, k \in 0 .. a, d + a = l
        PROVE  d + k + (a - k) = l
    BY <2>1
  <2>2. d + k + (Len(r) - k) = l
    BY <2>1, Zenon
  <2> QED BY <2>2, Zenon
<1>2. \A i \in 1 .. Len(t) : t[i] = d + i
  OBVIOUS
<1>3. \A i \in 1 .. Len(s) : s[i] = d + Len(t) + i
  OBVIOUS
<1> QED BY <1>1, <1>2, <1>3 DEF InLine

\* take_settled cuts the line at the first run that has not settled: both parts
\* stay in order.
LEMMA LineIsCut ==
  ASSUME NEW r \in Seq(Nat), NEW k \in 0 .. Len(r), NEW d \in Nat, NEW l \in Nat,
         InLine(<<>>, r, d, l)
  PROVE  /\ SubSeq(r, 1, k) \in Seq(Nat) /\ SubSeq(r, k + 1, Len(r)) \in Seq(Nat)
         /\ InLine(SubSeq(r, 1, k), SubSeq(r, k + 1, Len(r)), d, l)
<1>1. Len(r) \in Nat /\ \A i \in 1 .. Len(r) : r[i] \in Nat
  BY LenProperties, ElementOfSeq
<1>2. k \in Int /\ k + 1 \in Int /\ Len(r) \in Int
  BY <1>1
<1>3. /\ \A i \in 1 .. k : r[i] \in Nat
      /\ \A i \in k + 1 .. Len(r) : r[i] \in Nat
  BY <1>1
<1>4. /\ SubSeq(r, 1, k) \in Seq(Nat)
      /\ Len(SubSeq(r, 1, k)) = IF 1 <= k THEN k - 1 + 1 ELSE 0
      /\ \A i \in 1 .. k - 1 + 1 : SubSeq(r, 1, k)[i] = r[1 + i - 1]
  BY <1>2, <1>3, SubSeqProperties
<1>5. /\ SubSeq(r, k + 1, Len(r)) \in Seq(Nat)
      /\ Len(SubSeq(r, k + 1, Len(r)))
           = IF k + 1 <= Len(r) THEN Len(r) - (k + 1) + 1 ELSE 0
      /\ \A i \in 1 .. Len(r) - (k + 1) + 1 :
           SubSeq(r, k + 1, Len(r))[i] = r[k + 1 + i - 1]
  BY <1>2, <1>3, SubSeqProperties
<1>6. /\ Len(SubSeq(r, 1, k)) = k
      /\ \A i \in 1 .. k : SubSeq(r, 1, k)[i] = r[i]
  BY <1>1, <1>4
<1>7. /\ Len(SubSeq(r, k + 1, Len(r))) = Len(r) - k
      /\ \A i \in 1 .. Len(r) - k : SubSeq(r, k + 1, Len(r))[i] = r[k + i]
  BY <1>1, <1>5
<1>8. d + Len(r) = l /\ \A i \in 1 .. Len(r) : r[i] = d + i
  <2>1. ASSUME NEW q, Len(q) = 0, InLine(q, r, d, l)
        PROVE  d + Len(r) = l /\ \A i \in 1 .. Len(r) : r[i] = d + i
    BY <1>1, <2>1 DEF InLine
  <2> QED BY <2>1, EmptySeq
<1> QED BY <1>1, <1>4, <1>5, <1>6, <1>7, <1>8, LineInTwo

\* Or with all of them.
LEMMA LineIsTaken ==
  ASSUME NEW r \in Seq(Nat), NEW d \in Nat, NEW l \in Nat, InLine(<<>>, r, d, l)
  PROVE  InLine(r, <<>>, d, l)
<1>1. ASSUME NEW q, Len(q) \in Nat, InLine(<<>>, q, d, l)
      PROVE  InLine(q, <<>>, d, l)
  BY <1>1 DEF InLine
<1> QED BY <1>1, LenProperties

\* A run is done.
LEMMA OneLessInLine ==
  ASSUME NEW t, NEW r, NEW s, NEW d \in Nat, NEW l \in Nat,
         Len(t) \in Nat, Len(r) \in Nat, Len(s) \in Nat, InLine(t, r, d, l),
         Len(s) = Len(t) - 1, \A i \in 1 .. Len(s) : s[i] = t[i + 1]
  PROVE  InLine(s, r, d + 1, l)
<1>1. d + 1 + Len(s) + Len(r) = l
  <2>1. ASSUME NEW a \in Nat, NEW b \in Nat, NEW c, d + a + b = l, c = a - 1
        PROVE  d + 1 + c + b = l
    BY <2>1
  <2>2. d + Len(t) + Len(r) = l
    BY DEF InLine
  <2> QED BY <2>1, <2>2, Zenon
<1>2. \A i \in 1 .. Len(s) : i + 1 \in 1 .. Len(t)
  OBVIOUS
<1>3. \A i \in 1 .. Len(s) : s[i] = d + (i + 1)
  BY <1>2 DEF InLine
<1>4. \A i \in 1 .. Len(s) : s[i] = d + 1 + i
  BY <1>3
<1>5. \A i \in 1 .. Len(r) : r[i] = d + 1 + Len(s) + i
  BY DEF InLine
<1> QED BY <1>1, <1>4, <1>5 DEF InLine

\* The digest takes the runs one by one, from the front.
LEMMA LineMoves ==
  ASSUME NEW t \in Seq(Nat), NEW r \in Seq(Nat), NEW d \in Nat, NEW l \in Nat,
         InLine(t, r, d, l), t # <<>>
  PROVE  Tail(t) \in Seq(Nat) /\ InLine(Tail(t), r, d + 1, l)
<1>1. Len(t) \in Nat /\ Len(r) \in Nat
  BY LenProperties
<1>2. /\ Tail(t) \in Seq(Nat) /\ Len(Tail(t)) = Len(t) - 1
      /\ \A i \in 1 .. Len(Tail(t)) : Tail(t)[i] = t[i + 1]
  BY HeadTailProperties
<1>3. Len(Tail(t)) \in Nat
  BY <1>2, LenProperties
<1> QED BY <1>1, <1>2, <1>3, OneLessInLine

\* Every ended run stands once, in order: digested, in todo, or in runs.
LineInv ==
  /\ runs \in Seq(Nat) /\ todo \in Seq(Nat) /\ launched \in Nat /\ digested \in Nat
  /\ InLine(todo, runs, digested, launched)
  /\ mainPc \in {"digest", "incident", "cleanup", "unwrap", "undo", "exit", "done"}
       \/ todo = <<>>
  /\ mainPc = "incident" => todo # <<>>

\* A step of the days thread: at most one job ends.
LEMMA DaysKeepLine ==
  ASSUME LineInv, Days
  PROVE  LineInv'
<1> USE DEF LineInv, exceptDays, officeVars, mainVars
<1>1. CASE JobEnds
  <2>1. UNCHANGED <<mainPc, todo, digested>>
    BY <1>1 DEF JobEnds
  <2>2. CASE wrapped
    <3>1. launched' = launched + 1 /\ runs' = Append(runs, launched + 1)
      BY <1>1, <2>2 DEF JobEnds
    <3>2. runs' \in Seq(Nat) /\ InLine(todo, runs', digested, launched')
      BY <3>1, LineGrows
    <3> QED BY <2>1, <3>1, <3>2
  <2>3. CASE ~wrapped
    BY <1>1, <2>1, <2>3 DEF JobEnds
  <2> QED BY <2>2, <2>3
<1>2. CASE BeginDay \/ EndDays \/ ShopsFail \/ LaunchJob \/ LaunchRefused \/ DayRaised
             \/ NightEnds \/ TakeAck
  BY <1>2 DEF BeginDay, EndDays, ShopsFail, LaunchJob, LaunchRefused, DayRaised,
     NightEnds, TakeAck
<1> QED BY <1>1, <1>2 DEF Days

\* A digest takes the runs, or a first part of them, and does them in order.
LEMMA MainKeepsLine ==
  ASSUME OfficeInv, LineInv, Main
  PROVE  LineInv'
<1> USE DEF LineInv, exceptMain, dayVars, officeVars
<1>1. CASE PollTakesSettled
  <2>1. PICK k \in 0 .. Len(runs) : /\ todo' = SubSeq(runs, 1, k)
                                    /\ runs' = SubSeq(runs, k + 1, Len(runs))
    BY <1>1 DEF PollTakesSettled
  <2>2. /\ mainPc = "poll" /\ mainPc' = "digest" /\ UNCHANGED <<launched, digested>>
    BY <1>1 DEF PollTakesSettled
  <2>3. /\ todo' \in Seq(Nat) /\ runs' \in Seq(Nat)
        /\ InLine(todo', runs', digested, launched)
    BY <2>1, <2>2, LineIsCut
  <2> QED BY <2>2, <2>3
<1>2. CASE DigestQuiet \/ DigestHalts
  <2>1. /\ todo # <<>> /\ todo' = Tail(todo) /\ digested' = digested + 1
        /\ mainPc' = "digest" /\ UNCHANGED <<launched, runs>>
    BY <1>2 DEF DigestQuiet, DigestHalts
  <2>2. todo' \in Seq(Nat) /\ InLine(todo', runs, digested', launched)
    BY <2>1, LineMoves
  <2> QED BY <2>1, <2>2
<1>3. CASE DigestNight \/ HaltOffice
  <2>1. /\ mainPc' = "digest" /\ todo = <<>> /\ todo' = runs /\ runs' = <<>>
        /\ UNCHANGED <<launched, digested>>
    BY <1>3 DEF DigestNight, HaltOffice
  <2>2. runs' \in Seq(Nat)
    BY <2>1, EmptySeq
  <2>3. InLine(todo', runs', digested, launched)
    BY <2>1, LineIsTaken
  <2> QED BY <2>1, <2>2, <2>3
<1>4. CASE DigestContains \/ DigestReturns
  BY <1>4 DEF DigestContains, DigestReturns, OfficeInv
<1>5. CASE PollLeaves \/ PollRaises \/ NoDayDone \/ SkipCutDay \/ PullNight
  BY <1>5 DEF PollLeaves, PollRaises, NoDayDone, SkipCutDay, mainVars, PullNight
<1>6. CASE IgnoreAttack \/ BeginAttack \/ CallOff \/ Strike \/ Catch \/ Miss
  BY <1>6 DEF IgnoreAttack, BeginAttack, CallOff, Strike, Catch, Miss, OfficeInv
<1>7. CASE EndBattle \/ PullDamage \/ AutopilotRestores \/ AutopilotCannotRestore
             \/ ObeyRestore
  BY <1>7 DEF EndBattle, PullDamage, AutopilotRestores, AutopilotCannotRestore,
     ObeyRestore, OfficeInv
<1>8. CASE AutopilotStrikes \/ AutopilotWaits \/ LoopAgain
  BY <1>8 DEF AutopilotStrikes, AutopilotWaits, LoopAgain
<1>9. CASE CleanupHalts \/ CleanupUnwraps \/ CleanupUndoes \/ Exit
  BY <1>9 DEF CleanupHalts, CleanupUnwraps, CleanupUndoes, Exit
<1>10. CASE StrikeRaises \/ JudgingRaises \/ CallRaises
  BY <1>10 DEF StrikeRaises, JudgingRaises, CallRaises, OfficeInv
<1> QED BY <1>1, <1>2, <1>3, <1>4, <1>5, <1>6, <1>7, <1>8, <1>9, <1>10 DEF Main

\* Every step keeps the runs in the order they ended, from the queue to the digest.
LEMMA NextKeepsLine ==
  ASSUME OfficeInv, LineInv, [Next]_vars
  PROVE  LineInv'
<1>1. CASE SimulatorEnds \/ UNCHANGED vars
  BY <1>1 DEF SimulatorEnds, vars, LineInv, dayVars, officeVars, mainVars
<1>2. CASE Console
  BY <1>2 DEF Console, RequestAttack, BeginRestore, ReportRestore, EndSession,
     exceptConsole, LineInv, dayVars, officeVars, mainVars
<1> QED BY <1>1, <1>2, DaysKeepLine, MainKeepsLine DEF Next

\* What is in line is the sequence that RunsInOrder asks for.
LEMMA LineIsInOrder ==
  ASSUME LineInv
  PROVE  RunsInOrder
<1>1. todo \in Seq(Nat) /\ runs \in Seq(Nat)
  BY DEF LineInv
<1>2. Len(todo) \in Nat /\ Len(runs) \in Nat /\ launched \in Nat /\ digested \in Nat
  BY <1>1, LenProperties DEF LineInv
<1>3. /\ digested + Len(todo) + Len(runs) = launched
      /\ \A i \in 1 .. Len(todo) : todo[i] = digested + i
      /\ \A i \in 1 .. Len(runs) : runs[i] = digested + Len(todo) + i
  BY DEF LineInv, InLine
<1>4. /\ Len(todo \o runs) = Len(todo) + Len(runs)
      /\ \A i \in 1 .. Len(todo) + Len(runs) :
           (todo \o runs)[i] = IF i <= Len(todo) THEN todo[i] ELSE runs[i - Len(todo)]
  BY <1>1, ConcatProperties
<1>5. todo \o runs = [i \in 1 .. Len(todo \o runs) |-> (todo \o runs)[i]]
  BY <1>1, ConcatProperties, LenProperties
<1>6. ASSUME NEW line, Len(line) = Len(todo) + Len(runs),
             \A i \in 1 .. Len(todo) + Len(runs) :
               line[i] = IF i <= Len(todo) THEN todo[i] ELSE runs[i - Len(todo)]
      PROVE  /\ Len(line) = launched - digested
             /\ \A i \in 1 .. (launched - digested) : line[i] = digested + i
  <2>1. Len(line) = launched - digested
    BY <1>2, <1>3, <1>6
  <2>2. ASSUME NEW i \in 1 .. (launched - digested)
        PROVE  line[i] = digested + i
    <3>1. i \in 1 .. Len(todo) + Len(runs)
      BY <1>2, <1>3
    <3>2. CASE i <= Len(todo)
      BY <1>2, <1>3, <1>6, <3>1, <3>2
    <3>3. CASE ~ i <= Len(todo)
      <4>1. i - Len(todo) \in 1 .. Len(runs)
        BY <1>2, <3>1, <3>3
      <4>2. runs[i - Len(todo)] = digested + Len(todo) + (i - Len(todo))
        BY <1>3, <4>1
      <4>3. line[i] = digested + Len(todo) + (i - Len(todo))
        BY <1>6, <3>1, <3>3, <4>2
      <4> QED BY <1>2, <4>3
    <3> QED BY <3>2, <3>3
  <2> QED BY <2>1, <2>2
<1>7. /\ Len(todo \o runs) = launched - digested
      /\ \A i \in 1 .. (launched - digested) : (todo \o runs)[i] = digested + i
  BY <1>4, <1>6
<1> QED BY <1>5, <1>7 DEF RunsInOrder

\* Habit and the Judge see every ended job once and in order.
THEOREM RunsAreAlwaysInOrder == Spec => []RunsInOrder
<1> DEFINE Inv == OfficeInv /\ LineInv
<1>1. Init => Inv
  <2> SUFFICES ASSUME Init PROVE OfficeInv /\ LineInv
    OBVIOUS
  <2>1. OfficeInv
    BY DEF Init, OfficeInv, AtAttack
  <2>2. InLine(<<>>, <<>>, 0, 0)
    BY DEF InLine
  <2>3. LineInv
    BY <2>2, EmptySeq DEF Init, LineInv
  <2> QED BY <2>1, <2>3
<1>2. Inv /\ [Next]_vars => Inv'
  BY NextKeepsOffice, NextKeepsLine
<1>3. Inv => RunsInOrder
  BY LineIsInOrder
<1> QED BY <1>1, <1>2, <1>3, PTL DEF Spec

-----------------------------------------------------------------------------
(* The nights.                                                             *)

\* Until the office is halted, the jobs of every day are counted, and a day
\* that has ended waits to be pulled, or is acknowledged.
DaysAreCounted ==
  /\ launched = JobsPerDay * day - jobsLeft
  /\ dayPc \in {"top", "ack?"} => jobsLeft = 0
  /\ \/ acks = 0 /\ daysDone = <<>>
     \/ dayPc = "ack?" /\ acks = 1 /\ daysDone = <<>>
     \/ dayPc = "ack?" /\ acks = 0 /\ daysDone = <<day>>

\* While a night is judged for its pull, its day waits, halted or not.
AtNight == \/ mainPc = "pull"
           \/ mainPc \in {"digest", "incident"} /\ after = "pull"

NightWaits ==
  /\ dayPc = "ack?" /\ acks = 0 /\ daysDone = <<day>>
  /\ runs = <<>> /\ launched = JobsPerDay * day

NightInv ==
  /\ launched \in Nat /\ day \in Nat /\ jobsLeft \in Int
  /\ ~halted => DaysAreCounted
  /\ AtNight => NightWaits

\* The days thread launches, ends and counts, and waits at night.
LEMMA DaysKeepNight ==
  ASSUME OfficeInv, NightInv, Days
  PROVE  NightInv'
<1> USE SessionAssumption
    DEF NightInv, DaysAreCounted, AtNight, NightWaits, exceptDays, officeVars,
        queueVars, mainVars
<1>1. CASE BeginDay
  <2>1. JobsPerDay \in Nat
    OBVIOUS
  <2>2. JobsPerDay * (day + 1) = JobsPerDay * day + JobsPerDay
    BY <2>1
  <2> QED BY <1>1, <2>1, <2>2 DEF BeginDay
<1>2. CASE EndDays \/ ShopsFail \/ LaunchJob \/ LaunchRefused \/ DayRaised
  BY <1>2 DEF EndDays, ShopsFail, LaunchJob, LaunchRefused, DayRaised
<1>3. CASE JobEnds
  <2>1. /\ dayPc = "job" /\ jobsLeft' = jobsLeft - 1 /\ dayPc' \in {"between", "raised"}
        /\ UNCHANGED <<day, halted, daysDone, acks, mainPc, after>>
    BY <1>3 DEF JobEnds
  <2>2. wrapped => launched' = launched + 1
    BY <1>3 DEF JobEnds
  <2>3. ~wrapped => launched' = launched /\ halted
    BY <1>3 DEF JobEnds, OfficeInv
  <2>4. launched' \in Nat /\ jobsLeft' \in Int
    BY <2>1, <2>2, <2>3
  <2>5. ASSUME ~halted PROVE launched' = JobsPerDay * day - jobsLeft'
    <3>1. JobsPerDay \in Nat /\ JobsPerDay * day \in Int
      OBVIOUS
    <3>2. launched = JobsPerDay * day - jobsLeft
      BY <2>5
    <3> QED BY <2>1, <2>2, <2>3, <2>5, <3>1, <3>2
  <2> QED BY <2>1, <2>4, <2>5
<1>4. CASE NightEnds
  <2>1. /\ dayPc = "between" /\ jobsLeft = 0 /\ dayPc' = "ack?"
        /\ daysDone' = Append(daysDone, day)
        /\ UNCHANGED <<day, jobsLeft, launched, halted, acks, mainPc, after>>
    BY <1>4 DEF NightEnds
  <2>2. ~halted => daysDone = <<>> /\ acks = 0
    BY <2>1
  <2>3. ~halted => daysDone' = <<day>>
    BY <2>1, <2>2
  <2> QED BY <2>1, <2>2, <2>3
<1>5. CASE TakeAck
  BY <1>5 DEF TakeAck
<1> QED BY <1>1, <1>2, <1>3, <1>4, <1>5 DEF Days

\* The main loop acknowledges a night only after its runs are digested and the
\* share is pulled.
LEMMA MainKeepsNight ==
  ASSUME OfficeInv, NightInv, Main
  PROVE  NightInv'
<1> USE SessionAssumption
    DEF NightInv, DaysAreCounted, AtNight, NightWaits, exceptMain, dayVars, officeVars,
        queueVars
<1>1. CASE PollLeaves \/ PollRaises \/ PollTakesSettled
  BY <1>1 DEF PollLeaves, PollRaises, PollTakesSettled
<1>2. CASE DigestQuiet \/ DigestContains \/ DigestReturns
  BY <1>2 DEF DigestQuiet, DigestContains, DigestReturns, OfficeInv
<1>3. CASE DigestHalts
  BY <1>3 DEF DigestHalts
<1>4. CASE NoDayDone \/ SkipCutDay
  BY <1>4 DEF NoDayDone, SkipCutDay, mainVars
<1>5. CASE DigestNight
  <2>1. /\ ~halted /\ daysDone # <<>> /\ runs' = <<>>
        /\ mainPc' = "digest" /\ after' = "pull"
        /\ UNCHANGED <<dayPc, day, jobsLeft, launched, halted, daysDone, acks>>
    BY <1>5 DEF DigestNight
  <2>2. dayPc = "ack?" /\ acks = 0 /\ daysDone = <<day>> /\ jobsLeft = 0
    BY <2>1
  <2>3. launched = JobsPerDay * day
    <3>1. launched = JobsPerDay * day - jobsLeft /\ JobsPerDay * day \in Int
      BY <2>1
    <3> QED BY <2>2, <3>1
  <2> QED BY <2>1, <2>2, <2>3
<1>6. CASE PullNight
  <2>1. /\ mainPc = "pull" /\ mainPc' = "finish" /\ acks' = acks + 1
        /\ daysDone' = Tail(daysDone)
        /\ UNCHANGED <<dayPc, day, jobsLeft, launched, halted>>
    BY <1>6 DEF PullNight
  <2>2. dayPc = "ack?" /\ acks = 0 /\ daysDone = <<day>>
    BY <2>1
  <2>3. daysDone' = <<>> /\ acks' = 1
    BY <2>1, <2>2
  <2> QED BY <2>1, <2>2, <2>3
<1>7. CASE IgnoreAttack \/ BeginAttack \/ HaltOffice \/ CallOff
  BY <1>7 DEF IgnoreAttack, BeginAttack, HaltOffice, CallOff, OfficeInv
<1>8. CASE Strike \/ Catch \/ Miss \/ EndBattle \/ PullDamage
  BY <1>8 DEF Strike, Catch, Miss, EndBattle, PullDamage, OfficeInv
<1>9. CASE AutopilotRestores \/ AutopilotCannotRestore \/ ObeyRestore
  BY <1>9 DEF AutopilotRestores, AutopilotCannotRestore, ObeyRestore, OfficeInv
<1>10. CASE AutopilotStrikes \/ AutopilotWaits \/ LoopAgain
  BY <1>10 DEF AutopilotStrikes, AutopilotWaits, LoopAgain
<1>11. CASE CleanupHalts \/ CleanupUnwraps \/ CleanupUndoes \/ Exit
  BY <1>11 DEF CleanupHalts, CleanupUnwraps, CleanupUndoes, Exit, OfficeInv
<1>12. CASE StrikeRaises \/ JudgingRaises \/ CallRaises
  BY <1>12 DEF StrikeRaises, JudgingRaises, CallRaises, OfficeInv
<1> QED BY <1>1, <1>2, <1>3, <1>4, <1>5, <1>6, <1>7, <1>8, <1>9, <1>10, <1>11, <1>12 DEF Main

\* Every step keeps the acknowledgement behind the digest and the pull.
LEMMA NextKeepsNight ==
  ASSUME OfficeInv, NightInv, [Next]_vars
  PROVE  NightInv'
<1> USE DEF NightInv, DaysAreCounted, AtNight, NightWaits, dayVars, officeVars,
        queueVars, mainVars
<1>1. CASE SimulatorEnds \/ UNCHANGED vars
  BY <1>1 DEF SimulatorEnds, vars
<1>2. CASE Console
  BY <1>2 DEF Console, RequestAttack, BeginRestore, ReportRestore, EndSession,
     exceptConsole
<1> QED BY <1>1, <1>2, DaysKeepNight, MainKeepsNight DEF Next

\* Before the Vault pulls a night, each job of it has been learned or judged.
THEOREM NightsAreJudgedFirst == Spec => []NightIsJudgedFirst
<1> DEFINE Inv == OfficeInv /\ LineInv /\ NightInv
<1>1. Init => Inv
  <2> SUFFICES ASSUME Init PROVE OfficeInv /\ LineInv /\ NightInv
    OBVIOUS
  <2>1. OfficeInv
    BY DEF Init, OfficeInv, AtAttack
  <2>2. InLine(<<>>, <<>>, 0, 0)
    BY DEF InLine
  <2>3. LineInv
    BY <2>2, EmptySeq DEF Init, LineInv
  <2>4. NightInv
    BY SessionAssumption DEF Init, NightInv, DaysAreCounted, AtNight
  <2> QED BY <2>1, <2>3, <2>4
<1>2. Inv /\ [Next]_vars => Inv'
  BY NextKeepsOffice, NextKeepsLine, NextKeepsNight
<1>3. Inv => NightIsJudgedFirst
  <2> SUFFICES ASSUME LineInv, NightInv, mainPc = "pull"
               PROVE  /\ runs = <<>> /\ todo = <<>>
                      /\ digested = JobsPerDay * Head(daysDone)
    BY DEF NightIsJudgedFirst
  <2>1. runs = <<>> /\ daysDone = <<day>> /\ launched = JobsPerDay * day
    BY DEF NightInv, AtNight, NightWaits
  <2>2. todo = <<>> /\ digested \in Nat
    BY DEF LineInv
  <2>3. digested + Len(todo) + Len(runs) = launched
    BY DEF LineInv, InLine
  <2>4. digested + 0 + 0 = launched
    BY <2>1, <2>2, <2>3
  <2>5. digested = launched
    BY <2>2, <2>4
  <2> QED BY <2>1, <2>2, <2>5
<1> QED BY <1>1, <1>2, <1>3, PTL DEF Spec

-----------------------------------------------------------------------------
(* The types, beside those that the invariants above hold.                 *)

\* A job that runs is one of those left, and of a day that has begun.
DayIsOn ==
  /\ dayPc = "job" => jobsLeft > 0
  /\ dayPc \in {"between", "job"} => day > 0

DayTypes ==
  /\ dayPc \in {"top", "between", "job", "raised", "ack?", "over"}
  /\ day \in 0..MaxDays /\ jobsLeft \in 0..JobsPerDay /\ dayError \in BOOLEAN

FlagTypes ==
  /\ halted \in BOOLEAN /\ wrapped \in BOOLEAN /\ frozen \in BOOLEAN
  /\ locked \in BOOLEAN /\ ending \in BOOLEAN /\ verified \in BOOLEAN
  /\ owed \in BOOLEAN

LoopTypes ==
  /\ mainPc \in {"poll", "digest", "incident", "finish", "pull", "attack?", "halt",
                 "strike", "battle", "caught", "missed", "pullDamage", "recover",
                 "restored?", "autopilot?", "sleep", "cleanup", "unwrap", "undo",
                 "exit", "done"}
  /\ phase \in Phases
  /\ attack \in {"none", "waiting", "running", "contained", "missed"}
  /\ simulator \in {"off", "running", "paused", "gone"}
  /\ incidents \in 0..MaxIncidents
  /\ handledAttack \in Nat /\ handledRestore \in Nat

QueueTypes ==
  /\ daysDone \in Seq(1..MaxDays) /\ acks \in Nat /\ nights \in 0..MaxDays

CopyTypes ==
  /\ snapshots \in Nat
  /\ pin \in 0..snapshots /\ safeCopy \in 0..snapshots /\ restoring \in 0..snapshots
  /\ restored \subseteq 1..snapshots

\* The bounds are numbers.
LEMMA Bounds ==
  /\ MaxDays \in Nat /\ MaxRequests \in Nat /\ MaxIncidents \in Nat
  /\ LearningDays \in Nat /\ JobsPerDay \in Nat /\ JobsPerDay > 0
BY SessionAssumption

\* The day and the Vault's copies, where the main loop moves neither.
LEMMA MainLeavesTheDay ==
  ASSUME Main
  PROVE  UNCHANGED dayVars
<1> USE DEF exceptMain
<1>1. CASE PollLeaves \/ PollRaises \/ PollTakesSettled \/ DigestQuiet \/ DigestContains \/
           DigestHalts \/ DigestReturns
  BY <1>1 DEF PollLeaves, PollRaises, PollTakesSettled, DigestQuiet, DigestContains, DigestHalts,
     DigestReturns
<1>2. CASE NoDayDone \/ SkipCutDay \/ DigestNight \/ PullNight \/ IgnoreAttack \/ BeginAttack \/
           HaltOffice \/ CallOff \/ Strike
  BY <1>2 DEF NoDayDone, SkipCutDay, DigestNight, PullNight, IgnoreAttack, BeginAttack, HaltOffice,
     CallOff, Strike
<1>3. CASE Catch \/ Miss \/ EndBattle \/ PullDamage \/ AutopilotRestores \/
           AutopilotCannotRestore \/ ObeyRestore
  BY <1>3 DEF Catch, Miss, EndBattle, PullDamage, AutopilotRestores, AutopilotCannotRestore,
     ObeyRestore
<1>4. CASE AutopilotStrikes \/ AutopilotWaits \/ LoopAgain \/ CleanupHalts \/ CleanupUnwraps \/
           CleanupUndoes \/ Exit
  BY <1>4 DEF AutopilotStrikes, AutopilotWaits, LoopAgain, CleanupHalts, CleanupUnwraps,
     CleanupUndoes, Exit
<1>5. CASE StrikeRaises \/ JudgingRaises \/ CallRaises
  BY <1>5 DEF StrikeRaises, JudgingRaises, CallRaises
<1> QED BY <1>1, <1>2, <1>3, <1>4, <1>5 DEF Main

\* Nor do the simulator and the console.
LEMMA OthersLeaveTheDay ==
  ASSUME SimulatorEnds \/ Console \/ UNCHANGED vars
  PROVE  UNCHANGED dayVars
<1>1. CASE SimulatorEnds
  BY <1>1 DEF SimulatorEnds
<1>2. CASE Console
  <2>1. CASE RequestAttack
    BY <2>1 DEF RequestAttack, exceptConsole
  <2>2. CASE BeginRestore
    BY <2>2 DEF BeginRestore, exceptConsole
  <2>3. CASE ReportRestore
    BY <2>3 DEF ReportRestore, exceptConsole
  <2>4. CASE EndSession
    BY <2>4 DEF EndSession, exceptConsole
  <2> QED BY <1>2, <2>1, <2>2, <2>3, <2>4 DEF Console
<1>3. CASE UNCHANGED vars
  BY <1>3 DEF vars
<1> QED BY <1>1, <1>2, <1>3

\* Days and jobs are counted within their bounds.
LEMMA DayStep ==
  ASSUME DayTypes, DayIsOn, [Next]_vars
  PROVE  DayTypes' /\ DayIsOn'
<1> USE Bounds DEF DayTypes, DayIsOn
<1>1. CASE BeginDay
  BY <1>1 DEF BeginDay
<1>2. CASE EndDays \/ ShopsFail \/ LaunchJob \/ LaunchRefused
  BY <1>2 DEF EndDays, ShopsFail, LaunchJob, LaunchRefused
<1>3. CASE JobEnds
  <2>1. /\ dayPc = "job" /\ dayPc' \in {"between", "raised"}
        /\ jobsLeft' = jobsLeft - 1
        /\ UNCHANGED <<day, dayError>>
    BY <1>3 DEF JobEnds
  <2> QED BY <2>1
<1>4. CASE DayRaised \/ NightEnds \/ TakeAck
  BY <1>4 DEF DayRaised, NightEnds, TakeAck
<1>5. CASE UNCHANGED dayVars
  BY <1>5 DEF dayVars
<1>6. CASE SimulatorEnds \/ Console \/ UNCHANGED vars
  BY <1>5, <1>6, OthersLeaveTheDay
<1> QED BY <1>1, <1>2, <1>3, <1>4, <1>5, <1>6, MainLeavesTheDay DEF Next, Days

\* The flags are raised and lowered, never anything else.
LEMMA MainKeepsFlags ==
  ASSUME FlagTypes, Main
  PROVE  FlagTypes'
<1> USE DEF FlagTypes, exceptMain, officeVars, serverVars, consoleVars
<1>1. CASE PollLeaves \/ PollRaises \/ PollTakesSettled
  BY <1>1 DEF PollLeaves, PollRaises, PollTakesSettled
<1>2. CASE DigestQuiet \/ DigestContains \/ DigestHalts \/ DigestReturns
  BY <1>2 DEF DigestQuiet, DigestContains, DigestHalts, DigestReturns
<1>3. CASE NoDayDone \/ SkipCutDay \/ DigestNight \/ PullNight
  BY <1>3 DEF NoDayDone, SkipCutDay, DigestNight, PullNight
<1>4. CASE IgnoreAttack \/ BeginAttack \/ HaltOffice \/ CallOff
  BY <1>4 DEF IgnoreAttack, BeginAttack, HaltOffice, CallOff, NewAttack, NewAttack
<1>5. CASE Strike \/ Catch \/ Miss \/ EndBattle \/ PullDamage
  BY <1>5 DEF Strike, Catch, Miss, EndBattle, PullDamage
<1>6. CASE AutopilotRestores \/ AutopilotCannotRestore \/ ObeyRestore
  BY <1>6 DEF AutopilotRestores, AutopilotCannotRestore, ObeyRestore, NewRestore
<1>7. CASE AutopilotStrikes \/ AutopilotWaits \/ LoopAgain
  BY <1>7 DEF AutopilotStrikes, AutopilotWaits, LoopAgain
<1>8. CASE CleanupHalts \/ CleanupUnwraps \/ CleanupUndoes \/ Exit
  BY <1>8 DEF CleanupHalts, CleanupUnwraps, CleanupUndoes, Exit
<1>9. CASE StrikeRaises \/ JudgingRaises \/ CallRaises
  BY <1>9 DEF StrikeRaises, JudgingRaises, CallRaises
<1> QED BY <1>1, <1>2, <1>3, <1>4, <1>5, <1>6, <1>7, <1>8, <1>9 DEF Main

\* The main loop goes from one of its places to another.
LEMMA MainKeepsLoop ==
  ASSUME OfficeInv, CommandsInv, LoopTypes, Main
  PROVE  LoopTypes'
<1> USE Bounds DEF LoopTypes, OfficeInv, CommandsInv, Commands, Phases, Running, Locked,
        Finished, exceptMain, mainVars, sessionVars, serverVars
<1>1. CASE PollLeaves \/ PollRaises \/ PollTakesSettled
  BY <1>1 DEF PollLeaves, PollRaises, PollTakesSettled
<1>2. CASE DigestQuiet \/ DigestContains \/ DigestHalts \/ DigestReturns
  BY <1>2 DEF DigestQuiet, DigestContains, DigestHalts, DigestReturns
<1>3. CASE NoDayDone \/ SkipCutDay \/ DigestNight \/ PullNight
  BY <1>3 DEF NoDayDone, SkipCutDay, DigestNight, PullNight
<1>4. CASE IgnoreAttack \/ BeginAttack \/ HaltOffice \/ CallOff
  BY <1>4 DEF IgnoreAttack, BeginAttack, HaltOffice, CallOff, NewAttack, NewAttack
<1>5. CASE Strike \/ Catch \/ Miss \/ EndBattle \/ PullDamage
  BY <1>5 DEF Strike, Catch, Miss, EndBattle, PullDamage
<1>6. CASE AutopilotRestores \/ AutopilotCannotRestore \/ ObeyRestore
  BY <1>6 DEF AutopilotRestores, AutopilotCannotRestore, ObeyRestore, NewRestore
<1>7. CASE AutopilotStrikes \/ AutopilotWaits \/ LoopAgain
  BY <1>7 DEF AutopilotStrikes, AutopilotWaits, LoopAgain
<1>8. CASE CleanupHalts \/ CleanupUnwraps \/ CleanupUndoes \/ Exit
  BY <1>8 DEF CleanupHalts, CleanupUnwraps, CleanupUndoes, Exit
<1>9. CASE StrikeRaises \/ JudgingRaises \/ CallRaises
  BY <1>9 DEF StrikeRaises, JudgingRaises, CallRaises
<1> QED BY <1>1, <1>2, <1>3, <1>4, <1>5, <1>6, <1>7, <1>8, <1>9 DEF Main

\* The head of a queue of days is a day, and its tail a queue of days.
LEMMA DaysQueue ==
  ASSUME NEW q \in Seq(1..MaxDays), q # <<>>
  PROVE  Head(q) \in 1..MaxDays /\ Tail(q) \in Seq(1..MaxDays)
BY HeadTailProperties

\* A night that is pulled or skipped was in the queue.
LEMMA MainKeepsQueue ==
  ASSUME NightInv, QueueTypes, Main
  PROVE  QueueTypes'
<1> USE DEF QueueTypes, exceptMain, dayVars, queueVars, sessionVars
<1>1. CASE SkipCutDay
  <2>1. daysDone # <<>> /\ daysDone' = Tail(daysDone) /\ acks' = acks + 1
        /\ nights' = nights
    BY <1>1 DEF SkipCutDay
  <2> QED BY <2>1, DaysQueue
<1>2. CASE PullNight
  <2>1. mainPc = "pull" /\ daysDone' = Tail(daysDone) /\ acks' = acks + 1
        /\ nights' = Head(daysDone)
    BY <1>2 DEF PullNight
  <2>2. daysDone = <<day>>
    BY <2>1 DEF NightInv, AtNight, NightWaits
  <2>3. daysDone # <<>>
    BY <2>2
  <2>4. Head(daysDone) \in 1..MaxDays /\ Tail(daysDone) \in Seq(1..MaxDays)
    BY <2>3, DaysQueue
  <2>5. Head(daysDone) \in 0..MaxDays
    BY <2>4, Bounds
  <2> QED BY <2>1, <2>4, <2>5
<1>3. CASE PollLeaves \/ PollRaises \/ PollTakesSettled
  BY <1>3 DEF PollLeaves, PollRaises, PollTakesSettled
<1>4. CASE DigestQuiet \/ DigestContains \/ DigestHalts \/ DigestReturns
  BY <1>4 DEF DigestQuiet, DigestContains, DigestHalts, DigestReturns
<1>5. CASE NoDayDone \/ DigestNight
  BY <1>5 DEF NoDayDone, DigestNight
<1>6. CASE IgnoreAttack \/ BeginAttack \/ HaltOffice \/ CallOff
  BY <1>6 DEF IgnoreAttack, BeginAttack, HaltOffice, CallOff
<1>7. CASE Strike \/ Catch \/ Miss \/ EndBattle \/ PullDamage
  BY <1>7 DEF Strike, Catch, Miss, EndBattle, PullDamage
<1>8. CASE AutopilotRestores \/ AutopilotCannotRestore \/ ObeyRestore
  BY <1>8 DEF AutopilotRestores, AutopilotCannotRestore, ObeyRestore
<1>9. CASE AutopilotStrikes \/ AutopilotWaits \/ LoopAgain
  BY <1>9 DEF AutopilotStrikes, AutopilotWaits, LoopAgain
<1>10. CASE CleanupHalts \/ CleanupUnwraps \/ CleanupUndoes \/ Exit
  BY <1>10 DEF CleanupHalts, CleanupUnwraps, CleanupUndoes, Exit
<1>11. CASE StrikeRaises \/ JudgingRaises \/ CallRaises
  BY <1>11 DEF StrikeRaises, JudgingRaises, CallRaises
<1> QED BY <1>1, <1>2, <1>3, <1>4, <1>5, <1>6, <1>7, <1>8, <1>9, <1>10, <1>11 DEF Main

\* A pull is one more copy, and may be pinned or be the safe one.
LEMMA PullKeepsCopies ==
  ASSUME CopyTypes, NEW clean, Pull(clean), UNCHANGED restoring,
         safeCopy' \in {safeCopy, snapshots + 1}
  PROVE  CopyTypes'
<1>1. snapshots' = snapshots + 1 /\ (pin' = pin \/ pin' = snapshots + 1)
      /\ restored' = restored
  BY DEF Pull
<1>2. snapshots' \in Nat /\ pin' \in 0..snapshots' /\ safeCopy' \in 0..snapshots'
      /\ restoring' \in 0..snapshots'
  BY <1>1 DEF CopyTypes
<1>3. ASSUME NEW r \in restored
      PROVE  r \in 1..snapshots'
  BY <1>1 DEF CopyTypes
<1> QED BY <1>1, <1>2, <1>3 DEF CopyTypes

\* The main loop pulls, and restores what was pulled.
LEMMA MainKeepsCopies ==
  ASSUME CopyTypes, Main
  PROVE  CopyTypes'
<1> USE DEF exceptMain, vaultVars, consoleVars
<1>1. CASE PullNight
  BY <1>1, PullKeepsCopies DEF PullNight
<1>2. CASE PullDamage
  BY <1>2, PullKeepsCopies DEF PullDamage
<1>3. CASE AutopilotRestores
  BY <1>3 DEF AutopilotRestores, Restorable, CopyTypes
<1> USE DEF CopyTypes
<1>4. CASE PollLeaves \/ PollRaises \/ PollTakesSettled
  BY <1>4 DEF PollLeaves, PollRaises, PollTakesSettled
<1>5. CASE DigestQuiet \/ DigestContains \/ DigestHalts \/ DigestReturns
  BY <1>5 DEF DigestQuiet, DigestContains, DigestHalts, DigestReturns
<1>6. CASE NoDayDone \/ SkipCutDay \/ DigestNight
  BY <1>6 DEF NoDayDone, SkipCutDay, DigestNight
<1>7. CASE IgnoreAttack \/ BeginAttack \/ HaltOffice \/ CallOff
  BY <1>7 DEF IgnoreAttack, BeginAttack, HaltOffice, CallOff
<1>8. CASE Strike \/ Catch \/ Miss \/ EndBattle
  BY <1>8 DEF Strike, Catch, Miss, EndBattle
<1>9. CASE AutopilotCannotRestore \/ ObeyRestore
  BY <1>9 DEF AutopilotCannotRestore, ObeyRestore
<1>10. CASE AutopilotStrikes \/ AutopilotWaits \/ LoopAgain
  BY <1>10 DEF AutopilotStrikes, AutopilotWaits, LoopAgain
<1>11. CASE CleanupHalts \/ CleanupUnwraps \/ CleanupUndoes \/ Exit
  BY <1>11 DEF CleanupHalts, CleanupUnwraps, CleanupUndoes, Exit
<1>12. CASE StrikeRaises \/ JudgingRaises \/ CallRaises
  BY <1>12 DEF StrikeRaises, JudgingRaises, CallRaises
<1> QED BY <1>1, <1>2, <1>3, <1>4, <1>5, <1>6, <1>7, <1>8, <1>9, <1>10, <1>11, <1>12 DEF Main

Types == DayIsOn /\ DayTypes /\ FlagTypes /\ LoopTypes /\ QueueTypes /\ CopyTypes

\* The days thread ends days that began, and takes acknowledgements that are there.
LEMMA DaysKeepTypes ==
  ASSUME Types, Days
  PROVE  FlagTypes' /\ LoopTypes' /\ QueueTypes' /\ CopyTypes'
<1> USE DEF exceptDays, officeVars, queueVars, mainVars, sessionVars, serverVars,
        vaultVars, consoleVars
<1>1. FlagTypes'
  <2> USE DEF Types, FlagTypes
  <2>1. CASE BeginDay \/ EndDays \/ ShopsFail \/ LaunchJob \/ LaunchRefused \/ DayRaised
    BY <2>1 DEF BeginDay, EndDays, ShopsFail, LaunchJob, LaunchRefused, DayRaised
  <2>2. CASE JobEnds \/ NightEnds \/ TakeAck
    BY <2>2 DEF JobEnds, NightEnds, TakeAck
  <2> QED BY <2>1, <2>2 DEF Days
<1>2. LoopTypes'
  <2> USE DEF Types, LoopTypes
  <2>1. CASE BeginDay \/ EndDays \/ ShopsFail \/ LaunchJob \/ LaunchRefused \/ DayRaised
    BY <2>1 DEF BeginDay, EndDays, ShopsFail, LaunchJob, LaunchRefused, DayRaised
  <2>2. CASE JobEnds \/ NightEnds \/ TakeAck
    BY <2>2 DEF JobEnds, NightEnds, TakeAck
  <2> QED BY <2>1, <2>2 DEF Days
<1>3. CopyTypes'
  <2> USE DEF Types, CopyTypes
  <2>1. CASE BeginDay \/ EndDays \/ ShopsFail \/ LaunchJob \/ LaunchRefused \/ DayRaised
    BY <2>1 DEF BeginDay, EndDays, ShopsFail, LaunchJob, LaunchRefused, DayRaised
  <2>2. CASE JobEnds \/ NightEnds \/ TakeAck
    BY <2>2 DEF JobEnds, NightEnds, TakeAck
  <2> QED BY <2>1, <2>2 DEF Days
<1>4. QueueTypes'
  <2> USE DEF Types, QueueTypes
  <2>1. CASE NightEnds
    <3>1. day \in 1..MaxDays
      BY <2>1, Bounds DEF NightEnds, DayIsOn, DayTypes
    <3>2. daysDone' = Append(daysDone, day) /\ acks' = acks /\ nights' = nights
      BY <2>1 DEF NightEnds
    <3> QED BY <3>1, <3>2, AppendProperties
  <2>2. CASE TakeAck
    BY <2>2 DEF TakeAck
  <2>3. CASE BeginDay \/ EndDays \/ ShopsFail \/ LaunchJob \/ LaunchRefused \/ JobEnds
               \/ DayRaised
    BY <2>3 DEF BeginDay, EndDays, ShopsFail, LaunchJob, LaunchRefused, JobEnds, DayRaised
  <2> QED BY <2>1, <2>2, <2>3 DEF Days
<1> QED BY <1>1, <1>2, <1>3, <1>4

\* The simulator ends, and the console restores what the Vault has pulled.
LEMMA OthersKeepTypes ==
  ASSUME Types, SimulatorEnds \/ Console \/ UNCHANGED vars
  PROVE  FlagTypes' /\ LoopTypes' /\ QueueTypes' /\ CopyTypes'
<1> USE DEF Types, FlagTypes, LoopTypes, QueueTypes, CopyTypes, exceptConsole, officeVars,
        queueVars, mainVars, sessionVars, serverVars, vaultVars, consoleVars
<1>1. CASE SimulatorEnds
  BY <1>1 DEF SimulatorEnds
<1>2. CASE RequestAttack
  BY <1>2 DEF RequestAttack
<1>3. CASE BeginRestore
  BY <1>3 DEF BeginRestore, Restorable
<1>4. CASE ReportRestore
  BY <1>4 DEF ReportRestore
<1>5. CASE EndSession
  BY <1>5 DEF EndSession
<1>6. CASE UNCHANGED vars
  BY <1>6 DEF vars
<1> QED BY <1>1, <1>2, <1>3, <1>4, <1>5, <1>6 DEF Console

\* Every variable of the live session always has its type: the safe copy, the pinned
\* one and those restored are copies the Vault has pulled, and no day or incident
\* beyond the bounds is counted.
THEOREM LiveTypeCorrect == Spec => []TypeOK
<1> DEFINE Inv == OfficeInv /\ CommandsInv /\ LineInv /\ NightInv /\ Types
<1>1. Init => Inv
  <2> SUFFICES ASSUME Init
               PROVE  OfficeInv /\ CommandsInv /\ LineInv /\ NightInv /\ Types
    OBVIOUS
  <2>1. OfficeInv
    BY DEF Init, OfficeInv, AtAttack
  <2>2. CommandsInv
    BY DEF Init, CommandsInv, Commands, NoCommands
  <2>3. InLine(<<>>, <<>>, 0, 0)
    BY DEF InLine
  <2>4. LineInv
    BY <2>3, EmptySeq DEF Init, LineInv
  <2>5. NightInv
    BY SessionAssumption DEF Init, NightInv, DaysAreCounted, AtNight
  <2>6. DayIsOn /\ DayTypes
    <3>1. dayPc = "top" /\ day = 0 /\ jobsLeft = 0 /\ dayError = FALSE
      BY DEF Init
    <3>2. dayError \in BOOLEAN
      BY <3>1, Zenon
    <3> QED BY <3>1, <3>2, Bounds DEF DayIsOn, DayTypes
  <2>7. FlagTypes
    BY DEF Init, FlagTypes
  <2>8. LoopTypes
    <3>1. phase \in Phases
      BY DEF Init, Phases, Running
    <3> QED BY <3>1, Bounds DEF Init, LoopTypes
  <2>10. CopyTypes
    BY DEF Init, CopyTypes
  <2>9. QueueTypes
    BY Bounds, EmptySeq DEF Init, QueueTypes
  <2> QED BY <2>1, <2>2, <2>4, <2>5, <2>6, <2>7, <2>8, <2>9, <2>10 DEF Types
<1>2. Inv /\ [Next]_vars => Inv'
  <2> SUFFICES ASSUME OfficeInv, CommandsInv, LineInv, NightInv, Types, [Next]_vars
               PROVE  OfficeInv' /\ CommandsInv' /\ LineInv' /\ NightInv' /\ Types'
    OBVIOUS
  <2>1. OfficeInv' /\ CommandsInv' /\ LineInv' /\ NightInv'
    BY NextKeepsOffice, NextKeepsCommands, NextKeepsLine, NextKeepsNight
  <2>2. DayIsOn' /\ DayTypes'
    BY DayStep DEF Types
  <2>3. CASE Main
    <3>1. FlagTypes' /\ LoopTypes' /\ QueueTypes' /\ CopyTypes'
      BY <2>3, MainKeepsFlags, MainKeepsLoop, MainKeepsQueue, MainKeepsCopies DEF Types
    <3> QED BY <2>1, <2>2, <3>1 DEF Types
  <2>4. CASE Days
    BY <2>1, <2>2, <2>4, DaysKeepTypes DEF Types
  <2>5. CASE SimulatorEnds \/ Console \/ UNCHANGED vars
    BY <2>1, <2>2, <2>5, OthersKeepTypes DEF Types
  <2> QED BY <2>3, <2>4, <2>5 DEF Next
<1>3. Inv => TypeOK
  BY DEF OfficeInv, CommandsInv, Commands, LineInv, Types, DayTypes, FlagTypes, LoopTypes,
     QueueTypes, CopyTypes, TypeOK
<1> QED BY <1>1, <1>2, <1>3, PTL DEF Spec
=============================================================================
