------------------------------ MODULE LiveAttack ------------------------------
(***************************************************************************)
(* _judge_attack_live: the simulator is launched, the Watcher's log is     *)
(* drained and every longer window judged, until the Judge calls INCIDENT  *)
(* or the simulator has ended and its last events are in; whatever         *)
(* happens, the simulator's tree is killed and the lock released or kept.  *)
(*                                                                         *)
(* The Watcher appears as a queue: `made` events, of which `logged` are in *)
(* the log and `drained` in the window.  The Judge appears by its table of *)
(* levels and by the lock it puts on the records, one file after another.  *)
(***************************************************************************)
EXTENDS Simulator

CONSTANTS Decoy,     \* the targets among canary_files
          Burst,     \* rename_burst
          Quiet,     \* idle turns of the final drain that end it
          Deadline,  \* its turns at most
          Delay,     \* turns within which the Watcher logs its first event
          MaxCalls   \* bound

ASSUME LiveAttackAssumption ==
  /\ Decoy \subseteq Share
  /\ Burst \in Nat \ {0} /\ Quiet \in Nat /\ Deadline \in Nat
  /\ Delay \in Nat /\ MaxCalls \in Nat

VARIABLES
  call,        \* the call's place and what it knows
  card,        \* the variant on the newest habit card of the job "simulator"
  record,      \* the names the Judge has made read-only and not released
  made,        \* number of events the simulator made
  renamed, decoyed, noted,   \* those that are renames, touch a decoy, or
                             \* write a note with the recovery commands
  logged, drained            \* how far the log and the cursor have come

watchVars == <<made, renamed, decoyed, noted, logged, drained>>
vars == <<simVars, call, card, record, watchVars>>

NoCall == [pc |-> "none", no |-> 0, release |-> TRUE, variant |-> "fast",
           level |-> "NORMAL", last |-> FALSE, turn |-> 0, quiet |-> 0, walk |-> {},
           children |-> FALSE, held |-> FALSE, raised |-> FALSE, contained |-> FALSE]
NoCard == "none"

Init == SimInit /\ call = NoCall /\ card = NoCard /\ record = {}
        /\ made = 0 /\ renamed = {} /\ decoyed = {} /\ noted = {}
        /\ logged = 0 /\ drained = 0

-----------------------------------------------------------------------------
(* The simulator and the Watcher, while the call runs.                     *)

\* A step is seen as one event, as long as the agent lives.
IsSeen(isRename, onDecoy, isNote) ==
  LET New(is) == IF is THEN {made + 1} ELSE {}
  IN IF agent
     THEN /\ made' = made + 1
          /\ renamed' = renamed \union New(isRename)
          /\ decoyed' = decoyed \union New(onDecoy)
          /\ noted' = noted \union New(isNote)
          /\ UNCHANGED <<logged, drained>>
     ELSE UNCHANGED watchVars

\* Notes go where files were locked; the recovery-killer's hold its commands.
NotesAreDue == \/ renamed # {}
               \/ sim.variant = "impersonator" /\ \E f \in File : locked[f] # Gone

SimWritesSeen ==
  SimWrites /\ IsSeen(FALSE, sim.file \in Decoy, FALSE) /\ UNCHANGED <<call, card, record>>
SimRenamesSeen ==
  SimRenames /\ IsSeen(TRUE, sim.file \in Decoy, FALSE) /\ UNCHANGED <<call, card, record>>
SimFinishesSeen ==
  /\ SimFinishes
  /\ IF NotesAreDue THEN IsSeen(FALSE, FALSE, sim.variant = "recovery-killer")
     ELSE UNCHANGED watchVars
  /\ UNCHANGED <<call, card, record>>
SimElse ==
  /\ SimOpens \/ SimIsDenied \/ SimRenameRaises \/ SimSpawnsShell \/ ShellLingers
       \/ SimOutlivesShell \/ SimTerminatesAgent
  /\ UNCHANGED <<call, card, record, watchVars>>
SimRuns == SimWritesSeen \/ SimRenamesSeen \/ SimFinishesSeen \/ SimElse

Log ==
  /\ agent /\ logged < made
  /\ logged' = logged + 1
  /\ UNCHANGED <<simVars, call, card, record, made, renamed, decoyed, noted, drained>>

-----------------------------------------------------------------------------
(* The call.                                                               *)

\* No lock of this call is still to be undone.
Free == call.release \/ call.level # "INCIDENT"

\* The cursor is wound to the end of the log and the simulator launched.
CallBegins ==
  /\ call.pc \in {"none", "done"} /\ call.no < MaxCalls
  /\ Free /\ ~shell /\ agent
  /\ \E variant \in Variants, release \in BOOLEAN :
       /\ Launch(variant)
       /\ call' = [NoCall EXCEPT !.pc = "drain", !.no = call.no + 1,
                                 !.variant = variant, !.release = release]
  /\ made' = 0 /\ renamed' = {} /\ decoyed' = {} /\ noted' = {}
  /\ logged' = 0 /\ drained' = 0
  /\ UNCHANGED <<card, record>>

Drain ==
  /\ call.pc = "drain"
  /\ drained' = logged
  /\ call' = [call EXCEPT !.pc = IF drained < logged THEN "verdict" ELSE "poll"]
  /\ UNCHANGED <<simVars, card, record, made, renamed, decoyed, noted, logged>>

\* proc.poll(): a simulator that has ended leaves the final drain to do.
Poll ==
  /\ call.pc = "poll"
  /\ call' = [call EXCEPT !.pc = IF sim.pc = "off" THEN "tail" ELSE "drain"]
  /\ UNCHANGED <<simVars, card, record, watchVars>>

\* The canary signals in the window.  S3 rests on what the files hold when they
\* are read, S5 also on a shell the scan of the processes meets.
S2 == \E e \in decoyed : e <= drained
S4 == Cardinality({e \in renamed : e <= drained}) >= Burst
S3s == IF drained > 0 THEN BOOLEAN ELSE {FALSE}
S5s == IF \E e \in noted : e <= drained THEN {TRUE} ELSE {FALSE, shell}

\* The program behind the job has changed since its newest card.  The verdict
\* that finds so starts a new card, so only the first of a call does; a job
\* that was never learned is not unusual otherwise.
Unusual == card \notin {NoCard, call.variant}

\* _level: a decoy, or scrambling or mass renaming with an unusual habit or a
\* recovery command; any other signal alone is SUSPICIOUS, which acts on nothing.
Answers == {S2 \/ ((S3 \/ S4) /\ (Unusual \/ S5)) : S3 \in S3s, S5 \in S5s}

AfterVerdict == IF call.last THEN "list" ELSE IF call.turn > 0 THEN "tail" ELSE "poll"

\* judge.verdict on the whole window, as far as the decision.
Verdict ==
  /\ call.pc = "verdict"
  /\ \E incident \in Answers :
       call' = [call EXCEPT !.pc = IF incident THEN "suspend" ELSE AfterVerdict,
                            !.level = IF incident THEN "INCIDENT" ELSE @]
  /\ card' = call.variant
  /\ UNCHANGED <<simVars, record, watchVars>>

\* It raises, before it contained anything, half-way or after.
VerdictRaises ==
  /\ call.pc \in {"verdict", "suspend", "lock", "walk", "locked"}
  /\ call' = [call EXCEPT !.pc = "list", !.raised = TRUE]
  /\ card' \in IF call.pc = "verdict" THEN {card, call.variant} ELSE {card}
  /\ UNCHANGED <<simVars, record, watchVars>>

\* The Judge pauses the busiest writer of the window, with its children: the
\* simulator, unless the Watcher blamed another program.
Suspend ==
  /\ call.pc = "suspend"
  /\ \E rightly \in BOOLEAN :
       sim' = [sim EXCEPT !.suspended = rightly /\ sim.pc # "off"]
  /\ call' = [call EXCEPT !.pc = "lock"]
  /\ UNCHANGED <<plain, locked, modes, shell, agent, interrupted, decrypt, card, record,
                 watchVars>>

\* make_read_only: what lies under share/ at that moment is listed ...
Present == {Own(f) : f \in {g \in File : plain[g] # Gone}}
           \union {Locked(f) : f \in {g \in File : locked[g] # Gone}}
ListShare ==
  /\ call.pc = "lock"
  /\ call' = [call EXCEPT !.pc = "walk", !.walk = {n \in Present : n[1] \in Share}]
  /\ UNCHANGED <<simVars, card, record, watchVars>>

\* ... and locked in the order of the paths: a file that is gone by then or is
\* read-only already is passed over, any other is locked and put on record.
LockFile ==
  /\ call.pc = "walk"
  /\ \E n \in call.walk :
       /\ \A m \in call.walk : n[1] <= m[1]
       /\ LET taken == {n} \intersect (Present \ readOnly)
          IN readOnly' = readOnly \union taken /\ record' = record \union taken
       /\ call' = [call EXCEPT !.walk = @ \ {n}]
  /\ UNCHANGED <<plain, locked, moved, sim, shell, agent, interrupted, decrypt, card,
                 watchVars>>

LockEnds ==
  /\ call.pc = "walk" /\ call.walk = {}
  /\ call' = [call EXCEPT !.pc = "locked"]
  /\ UNCHANGED <<simVars, card, record, watchVars>>

\* The verdict is back; the containment is proved and put in the evidence.
Proof ==
  /\ call.pc = "locked"
  /\ call' = [call EXCEPT !.pc = "list", !.contained = TRUE]
  /\ UNCHANGED <<simVars, card, record, watchVars>>

-----------------------------------------------------------------------------
(* The final drain, once the simulator has ended.                          *)

TailDrains ==
  /\ call.pc = "tail" /\ call.turn < Deadline /\ drained < logged
  /\ drained' = logged
  /\ call' = [call EXCEPT !.pc = "verdict", !.turn = @ + 1, !.quiet = 0]
  /\ UNCHANGED <<simVars, card, record, made, renamed, decoyed, noted, logged>>

\* What the drain takes for granted of the Watcher: the first event is logged
\* within so many turns, and the next one before the quiet is long enough.
LogIsInTime ==
  agent /\ logged < made
    => IF drained = 0 THEN call.turn < Delay ELSE call.quiet + 1 < Quiet

\* Fault: any idle stretch ends the drain, also one before the first event.
TailWaits_Early ==
  /\ call.pc = "tail" /\ call.turn < Deadline /\ drained = logged
  /\ LogIsInTime
  /\ call' = [call EXCEPT !.pc = "verdict", !.last = TRUE,
                          !.turn = @ + 1, !.quiet = @ + 1]
  /\ UNCHANGED <<simVars, card, record, watchVars>>

\* Fault: the drain's clock stands while there is nothing to judge.
TailWaits_NoClock ==
  /\ call.pc = "tail" /\ call.turn < Deadline /\ drained = logged
  /\ LogIsInTime
  /\ LET over == call.quiet + 1 >= Quiet /\ drained > 0
         tick == IF drained > 0 THEN 1 ELSE 0
     IN call' = [call EXCEPT !.pc = IF over THEN "verdict" ELSE "tail", !.last = over,
                             !.turn = @ + tick, !.quiet = @ + tick]
  /\ UNCHANGED <<simVars, card, record, watchVars>>

\* An idle turn.
TailWaits ==
  /\ call.pc = "tail" /\ call.turn < Deadline /\ drained = logged
  /\ LogIsInTime
  /\ LET over == call.quiet + 1 >= Quiet /\ drained > 0
     IN call' = [call EXCEPT !.pc = IF over THEN "verdict" ELSE "tail", !.last = over,
                             !.turn = @ + 1, !.quiet = @ + 1]
  /\ UNCHANGED <<simVars, card, record, watchVars>>

TailEnds ==
  /\ call.pc = "tail" /\ call.turn >= Deadline
  /\ call' = [call EXCEPT !.pc = "verdict", !.last = TRUE]
  /\ UNCHANGED <<simVars, card, record, watchVars>>

-----------------------------------------------------------------------------
(* The finally block.                                                      *)

\* Fault: only the simulator's own process is ended.
ListTree_RootOnly ==
  /\ call.pc = "list"
  /\ call' = [call EXCEPT !.pc = "kill", !.children = FALSE, !.held = sim.suspended]
  /\ UNCHANGED <<simVars, card, record, watchVars>>

\* _kill_process_tree resolves the process, lists its children ...
ListTree ==
  /\ call.pc = "list"
  /\ call' = [call EXCEPT !.pc = "kill", !.children = shell /\ sim.pc # "off",
                          !.held = sim.suspended]
  /\ UNCHANGED <<simVars, card, record, watchVars>>

\* ... and kills what it listed, suspended or not.
KillTree ==
  /\ call.pc = "kill"
  /\ SimEnds
  /\ shell' = (shell /\ ~call.children)
  /\ call' = [call EXCEPT !.pc = "undo"]
  /\ UNCHANGED <<plain, locked, modes, agent, decrypt, card, record, watchVars>>

\* judge.undo: what is on record is made writable under the name on record, and
\* the record is empty whatever came of it.
Releases(does) ==
  /\ readOnly' = IF does THEN readOnly \ record ELSE readOnly
  /\ record' = IF does THEN {} ELSE record
  /\ UNCHANGED <<plain, locked, moved, sim, shell, agent, interrupted, decrypt, card,
                 watchVars>>

\* Fault: the lock is released on the way of an INCIDENT that was proved.
Undo_AfterProof ==
  /\ call.pc = "undo"
  /\ Releases(call.release /\ call.contained)
  /\ call' = [call EXCEPT !.pc = "done"]

Undo ==
  /\ call.pc = "undo"
  /\ Releases(call.release)
  /\ call' = [call EXCEPT !.pc = "done"]

\* The live session's own undo, after the restore from the Vault.
LaterUndo ==
  /\ call.pc = "done" /\ ~Free
  /\ Releases(TRUE)
  /\ call' = [call EXCEPT !.release = TRUE]

\* decrypt is run between calls, on records that have been released.
DecryptByHand ==
  /\ call.pc \in {"none", "done"} /\ Free
  /\ DecryptStep
  /\ UNCHANGED <<call, card, record, watchVars>>

CallStep ==
  Drain \/ Poll \/ Verdict \/ VerdictRaises \/ Suspend \/ ListShare \/ LockFile
    \/ LockEnds \/ Proof \/ TailDrains \/ TailWaits \/ TailEnds \/ ListTree
    \/ KillTree \/ Undo

Next == SimRuns \/ Log \/ CallBegins \/ CallStep \/ LaterUndo \/ DecryptByHand

Spec == Init /\ [][Next]_vars

\* The caller's thread, the simulator (its files are finite, its shell lingers
\* for a set time) and the Watcher's agent are all scheduled.
FairSpec == Spec /\ WF_vars(CallStep) /\ WF_vars(Log)
                 /\ WF_vars(SimRuns)

-----------------------------------------------------------------------------
\* Every variable keeps its type.
TypeOK ==
  /\ SimTypeOK
  /\ call.turn \in 0 .. Deadline /\ call.level \in {"NORMAL", "INCIDENT"}
  /\ call.walk \subseteq Name /\ record \subseteq Name /\ card \in Variants \union {NoCard}
  /\ renamed \union decoyed \union noted \subseteq 1 .. made
  /\ drained <= logged /\ logged <= made

\* A simulator that touched a decoy, or renamed a burst and left the recovery
\* commands in a note, is called INCIDENT however fast it is, unless the final
\* drain's ten seconds ran out.  A burst alone is not (test_a_mass_rename_alone).
Blatant == decoyed # {} \/ (Cardinality(renamed) >= Burst /\ noted # {})
AttackIsCaught ==
  call.pc = "done" /\ ~call.raised /\ call.turn < Deadline /\ Blatant
    => call.level = "INCIDENT"

\* After the call the simulator is gone, and its shell with it when the Judge
\* had suspended them: a free one may start its shell while the tree is killed.
NothingSurvives ==
  call.pc = "done" => sim.pc = "off" /\ (shell => ~call.held)

\* After a call that is to free the records, also when judging raised half-way
\* through the lock, exactly those are read-only that a simulator renamed while
\* they were; after a contained one that is to leave them locked, every record
\* that still has its name is.
RecordsAreAsAgreed ==
  call.pc = "done" =>
    /\ call.release => readOnly = moved
    /\ ~call.release /\ call.contained =>
         \A f \in Share : plain[f] # Gone => Own(f) \in readOnly

\* Every call comes to its end.
CallEnds == (call.pc = "drain") ~> (call.pc = "done")
=============================================================================
