------------------------------- MODULE Session -------------------------------
(***************************************************************************)
(* The console's LiveSession and the engines it starts, over one session   *)
(* folder.  The console serves every request in a thread of its own; one   *)
(* lock (an RLock) covers a whole start: stop the old engine, wipe the     *)
(* folder, write an empty control.json, launch the next.  Engines meet the *)
(* console only through the folder and the console's process id.  The      *)
(* console may die at any step and be started again; its engine then has   *)
(* no one who knows it.                                                    *)
(*                                                                         *)
(* What an engine does between its boot and its end is the module Live.    *)
(***************************************************************************)
EXTENDS Integers, FiniteSets

CONSTANTS Threads,      \* request threads of the console
          MaxStarts,    \* engines ever launched; bounds the model
          MaxDeaths     \* times the console dies; bounds the model

NoOne == "no one"
Engines == 1 .. MaxStarts
NoEngine == 0

ASSUME SessionAssumption ==
  /\ NoOne \notin Threads
  /\ MaxStarts \in Nat \ {0} /\ MaxDeaths \in Nat

VARIABLES
  console,      \* which console it is: 0, 1, ... as it dies and is restarted
  holder,       \* of the lock
  pc, autopilot,\* each thread's place; is it the guided demo it starts
  proc,         \* _proc
  control,      \* what engine/control.json says about stopping
  status,       \* engine/status.json: the engine that wrote it, or none
  district,     \* district/ and vault/: the engines that built them since they
                \* were wiped
  life, parent, \* each engine; the console that launched it
  guided,       \* was it started on autopilot
  frozen,       \* engines whose Judge has suspended the job that holds the
                \* office lock
  cutOff        \* history: engines that had not built when their console died

consoleVars == <<console, holder, pc, autopilot, proc>>
folder == <<control, status, district>>
engineVars == <<life, parent, guided, frozen, cutOff>>
vars == <<consoleVars, folder, engineVars>>
exceptLife == <<parent, guided, frozen, cutOff>>

\* An engine that can still do something; one being killed can not.
Booting == {"boot", "building"}
Acting == Booting \union {"polling", "busy", "cleanup"}
Lives(e) == e # NoEngine /\ life[e] \in Acting

Init ==
  /\ console = 0 /\ holder = NoOne
  /\ pc = [t \in Threads |-> "idle"] /\ autopilot = [t \in Threads |-> FALSE]
  /\ proc = NoEngine
  /\ control = "none" /\ status = NoEngine /\ district = {}
  /\ life = [e \in Engines |-> "none"] /\ parent = [e \in Engines |-> 0]
  /\ guided = [e \in Engines |-> FALSE] /\ frozen = {} /\ cutOff = {}

Moves(t, from, to) == pc[t] = from /\ pc' = [pc EXCEPT ![t] = to]

-----------------------------------------------------------------------------
(* start, and the stop inside it.                                          *)

\* /live/reset, or the console's own start.
AskStart(t) ==
  /\ Moves(t, "idle", "start")
  /\ UNCHANGED <<console, holder, autopilot, proc, folder, engineVars>>

\* LiveShowcase.read_status: what the guided demo's page would show.
ShowsRunning == Lives(proc) /\ (status = NoEngine \/ guided[proc])

\* LiveShowcase.start: looked at under the lock, which is then let go.
AskGuidedStart(t) ==
  /\ holder = NoOne /\ ~ShowsRunning
  /\ Moves(t, "idle", "guided")
  /\ UNCHANGED <<console, holder, autopilot, proc, folder, engineVars>>

\* stop: nothing to stop, or the engine is asked to.
StopBegins(t) ==
  /\ holder = NoOne /\ pc[t] \in {"start", "guided"} /\ holder' = t
  /\ \E e \in Engines : life[e] = "none"
  /\ autopilot' = [autopilot EXCEPT ![t] = (pc[t] = "guided")]
  /\ IF proc # NoEngine /\ life[proc] # "gone"
     THEN /\ control' = IF control = "none" THEN "none" ELSE "stop"
          /\ pc' = [pc EXCEPT ![t] = "stopping"]
          /\ UNCHANGED proc
     ELSE /\ pc' = [pc EXCEPT ![t] = "wiping"] /\ proc' = NoEngine
          /\ UNCHANGED control
  /\ UNCHANGED <<console, status, district, engineVars>>

\* proc.wait returns.
EngineHasEnded(t) ==
  /\ Moves(t, "stopping", "wiping") /\ life[proc] = "gone"
  /\ proc' = NoEngine
  /\ UNCHANGED <<console, holder, autopilot, folder, engineVars>>

\* Fault: an engine that takes too long is left to end by itself.
WaitTimesOut_Forgets(t) ==
  /\ Moves(t, "stopping", "wiping") /\ life[proc] # "gone"
  /\ proc' = NoEngine
  /\ UNCHANGED <<console, holder, autopilot, folder, engineVars>>

\* stop_timeout: the tree is killed, waited for a little, and forgotten.
WaitTimesOut(t) ==
  /\ Moves(t, "stopping", "wiping") /\ life[proc] # "gone"
  /\ life' = [life EXCEPT ![proc] = "dying"]
  /\ proc' = NoEngine
  /\ UNCHANGED <<console, holder, autopilot, folder, exceptLife>>

\* _wipe, an empty control.json, and the next engine.
StartEnds(t) ==
  /\ Moves(t, "wiping", "idle") /\ holder' = NoOne
  /\ district' = {} /\ status' = NoEngine
  /\ control' = "empty"
  /\ \E e \in Engines :
       /\ life[e] = "none" /\ \A d \in Engines : d < e => life[d] # "none"
       /\ life' = [life EXCEPT ![e] = "boot"]
       /\ parent' = [parent EXCEPT ![e] = console]
       /\ guided' = [guided EXCEPT ![e] = autopilot[t]]
       /\ proc' = e
  /\ autopilot' = [autopilot EXCEPT ![t] = FALSE]
  /\ UNCHANGED <<console, frozen, cutOff>>

\* Something still holds files in the folder: SessionFolderRefused.
WipeIsRefused(t) ==
  /\ Moves(t, "wiping", "idle") /\ holder' = NoOne
  /\ autopilot' = [autopilot EXCEPT ![t] = FALSE]
  /\ \E e \in Engines : life[e] \in Acting \union {"dying"}
  /\ UNCHANGED <<console, proc, folder, engineVars>>

\* The console dies with all its threads, and another is started.
ConsoleDies ==
  /\ console < MaxDeaths
  /\ console' = console + 1 /\ holder' = NoOne
  /\ pc' = [t \in Threads |-> "idle"] /\ autopilot' = [t \in Threads |-> FALSE]
  /\ proc' = NoEngine
  /\ cutOff' = cutOff \union {e \in Engines : life[e] \in Booting}
  /\ UNCHANGED <<folder, life, parent, guided, frozen>>

-----------------------------------------------------------------------------
(* An engine.                                                              *)

Becomes(e, from, to) == life[e] = from /\ life' = [life EXCEPT ![e] = to]

\* run: the first status; a district or Vault that is there already ends it ...
BootChecks(e) ==
  /\ Becomes(e, "boot", IF district = {} THEN "building" ELSE "cleanup")
  /\ status' = e
  /\ UNCHANGED <<consoleVars, control, district, exceptLife>>

\* ... or it builds one, over whatever another has begun since: build_district
\* takes a folder that exists, and unlinks its database.
BootBuilds(e) ==
  /\ Becomes(e, "building", "polling")
  /\ district' = district \union {e}
  /\ UNCHANGED <<consoleVars, control, status, exceptLife>>

\* What its loop reads first: control.json says stop, or the console's process
\* is gone.
Told(e) == control = "stop" \/ parent[e] # console

\* _finish_days, _attack, the autopilot's restore: no command is read.
TurnsBusy(e) ==
  /\ ~Told(e)
  /\ Becomes(e, "polling", "busy")
  /\ UNCHANGED <<consoleVars, folder, exceptLife>>

ComesBack(e) ==
  /\ Becomes(e, "busy", "polling")
  /\ UNCHANGED <<consoleVars, folder, exceptLife>>

\* Fault: the engine does not ask after its console.
ReadsStop_ControlOnly(e) ==
  /\ control = "stop"
  /\ Becomes(e, "polling", "cleanup")
  /\ UNCHANGED <<consoleVars, folder, exceptLife>>

ReadsStop(e) ==
  /\ Told(e)
  /\ Becomes(e, "polling", "cleanup")
  /\ UNCHANGED <<consoleVars, folder, exceptLife>>

\* A night job is judged an INCIDENT while the next one runs: the Judge suspends
\* the program of that one, which holds the office lock until it ends.
Freezes(e) ==
  /\ life[e] \in {"polling", "busy"} /\ frozen' = frozen \union {e}
  /\ UNCHANGED <<consoleVars, folder, life, parent, guided, cutOff>>

\* A restore is reported, and the Judge resumes what it has suspended.
Thaws(e) ==
  /\ life[e] \in {"polling", "busy"} /\ frozen' = frozen \ {e}
  /\ UNCHANGED <<consoleVars, folder, life, parent, guided, cutOff>>

\* The run is complete, or has failed.
Finishes(e) ==
  /\ life[e] \in {"building", "polling", "busy"} /\ life' = [life EXCEPT ![e] = "cleanup"]
  /\ UNCHANGED <<consoleVars, folder, exceptLife>>

\* run's finally: halt() waits for the office lock, without limit; then the last
\* status is written, into whatever folder is there.
CleansUp(e) ==
  /\ e \notin frozen
  /\ Becomes(e, "cleanup", "gone")
  /\ status' = e
  /\ UNCHANGED <<consoleVars, control, district, exceptLife>>

\* A killed process is gone at last; or an engine dies by itself.
Dies(e) ==
  /\ life[e] \in Acting \union {"dying"} /\ life' = [life EXCEPT ![e] = "gone"]
  /\ UNCHANGED <<consoleVars, folder, exceptLife>>

ThreadSteps(t) ==
  \/ AskStart(t) \/ AskGuidedStart(t) \/ StopBegins(t) \/ EngineHasEnded(t)
  \/ WaitTimesOut(t) \/ StartEnds(t) \/ WipeIsRefused(t)

EngineSteps(e) ==
  \/ BootChecks(e) \/ BootBuilds(e) \/ TurnsBusy(e) \/ ComesBack(e) \/ ReadsStop(e)
  \/ Freezes(e) \/ Thaws(e) \/ Finishes(e) \/ CleansUp(e) \/ Dies(e)

Next ==
  \/ \E t \in Threads : ThreadSteps(t)
  \/ \E e \in Engines : EngineSteps(e)
  \/ ConsoleDies

Spec == Init /\ [][Next]_vars

\* Every wait of the console has a timeout.  The engine's loop comes back to
\* its poll, for the jobs it waits for end, and every poll begins with the two
\* questions.
Fairness ==
  /\ \A t \in Threads :
       /\ WF_vars(EngineHasEnded(t) \/ WaitTimesOut(t))
       /\ WF_vars(StartEnds(t) \/ WipeIsRefused(t))
  /\ \A e \in Engines :
       /\ WF_vars(BootChecks(e)) /\ WF_vars(BootBuilds(e))
       /\ WF_vars(ComesBack(e)) /\ WF_vars(ReadsStop(e)) /\ WF_vars(CleansUp(e))

FairSpec == Spec /\ Fairness

-----------------------------------------------------------------------------
\* Every variable keeps its type.
TypeOK ==
  /\ console \in 0 .. MaxDeaths /\ holder \in Threads \union {NoOne}
  /\ pc \in [Threads -> {"idle", "start", "guided", "stopping", "wiping"}]
  /\ autopilot \in [Threads -> BOOLEAN] /\ control \in {"none", "empty", "stop"}
  /\ {proc, status} \subseteq Engines \union {NoEngine} /\ district \subseteq Engines
  /\ life \in [Engines -> Acting \union {"none", "dying", "gone"}]
  /\ parent \in [Engines -> 0 .. MaxDeaths] /\ guided \in [Engines -> BOOLEAN]
  /\ frozen \subseteq Engines /\ cutOff \subseteq Engines

\* "One live session at a time": an engine that can still do something is the
\* one its console knows, however starts, slow engines and kills interleave.
\* It has built the district it works in, and no other engine has since the
\* wipe, but for one that was still booting when an earlier console died.
OneEngine ==
  \A e \in Engines :
    Lives(e) /\ parent[e] = console
      => /\ e = proc
         /\ life[e] \in {"polling", "busy"} => e \in district /\ district \ {e} \subseteq cutOff

\* An engine that is told to stop, or whose console has died, comes to an end,
\* unless the Judge has suspended the very job whose lock the cleanup waits for.
EnginesEnd ==
  \A e \in Engines :
    (life[e] # "none" /\ (parent[e] # console \/ proc # e)) ~> ~Lives(e) \/ e \in frozen

\* What the engine says of its check for leftovers, that a district already there
\* "is an older session's" and is not built upon: one engine builds in a folder.
OneSessionPerFolder == \A d, e \in district : d = e
=============================================================================
