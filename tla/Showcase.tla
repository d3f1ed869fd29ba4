------------------------------- MODULE Showcase -------------------------------
(***************************************************************************)
(* The Live Demo page.  A console has one controller of it: the live       *)
(* session's (LiveShowcase, whose start is Session's), or, when it serves  *)
(* no live session, ShowcaseController, which launches the one-shot demo   *)
(* as a process of its own, remembers it in a status file and tells how it *)
(* ended from the log the process leaves.                                  *)
(*                                                                         *)
(* Every call of the controller holds its lock from its first read to its  *)
(* last write, so one place stands for all the request threads.  A demo    *)
(* outlives its console.                                                   *)
(***************************************************************************)
EXTENDS Session

CONSTANT MaxDemos      \* one-shot demos ever launched; bounds the model

ASSUME ShowcaseAssumption == MaxDemos \in Nat \ {0}

Demos == 1 .. MaxDemos
NoDemo == 0
Torn == [state |-> "ready", demo |-> NoDemo]  \* what _load makes of a torn file

VARIABLES
  controller,   \* "live" or "oneshot"
  page,         \* the place of the call that holds the lock
  handle,       \* _proc, or NoDemo
  saved,        \* the status file
  toSave,       \* what is being written to it
  demo,         \* each demo: "none", "running", or "gone"
  said,         \* the last line of its proof, or "nothing"
  lines,        \* the proof lines that are in the log
  lost          \* history: a console died with a demo launched and not saved

pageVars == <<controller, page, handle, saved, toSave, lost>>
demoVars == <<demo, said, lines>>
allVars == <<vars, pageVars, demoVars>>

ShowcaseInit ==
  /\ Init
  /\ controller \in {"live", "oneshot"}
  /\ page = "idle" /\ handle = NoDemo
  /\ saved = Torn /\ toSave = Torn
  /\ demo = [d \in Demos |-> "none"] /\ said = [d \in Demos |-> "nothing"]
  /\ lines = {} /\ lost = FALSE

-----------------------------------------------------------------------------
(* The controller.                                                         *)

\* Fault: a demo is alive if this console has launched it and it is.
Alive_ByHandle(d) == {d = handle /\ demo[d] = "running"}

\* _alive: the own child's handle knows; for another console's child the pid
\* is looked up, which may be another program's by now.
Alive(d) ==
  IF d = NoDemo THEN {FALSE}
  ELSE IF d = handle \/ demo[d] = "running" THEN {demo[d] = "running"}
  ELSE BOOLEAN

\* start: a demo that is running is not started again.  The log is opened for
\* writing, and is empty.
OpensLog ==
  /\ page = "idle" /\ \E d \in Demos : demo[d] = "none"
  /\ saved.state = "running" => FALSE \in Alive(saved.demo)
  /\ page' = "opened" /\ lines' = {}
  /\ UNCHANGED <<controller, handle, saved, toSave, lost, demo, said>>

LaunchFails ==
  /\ page = "opened" /\ page' = "idle"
  /\ UNCHANGED <<controller, handle, saved, toSave, lost, demoVars>>

LaunchesDemo ==
  /\ page = "opened"
  /\ \E d \in Demos :
       /\ demo[d] = "none" /\ \A c \in Demos : c < d => demo[c] # "none"
       /\ demo' = [demo EXCEPT ![d] = "running"]
       /\ handle' = d
       /\ toSave' = [state |-> "running", demo |-> d]
  /\ page' = "launched"
  /\ UNCHANGED <<controller, saved, lost, said, lines>>

\* read_status: a demo that is no longer running is finished, by its log.
Finalises ==
  /\ page = "idle" /\ saved.state = "running" /\ FALSE \in Alive(saved.demo)
  /\ toSave' = [saved EXCEPT !.state = IF "PASSED" \in lines THEN "complete" ELSE "failed"]
  /\ handle' = NoDemo
  /\ page' = "finished"
  /\ UNCHANGED <<controller, saved, lost, demoVars>>

\* _save: the file is truncated ...
SaveBegins ==
  /\ page \in {"launched", "finished"}
  /\ saved' = Torn
  /\ page' = IF page = "launched" THEN "saving launch" ELSE "saving end"
  /\ UNCHANGED <<controller, handle, toSave, lost, demoVars>>

\* ... and written.
SaveEnds ==
  /\ page \in {"saving launch", "saving end"} /\ page' = "idle"
  /\ saved' = toSave
  /\ UNCHANGED <<controller, handle, toSave, lost, demoVars>>

\* The console dies, in the middle of a call or not, and another is started.
ShowcaseDies ==
  /\ console < MaxDeaths /\ console' = console + 1
  /\ page' = "idle" /\ handle' = NoDemo /\ toSave' = Torn
  /\ lost' = (lost \/ page \in {"launched", "saving launch"})
  /\ UNCHANGED <<holder, pc, autopilot, proc, folder, engineVars,
                 controller, saved, demoVars>>

-----------------------------------------------------------------------------
(* A demo, as its log shows it.                                            *)

\* "--- proof PASSED ---" or FAILED; the report is still to be written.
DemoSays(d) ==
  /\ demo[d] = "running" /\ said[d] = "nothing"
  /\ \E line \in {"PASSED", "FAILED"} :
       said' = [said EXCEPT ![d] = line] /\ lines' = lines \union {line}
  /\ UNCHANGED <<pageVars, demo>>

DemoEnds(d) ==
  /\ demo[d] = "running" /\ demo' = [demo EXCEPT ![d] = "gone"]
  /\ UNCHANGED <<pageVars, said, lines>>

PageStep == OpensLog \/ LaunchFails \/ LaunchesDemo \/ Finalises \/ SaveBegins \/ SaveEnds

ShowcaseNext ==
  \/ controller = "live" /\ Next /\ UNCHANGED <<pageVars, demoVars>>
  \/ /\ controller = "oneshot"
     /\ \/ PageStep /\ UNCHANGED vars
        \/ (\E d \in Demos : DemoSays(d) \/ DemoEnds(d)) /\ UNCHANGED vars
        \/ ShowcaseDies

ShowcaseSpec == ShowcaseInit /\ [][ShowcaseNext]_allVars /\ Fairness

-----------------------------------------------------------------------------
\* Every variable of the page keeps its type.
PageTypeOK ==
  /\ page \in {"idle", "opened", "launched", "finished", "saving launch", "saving end"}
  /\ {saved, toSave} \subseteq [state : {"ready", "running", "complete", "failed"},
                                demo : Demos \union {NoDemo}]
  /\ demo \in [Demos -> {"none", "running", "gone"}]
  /\ lines \subseteq {"PASSED", "FAILED"}

\* "Never starts a second process", and a state that comes from the run's own
\* log: whatever a restarted console knows of its predecessor's demo, two never
\* run at once, and "complete" is told of a demo only that said so, unless a
\* console died between launching a demo and saving that it had.
PageTellsOfOneDemo ==
  ~lost =>
    /\ Cardinality({d \in Demos : demo[d] = "running"}) <= 1
    /\ saved.state = "complete" => said[saved.demo] = "PASSED"
=============================================================================
