---------------------------- MODULE SessionProofs ----------------------------
(***************************************************************************)
(* One live session at a time, for every number of request threads, of     *)
(* engines and of consoles that die; and one one-shot demo at a time, with *)
(* its own end, for every number of demos.                                 *)
(***************************************************************************)
EXTENDS Showcase, FiniteSetTheorems, TLAPS

\* The lock is what makes it so.  A thread that waits for an engine, or wipes
\* the folder, holds it; by the time it wipes, the console knows no engine, and
\* an engine the console does not know and launched can act no more.  Only an
\* engine whose console died before it had built can build beside another: it is
\* cut off, and asks after its console at its first poll.
SessionInv ==
  /\ TypeOK
  /\ \A t \in Threads : pc[t] \in {"stopping", "wiping"} => holder = t
  /\ \A t \in Threads : pc[t] = "wiping" => proc = NoEngine
  /\ \A t \in Threads : pc[t] = "stopping" => proc # NoEngine
  /\ \A e \in Engines : parent[e] <= console
  /\ \A e \in Engines : life[e] \in Booting => parent[e] = console \/ e \in cutOff
  /\ \A e \in Engines :
       life[e] = "building" /\ parent[e] = console => district \subseteq cutOff
  /\ OneEngine

\* Every step of a request thread keeps it.
LEMMA ThreadKeepsSession ==
  ASSUME SessionInv, NEW t \in Threads, ThreadSteps(t)
  PROVE  SessionInv'
<1> USE SessionAssumption DEF SessionInv, TypeOK, OneEngine, Engines, NoEngine, Lives,
        Acting, Booting
<1>1. CASE AskStart(t)
  BY <1>1 DEF AskStart, Moves, folder, engineVars
<1>2. CASE AskGuidedStart(t)
  BY <1>2 DEF AskGuidedStart, Moves, folder, engineVars
<1>3. CASE StopBegins(t)
  <2>1. CASE proc # NoEngine /\ life[proc] # "gone"
    BY <1>3, <2>1 DEF StopBegins, engineVars
  <2>2. CASE ~(proc # NoEngine /\ life[proc] # "gone")
    BY <1>3, <2>2 DEF StopBegins, engineVars
  <2> QED BY <2>1, <2>2
<1>4. CASE EngineHasEnded(t)
  BY <1>4 DEF EngineHasEnded, Moves, folder, engineVars
<1>5. CASE WaitTimesOut(t)
  BY <1>5 DEF WaitTimesOut, Moves, folder, exceptLife
<1>6. CASE StartEnds(t)
  BY <1>6 DEF StartEnds, Moves
<1>7. CASE WipeIsRefused(t)
  BY <1>7 DEF WipeIsRefused, Moves, folder, engineVars
<1> QED BY <1>1, <1>2, <1>3, <1>4, <1>5, <1>6, <1>7 DEF ThreadSteps

\* Every step of an engine keeps it: of the engines that find no district, one is
\* the console's own, and the others are cut off.
LEMMA EngineKeepsSession ==
  ASSUME SessionInv, NEW e \in Engines, EngineSteps(e)
  PROVE  SessionInv'
<1> USE SessionAssumption DEF SessionInv, TypeOK, OneEngine, Engines, NoEngine, Lives,
        Acting, Booting, Becomes, exceptLife
<1>1. CASE BootChecks(e)
  <2>1. CASE district = {}
    BY <1>1, <2>1 DEF BootChecks, consoleVars
  <2>2. CASE district # {}
    BY <1>1, <2>2 DEF BootChecks, consoleVars
  <2> QED BY <2>1, <2>2
<1>8. CASE BootBuilds(e)
  <2>1. /\ life[e] = "building" /\ life' = [life EXCEPT ![e] = "polling"]
        /\ district' = district \union {e}
        /\ UNCHANGED <<console, holder, pc, autopilot, proc, control, status, parent,
                       guided, frozen, cutOff>>
    BY <1>8 DEF BootBuilds, consoleVars
  <2>2. TypeOK'
    BY <2>1
  <2>3. parent[e] = console => e = proc /\ district \subseteq cutOff
    BY <2>1
  <2>4. e \in cutOff \/ parent[e] = console
    BY <2>1
  <2>5. \A d \in Engines : life'[d] = (IF d = e THEN "polling" ELSE life[d])
    BY <2>1
  <2>6. OneEngine'
    BY <2>1, <2>3, <2>4, <2>5
  <2>7. \A d \in Engines :
          life'[d] = "building" /\ parent[d] = console => district' \subseteq cutOff
    BY <2>1, <2>3, <2>4, <2>5
  <2> QED BY <2>1, <2>2, <2>5, <2>6, <2>7
<1>9. CASE Freezes(e) \/ Thaws(e)
  BY <1>9 DEF Freezes, Thaws, consoleVars, folder
<1>2. CASE TurnsBusy(e)
  BY <1>2 DEF TurnsBusy, consoleVars, folder
<1>3. CASE ComesBack(e)
  BY <1>3 DEF ComesBack, consoleVars, folder
<1>4. CASE ReadsStop(e)
  BY <1>4 DEF ReadsStop, consoleVars, folder
<1>5. CASE Finishes(e)
  BY <1>5 DEF Finishes, consoleVars, folder
<1>6. CASE CleansUp(e)
  BY <1>6 DEF CleansUp, consoleVars
<1>7. CASE Dies(e)
  BY <1>7 DEF Dies, consoleVars, folder
<1> QED BY <1>1, <1>2, <1>3, <1>4, <1>5, <1>6, <1>7, <1>8, <1>9 DEF EngineSteps

\* Every step keeps the invariant.
LEMMA SessionInvAlways == Spec => []SessionInv
<1>1. Init => SessionInv
  BY SessionAssumption DEF Init, SessionInv, TypeOK, OneEngine, Engines, NoEngine,
     Lives, Acting, Booting
<1>2. SessionInv /\ [Next]_vars => SessionInv'
  <2> SUFFICES ASSUME SessionInv, [Next]_vars PROVE SessionInv'
    OBVIOUS
  <2>1. ASSUME NEW t \in Threads, ThreadSteps(t) PROVE SessionInv'
    BY <2>1, ThreadKeepsSession
  <2>2. ASSUME NEW e \in Engines, EngineSteps(e) PROVE SessionInv'
    BY <2>2, EngineKeepsSession
  <2>3. CASE ConsoleDies
    <3> USE SessionAssumption DEF SessionInv, TypeOK
    <3>1. /\ console' = console + 1 /\ holder' = NoOne /\ proc' = NoEngine
          /\ console < MaxDeaths
          /\ pc' = [t \in Threads |-> "idle"] /\ autopilot' = [t \in Threads |-> FALSE]
          /\ cutOff' = cutOff \union {e \in Engines : life[e] \in Booting}
          /\ UNCHANGED <<control, status, district, life, parent, guided, frozen>>
      BY <2>3 DEF ConsoleDies, folder
    <3>2. TypeOK'
      <4>1. console' \in 0 .. MaxDeaths
        BY <3>1
      <4>2. cutOff' \subseteq Engines
        BY <3>1
      <4>3. /\ pc' \in [Threads -> {"idle", "start", "guided", "stopping", "wiping"}]
            /\ autopilot' \in [Threads -> BOOLEAN]
        BY <3>1
      <4>4. {proc', status} \subseteq Engines \union {NoEngine}
        BY <3>1
      <4> QED BY <3>1, <4>1, <4>2, <4>3, <4>4
    <3>3. \A e \in Engines : parent[e] < console'
      BY <3>1 DEF Engines
    <3>4. \A e \in Engines : parent[e] # console' /\ parent[e] <= console'
      BY <3>1, <3>3 DEF Engines
    <3>5. \A e \in Engines : life[e] \in Booting => e \in cutOff'
      BY <3>1
    <3>6. OneEngine'
      BY <3>1, <3>4 DEF OneEngine
    <3>7. \A t \in Threads : pc'[t] = "idle"
      BY <3>1
    <3>8. /\ \A t \in Threads : pc'[t] \in {"stopping", "wiping"} => holder' = t
          /\ \A t \in Threads : pc'[t] = "wiping" => proc' = NoEngine
          /\ \A t \in Threads : pc'[t] = "stopping" => proc' # NoEngine
      BY <3>7
    <3>9. /\ \A e \in Engines : parent'[e] <= console'
          /\ \A e \in Engines :
               life'[e] \in Booting => parent'[e] = console' \/ e \in cutOff'
          /\ \A e \in Engines :
               life'[e] = "building" /\ parent'[e] = console' => district' \subseteq cutOff'
      BY <3>1, <3>4, <3>5
    <3> HIDE DEF TypeOK
    <3> QED BY <3>2, <3>6, <3>8, <3>9
  <2>4. CASE UNCHANGED vars
    BY <2>4 DEF vars, consoleVars, folder, engineVars, SessionInv, TypeOK, OneEngine,
       Lives
  <2> QED BY <2>1, <2>2, <2>3, <2>4 DEF Next
<1> QED BY <1>1, <1>2, PTL DEF Spec

\* Every variable of the console and its engines keeps its type.
THEOREM SessionTypeCorrect == Spec => []TypeOK
<1>1. SessionInv => TypeOK
  BY DEF SessionInv
<1> QED BY <1>1, SessionInvAlways, PTL

\* However starts, slow engines, kills and deaths of the console interleave,
\* the engine that acts for a console is the one it knows.  It has built its
\* district, and no other has built there since the wipe, but for one that was
\* still booting when an earlier console died.
THEOREM OneEngineActs == Spec => []OneEngine
<1>1. SessionInv => OneEngine
  BY DEF SessionInv
<1> QED BY <1>1, SessionInvAlways, PTL

-----------------------------------------------------------------------------
(* The one-shot demo of the console that has no live session.              *)

Status == [state : {"ready", "running", "complete", "failed"}, demo : Demos \union {NoDemo}]

PageType ==
  /\ page \in {"idle", "opened", "launched", "finished", "saving launch", "saving end"}
  /\ saved \in Status /\ toSave \in Status
  /\ demo \in [Demos -> {"none", "running", "gone"}]
  /\ said \in [Demos -> {"nothing", "PASSED", "FAILED"}]
  /\ lines \subseteq {"PASSED", "FAILED"}
  /\ saved.state # "ready" => saved.demo \in Demos
  /\ page \in {"launched", "saving launch"} =>
       toSave.state = "running" /\ toSave.demo \in Demos
  /\ page \in {"saving launch", "saving end"} => saved.state = "ready"
  /\ page \in {"finished", "saving end"} =>
       toSave.state \in {"complete", "failed"} /\ toSave.demo \in Demos

\* The one demo that may be running: the one on file, or the one to be put
\* there.
RunningIsKnown ==
  \A d \in Demos : demo[d] = "running" =>
    \/ page = "idle" /\ saved.state = "running" /\ saved.demo = d
    \/ page \in {"launched", "saving launch"} /\ toSave.demo = d

\* The log is that demo's, and was emptied before it was launched.
LogIsItsOwn ==
  "PASSED" \in lines =>
    /\ page # "opened"
    /\ page \in {"idle", "finished"} /\ saved.state = "running" =>
         said[saved.demo] = "PASSED"
    /\ page \in {"launched", "saving launch"} => said[toSave.demo] = "PASSED"

\* Complete is what a demo has said itself.
CompleteIsSaid ==
  /\ saved.state = "complete" => said[saved.demo] = "PASSED"
  /\ page \in {"finished", "saving end"} /\ toSave.state = "complete" =>
       said[toSave.demo] = "PASSED"

PageInv == PageType /\ (~lost => RunningIsKnown /\ LogIsItsOwn /\ CompleteIsSaid)

\* A demo that is found not alive does not run, whoever launched it.
LEMMA NotAliveIsNot ==
  ASSUME NEW d \in Demos, FALSE \in Alive(d)
  PROVE  demo[d] # "running"
<1> SUFFICES ASSUME demo[d] = "running" PROVE FALSE
  OBVIOUS
<1>1. d # NoDemo
  BY ShowcaseAssumption DEF Demos, NoDemo
<1>2. FALSE \in {demo[d] = "running"}
  BY <1>1, Zenon DEF Alive
<1> QED BY <1>2, Zenon

\* Every call of the controller keeps it.
LEMMA CallKeepsPage ==
  ASSUME PageInv, PageStep
  PROVE  PageInv'
<1> USE DEF PageInv, PageType, RunningIsKnown, LogIsItsOwn, CompleteIsSaid, Status
<1>1. CASE OpensLog
  BY <1>1, NotAliveIsNot DEF OpensLog
<1>2. CASE LaunchFails
  BY <1>2 DEF LaunchFails, demoVars
<1>3. CASE LaunchesDemo
  BY <1>3 DEF LaunchesDemo
<1>4. CASE Finalises
  BY <1>4, NotAliveIsNot DEF Finalises, demoVars
<1>5. CASE SaveBegins
  BY <1>5 DEF SaveBegins, demoVars, Torn, NoDemo
<1>6. CASE SaveEnds
  BY <1>6 DEF SaveEnds, demoVars
<1> QED BY <1>1, <1>2, <1>3, <1>4, <1>5, <1>6 DEF PageStep

\* So does a demo, and a console that dies: unless it has launched one and not
\* put it on file.
LEMMA OthersKeepPage ==
  ASSUME PageInv, ShowcaseDies \/ \E d \in Demos : DemoSays(d) \/ DemoEnds(d)
  PROVE  PageInv'
<1> USE DEF PageInv, PageType, RunningIsKnown, LogIsItsOwn, CompleteIsSaid, Status
<1>1. CASE ShowcaseDies
  <2>1. page' = "idle" /\ toSave' = Torn /\ UNCHANGED <<saved, demo, said, lines>>
    BY <1>1 DEF ShowcaseDies, demoVars
  <2>2. Torn \in Status
    BY DEF Torn, NoDemo
  <2>3. ~lost' => ~lost /\ page \notin {"launched", "saving launch"}
    BY <1>1, Zenon DEF ShowcaseDies
  <2> QED BY <2>1, <2>2, <2>3
<1>2. ASSUME NEW d \in Demos, DemoSays(d) PROVE PageInv'
  <2>1. PICK line \in {"PASSED", "FAILED"} :
          said' = [said EXCEPT ![d] = line] /\ lines' = lines \union {line}
    BY <1>2 DEF DemoSays
  <2>2. demo[d] = "running" /\ said[d] = "nothing"
        /\ UNCHANGED <<page, saved, toSave, demo, lost>>
    BY <1>2 DEF DemoSays, pageVars
  <2> QED BY <2>1, <2>2
<1>3. ASSUME NEW d \in Demos, DemoEnds(d) PROVE PageInv'
  BY <1>3 DEF DemoEnds, pageVars
<1> QED BY <1>1, <1>2, <1>3

(* Every step of the page, its demos and its console keeps the invariant. *)
LEMMA PageInvAlways == ShowcaseSpec => []PageInv
<1>1. ShowcaseInit => PageInv
  <2> SUFFICES ASSUME ShowcaseInit PROVE PageInv
    OBVIOUS
  <2>1. /\ page = "idle" /\ saved = Torn /\ toSave = Torn /\ lines = {}
        /\ demo = [d \in Demos |-> "none"] /\ said = [d \in Demos |-> "nothing"]
    BY DEF ShowcaseInit
  <2>2. Torn \in Status /\ Torn.state = "ready"
    BY DEF Torn, NoDemo, Status
  <2> QED BY <2>1, <2>2 DEF PageInv, PageType, RunningIsKnown, LogIsItsOwn, CompleteIsSaid
<1>2. PageInv /\ [ShowcaseNext]_allVars => PageInv'
  <2> SUFFICES ASSUME PageInv, [ShowcaseNext]_allVars PROVE PageInv'
    OBVIOUS
  <2>1. CASE PageStep
    BY <2>1, CallKeepsPage
  <2>2. CASE ShowcaseDies \/ \E d \in Demos : DemoSays(d) \/ DemoEnds(d)
    BY <2>2, OthersKeepPage
  <2>3. CASE UNCHANGED <<pageVars, demoVars>>
    BY <2>3 DEF pageVars, demoVars, PageInv, PageType, RunningIsKnown, LogIsItsOwn,
       CompleteIsSaid
  <2> QED BY <2>1, <2>2, <2>3 DEF ShowcaseNext, allVars
<1> QED BY <1>1, <1>2, PTL DEF ShowcaseSpec

(* Every variable of the page keeps its type. *)
THEOREM PageTypeCorrect == ShowcaseSpec => []PageTypeOK
<1>1. PageInv => PageTypeOK
  BY DEF PageInv, PageType, Status, PageTypeOK
<1> QED BY <1>1, PageInvAlways, PTL

(* Whatever a restarted console knows of the demo another one launched, two
   never run at once, and "complete" is told of a demo only that said so, unless
   a console died between launching a demo and saving that it had. *)
THEOREM PageAlwaysTellsOfOneDemo == ShowcaseSpec => []PageTellsOfOneDemo
<1>1. PageInv => PageTellsOfOneDemo
  <2> SUFFICES ASSUME PageInv, ~lost
               PROVE  /\ Cardinality({d \in Demos : demo[d] = "running"}) <= 1
                      /\ saved.state = "complete" => said[saved.demo] = "PASSED"
    BY DEF PageTellsOfOneDemo
  <2>1. PICK known : known = IF page = "idle" THEN saved.demo ELSE toSave.demo
    OBVIOUS
  <2>2. {d \in Demos : demo[d] = "running"} \subseteq {known}
    BY <2>1 DEF PageInv, RunningIsKnown
  <2>3. Cardinality({d \in Demos : demo[d] = "running"}) <= 1
    <3>1. IsFiniteSet({known}) /\ Cardinality({known}) = 1
      BY FS_Singleton
    <3> QED BY <2>2, <3>1, FS_Subset
  <2> QED BY <2>3 DEF PageInv, CompleteIsSaid
<1> QED BY <1>1, PageInvAlways, PTL
=============================================================================
