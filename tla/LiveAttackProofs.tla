--------------------------- MODULE LiveAttackProofs ---------------------------
(***************************************************************************)
(* What the live attack's call leaves behind, for every number of files,   *)
(* every part of them under share/, every burst and every length of the    *)
(* final drain: nothing of the simulator runs, the records are locked or   *)
(* free as agreed but for those renamed under the lock, a touched decoy or *)
(* a burst with a note of the recovery commands was called INCIDENT; and   *)
(* what decrypt cannot bring back are files a simulator was ended in.      *)
(***************************************************************************)
EXTENDS LiveAttack, FiniteSetTheorems, TLAPS

SimPlaces == {"off", "next", "write", "rename", "shell", "wait", "terminate"}
CallPlaces == {"none", "drain", "poll", "verdict", "suspend", "lock", "walk", "locked",
               "tail", "list", "kill", "undo", "done"}

\* The types, with those of the records' fields.
FileTypes ==
  /\ plain \in [File -> Int] /\ locked \in [File -> Int]
  /\ readOnly \subseteq Name /\ moved \subseteq Name
  /\ shell \in BOOLEAN /\ agent \in BOOLEAN /\ interrupted \in Nat
Sims == [pc : SimPlaces, variant : Variants, todo : SUBSET File, file : File,
         data : Nat, suspended : BOOLEAN]
Decrypts == [pc : {"off", "next", "write", "unlink"}, todo : SUBSET File,
             data : Nat, finished : BOOLEAN]
Calls == [pc : CallPlaces, no : Nat, release : BOOLEAN, variant : Variants,
          level : {"NORMAL", "INCIDENT"}, last : BOOLEAN, turn : 0 .. Deadline,
          quiet : Nat, walk : SUBSET Name, children : BOOLEAN, held : BOOLEAN,
          raised : BOOLEAN, contained : BOOLEAN]
WindowTypes ==
  /\ made \in Nat /\ logged \in Nat /\ drained \in Nat
  /\ renamed \subseteq 1 .. made /\ decoyed \subseteq 1 .. made /\ noted \subseteq 1 .. made
  /\ drained <= logged /\ logged <= made

Types ==
  /\ FileTypes /\ WindowTypes
  /\ sim \in Sims /\ decrypt \in Decrypts /\ call \in Calls
  /\ record \subseteq Name /\ card \in Variants \union {NoCard}

\* Where the simulator and the decrypt script are, and with what file: the one
\* in hand is the first of those to do, and has not lost its name yet.
HandsInv ==
  /\ sim.pc = "off" => sim = Off
  /\ call.pc \in {"none", "undo", "done"} => sim.pc = "off"
  /\ call.pc \notin {"none", "done"} => decrypt.pc = "off"
  /\ decrypt.pc # "off" => sim.pc = "off"
  /\ \A f \in sim.todo : (HalfDone => f # sim.file) => plain[f] >= 0
  /\ HalfDone => sim.file \in sim.todo /\ plain[sim.file] >= Empty
  /\ sim.pc = "rename" => plain[sim.file] = sim.data + 1
  /\ \A f \in File : locked[f] = Gone \/ locked[f] > 0

\* What the kill finds: a simulator that was listed as suspended still is, and
\* its shell is on the list; afterwards a shell is one that was never held.
TreeInv ==
  /\ call.pc = "kill" /\ call.held => sim.suspended /\ (shell => call.children)
  /\ call.pc \in {"undo", "done"} => (shell => ~call.held)

\* What is read-only is on record or was renamed, and never both: the lock is
\* put on writable names only, and a name that is read-only is not replaced.
ModeInv ==
  /\ readOnly \subseteq record \union moved
  /\ moved \subseteq readOnly /\ \A f \in File : Own(f) \notin moved
  /\ record \intersect moved = {}
  /\ \A f \in File : Locked(f) \in record => Locked(f) \in readOnly
  /\ \A f \in File : Locked(f) \in readOnly => locked[f] # Gone
  /\ call.level # "INCIDENT" => record = {}
  /\ call.pc = "none" \/ (call.pc = "done" /\ call.release) => record = {}

\* A lock stands from its making to its release, over every record that still
\* has its name; while it is made, what is not locked is still on the list.
Covered == \A f \in Share : plain[f] # Gone => Own(f) \in readOnly
Listed == \A f \in Share : plain[f] # Gone => Own(f) \in readOnly \union call.walk
LockInv ==
  /\ call.pc = "walk" => Listed
  /\ call.pc = "locked" => Covered
  /\ call.pc \in {"suspend", "lock", "walk", "locked"} \/ call.contained
       => call.level = "INCIDENT"
  /\ call.contained => call.pc \in {"list", "kill", "undo", "done"}
  /\ call.contained /\ (call.pc = "done" => ~call.release) => Covered

\* From the final drain on the simulator is gone, so the window cannot grow
\* under the last verdict; and only an agent that saw nothing is dead.
WindowInv ==
  /\ call.pc = "tail" \/ call.turn > 0 \/ call.last => sim.pc = "off"
  /\ ~agent \/ sim.pc = "terminate" => made = 0
  /\ call.last => call.pc \in {"verdict", "suspend", "lock", "walk", "locked", "list",
                               "kill", "undo", "done"}
  /\ call.last /\ call.turn < Deadline => drained = made
  /\ call.pc \in {"list", "kill", "undo", "done"} /\ ~call.raised
       /\ call.level # "INCIDENT"
     => call.last /\ (call.turn < Deadline => ~Blatant)

\* A file decrypt will bring back, as it lies there or in a simulator's hand.
Sound(f) ==
  IF HalfDone /\ f = sim.file
  THEN sim.data = 0 /\ locked[f] \in {Gone, 1}
  ELSE \/ plain[f] = 0 /\ locked[f] \in {Gone, 1}
       \/ plain[f] \in {Gone, Empty} /\ locked[f] = 1
Harmed == {f \in File : ~Sound(f)}

\* No more files are harmed than simulators were interrupted; the script works
\* on what it has read, and leaves no locked file behind.
HarmInv ==
  /\ Cardinality(Harmed) <= interrupted
  /\ decrypt.pc # "off" => \A f \in File \ decrypt.todo : locked[f] = Gone
  /\ decrypt.pc # "off" => \A f \in decrypt.todo : locked[f] # Gone
  /\ decrypt.pc \in {"write", "unlink"} =>
       decrypt.todo # {} /\ decrypt.data = locked[Min(decrypt.todo)]
  /\ decrypt.pc = "unlink" => plain[Min(decrypt.todo)] = decrypt.data - 1
  /\ decrypt.finished =>
       sim.pc = "off" /\ decrypt.pc = "off" /\ \A f \in File : locked[f] = Gone

-----------------------------------------------------------------------------
(* The first file of a set.                                                *)

\* A set of numbers that is not empty has a least one: the smallest of the
\* intervals that end in it, by inclusion.
LEMMA LeastIsThere ==
  ASSUME NEW S \in SUBSET Nat, S # {}
  PROVE  \E m \in S : \A n \in S : m <= n
<1> DEFINE Upto == {1 .. n : n \in S}
<1>1. Upto \subseteq FiniteSubsetsOf(Nat) /\ Upto # {}
  <2>1. ASSUME NEW n \in S PROVE 1 .. n \in SUBSET Nat /\ IsFiniteSet(1 .. n)
    BY FS_Interval
  <2> QED BY <2>1 DEF FiniteSubsetsOf
<1>2. PICK I \in Upto : \A J \in Upto : <<J, I>> \notin StrictSubsetOrdering(Nat)
  BY <1>1, FS_StrictSubsetOrderingWellFounded, WFMin
<1>3. PICK m \in S : I = 1 .. m
  OBVIOUS
<1>4. ASSUME NEW n \in S PROVE m <= n
  <2>1. <<1 .. n, 1 .. m>> \notin StrictSubsetOrdering(Nat)
    BY <1>2, <1>3
  <2>2. ~(1 .. n \subseteq 1 .. m /\ 1 .. n # 1 .. m)
    BY <2>1 DEF StrictSubsetOrdering
  <2>3. n < m => 1 .. n \subseteq 1 .. m /\ m \in 1 .. m /\ m \notin 1 .. n
    OBVIOUS
  <2> QED BY <2>2, <2>3
<1> QED BY <1>4

\* The first file to do is one of them.
LEMMA MinIsOneOfThem ==
  ASSUME NEW S \in SUBSET File, S # {}
  PROVE  Min(S) \in S
<1>1. \E m \in S : \A n \in S : m <= n
  BY LeastIsThere, SimulatorAssumption DEF File
<1> QED BY <1>1 DEF Min

-----------------------------------------------------------------------------
(* Types and hands.                                                        *)

\* The constants, as far as the proofs use them.
LEMMA Facts ==
  /\ FileCount \in Nat \ {0} /\ File = 1 .. FileCount /\ Share \subseteq File
  /\ Burst \in Nat \ {0} /\ Quiet \in Nat /\ Deadline \in Nat /\ Delay \in Nat
  /\ Gone = -2 /\ Empty = -1 /\ Gone \in Int /\ Empty \in Int /\ 1 \in File
BY SimulatorAssumption, LiveAttackAssumption DEF File, Gone, Empty

\* Each file has two names of its own, and a name says whose it is.
LEMMA Names ==
  /\ \A f \in File : Own(f) \in Name /\ Locked(f) \in Name
  /\ \A f, g \in File : Own(f) # Locked(g)
  /\ \A f, g \in File : Own(f) = Own(g) => f = g
  /\ \A f, g \in File : Locked(f) = Locked(g) => f = g
  /\ \A f \in File : Own(f)[1] = f /\ Locked(f)[1] = f
  /\ Present \subseteq Name
  /\ \A f \in File : Own(f) \in Present <=> plain[f] # Gone
  /\ \A f \in File : Locked(f) \in Present <=> locked[f] # Gone
BY DEF Own, Locked, Name, Present

\* An event is one of those made by then.
LEMMA EventIsSeen ==
  ASSUME Types, NEW a \in BOOLEAN, NEW b \in BOOLEAN, NEW c \in BOOLEAN, IsSeen(a, b, c)
  PROVE  /\ WindowTypes' /\ logged' = logged /\ drained' = drained
         /\ ~agent => UNCHANGED watchVars
<1> USE DEF Types, WindowTypes
<1>1. CASE agent
  <2>1. /\ made' = made + 1 /\ logged' = logged /\ drained' = drained
        /\ renamed' = renamed \union (IF a THEN {made + 1} ELSE {})
        /\ decoyed' = decoyed \union (IF b THEN {made + 1} ELSE {})
        /\ noted' = noted \union (IF c THEN {made + 1} ELSE {})
    BY <1>1 DEF IsSeen
  <2> QED BY <1>1, <2>1
<1>2. CASE ~agent
  BY <1>2 DEF IsSeen, watchVars
<1> QED BY <1>1, <1>2

\* An answer of the Judge is yes or no.
LEMMA AnswersAreBoolean == Answers \subseteq BOOLEAN
<1> SUFFICES ASSUME NEW incident \in Answers PROVE incident \in BOOLEAN
  OBVIOUS
<1>1. PICK S3 \in S3s, S5 \in S5s : incident = (S2 \/ ((S3 \/ S4) /\ (Unusual \/ S5)))
  BY DEF Answers
<1>2. (S2 \/ ((S3 \/ S4) /\ (Unusual \/ S5))) \in BOOLEAN
  BY Zenon
<1> QED BY <1>1, <1>2, Zenon

\* A file that is written leaves a share of files.
LEMMA FilesAreWritten ==
  ASSUME NEW files \in [File -> Int], NEW f, NEW v \in Int
  PROVE  [files EXCEPT ![f] = v] \in [File -> Int]
OBVIOUS

\* A process that ends is off, and has interrupted a file or none.
LEMMA EndingIsOff ==
  ASSUME Types, SimEnds
  PROVE  /\ sim' = Off /\ sim'.pc = "off" /\ sim'.todo = {} /\ ~sim'.suspended
         /\ sim' \in Sims /\ interrupted' \in Nat
         /\ interrupted' >= interrupted
         /\ HalfDone => interrupted' = interrupted + 1
BY Facts DEF SimEnds, Off, Sims, SimPlaces, Variants, HalfDone, Types, FileTypes

\* Every step of the simulator keeps the types.
LEMMA SimKeepsTypes ==
  ASSUME Types, HandsInv, SimRuns
  PROVE  Types'
<1> USE DEF Types, FileTypes, Sims, SimPlaces, modes
<1>1. CASE SimWritesSeen
  <2>1. WindowTypes'
    <3>1. (sim.file \in Decoy) \in BOOLEAN
      OBVIOUS
    <3> QED BY <1>1, <3>1, EventIsSeen DEF SimWritesSeen
  <2>2. sim' \in Sims /\ FileTypes'
    BY <1>1 DEF SimWritesSeen, SimWrites
  <2> QED BY <1>1, <2>1, <2>2 DEF SimWritesSeen, SimWrites
<1>2. CASE SimRenamesSeen
  <2>1. WindowTypes'
    <3>1. (sim.file \in Decoy) \in BOOLEAN
      OBVIOUS
    <3> QED BY <1>2, <3>1, EventIsSeen DEF SimRenamesSeen
  <2>2. sim' \in Sims
    BY <1>2 DEF SimRenamesSeen, SimRenames
  <2>3. FileTypes'
    BY <1>2, Facts, Names DEF SimRenamesSeen, SimRenames
  <2> QED BY <1>2, <2>1, <2>2, <2>3 DEF SimRenamesSeen, SimRenames
<1>4. CASE SimFinishesSeen
  <2>1. WindowTypes'
    BY <1>4, EventIsSeen DEF SimFinishesSeen, WindowTypes, watchVars
  <2>2. sim' \in Sims /\ interrupted' \in Nat
    <3>1. CASE sim.variant = "recovery-killer"
      BY <1>4, <3>1 DEF SimFinishesSeen, SimFinishes
    <3>2. CASE sim.variant # "recovery-killer"
      BY <1>4, <3>2, EndingIsOff DEF SimFinishesSeen, SimFinishes
    <3> QED BY <3>1, <3>2
  <2> QED BY <1>4, <2>1, <2>2 DEF SimFinishesSeen, SimFinishes
<1>3. CASE SimElse
  <2>1. WindowTypes' /\ call' = call /\ record' = record /\ card' = card
    BY <1>3 DEF SimElse, watchVars, WindowTypes
  <2>2. CASE SimOpens
    <3>1. Min(sim.todo) \in sim.todo
      BY <2>2, MinIsOneOfThem DEF SimOpens
    <3>2. plain[Min(sim.todo)] >= 0
      BY <2>2, <3>1 DEF HandsInv, HalfDone, SimOpens, Going
    <3>3. Min(sim.todo) \in File /\ plain[Min(sim.todo)] \in Nat
      BY <3>1, <3>2
    <3>4. sim' \in Sims
      BY <2>2, <3>3 DEF SimOpens
    <3>5. FileTypes'
      <4>1. plain' = [plain EXCEPT ![Min(sim.todo)] = Empty]
        BY <2>2 DEF SimOpens
      <4>2. plain' \in [File -> Int]
        BY <4>1, FilesAreWritten, Facts
      <4> QED BY <2>2, <4>2 DEF SimOpens
    <3> QED BY <2>1, <2>2, <3>4, <3>5 DEF SimOpens
  <2>3. CASE SimIsDenied
    BY <2>1, <2>3, EndingIsOff DEF SimIsDenied
  <2>4. CASE SimRenameRaises
    BY <2>1, <2>4, EndingIsOff DEF SimRenameRaises
  <2>6. CASE SimSpawnsShell
    BY <2>1, <2>6 DEF SimSpawnsShell
  <2>7. CASE ShellLingers
    BY <2>1, <2>7 DEF ShellLingers
  <2>8. CASE SimOutlivesShell
    BY <2>1, <2>8, EndingIsOff DEF SimOutlivesShell
  <2>9. CASE SimTerminatesAgent
    BY <2>1, <2>9, EndingIsOff DEF SimTerminatesAgent
  <2> QED BY <1>3, <2>2, <2>3, <2>4, <2>6, <2>7, <2>8, <2>9 DEF SimElse
<1> QED BY <1>1, <1>2, <1>3, <1>4 DEF SimRuns

\* Every step of the call keeps the types.
LEMMA CallKeepsTypes ==
  ASSUME Types, CallStep \/ LaterUndo \/ Log
  PROVE  Types'
<1> USE DEF Types, modes
<1>1. CASE Log
  BY <1>1 DEF Log, simVars, FileTypes, WindowTypes
<1>2. CASE Drain
  <2>1. call' \in Calls
    BY <1>2 DEF Drain, Calls, CallPlaces
  <2> QED BY <1>2, <2>1 DEF Drain, simVars, FileTypes, WindowTypes
<1>3. CASE Poll
  <2>1. call' \in Calls
    BY <1>3 DEF Poll, Calls, CallPlaces
  <2> QED BY <1>3, <2>1 DEF Poll, simVars, watchVars, FileTypes, WindowTypes
<1>4. CASE Verdict
  <2>1. call' \in Calls
    <3>1. PICK incident \in Answers :
            call' = [call EXCEPT !.pc = IF incident THEN "suspend" ELSE AfterVerdict,
                                 !.level = IF incident THEN "INCIDENT" ELSE @]
      BY <1>4 DEF Verdict
    <3>2. AfterVerdict \in CallPlaces
      BY DEF AfterVerdict, CallPlaces
    <3>3. incident \in BOOLEAN
      BY AnswersAreBoolean
    <3> QED BY <3>1, <3>2, <3>3 DEF Calls, CallPlaces
  <2>2. card' \in Variants \union {NoCard}
    BY <1>4 DEF Verdict, Calls
  <2> QED BY <1>4, <2>1, <2>2 DEF Verdict, simVars, watchVars, FileTypes, WindowTypes
<1>5. CASE VerdictRaises
  <2>1. call' \in Calls /\ card' \in Variants \union {NoCard}
    BY <1>5 DEF VerdictRaises, Calls, CallPlaces
  <2> QED BY <1>5, <2>1 DEF VerdictRaises, simVars, watchVars, FileTypes, WindowTypes
<1>6. CASE Suspend
  <2>1. call' \in Calls /\ sim' \in Sims
    BY <1>6 DEF Suspend, Calls, CallPlaces, Sims
  <2> QED BY <1>6, <2>1 DEF Suspend, watchVars, FileTypes, WindowTypes
<1>7. CASE ListShare
  <2>1. call' \in Calls
    BY <1>7, Names DEF ListShare, Calls, CallPlaces
  <2> QED BY <1>7, <2>1 DEF ListShare, simVars, watchVars, FileTypes, WindowTypes
<1>16. CASE LockFile
  <2>1. call' \in Calls
    BY <1>16 DEF LockFile, Calls, CallPlaces
  <2>2. readOnly' \subseteq Name /\ record' \subseteq Name
    BY <1>16, Names DEF LockFile, FileTypes
  <2> QED BY <1>16, <2>1, <2>2 DEF LockFile, watchVars, FileTypes, WindowTypes
<1>17. CASE LockEnds
  <2>1. call' \in Calls
    BY <1>17 DEF LockEnds, Calls, CallPlaces
  <2> QED BY <1>17, <2>1 DEF LockEnds, simVars, watchVars, FileTypes, WindowTypes
<1>8. CASE Proof
  <2>1. call' \in Calls
    BY <1>8 DEF Proof, Calls, CallPlaces
  <2> QED BY <1>8, <2>1 DEF Proof, simVars, watchVars, FileTypes, WindowTypes
<1>9. CASE TailDrains
  <2>1. call' \in Calls
    <3>1. call.turn + 1 \in 0 .. Deadline
      BY <1>9, LiveAttackAssumption DEF TailDrains, Calls
    <3> QED BY <1>9, <3>1 DEF TailDrains, Calls, CallPlaces
  <2> QED BY <1>9, <2>1 DEF TailDrains, simVars, FileTypes, WindowTypes
<1>10. CASE TailWaits
  <2>1. call' \in Calls
    <3>1. call.turn + 1 \in 0 .. Deadline /\ call.quiet + 1 \in Nat
      BY <1>10, LiveAttackAssumption DEF TailWaits, Calls
    <3>2. (call.quiet + 1 >= Quiet /\ drained > 0) \in BOOLEAN
      OBVIOUS
    <3> QED BY <1>10, <3>1, <3>2 DEF TailWaits, Calls, CallPlaces
  <2> QED BY <1>10, <2>1 DEF TailWaits, simVars, watchVars, FileTypes, WindowTypes
<1>11. CASE TailEnds
  <2>1. call' \in Calls
    BY <1>11 DEF TailEnds, Calls, CallPlaces
  <2> QED BY <1>11, <2>1 DEF TailEnds, simVars, watchVars, FileTypes, WindowTypes
<1>12. CASE ListTree
  <2>1. call' \in Calls
    BY <1>12 DEF ListTree, Calls, CallPlaces, Sims, FileTypes
  <2> QED BY <1>12, <2>1 DEF ListTree, simVars, watchVars, FileTypes, WindowTypes
<1>13. CASE KillTree
  <2>1. call' \in Calls /\ shell' \in BOOLEAN
    BY <1>13 DEF KillTree, Calls, CallPlaces, FileTypes
  <2> QED BY <1>13, <2>1, EndingIsOff DEF KillTree, watchVars, FileTypes, WindowTypes
<1>14. CASE Undo
  <2>1. call' \in Calls
    BY <1>14 DEF Undo, Calls, CallPlaces
  <2> QED BY <1>14, <2>1 DEF Undo, Releases, watchVars, FileTypes, WindowTypes
<1>15. CASE LaterUndo
  <2>1. call' \in Calls
    BY <1>15 DEF LaterUndo, Calls, CallPlaces
  <2> QED BY <1>15, <2>1 DEF LaterUndo, Releases, watchVars, FileTypes, WindowTypes
<1> QED
  BY <1>1, <1>2, <1>3, <1>4, <1>5, <1>6, <1>7, <1>8, <1>9, <1>10, <1>11, <1>12, <1>13,
     <1>14, <1>15, <1>16, <1>17 DEF CallStep

\* So does the beginning of a call.
LEMMA LaunchKeepsTypes ==
  ASSUME Types, CallBegins
  PROVE  Types'
<1>1. PICK variant \in Variants, release \in BOOLEAN :
        /\ Launch(variant)
        /\ call' = [NoCall EXCEPT !.pc = "drain", !.no = call.no + 1,
                                  !.variant = variant, !.release = release]
  BY DEF CallBegins
<1>2. sim' \in Sims
  <2>1. Targets \subseteq File /\ FirstOf(Targets, BurstLimit) \subseteq File
    BY DEF Targets, FirstOf
  <2> QED BY <1>1, <2>1, Facts DEF Launch, Off, Sims, SimPlaces
<1>3. decrypt' \in Decrypts
  BY <1>1 DEF Launch, Decrypts, Types
<1>4. call' \in Calls
  <2>1. NoCall \in Calls
    BY Facts DEF NoCall, Calls, CallPlaces, Variants
  <2>3. call.no + 1 \in Nat
    BY DEF Types, Calls
  <2> QED BY <1>1, <2>1, <2>3 DEF Calls, CallPlaces
<1>5. WindowTypes'
  BY DEF CallBegins, WindowTypes
<1>6. FileTypes'
  BY <1>1 DEF Launch, FileTypes, Types, modes
<1> QED BY <1>2, <1>3, <1>4, <1>5, <1>6 DEF Types, CallBegins

\* And every step of the decrypt script.
LEMMA DecryptKeepsTypes ==
  ASSUME Types, HandsInv, HarmInv, DecryptByHand
  PROVE  Types'
<1> USE DEF Types, Decrypts, modes
<1>1. UNCHANGED <<call, card, record, sim>> /\ WindowTypes'
  BY DEF DecryptByHand, DecryptStep, DecryptBegins, DecryptOpens, DecryptWrites,
         DecryptUnlinks, DecryptIsDenied, DecryptFinishes, DecryptIsInterrupted, watchVars, WindowTypes
<1>2. CASE DecryptBegins
  BY <1>1, <1>2 DEF DecryptBegins, FileTypes
<1>3. CASE DecryptOpens
  <2>1. locked[Min(decrypt.todo)] \in Nat
    <3>1. Min(decrypt.todo) \in decrypt.todo
      BY <1>3, MinIsOneOfThem DEF DecryptOpens
    <3>2. locked[Min(decrypt.todo)] # Gone
      BY <1>3, <3>1 DEF HarmInv, DecryptOpens
    <3> QED BY <3>1, <3>2 DEF HandsInv, FileTypes
  <2>2. decrypt' \in Decrypts
    BY <1>3, <2>1 DEF DecryptOpens
  <2>3. plain' \in [File -> Int]
    BY <1>3, FilesAreWritten, Facts DEF DecryptOpens, FileTypes
  <2> QED BY <1>1, <1>3, <2>2, <2>3 DEF DecryptOpens, FileTypes
<1>4. CASE DecryptWrites
  <2>1. plain' \in [File -> Int]
    <3>1. decrypt.data - 1 \in Int
      OBVIOUS
    <3> QED BY <1>4, <3>1, FilesAreWritten DEF DecryptWrites, FileTypes
  <2> QED BY <1>1, <1>4, <2>1 DEF DecryptWrites, FileTypes
<1>5. CASE DecryptUnlinks
  <2>1. locked' \in [File -> Int]
    BY <1>5, FilesAreWritten, Facts DEF DecryptUnlinks, FileTypes
  <2> QED BY <1>1, <1>5, <2>1 DEF DecryptUnlinks, FileTypes
<1>6. CASE DecryptFinishes
  BY <1>1, <1>6 DEF DecryptFinishes, NoDecrypt, FileTypes
<1>7. CASE DecryptIsInterrupted
  BY <1>1, <1>7 DEF DecryptIsInterrupted, NoDecrypt, FileTypes
<1>8. CASE DecryptIsDenied
  BY <1>1, <1>8 DEF DecryptIsDenied, NoDecrypt, FileTypes
<1> QED BY <1>2, <1>3, <1>4, <1>5, <1>6, <1>7, <1>8 DEF DecryptByHand, DecryptStep

\* Judging moves the call to and fro before the kill; it touches no file, and
\* not what is agreed and known of the lock.
LEMMA JudgingIsBefore ==
  ASSUME Types, Drain \/ Poll \/ Verdict \/ VerdictRaises \/ TailDrains \/ TailWaits
                  \/ TailEnds
  PROVE  /\ UNCHANGED simVars
         /\ call.pc \in {"drain", "poll", "verdict", "suspend", "lock", "walk", "locked",
                          "tail"}
         /\ call'.pc \in {"drain", "poll", "verdict", "suspend", "tail", "list"}
         /\ call'.pc = "suspend" => call'.level = "INCIDENT"
         /\ call'.level \in {call.level, "INCIDENT"}
         /\ call'.release = call.release /\ call'.contained = call.contained
         /\ record' = record
<1> USE DEF Types, Calls
<1>1. CASE Drain
  BY <1>1 DEF Drain
<1>2. CASE Poll
  BY <1>2 DEF Poll
<1>3. CASE Verdict
  BY <1>3 DEF Verdict, AfterVerdict
<1>4. CASE VerdictRaises
  BY <1>4 DEF VerdictRaises
<1>5. CASE TailDrains
  BY <1>5 DEF TailDrains
<1>6. CASE TailWaits
  BY <1>6 DEF TailWaits
<1>7. CASE TailEnds
  BY <1>7 DEF TailEnds
<1> QED BY <1>1, <1>2, <1>3, <1>4, <1>5, <1>6, <1>7

\* The script is run by hand: it meets neither a call nor a simulator.
LEMMA DecryptIsApart ==
  ASSUME DecryptByHand
  PROVE  /\ UNCHANGED <<modes, sim, shell, agent, interrupted, call, card, record, watchVars>>
         /\ call.pc \in {"none", "done"} /\ Free
BY DEF DecryptByHand, DecryptStep, DecryptBegins, DecryptOpens, DecryptWrites,
       DecryptUnlinks, DecryptIsDenied, DecryptFinishes, DecryptIsInterrupted

-----------------------------------------------------------------------------
(* Hands.                                                                  *)

\* Every step of the simulator keeps its hands.
LEMMA SimKeepsHands ==
  ASSUME Types, HandsInv, SimRuns
  PROVE  HandsInv'
<1> USE DEF HandsInv, HalfDone, Going, Types, FileTypes, Sims
<1>1. CASE SimWritesSeen
  BY <1>1, Facts DEF SimWritesSeen, SimWrites
<1>2. CASE SimRenamesSeen
  BY <1>2, Facts DEF SimRenamesSeen, SimRenames
<1>3. CASE SimElse
  <2>1. call' = call
    BY <1>3 DEF SimElse
  <2>2. CASE SimOpens
    <3> DEFINE f == Min(sim.todo)
    <3>1. f \in sim.todo /\ plain[f] >= 0 /\ plain' = [plain EXCEPT ![f] = Empty]
      BY <2>2, MinIsOneOfThem DEF SimOpens
    <3>2. sim' = [sim EXCEPT !.pc = "write", !.file = f, !.data = plain[f]]
      BY <2>2 DEF SimOpens
    <3>3. sim.pc = "next" /\ UNCHANGED <<locked, decrypt>>
      BY <2>2 DEF SimOpens
    <3> HIDE DEF f
    <3> QED BY <2>1, <3>1, <3>2, <3>3, Facts
  <2>3. ASSUME SimEnds, UNCHANGED <<plain, locked, decrypt>> PROVE HandsInv'
    BY <2>1, <2>3, EndingIsOff
  <2>4. CASE SimIsDenied
    BY <2>3, <2>4 DEF SimIsDenied
  <2>5. CASE SimRenameRaises
    BY <2>3, <2>5 DEF SimRenameRaises
  <2>7. CASE SimSpawnsShell
    BY <2>1, <2>7 DEF SimSpawnsShell
  <2>8. CASE ShellLingers
    BY <2>1, <2>8 DEF ShellLingers
  <2>9. CASE SimOutlivesShell
    BY <2>3, <2>9 DEF SimOutlivesShell
  <2>10. CASE SimTerminatesAgent
    BY <2>3, <2>10 DEF SimTerminatesAgent
  <2> QED
    BY <1>3, <2>2, <2>4, <2>5, <2>7, <2>8, <2>9, <2>10 DEF SimElse
<1>4. CASE SimFinishesSeen
  <2>1. call' = call /\ SimFinishes /\ UNCHANGED <<plain, locked, decrypt>>
    BY <1>4 DEF SimFinishesSeen, SimFinishes
  <2>2. CASE sim.variant = "recovery-killer"
    BY <2>1, <2>2 DEF SimFinishes
  <2>3. CASE sim.variant # "recovery-killer"
    BY <2>1, <2>3, EndingIsOff DEF SimFinishes
  <2> QED BY <2>2, <2>3
<1> QED BY <1>1, <1>2, <1>3, <1>4 DEF SimRuns

\* A step of the call moves no file and takes no hand off one, but for the kill.
LEMMA CallKeepsHands ==
  ASSUME Types, HandsInv, WindowInv, CallStep \/ LaterUndo \/ Log
  PROVE  HandsInv'
<1> USE DEF HandsInv, HalfDone, simVars
<1>1. CASE Log
  BY <1>1 DEF Log
<1>2. CASE Drain \/ Poll \/ Verdict \/ VerdictRaises \/ TailDrains \/ TailWaits \/ TailEnds
  BY <1>2, JudgingIsBefore
<1>3. CASE Proof \/ ListTree
  BY <1>3 DEF Types, Calls, Proof, ListTree
<1>4. CASE Suspend
  <2>1. call' = [call EXCEPT !.pc = "lock"] /\ call.pc = "suspend"
    BY <1>4 DEF Suspend
  <2>2. PICK rightly \in BOOLEAN :
          sim' = [sim EXCEPT !.suspended = rightly /\ sim.pc # "off"]
    BY <1>4 DEF Suspend
  <2>3. ASSUME sim.pc = "off" PROVE sim' = Off
    <3>1. (rightly /\ sim.pc # "off") = FALSE
      BY <2>3
    <3>2. sim' = [Off EXCEPT !.suspended = FALSE]
      BY <2>2, <2>3, <3>1
    <3> QED BY <3>2 DEF Off
  <2> QED BY <1>4, <2>1, <2>2, <2>3 DEF Suspend, Types, Calls, Sims
<1>5. CASE ListShare \/ LockFile \/ LockEnds
  BY <1>5 DEF Types, Calls, ListShare, LockFile, LockEnds
<1>6. CASE KillTree
  BY <1>6, EndingIsOff DEF Types, Calls, KillTree
<1>7. CASE Undo
  BY <1>7 DEF Types, Calls, Undo, Releases
<1>8. CASE LaterUndo
  BY <1>8 DEF Types, Calls, LaterUndo, Releases
<1> QED
  BY <1>1, <1>2, <1>3, <1>4, <1>5, <1>6, <1>7, <1>8 DEF CallStep

\* The simulator is launched on files that lie there.
LEMMA LaunchKeepsHands ==
  ASSUME Types, HandsInv, CallBegins
  PROVE  HandsInv'
<1>1. PICK variant \in Variants : Launch(variant)
  BY DEF CallBegins
<1>2. sim'.pc \in {"terminate", "next"} /\ sim'.todo \subseteq Targets
  BY <1>1 DEF Launch, Off, FirstOf
<1>3. decrypt'.pc = "off" /\ plain' = plain /\ locked' = locked
  BY <1>1 DEF Launch, Types, Decrypts
<1>4. call'.pc = "drain"
  BY DEF CallBegins, NoCall
<1> QED BY <1>2, <1>3, <1>4 DEF HandsInv, HalfDone, Targets

\* The script works while no simulator runs, and locks nothing.
LEMMA DecryptKeepsHands ==
  ASSUME Types, HandsInv, HarmInv, DecryptByHand
  PROVE  HandsInv'
<1>1. sim' = sim /\ call' = call /\ call.pc \in {"none", "done"}
  BY DecryptIsApart
<1>2. sim.pc = "off" /\ sim = Off
  BY <1>1 DEF HandsInv
<1>3. \A f \in File : locked'[f] = Gone \/ locked'[f] > 0
  <2>1. CASE DecryptUnlinks
    BY <2>1 DEF DecryptUnlinks, HandsInv, Types, FileTypes
  <2>2. CASE ~DecryptUnlinks
    BY <2>2 DEF DecryptByHand, DecryptStep, DecryptBegins, DecryptOpens, DecryptWrites,
                DecryptIsDenied, DecryptFinishes, DecryptIsInterrupted, HandsInv
  <2> QED BY <2>1, <2>2
<1> QED BY <1>1, <1>2, <1>3 DEF HandsInv, HalfDone, Off

-----------------------------------------------------------------------------
(* The tree and the lock.                                                  *)

\* Every step keeps what the kill is to find.
LEMMA NextKeepsTree ==
  ASSUME Types, HandsInv, TreeInv, Next
  PROVE  TreeInv'
<1> USE DEF TreeInv, HandsInv, Types, Calls, Sims, simVars
<1>1. CASE SimWritesSeen
  BY <1>1 DEF SimWritesSeen, SimWrites, Going
<1>2. CASE SimRenamesSeen
  BY <1>2 DEF SimRenamesSeen, SimRenames, Going
<1>3. CASE SimElse
  <2>1. call' = call
    BY <1>3 DEF SimElse
  <2>2. sim.pc # "off" => ~sim.suspended \/ UNCHANGED <<sim, shell>>
    BY <1>3 DEF SimElse, SimOpens, SimIsDenied, SimRenameRaises,
       SimSpawnsShell, ShellLingers, SimOutlivesShell, SimTerminatesAgent, Going
  <2>3. sim.pc = "off" => sim' = sim /\ (shell' => shell)
    BY <1>3 DEF SimElse, SimOpens, SimIsDenied, SimRenameRaises,
       SimSpawnsShell, ShellLingers, SimOutlivesShell, SimTerminatesAgent, Going
  <2> QED BY <2>1, <2>2, <2>3 DEF Off
<1>8. CASE SimFinishesSeen
  <2>1. call' = call /\ SimFinishes /\ shell' = shell /\ ~sim.suspended /\ sim.pc = "next"
    BY <1>8 DEF SimFinishesSeen, SimFinishes, Going
  <2> QED BY <2>1
<1>4. CASE Log \/ LaterUndo
  BY <1>4 DEF Log, LaterUndo, Releases
<1>5. CASE CallBegins
  BY <1>5 DEF CallBegins, NoCall
<1>6. CASE DecryptByHand
  BY <1>6, DecryptIsApart
<1>7. CASE CallStep
  <2>1. CASE Drain \/ Poll \/ Verdict \/ VerdictRaises \/ TailDrains \/ TailWaits \/ TailEnds
    BY <2>1, JudgingIsBefore
  <2>2. CASE Proof
    BY <2>2 DEF Proof
  <2>3. CASE Suspend \/ ListShare \/ LockFile \/ LockEnds
    BY <2>3 DEF Suspend, ListShare, LockFile, LockEnds
  <2>4. CASE ListTree
    BY <2>4 DEF ListTree, Off, FileTypes
  <2>5. CASE KillTree
    BY <2>5 DEF KillTree, FileTypes
  <2>6. CASE Undo
    BY <2>6 DEF Undo, Releases
  <2> QED BY <1>7, <2>1, <2>2, <2>3, <2>4, <2>5, <2>6 DEF CallStep
<1> QED BY <1>1, <1>2, <1>3, <1>4, <1>5, <1>6, <1>7, <1>8 DEF Next, SimRuns

\* The simulator takes a record's name away, and gives none back.
LEMMA SimKeepsCover ==
  ASSUME Types, HandsInv, SimRuns
  PROVE  /\ Covered => Covered'
         /\ Listed => Listed'
         /\ UNCHANGED <<call, record>>
<1> USE Facts, Names DEF Covered, Listed, Types, FileTypes, modes
<1>1. CASE SimWritesSeen
  BY <1>1 DEF SimWritesSeen, SimWrites, HandsInv, HalfDone, Going
<1>2. CASE SimRenamesSeen
  BY <1>2 DEF SimRenamesSeen, SimRenames, Sims
<1>3. CASE SimElse
  <2>1. CASE SimOpens
    <3> DEFINE f == Min(sim.todo)
    <3>1. f \in sim.todo /\ f \in File /\ plain[f] >= 0
      BY <2>1, MinIsOneOfThem DEF SimOpens, HandsInv, HalfDone, Going, Sims
    <3>2. plain' = [plain EXCEPT ![f] = Empty] /\ readOnly' = readOnly
      BY <2>1 DEF SimOpens
    <3> HIDE DEF f
    <3> QED BY <1>3, <3>1, <3>2 DEF SimElse
  <2>2. CASE ~SimOpens
    BY <1>3, <2>2 DEF SimElse, SimIsDenied, SimRenameRaises, SimSpawnsShell,
       ShellLingers, SimOutlivesShell, SimTerminatesAgent
  <2> QED BY <2>1, <2>2
<1>4. CASE SimFinishesSeen
  BY <1>4 DEF SimFinishesSeen, SimFinishes
<1> QED BY <1>1, <1>2, <1>3, <1>4 DEF SimRuns

\* The simulator moves a mode with its file, and only where none is in the way.
LEMMA SimKeepsModes ==
  ASSUME Types, HandsInv, ModeInv, SimRuns
  PROVE  ModeInv'
<1> USE DEF ModeInv
<1>1. UNCHANGED <<call, record>>
  BY SimKeepsCover
<1>2. CASE SimRenamesSeen
  <2> DEFINE f == sim.file
             kept == IF Own(f) \in readOnly THEN {Locked(f)} ELSE {}
  <2>1. readOnly' = (readOnly \ {Own(f)}) \union kept /\ moved' = moved \union kept
        /\ locked' = [locked EXCEPT ![f] = plain[f]] /\ ~InTheWay
    BY <1>2 DEF SimRenamesSeen, SimRenames
  <2>2. f \in File /\ Locked(f) \notin readOnly
    BY <2>1 DEF InTheWay, Types, Sims
  <2>3. locked'[f] # Gone /\ \A g \in File \ {f} : locked'[g] = locked[g]
    BY <1>2, <2>1, <2>2, Facts
       DEF SimRenamesSeen, SimRenames, HandsInv, HalfDone, Going, Types, FileTypes
  <2>4. Locked(f) \notin record
    BY <2>2
  <2> HIDE DEF f
  <2>5. readOnly' \subseteq record' \union moved'
    BY <1>1, <2>1
  <2>6. moved' \subseteq readOnly' /\ \A g \in File : Own(g) \notin moved'
    BY <2>1, <2>2, Names
  <2>7. record' \intersect moved' = {}
    BY <1>1, <2>1, <2>4
  <2>8. \A g \in File : Locked(g) \in record' => Locked(g) \in readOnly'
    BY <1>1, <2>1, <2>2, Names
  <2>9. \A g \in File : Locked(g) \in readOnly' => locked'[g] # Gone
    BY <2>1, <2>2, <2>3, Names
  <2> QED BY <1>1, <2>5, <2>6, <2>7, <2>8, <2>9
<1>3. CASE ~SimRenamesSeen
  <2>1. UNCHANGED <<readOnly, moved, locked>>
    BY <1>3 DEF SimRuns, SimWritesSeen, SimWrites, SimFinishesSeen, SimFinishes, SimElse,
       SimOpens, SimIsDenied, SimRenameRaises, SimSpawnsShell, ShellLingers,
       SimOutlivesShell, SimTerminatesAgent, modes
  <2> QED BY <1>1, <2>1
<1> QED BY <1>2, <1>3

\* Locking takes writable names that are there, and the undo frees what it took.
LEMMA NextKeepsModes ==
  ASSUME Types, HandsInv, ModeInv, LockInv, Next
  PROVE  ModeInv'
<1> USE DEF ModeInv, Types, Calls, simVars, modes
<1>1. CASE SimRuns
  BY <1>1, SimKeepsModes
<1>2. CASE Log
  BY <1>2 DEF Log
<1>3. CASE CallBegins
  <2>1. record = {}
    BY <1>3 DEF CallBegins, Free
  <2>2. UNCHANGED <<readOnly, moved, locked, record>>
    BY <1>3 DEF CallBegins, Launch
  <2> QED BY <2>1, <2>2
<1>4. CASE DecryptByHand
  <2>1. UNCHANGED <<readOnly, moved, record, call>>
    BY <1>4, DecryptIsApart
  <2>2. \A f \in File : Locked(f) \in readOnly => locked'[f] # Gone
    <3>1. CASE DecryptUnlinks
      BY <3>1 DEF DecryptUnlinks, FileTypes
    <3>2. CASE ~DecryptUnlinks
      BY <1>4, <3>2 DEF DecryptByHand, DecryptStep, DecryptBegins, DecryptOpens,
         DecryptWrites, DecryptIsDenied, DecryptFinishes, DecryptIsInterrupted
    <3> QED BY <3>1, <3>2
  <2> QED BY <2>1, <2>2
<1>5. CASE LaterUndo
  BY <1>5 DEF LaterUndo, Releases
<1>6. CASE CallStep
  <2>1. CASE Drain \/ Poll \/ Verdict \/ VerdictRaises \/ TailDrains \/ TailWaits \/ TailEnds
    BY <2>1, JudgingIsBefore
  <2>2. CASE Suspend \/ ListShare \/ LockEnds \/ Proof \/ ListTree
    BY <2>2 DEF Suspend, ListShare, LockEnds, Proof, ListTree
  <2>3. CASE LockFile
    <3>1. PICK n \in call.walk :
            /\ readOnly' = readOnly \union ({n} \intersect (Present \ readOnly))
            /\ record' = record \union ({n} \intersect (Present \ readOnly))
      BY <2>3 DEF LockFile
    <3>2. call.level = "INCIDENT" /\ call'.level = call.level /\ call'.pc = "walk"
          /\ moved' = moved /\ locked' = locked
      BY <2>3 DEF LockFile, LockInv
    <3>3. \A f \in File : Locked(f) \in Present => locked[f] # Gone
      BY Names
    <3> QED BY <3>1, <3>2, <3>3
  <2>4. CASE KillTree
    BY <2>4 DEF KillTree
  <2>5. CASE Undo
    BY <2>5 DEF Undo, Releases
  <2> QED BY <1>6, <2>1, <2>2, <2>3, <2>4, <2>5 DEF CallStep
<1> QED BY <1>1, <1>2, <1>3, <1>4, <1>5, <1>6 DEF Next

\* Every step keeps the lock.
LEMMA NextKeepsLock ==
  ASSUME Types, HandsInv, ModeInv, LockInv, Next
  PROVE  LockInv'
<1> USE DEF LockInv, Types, Calls, simVars, modes
<1>1. CASE SimRuns
  BY <1>1, SimKeepsCover
<1>2. CASE Log
  BY <1>2 DEF Log, Covered, Listed
<1>3. CASE LaterUndo
  BY <1>3 DEF LaterUndo, Releases
<1>4. CASE CallBegins
  BY <1>4 DEF CallBegins, NoCall
<1>5. CASE DecryptByHand
  BY <1>5, DecryptIsApart DEF Free
<1>6. CASE CallStep
  <2>1. CASE Drain \/ Poll \/ Verdict \/ VerdictRaises \/ TailDrains \/ TailWaits \/ TailEnds
    BY <2>1, JudgingIsBefore DEF Covered
  <2>2. CASE Proof
    BY <2>2 DEF Proof, Covered
  <2>3. CASE Suspend
    BY <2>3 DEF Suspend, Covered
  <2>4. CASE ListShare
    <3>1. call' = [call EXCEPT !.pc = "walk", !.walk = {n \in Present : n[1] \in Share}]
          /\ UNCHANGED <<plain, readOnly>> /\ call.pc = "lock"
      BY <2>4 DEF ListShare
    <3>2. \A f \in Share : plain[f] # Gone => Own(f) \in {n \in Present : n[1] \in Share}
      BY Names, Facts
    <3> QED BY <3>1, <3>2 DEF Listed
  <2>8. CASE LockFile
    <3>1. PICK n \in call.walk :
            /\ readOnly' = readOnly \union ({n} \intersect (Present \ readOnly))
            /\ call' = [call EXCEPT !.walk = call.walk \ {n}]
            /\ call.pc = "walk" /\ plain' = plain
      BY <2>8 DEF LockFile
    <3>2. \A f \in Share : plain[f] # Gone => Own(f) \in Present
      BY Names, Facts
    <3> QED BY <3>1, <3>2 DEF Listed
  <2>9. CASE LockEnds
    BY <2>9 DEF LockEnds, Listed, Covered
  <2>5. CASE ListTree
    BY <2>5 DEF ListTree, Covered
  <2>6. CASE KillTree
    BY <2>6 DEF KillTree, Covered
  <2>7. CASE Undo
    BY <2>7 DEF Undo, Releases, Covered
  <2> QED BY <1>6, <2>1, <2>2, <2>3, <2>4, <2>5, <2>6, <2>7, <2>8, <2>9 DEF CallStep
<1> QED BY <1>1, <1>2, <1>3, <1>4, <1>5, <1>6 DEF Next

-----------------------------------------------------------------------------
(* The window.                                                             *)

\* A simulator that has ended makes nothing, and one that is to end the agent
\* has made nothing.
LEMMA SimKeepsWindow ==
  ASSUME Types, HandsInv, WindowInv, SimRuns
  PROVE  WindowInv'
<1> USE DEF WindowInv, Going, Types, Sims
<1>1. CASE SimWritesSeen
  BY <1>1 DEF SimWritesSeen, SimWrites, IsSeen, watchVars
<1>2. CASE SimRenamesSeen
  BY <1>2 DEF SimRenamesSeen, SimRenames, IsSeen, watchVars
<1>3. CASE SimElse
  <2>1. call' = call /\ UNCHANGED watchVars
    BY <1>3 DEF SimElse
  <2>2. sim.pc = "off" => sim'.pc = "off" /\ agent' = agent
    BY <1>3 DEF SimElse, SimOpens, SimIsDenied, SimRenameRaises,
       SimSpawnsShell, ShellLingers, SimOutlivesShell, SimTerminatesAgent, HandsInv
  <2>3. sim.pc # "off" => sim'.pc # "terminate" \/ sim'.pc = sim.pc
    <3>1. SimEnds => sim'.pc # "terminate"
      BY EndingIsOff
    <3> QED BY <1>3, <3>1 DEF SimElse, SimOpens, SimIsDenied, SimRenameRaises,
       SimSpawnsShell, ShellLingers, SimOutlivesShell, SimTerminatesAgent
  <2>4. agent' = agent \/ sim.pc = "terminate"
    BY <1>3 DEF SimElse, SimOpens, SimIsDenied, SimRenameRaises,
       SimSpawnsShell, ShellLingers, SimOutlivesShell, SimTerminatesAgent
  <2> QED BY <2>1, <2>2, <2>3, <2>4 DEF watchVars, Blatant
<1>4. CASE SimFinishesSeen
  <2>1. sim.pc = "next" /\ call' = call /\ agent' = agent
    BY <1>4 DEF SimFinishesSeen, SimFinishes
  <2>3. ~agent => UNCHANGED watchVars
    BY <1>4 DEF SimFinishesSeen, IsSeen
  <2>2. sim'.pc # "terminate"
    BY <1>4, EndingIsOff DEF SimFinishesSeen, SimFinishes
  <2>4. call.pc # "tail" /\ ~(call.turn > 0) /\ ~call.last
    BY <2>1
  <2>5. ~agent' \/ sim'.pc = "terminate" => made' = 0
    BY <2>1, <2>2, <2>3 DEF watchVars
  <2> HIDE DEF Types, Sims, Going
  <2> QED BY <2>1, <2>4, <2>5
<1> QED BY <1>1, <1>2, <1>3, <1>4 DEF SimRuns

\* The last verdict sees every event, so it cannot pass over a blatant attack.
LEMMA LastVerdictSeesAll ==
  ASSUME Types, drained = made, Blatant, NEW incident \in Answers
  PROVE  incident = TRUE
<1>1. drained \in Nat /\ renamed \subseteq 1 .. drained /\ decoyed \subseteq 1 .. drained
      /\ noted \subseteq 1 .. drained
  BY DEF Types, WindowTypes
<1>2. PICK S3 \in S3s, S5 \in S5s : incident = (S2 \/ ((S3 \/ S4) /\ (Unusual \/ S5)))
  BY DEF Answers
<1>3. CASE decoyed # {}
  <2>1. S2
    <3>1. PICK e \in decoyed : TRUE
      BY <1>3
    <3>2. e <= drained
      BY <1>1, <3>1
    <3> QED BY <3>1, <3>2 DEF S2
  <2> QED BY <1>2, <2>1, Zenon
<1>4. CASE Cardinality(renamed) >= Burst /\ noted # {}
  <2>1. {e \in renamed : e <= drained} = renamed
    <3>1. \A e \in renamed : e <= drained
      BY <1>1
    <3> QED BY <3>1
  <2>2. S4
    BY <1>4, <2>1 DEF S4
  <2>3. S5
    <3>1. \E e \in noted : e <= drained
      <4>1. PICK e \in noted : TRUE
        BY <1>4
      <4>2. e <= drained
        BY <1>1, <4>1
      <4> QED BY <4>1, <4>2
    <3> QED BY <3>1, Zenon DEF S5s
  <2> QED BY <1>2, <2>2, <2>3, Zenon
<1> QED BY <1>3, <1>4 DEF Blatant

\* Every step of the call keeps the window.
LEMMA CallKeepsWindow ==
  ASSUME Types, HandsInv, LockInv, WindowInv, CallStep \/ LaterUndo \/ Log
  PROVE  WindowInv'
<1> USE DEF WindowInv, Types, Calls, simVars, watchVars
<1>1. CASE Log
  BY <1>1 DEF Log, WindowTypes, Blatant
<1>2. CASE LaterUndo
  BY <1>2 DEF LaterUndo, Releases, Free, Blatant
<1>3. CASE Drain
  BY <1>3 DEF Drain
<1>4. CASE Poll
  BY <1>4 DEF Poll
<1>5. CASE Verdict
  <2>1. PICK incident \in Answers :
          call' = [call EXCEPT !.pc = IF incident THEN "suspend" ELSE AfterVerdict,
                               !.level = IF incident THEN "INCIDENT" ELSE @]
    BY <1>5 DEF Verdict
  <2>2. incident \in BOOLEAN /\ call.pc = "verdict" /\ UNCHANGED <<simVars, watchVars>>
    BY <1>5, AnswersAreBoolean DEF Verdict
  <2>3. CASE incident
    BY <2>1, <2>2, <2>3
  <2>4. CASE ~incident
    <3>1. call'.pc = AfterVerdict /\ call' = [call EXCEPT !.pc = AfterVerdict]
      BY <2>1, <2>2, <2>4
    <3>2. ASSUME call.last, call.turn < Deadline PROVE ~Blatant
      BY <2>2, <2>4, <3>2, LastVerdictSeesAll
    <3>3. Blatant' <=> Blatant
      BY <2>2 DEF Blatant
    <3> QED BY <2>2, <3>1, <3>2, <3>3 DEF AfterVerdict
  <2> QED BY <2>2, <2>3, <2>4
<1>6. CASE VerdictRaises
  BY <1>6 DEF VerdictRaises
<1>7. CASE Suspend
  BY <1>7 DEF Suspend, Sims
<1>8. CASE ListShare \/ LockFile \/ LockEnds \/ Proof
  BY <1>8 DEF ListShare, LockFile, LockEnds, Proof, LockInv
<1>9. CASE TailDrains
  BY <1>9, Facts DEF TailDrains, WindowTypes
<1>10. CASE TailWaits
  <2> DEFINE over == call.quiet + 1 >= Quiet /\ drained > 0
  <2>1. call' = [call EXCEPT !.pc = IF over THEN "verdict" ELSE "tail", !.last = over,
                             !.turn = @ + 1, !.quiet = @ + 1]
    BY <1>10 DEF TailWaits
  <2>2. over => drained = made
    <3>1. over => drained > 0 /\ ~(call.quiet + 1 < Quiet)
      BY Facts
    <3>2. over => agent
      BY <3>1 DEF WindowTypes
    <3> QED BY <1>10, <3>1, <3>2 DEF TailWaits, LogIsInTime, WindowTypes
  <2>3. over \in BOOLEAN
    OBVIOUS
  <2> HIDE DEF over
  <2> QED BY <1>10, <2>1, <2>2, <2>3 DEF TailWaits
<1>11. CASE TailEnds
  BY <1>11, Facts DEF TailEnds
<1>12. CASE ListTree
  BY <1>12 DEF ListTree, Blatant
<1>13. CASE KillTree
  BY <1>13, EndingIsOff DEF KillTree, Blatant
<1>14. CASE Undo
  BY <1>14 DEF Undo, Releases, Blatant
<1> QED
  BY <1>1, <1>2, <1>3, <1>4, <1>5, <1>6, <1>7, <1>8, <1>9, <1>10, <1>11, <1>12, <1>13,
     <1>14 DEF CallStep

\* A new call has a new window, and an agent to fill it.
LEMMA LaunchKeepsWindow ==
  ASSUME Types, CallBegins
  PROVE  WindowInv'
<1>1. agent' = agent
  BY DEF CallBegins, Launch
<1> QED BY <1>1 DEF CallBegins, NoCall, WindowInv

-----------------------------------------------------------------------------
(* The harm.                                                               *)

\* Harm is counted in files.
LEMMA HarmedIsFinite ==
  ASSUME NEW S \in SUBSET File
  PROVE  IsFiniteSet(S) /\ Cardinality(S) \in Nat
<1>1. IsFiniteSet(File)
  BY FS_Interval, Facts
<1> QED BY <1>1, FS_Subset, FS_CardinalityType

\* A step that harms no file keeps the count.
LEMMA NoNewHarm ==
  ASSUME Types, Types', HarmInv, interrupted' >= interrupted,
         \A f \in File : Sound(f) => Sound(f)'
  PROVE  Cardinality(Harmed') <= interrupted'
<1>1. Harmed' \subseteq Harmed /\ Harmed \subseteq File
  BY DEF Harmed
<1>2. Cardinality(Harmed') <= Cardinality(Harmed)
  BY <1>1, HarmedIsFinite, FS_Subset
<1>3. Cardinality(Harmed') \in Nat /\ Cardinality(Harmed) \in Nat
  BY <1>1, HarmedIsFinite
<1> QED BY <1>2, <1>3 DEF HarmInv, Types, FileTypes

\* Neither does one that harms the file in hand and is counted.
LEMMA OneMoreHarm ==
  ASSUME Types, Types', HarmInv, interrupted' = interrupted + 1, NEW g,
         \A f \in File \ {g} : Sound(f) => Sound(f)'
  PROVE  Cardinality(Harmed') <= interrupted'
<1>1. Harmed' \subseteq Harmed \union {g} /\ Harmed \subseteq File /\ Harmed' \subseteq File
  BY DEF Harmed
<1>2. IsFiniteSet(Harmed) /\ IsFiniteSet(Harmed \union {g})
  BY <1>1, HarmedIsFinite, FS_AddElement
<1>3. Cardinality(Harmed') <= Cardinality(Harmed \union {g})
  BY <1>1, <1>2, FS_Subset
<1>4. Cardinality(Harmed \union {g}) <= Cardinality(Harmed) + 1
  BY <1>1, <1>2, FS_AddElement, HarmedIsFinite
<1>5. Cardinality(Harmed') \in Nat /\ Cardinality(Harmed) \in Nat
      /\ Cardinality(Harmed \union {g}) \in Nat
  BY <1>1, <1>2, HarmedIsFinite, FS_CardinalityType
<1> QED BY <1>3, <1>4, <1>5 DEF HarmInv, Types, FileTypes

\* A simulator that ends harms at most the file in its hand.
LEMMA EndingHarmsOne ==
  ASSUME Types, Types', HandsInv, HarmInv, SimEnds, UNCHANGED <<plain, locked>>
  PROVE  Cardinality(Harmed') <= interrupted'
<1>1. ~HalfDone'
  BY EndingIsOff DEF HalfDone
<1>2. CASE HalfDone
  <2>1. \A f \in File \ {sim.file} : Sound(f) => Sound(f)'
    BY <1>1 DEF Sound
  <2> QED BY <1>2, <2>1, OneMoreHarm, EndingIsOff
<1>3. CASE ~HalfDone
  <2>1. \A f \in File : Sound(f) => Sound(f)'
    BY <1>1, <1>3 DEF Sound
  <2> QED BY <2>1, NoNewHarm, EndingIsOff
<1> QED BY <1>2, <1>3

\* The script is not at work while the simulator is, and has not finished since.
LEMMA ScriptIsIdle ==
  ASSUME HarmInv, HandsInv, decrypt' = decrypt,
         sim.pc = "off" => sim' = sim /\ UNCHANGED <<plain, locked>>,
         Cardinality(Harmed') <= interrupted'
  PROVE  HarmInv'
BY DEF HarmInv, HandsInv

\* Every step of the simulator keeps the count.
LEMMA SimKeepsHarm ==
  ASSUME Types, HandsInv, HarmInv, SimRuns
  PROVE  HarmInv'
<1>1. Types'
  BY SimKeepsTypes
<1>2. decrypt' = decrypt
  BY DEF SimRuns, SimWritesSeen, SimWrites, SimRenamesSeen, SimRenames, SimFinishesSeen,
     SimFinishes, SimElse, SimOpens, SimIsDenied, SimRenameRaises, SimSpawnsShell, ShellLingers,
     SimOutlivesShell, SimTerminatesAgent
<1>3. sim.pc = "off" => sim' = sim /\ UNCHANGED <<plain, locked>>
  BY DEF SimRuns, SimWritesSeen, SimWrites, SimRenamesSeen, SimRenames, SimFinishesSeen,
     SimFinishes, SimElse, SimOpens, SimIsDenied, SimRenameRaises, SimSpawnsShell, ShellLingers,
     SimOutlivesShell, SimTerminatesAgent, Going
<1> SUFFICES Cardinality(Harmed') <= interrupted'
  BY <1>2, <1>3, ScriptIsIdle
<1> USE DEF Types, FileTypes, Sims
<1>4. CASE SimWritesSeen
  <2>1. \A f \in File : Sound(f) => Sound(f)'
    BY <1>4 DEF SimWritesSeen, SimWrites, Sound, HalfDone, Going
  <2> QED BY <1>1, <1>4, <2>1, NoNewHarm DEF SimWritesSeen, SimWrites
<1>5. CASE SimRenamesSeen
  <2>1. \A f \in File : Sound(f) => Sound(f)'
    BY <1>5, Facts DEF SimRenamesSeen, SimRenames, Sound, HalfDone, Going, HandsInv
  <2> QED BY <1>1, <1>5, <2>1, NoNewHarm DEF SimRenamesSeen, SimRenames
<1>7. CASE SimFinishesSeen
  <2>1. ~HalfDone /\ UNCHANGED <<plain, locked>> /\ (SimEnds \/ sim'.pc = "shell")
    BY <1>7 DEF SimFinishesSeen, SimFinishes, HalfDone, Going
  <2>2. ~SimEnds => interrupted' = interrupted
    BY <1>7 DEF SimFinishesSeen, SimFinishes
  <2>3. CASE SimEnds
    BY <1>1, <2>1, <2>3, EndingHarmsOne
  <2>4. CASE ~SimEnds
    <3>1. \A f \in File : Sound(f) => Sound(f)'
      BY <2>1, <2>4 DEF Sound, HalfDone
    <3> QED BY <1>1, <2>2, <2>4, <3>1, NoNewHarm
  <2> QED BY <2>3, <2>4
<1>6. CASE SimElse
  <2>1. ASSUME UNCHANGED <<plain, locked, interrupted>>, ~HalfDone, ~HalfDone'
        PROVE  Cardinality(Harmed') <= interrupted'
    <3>1. \A f \in File : Sound(f) => Sound(f)'
      BY <2>1 DEF Sound
    <3> QED BY <1>1, <2>1, <3>1, NoNewHarm
  <2>2. CASE SimOpens
    <3> DEFINE g == Min(sim.todo)
    <3>1. g \in sim.todo /\ plain[g] >= 0 /\ plain' = [plain EXCEPT ![g] = Empty]
      BY <2>2, MinIsOneOfThem DEF SimOpens, HandsInv, HalfDone, Going
    <3>2. sim' = [sim EXCEPT !.pc = "write", !.file = g, !.data = plain[g]]
      BY <2>2 DEF SimOpens
    <3>3. sim.pc = "next" /\ locked' = locked /\ interrupted' = interrupted
      BY <2>2 DEF SimOpens, Going
    <3> HIDE DEF g
    <3>4. \A f \in File : Sound(f) => Sound(f)'
      BY <3>1, <3>2, <3>3, Facts DEF Sound, HalfDone
    <3> QED BY <1>1, <3>3, <3>4, NoNewHarm
  <2>3. CASE SimEnds /\ UNCHANGED <<plain, locked>>
    BY <1>1, <2>3, EndingHarmsOne
  <2>5. CASE SimSpawnsShell
    <3>1. ~HalfDone /\ ~HalfDone' /\ UNCHANGED <<plain, locked, interrupted>>
      BY <2>5 DEF SimSpawnsShell, HalfDone, Going
    <3> QED BY <2>1, <3>1
  <2>6. CASE ShellLingers
    <3>1. \A f \in File : Sound(f) => Sound(f)'
      BY <2>6 DEF ShellLingers, Sound, HalfDone
    <3> QED BY <1>1, <2>6, <3>1, NoNewHarm DEF ShellLingers
  <2> QED
    BY <1>6, <2>2, <2>3, <2>5, <2>6 DEF SimElse, SimIsDenied, SimRenameRaises,
       SimOutlivesShell, SimTerminatesAgent
<1> QED BY <1>4, <1>5, <1>6, <1>7 DEF SimRuns

\* A step of the call moves no file, and the kill ends at most one in the middle.
LEMMA CallKeepsHarm ==
  ASSUME Types, HandsInv, HarmInv, CallStep \/ LaterUndo \/ Log
  PROVE  HarmInv'
<1>1. Types'
  BY CallKeepsTypes
<1>2. ASSUME UNCHANGED <<plain, locked, interrupted, sim, decrypt>> PROVE HarmInv'
  <2>1. Harmed' = Harmed
    BY <1>2 DEF Harmed, Sound, HalfDone
  <2> QED BY <1>2, <2>1 DEF HarmInv
<1>3. CASE Drain \/ Poll \/ Verdict \/ VerdictRaises \/ TailDrains \/ TailWaits \/ TailEnds
  BY <1>2, <1>3, JudgingIsBefore DEF simVars
<1>4. CASE Log \/ LaterUndo \/ ListShare \/ LockFile \/ LockEnds \/ Proof \/ ListTree \/ Undo
  BY <1>2, <1>4 DEF Log, LaterUndo, Releases, ListShare, LockFile, LockEnds, Proof, ListTree,
     Undo, simVars
<1>5. CASE Suspend
  <2>1. UNCHANGED <<plain, locked, interrupted, decrypt>> /\ sim'.pc = sim.pc
        /\ sim'.file = sim.file /\ sim'.data = sim.data
    BY <1>5 DEF Suspend, Types, Sims
  <2>2. Harmed' = Harmed
    BY <2>1 DEF Harmed, Sound, HalfDone
  <2> QED BY <2>1, <2>2 DEF HarmInv
<1>6. CASE KillTree
  <2>1. Cardinality(Harmed') <= interrupted'
    BY <1>1, <1>6, EndingHarmsOne DEF KillTree
  <2>2. sim.pc = "off" => sim' = sim
    BY <1>6, EndingIsOff DEF KillTree, HandsInv
  <2> QED BY <1>6, <2>1, <2>2, ScriptIsIdle DEF KillTree
<1> QED BY <1>3, <1>4, <1>5, <1>6 DEF CallStep

\* A launch harms nothing, and what was decrypted may be locked again.
LEMMA LaunchKeepsHarm ==
  ASSUME Types, HandsInv, HarmInv, CallBegins
  PROVE  HarmInv'
<1>1. PICK variant \in Variants : Launch(variant)
  BY DEF CallBegins
<1>2. ~HalfDone /\ ~HalfDone' /\ UNCHANGED <<plain, locked, interrupted>>
  BY <1>1 DEF Launch, Off, HalfDone
<1>3. Harmed' = Harmed
  BY <1>2 DEF Harmed, Sound
<1>4. decrypt'.pc = "off" /\ ~decrypt'.finished
  BY <1>1 DEF Launch, Types, Decrypts
<1> QED BY <1>2, <1>3, <1>4 DEF HarmInv

\* The script brings back what is sound.
LEMMA DecryptKeepsHarm ==
  ASSUME Types, HandsInv, HarmInv, DecryptByHand
  PROVE  HarmInv'
<1>1. Types' /\ sim' = sim /\ interrupted' = interrupted
  BY DecryptKeepsTypes, DecryptIsApart
<1> DEFINE g == Min(decrypt.todo)
<1>2. decrypt.todo # {} => g \in decrypt.todo /\ g \in File
  BY MinIsOneOfThem DEF Types, Decrypts
<1> USE DEF Types, FileTypes, Decrypts
<1>3. CASE DecryptBegins
  <2>1. Harmed' = Harmed
    BY <1>1, <1>3 DEF DecryptBegins, Harmed, Sound, HalfDone
  <2> QED BY <1>1, <1>3, <2>1 DEF DecryptBegins, HarmInv
<1>4. CASE DecryptOpens
  <2>1. sim.pc = "off" /\ decrypt.todo # {} /\ locked' = locked
        /\ plain' = [plain EXCEPT ![g] = Empty]
        /\ decrypt' = [decrypt EXCEPT !.pc = "write", !.data = locked[g]]
        /\ decrypt.pc = "next"
    BY <1>4 DEF DecryptOpens, HandsInv
  <2>2. locked[g] # Gone
    BY <1>2, <2>1 DEF HarmInv
  <2> HIDE DEF g
  <2>3. \A f \in File : Sound(f) => Sound(f)'
    BY <1>1, <1>2, <2>1, <2>2, Facts DEF Sound, HalfDone
  <2>4. Cardinality(Harmed') <= interrupted'
    BY <1>1, <2>3, NoNewHarm
  <2> QED BY <1>2, <2>1, <2>4 DEF HarmInv, g
<1>5. CASE DecryptWrites
  <2>1. sim.pc = "off" /\ locked' = locked /\ decrypt.pc = "write"
        /\ plain' = [plain EXCEPT ![g] = decrypt.data - 1]
        /\ decrypt' = [decrypt EXCEPT !.pc = "unlink"]
    BY <1>5 DEF DecryptWrites, HandsInv
  <2>2. decrypt.todo # {} /\ decrypt.data = locked[g] /\ locked[g] # Gone
    BY <1>2, <2>1 DEF HarmInv
  <2> HIDE DEF g
  <2>3. ~HalfDone /\ ~HalfDone'
    BY <1>1, <2>1 DEF HalfDone
  <2>4. ASSUME NEW f \in File, Sound(f), f = g PROVE Sound(f)'
    <3>1. locked[f] = 1 /\ decrypt.data = 1
      BY <2>2, <2>3, <2>4 DEF Sound
    <3>2. plain'[f] = decrypt.data - 1 /\ locked'[f] = locked[g]
      BY <2>1, <2>2, <2>4
    <3> QED BY <2>3, <2>4, <3>1, <3>2 DEF Sound
  <2>5. ASSUME NEW f \in File, Sound(f), f # g PROVE Sound(f)'
    BY <2>1, <2>3, <2>5 DEF Sound
  <2>6. Cardinality(Harmed') <= interrupted'
    BY <1>1, <2>4, <2>5, NoNewHarm
  <2> QED BY <1>2, <2>1, <2>2, <2>6 DEF HarmInv, g
<1>6. CASE DecryptUnlinks
  <2>1. sim.pc = "off" /\ plain' = plain /\ decrypt.pc = "unlink"
        /\ locked' = [locked EXCEPT ![g] = Gone]
        /\ decrypt' = [decrypt EXCEPT !.pc = "next", !.todo = decrypt.todo \ {g}]
    BY <1>6 DEF DecryptUnlinks, HandsInv
  <2>2. decrypt.todo # {} /\ decrypt.data = locked[g] /\ locked[g] # Gone
        /\ plain[g] = decrypt.data - 1
    BY <1>2, <2>1 DEF HarmInv
  <2> HIDE DEF g
  <2>3. ~HalfDone /\ ~HalfDone'
    BY <1>1, <2>1 DEF HalfDone
  <2>4. ASSUME NEW f \in File, Sound(f), f = g PROVE Sound(f)'
    <3>1. locked[f] = 1 /\ decrypt.data = 1
      BY <2>2, <2>3, <2>4 DEF Sound
    <3>2. plain'[f] = decrypt.data - 1 /\ locked'[f] = Gone
      BY <2>1, <2>2, <2>4
    <3> QED BY <2>3, <2>4, <3>1, <3>2 DEF Sound
  <2>5. ASSUME NEW f \in File, Sound(f), f # g PROVE Sound(f)'
    BY <2>1, <2>3, <2>5 DEF Sound
  <2>6. Cardinality(Harmed') <= interrupted'
    BY <1>1, <2>4, <2>5, NoNewHarm
  <2> QED BY <1>2, <2>1, <2>2, <2>6, Facts DEF HarmInv
<1>7. CASE DecryptFinishes
  <2>1. Harmed' = Harmed
    BY <1>1, <1>7 DEF DecryptFinishes, Harmed, Sound, HalfDone
  <2> QED BY <1>1, <1>7, <2>1 DEF DecryptFinishes, NoDecrypt, HarmInv, HandsInv
<1>8. CASE DecryptIsInterrupted
  <2>1. Harmed' = Harmed
    BY <1>1, <1>8 DEF DecryptIsInterrupted, Harmed, Sound, HalfDone
  <2> QED BY <1>1, <1>8, <2>1 DEF DecryptIsInterrupted, NoDecrypt, HarmInv
<1>9. CASE DecryptIsDenied
  <2>1. Harmed' = Harmed
    BY <1>1, <1>9 DEF DecryptIsDenied, Harmed, Sound, HalfDone
  <2> QED BY <1>1, <1>9, <2>1 DEF DecryptIsDenied, NoDecrypt, HarmInv
<1> QED BY <1>3, <1>4, <1>5, <1>6, <1>7, <1>8, <1>9 DEF DecryptByHand, DecryptStep

-----------------------------------------------------------------------------
(* The theorems.                                                           *)

AttackInv ==
  Types /\ HandsInv /\ TreeInv /\ ModeInv /\ LockInv /\ WindowInv /\ HarmInv

\* All of it holds before the first call.
LEMMA AttackInvInit == Init => AttackInv
<1> SUFFICES ASSUME Init PROVE AttackInv
  OBVIOUS
<1> USE DEF Init, SimInit
<1>1. Types
  <2>1. sim \in Sims /\ decrypt \in Decrypts
    BY Facts DEF Off, NoDecrypt, Sims, SimPlaces, Variants, Decrypts
  <2>2. call \in Calls
    BY Facts DEF NoCall, Calls, CallPlaces, Variants
  <2>3. FileTypes
    <3>1. plain \in [File -> Int]
      OBVIOUS
    <3>2. locked \in [File -> Int]
      BY Facts
    <3> QED BY <3>1, <3>2 DEF FileTypes
  <2>4. WindowTypes
    BY DEF WindowTypes
  <2> QED BY <2>1, <2>2, <2>3, <2>4 DEF Types
<1>2. HandsInv /\ TreeInv /\ ModeInv /\ LockInv /\ WindowInv
  BY DEF HandsInv, HalfDone, TreeInv, ModeInv, LockInv, WindowInv, Off, NoDecrypt, NoCall
<1>3. HarmInv
  <2>1. Harmed = {}
    BY DEF Harmed, Sound, HalfDone, Off
  <2>2. Cardinality(Harmed) = 0 /\ interrupted = 0
    BY <2>1, FS_EmptySet
  <2> QED BY <2>2 DEF HarmInv, NoDecrypt
<1> QED BY <1>1, <1>2, <1>3 DEF AttackInv

\* And every step keeps it.
LEMMA NextKeepsAttack ==
  ASSUME AttackInv, [Next]_vars
  PROVE  AttackInv'
<1> USE DEF AttackInv
<1>1. CASE UNCHANGED vars
  <2>1. Types' /\ HandsInv' /\ TreeInv' /\ ModeInv' /\ LockInv' /\ WindowInv'
    BY <1>1 DEF vars, simVars, modes, watchVars, Types, FileTypes, WindowTypes, HandsInv,
       HalfDone, TreeInv, ModeInv, LockInv, Covered, Listed, WindowInv, Blatant
  <2>2. HarmInv'
    BY <1>1 DEF vars, simVars, HarmInv, Harmed, Sound, HalfDone
  <2> QED BY <2>1, <2>2
<1>2. CASE Next
  <2>1. TreeInv' /\ ModeInv' /\ LockInv'
    BY <1>2, NextKeepsTree, NextKeepsModes, NextKeepsLock
  <2>2. CASE SimRuns
    BY <2>1, <2>2, SimKeepsTypes, SimKeepsHands, SimKeepsWindow, SimKeepsHarm
  <2>3. CASE CallStep \/ LaterUndo \/ Log
    BY <2>1, <2>3, CallKeepsTypes, CallKeepsHands, CallKeepsWindow, CallKeepsHarm
  <2>4. CASE CallBegins
    BY <2>1, <2>4, LaunchKeepsTypes, LaunchKeepsHands, LaunchKeepsWindow, LaunchKeepsHarm
  <2>5. CASE DecryptByHand
    <3>1. WindowInv'
      BY <2>5, DecryptIsApart DEF WindowInv, watchVars, Blatant
    <3> QED BY <2>1, <2>5, <3>1, DecryptKeepsTypes, DecryptKeepsHands, DecryptKeepsHarm
  <2> QED BY <1>2, <2>2, <2>3, <2>4, <2>5 DEF Next
<1> QED BY <1>1, <1>2

\* So it always holds.
LEMMA AttackInvAlways == Spec => []AttackInv
BY AttackInvInit, NextKeepsAttack, PTL DEF Spec

\* Every variable always keeps its type.
THEOREM AttackTypeCorrect == Spec => []TypeOK
<1>1. AttackInv => TypeOK
  BY DEF AttackInv, Types, FileTypes, WindowTypes, Sims, Decrypts, Calls, TypeOK, SimTypeOK
<1> QED BY <1>1, AttackInvAlways, PTL

\* Whatever the call did and wherever it raised, when it is over the simulator
\* is gone, and a shell of its that runs on was never suspended with it.
THEOREM NothingEverSurvives == Spec => []NothingSurvives
<1>1. AttackInv => NothingSurvives
  BY DEF AttackInv, HandsInv, TreeInv, NothingSurvives
<1> QED BY <1>1, AttackInvAlways, PTL

\* After every call that is to free the records, exactly those are read-only that
\* were renamed while they were, also when judging raised half-way through the
\* lock; after every contained one that is to leave them locked, all that still
\* have their names are.
THEOREM RecordsAlwaysAsAgreed == Spec => []RecordsAreAsAgreed
<1>1. AttackInv => RecordsAreAsAgreed
  BY DEF AttackInv, ModeInv, LockInv, Covered, RecordsAreAsAgreed
<1> QED BY <1>1, AttackInvAlways, PTL

\* An attack on a decoy, or a burst of renames with a note of the recovery
\* commands, whose events came into the log in time is called INCIDENT.
THEOREM AttackIsAlwaysCaught == Spec => []AttackIsCaught
<1>1. AttackInv => AttackIsCaught
  BY DEF AttackInv, WindowInv, AttackIsCaught
<1> QED BY <1>1, AttackInvAlways, PTL

\* What decrypt cannot bring back is never more than the files that simulators
\* were ended in, however often it and they were interrupted and run again.
THEOREM LostOnesWereAlwaysInterrupted == Spec => []LostOnesWereInterrupted
<1>1. AttackInv => LostOnesWereInterrupted
  <2> SUFFICES ASSUME AttackInv, decrypt.finished
               PROVE  Cardinality({f \in File : plain[f] # 0}) <= interrupted
    BY DEF LostOnesWereInterrupted
  <2> DEFINE lost == {f \in File : plain[f] # 0}
  <2>1. lost \subseteq Harmed
    BY Facts DEF AttackInv, HarmInv, Harmed, Sound, HalfDone
  <2>2. Cardinality(lost) <= Cardinality(Harmed)
    BY <2>1, HarmedIsFinite, FS_Subset DEF Harmed
  <2>3. Cardinality(lost) \in Nat /\ Cardinality(Harmed) \in Nat
    BY HarmedIsFinite DEF Harmed
  <2> QED BY <2>2, <2>3 DEF AttackInv, HarmInv, Types, FileTypes
<1> QED BY <1>1, AttackInvAlways, PTL

=============================================================================
