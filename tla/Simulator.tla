------------------------------ MODULE Simulator ------------------------------
(***************************************************************************)
(* The safe ransomware simulator as a process over the district's files,   *)
(* and the decrypt script that is to reverse it.  Either can end between   *)
(* any two of its writes: the Judge suspends the simulator and its caller  *)
(* kills it, a person interrupts the script.                               *)
(*                                                                         *)
(* A file stands under its own name or under its locked one.  What it      *)
(* holds is the number of layers of encryption around the original; the    *)
(* known key takes the outermost one off, so no content is finer than that.*)
(* Each name can be read-only, as on Windows: such a file is not opened for *)
(* writing, not removed and not replaced, but it can be renamed, and stays *)
(* read-only under its new name.                                           *)
(***************************************************************************)
EXTENDS Integers, FiniteSets, FiniteSetsExt

CONSTANTS FileCount,   \* the simulator's targets, in the order of their paths
          Share,       \* those under share/, which the Judge locks
          BurstLimit   \* encrypt_limit of the recovery-killer

ASSUME SimulatorAssumption ==
  FileCount \in Nat \ {0} /\ Share \subseteq 1 .. FileCount /\ BurstLimit \in Nat

File == 1 .. FileCount
Variants == {"fast", "impersonator", "recovery-killer", "watcher-killer"}
Gone == -2
Empty == -1

Own(f) == <<f, "own">>
Locked(f) == <<f, "locked">>
Name == File \X {"own", "locked"}

VARIABLES
  plain,        \* what each file holds under its own name, or Gone, or Empty
  locked,       \* what it holds under its locked name, or Gone
  readOnly,     \* names without their write bit
  moved,        \* history: names that are read-only since a rename
  sim,          \* the simulator's process
  shell,        \* the recovery-killer's echo shell runs
  agent,        \* the Watcher's agent runs
  interrupted,  \* how often a simulator ended between a truncation and a rename
  decrypt       \* the decrypt script

modes == <<readOnly, moved>>
simVars == <<plain, locked, modes, sim, shell, agent, interrupted, decrypt>>

Off == [pc |-> "off", variant |-> "fast", todo |-> {}, file |-> 1, data |-> 0,
        suspended |-> FALSE]
NoDecrypt == [pc |-> "off", todo |-> {}, data |-> 0, finished |-> FALSE]

SimInit ==
  /\ plain = [f \in File |-> 0]
  /\ locked = [f \in File |-> Gone]
  /\ readOnly = {} /\ moved = {}
  /\ sim = Off /\ shell = FALSE /\ agent = TRUE
  /\ interrupted = 0
  /\ decrypt = NoDecrypt

-----------------------------------------------------------------------------
(* The simulator.                                                          *)

\* Files under their own name that are not empty, and the first n of a set.
Targets == {f \in File : plain[f] >= 0}
FirstOf(S, n) == {f \in S : Cardinality({g \in S : g <= f}) <= n}

\* sim.pc after a variant's launch; the watcher-killer touches no file.
Launch(variant) ==
  /\ sim.pc = "off" /\ decrypt.pc = "off"
  /\ sim' = [Off EXCEPT
       !.pc = IF variant = "watcher-killer" THEN "terminate" ELSE "next",
       !.variant = variant,
       !.todo = IF variant = "recovery-killer" THEN FirstOf(Targets, BurstLimit)
                ELSE Targets]
  /\ decrypt' = [decrypt EXCEPT !.finished = FALSE]
  /\ UNCHANGED <<plain, locked, modes, shell, agent, interrupted>>

Going(pc) == sim.pc = pc /\ ~sim.suspended

\* A process that ends with its file between two names has interrupted it.
HalfDone == sim.pc \in {"write", "rename"}
SimEnds ==
  /\ sim' = Off
  /\ interrupted' = interrupted + (IF HalfDone THEN 1 ELSE 0)

\* Read a file and open it for writing, which empties it.
SimOpens ==
  /\ Going("next") /\ sim.todo # {}
  /\ LET f == Min(sim.todo)
     IN /\ Own(f) \notin readOnly
        /\ plain' = [plain EXCEPT ![f] = Empty]
        /\ sim' = [sim EXCEPT !.pc = "write", !.file = f, !.data = plain[f]]
  /\ UNCHANGED <<locked, modes, shell, agent, interrupted, decrypt>>

\* Opening a file the Judge has locked raises, and the process ends.
SimIsDenied ==
  /\ Going("next") /\ sim.todo # {} /\ Own(Min(sim.todo)) \in readOnly
  /\ SimEnds
  /\ UNCHANGED <<plain, locked, modes, shell, agent, decrypt>>

SimWrites ==
  /\ Going("write")
  /\ plain' = [plain EXCEPT ![sim.file] = sim.data + 1]
  /\ sim' = [sim EXCEPT !.pc = "rename"]
  /\ UNCHANGED <<locked, modes, shell, agent, interrupted, decrypt>>

\* path.replace takes over a locked file that is there and writable; the staged
\* job's path.rename raises on any that is there.
InTheWay == IF sim.variant = "impersonator" THEN locked[sim.file] # Gone
            ELSE Locked(sim.file) \in readOnly

\* The name changes, the mode goes with the file.
SimRenames ==
  /\ Going("rename") /\ ~InTheWay
  /\ locked' = [locked EXCEPT ![sim.file] = plain[sim.file]]
  /\ plain' = [plain EXCEPT ![sim.file] = Gone]
  /\ LET kept == IF Own(sim.file) \in readOnly THEN {Locked(sim.file)} ELSE {}
     IN /\ readOnly' = (readOnly \ {Own(sim.file)}) \union kept
        /\ moved' = moved \union kept
  /\ sim' = [sim EXCEPT !.pc = "next", !.todo = @ \ {sim.file}]
  /\ UNCHANGED <<shell, agent, interrupted, decrypt>>

SimRenameRaises ==
  /\ Going("rename") /\ InTheWay
  /\ SimEnds
  /\ UNCHANGED <<plain, locked, modes, shell, agent, decrypt>>

\* The notes are written; the recovery-killer goes on with its shell.
SimFinishes ==
  /\ Going("next") /\ sim.todo = {}
  /\ IF sim.variant = "recovery-killer"
     THEN sim' = [sim EXCEPT !.pc = "shell"] /\ UNCHANGED interrupted
     ELSE SimEnds
  /\ UNCHANGED <<plain, locked, modes, shell, agent, decrypt>>

SimSpawnsShell ==
  /\ Going("shell")
  /\ shell' = TRUE
  /\ sim' = [sim EXCEPT !.pc = "wait"]
  /\ UNCHANGED <<plain, locked, modes, agent, interrupted, decrypt>>

ShellLingers == shell /\ ~sim.suspended /\ shell' = FALSE
                /\ UNCHANGED <<plain, locked, modes, sim, agent, interrupted, decrypt>>

SimOutlivesShell ==
  /\ Going("wait") /\ ~shell
  /\ SimEnds
  /\ UNCHANGED <<plain, locked, modes, shell, agent, decrypt>>

SimTerminatesAgent ==
  /\ Going("terminate")
  /\ agent' = FALSE
  /\ SimEnds
  /\ UNCHANGED <<plain, locked, modes, shell, decrypt>>

SimStep ==
  SimOpens \/ SimIsDenied \/ SimWrites \/ SimRenames \/ SimRenameRaises
    \/ SimFinishes \/ SimSpawnsShell \/ ShellLingers \/ SimOutlivesShell
    \/ SimTerminatesAgent

-----------------------------------------------------------------------------
(* decrypt_tree, run by hand when no simulator runs.                       *)

DecryptBegins ==
  /\ decrypt.pc = "off" /\ sim.pc = "off"
  /\ decrypt' = [pc |-> "next", todo |-> {f \in File : locked[f] # Gone},
                 data |-> 0, finished |-> FALSE]
  /\ UNCHANGED <<plain, locked, modes, sim, shell, agent, interrupted>>

\* Fault: the locked copy goes before the original is written.
DecryptOpens_UnlinksFirst ==
  /\ decrypt.pc = "next" /\ decrypt.todo # {}
  /\ plain' = [plain EXCEPT ![Min(decrypt.todo)] = Empty]
  /\ locked' = [locked EXCEPT ![Min(decrypt.todo)] = Gone]
  /\ decrypt' = [decrypt EXCEPT !.pc = "write", !.data = locked[Min(decrypt.todo)]]
  /\ UNCHANGED <<modes, sim, shell, agent, interrupted>>

\* The locked file is read and the original name, which nothing keeps read-only
\* by now, opened for writing: that makes it or empties it.
DecryptOpens ==
  /\ decrypt.pc = "next" /\ decrypt.todo # {}
  /\ plain' = [plain EXCEPT ![Min(decrypt.todo)] = Empty]
  /\ decrypt' = [decrypt EXCEPT !.pc = "write", !.data = locked[Min(decrypt.todo)]]
  /\ UNCHANGED <<locked, modes, sim, shell, agent, interrupted>>

\* One layer is taken off.
DecryptWrites ==
  /\ decrypt.pc = "write"
  /\ plain' = [plain EXCEPT ![Min(decrypt.todo)] = decrypt.data - 1]
  /\ decrypt' = [decrypt EXCEPT !.pc = "unlink"]
  /\ UNCHANGED <<locked, modes, sim, shell, agent, interrupted>>

DecryptUnlinks ==
  /\ decrypt.pc = "unlink" /\ Locked(Min(decrypt.todo)) \notin readOnly
  /\ locked' = [locked EXCEPT ![Min(decrypt.todo)] = Gone]
  /\ decrypt' = [decrypt EXCEPT !.pc = "next", !.todo = @ \ {Min(decrypt.todo)}]
  /\ UNCHANGED <<plain, modes, sim, shell, agent, interrupted>>

\* A locked file that was renamed read-only cannot be removed: the script raises.
DecryptIsDenied ==
  /\ decrypt.pc = "unlink" /\ Locked(Min(decrypt.todo)) \in readOnly
  /\ decrypt' = NoDecrypt
  /\ UNCHANGED <<plain, locked, modes, sim, shell, agent, interrupted>>

DecryptFinishes ==
  /\ decrypt.pc = "next" /\ decrypt.todo = {}
  /\ decrypt' = [NoDecrypt EXCEPT !.finished = TRUE]
  /\ UNCHANGED <<plain, locked, modes, sim, shell, agent, interrupted>>

DecryptIsInterrupted ==
  /\ decrypt.pc # "off"
  /\ decrypt' = NoDecrypt
  /\ UNCHANGED <<plain, locked, modes, sim, shell, agent, interrupted>>

DecryptStep ==
  DecryptBegins \/ DecryptOpens \/ DecryptWrites \/ DecryptUnlinks
    \/ DecryptIsDenied \/ DecryptFinishes \/ DecryptIsInterrupted

-----------------------------------------------------------------------------
SimTypeOK ==
  /\ plain \in [File -> Int] /\ locked \in [File -> Int]
  /\ readOnly \subseteq Name /\ moved \subseteq Name
  /\ sim.todo \subseteq File /\ sim.file \in File /\ sim.data \in Nat
  /\ decrypt.todo \subseteq File /\ decrypt.data \in Nat
  /\ interrupted \in Nat

\* Once decrypt has finished, every file is what it was, but for one file per
\* simulator that was ended in the middle of a file: that one is empty, or
\* scrambled under its own name, where decrypt does not look.
LostOnesWereInterrupted ==
  decrypt.finished => Cardinality({f \in File : plain[f] # 0}) <= interrupted

\* "decrypt.py always reverses it."  Not kept by a simulator that was ended.
DecryptAlwaysReverses == decrypt.finished => \A f \in File : plain[f] = 0
=============================================================================
