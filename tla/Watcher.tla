------------------------------- MODULE Watcher -------------------------------
(***************************************************************************)
(* The Watcher agent (watcher/): the observer thread turns file changes    *)
(* into events and asks who was writing, the poll thread sweeps the        *)
(* process list, and both sweep into one list of sightings.  Other         *)
(* processes read the agent's event log: the live attack with a cursor,    *)
(* the engine with the time window of a job.                               *)
(*                                                                         *)
(* Programs are numbered in the order they are launched, one at a time, as *)
(* the scheduler does; a program stands for its pid and creation time.     *)
(* What a change is about (path, kind, size) tells no property apart.      *)
(***************************************************************************)
EXTENDS Naturals, Sequences, FiniteSets

CONSTANTS Programs,    \* how many programs are launched
          Settle,      \* settle_seconds, in ticks
          RateLimit,   \* ticks between two fallback sweeps
          MaxTime, MaxChanges, MaxSweeps   \* bounds

ASSUME WatcherAssumption ==
  /\ Programs \in Nat \ {0} /\ Settle \in Nat /\ RateLimit \in Nat \ {0}
  /\ MaxTime \in Nat /\ MaxChanges \in Nat /\ MaxSweeps \in Nat

Program == 1 .. Programs
None == 0
Threads == {"poll", "observer"}

VARIABLES
  now,           \* the clock both threads read
  running,       \* the program at work, or None
  started, ended,  \* when each program was launched and exited, 0 for not yet
  pending,       \* how many changes the observer has not handled
  sightings,     \* what the sweeps found, in the order it was appended
  sweeping,      \* per thread, the sweep it is in
  sweeps,        \* sweeps begun
  handling,      \* the change in the observer's hands
  lastFallback,  \* when the last fallback sweep began
  events,        \* the events in the agent's memory
  log,           \* the complete lines of watcher.jsonl
  torn,          \* its last line: "none", "cut" or "whole" but not terminated
  alive,         \* the agent runs
  reader,        \* who reads in this behaviour; readers share nothing
  consumed, skipped, drained,  \* a reader's cursor, where it began, its events
  window         \* per program, the events its run was given, or Unread

programVars == <<running, started, ended>>
pollVars    == <<sightings, sweeping, sweeps>>
logVars     == <<log, torn>>
readerVars  == <<reader, consumed, skipped, drained, window>>
vars == <<now, programVars, pending, pollVars, handling, lastFallback, events,
          logVars, alive, readerVars>>

Idle == [pc |-> "idle"]
NoSweep == [at |-> 0]
Unread == [read |-> FALSE]

Init ==
  /\ now = RateLimit
  /\ running = None
  /\ started = [p \in Program |-> 0] /\ ended = [p \in Program |-> 0]
  /\ pending = 0
  /\ sightings = <<>> /\ sweeping = [t \in Threads |-> NoSweep] /\ sweeps = 0
  /\ handling = Idle
  /\ lastFallback = 0
  /\ events = <<>>
  /\ log = <<>> /\ torn = "none"
  /\ alive = TRUE
  /\ reader \in {"attack", "engine"}
  /\ consumed = 0 /\ skipped = 0 /\ drained = <<>>
  /\ window = [p \in Program |-> Unread]

-----------------------------------------------------------------------------
(* The environment: time, programs, changes, the watcher-killer.           *)

Tick ==
  /\ now < MaxTime
  /\ now' = now + 1
  /\ UNCHANGED <<programVars, pending, pollVars, handling, lastFallback, events,
                 logVars, alive, readerVars>>

\* The scheduler launches the next program when none is running.
Launch ==
  /\ running = None
  /\ \E p \in Program :
       /\ started[p] = 0 /\ \A q \in 1 .. p - 1 : started[q] > 0
       /\ running' = p
       /\ started' = [started EXCEPT ![p] = now]
  /\ UNCHANGED <<now, ended, pending, pollVars, handling, lastFallback, events,
                 logVars, alive, readerVars>>

Exit ==
  /\ running # None
  /\ ended' = [ended EXCEPT ![running] = now]
  /\ running' = None
  /\ UNCHANGED <<now, started, pending, pollVars, handling, lastFallback, events,
                 logVars, alive, readerVars>>

\* The program at work changes a file; the observer is told in order.
Change ==
  /\ running # None
  /\ pending + Len(events) < MaxChanges
  /\ pending' = pending + 1
  /\ UNCHANGED <<now, programVars, pollVars, handling, lastFallback, events,
                 logVars, alive, readerVars>>

\* The watcher-killer, or the end of the session, ends the agent anywhere.
KillAgent ==
  /\ alive
  /\ alive' = FALSE
  /\ UNCHANGED <<now, programVars, pending, pollVars, handling, lastFallback,
                 events, logVars, readerVars>>

-----------------------------------------------------------------------------
(* Sweeps.  A sweep is stamped, lists the processes, asks each, and appends *)
(* what it found; a program that exits meanwhile may be found or not.       *)

Listed == IF running = None THEN {} ELSE {running}

BeginSweep(t) ==
  /\ sweeps < MaxSweeps
  /\ sweeps' = sweeps + 1
  /\ sweeping' = [sweeping EXCEPT ![t] =
                    [at |-> now, listed |-> Listed, no |-> sweeps + 1]]

Found(sweep) == {found \in SUBSET sweep.listed :
                   \A p \in sweep.listed : p = running => p \in found}

AppendSweep(t) ==
  LET sweep == sweeping[t]
  IN /\ \E found \in Found(sweep) :
          sightings' = IF found = {} THEN sightings
                       ELSE Append(sightings,
                              [at |-> sweep.at, no |-> sweep.no,
                               pid |-> CHOOSE p \in found : TRUE])
     /\ sweeping' = [sweeping EXCEPT ![t] = NoSweep]
     /\ UNCHANGED sweeps

PollBegins ==
  /\ alive /\ sweeping["poll"] = NoSweep
  /\ BeginSweep("poll")
  /\ UNCHANGED <<now, programVars, pending, sightings, handling, lastFallback,
                 events, logVars, alive, readerVars>>

PollAppends ==
  /\ alive /\ sweeping["poll"] # NoSweep
  /\ AppendSweep("poll")
  /\ UNCHANGED <<now, programVars, pending, handling, lastFallback, events,
                 logVars, alive, readerVars>>

\* writer_at(now): the search is for the present moment, every stamp lies
\* before it, so it ends behind the last sighting appended, sorted or not.
WriterAtNow == IF sightings = <<>> THEN None ELSE sightings[Len(sightings)].pid

StillRunning(pid) == pid # None /\ pid = running

-----------------------------------------------------------------------------
(* _record, by the one thread that dispatches the observer's events.       *)

Take(next) == pending > 0 /\ alive /\ handling = Idle
              /\ pending' = pending - 1 /\ handling' = next

\* The writer seen last still runs: the event is its.
HandleKnown ==
  /\ StillRunning(WriterAtNow)
  /\ Take([pc |-> "append", at |-> now,
           writer |-> WriterAtNow, swept |-> FALSE, limited |-> FALSE,
           during |-> running, overtaken |-> FALSE])
  /\ UNCHANGED <<now, programVars, pollVars, lastFallback, events, logVars,
                 alive, readerVars>>

\* It does not, but the last fallback sweep is not a second old.
HandleRateLimited ==
  /\ ~StillRunning(WriterAtNow)
  /\ now < lastFallback + RateLimit
  /\ Take([pc |-> "append", at |-> now,
           writer |-> WriterAtNow, swept |-> FALSE, limited |-> TRUE,
           during |-> running, overtaken |-> FALSE])
  /\ UNCHANGED <<now, programVars, pollVars, lastFallback, events, logVars,
                 alive, readerVars>>

\* It does not: sweep.
HandleSweeps ==
  /\ ~StillRunning(WriterAtNow)
  /\ now >= lastFallback + RateLimit
  /\ Take([pc |-> "sweep", at |-> now,
           writer |-> WriterAtNow, swept |-> TRUE, limited |-> FALSE,
           during |-> running, overtaken |-> FALSE])
  /\ lastFallback' = now
  /\ BeginSweep("observer")
  /\ UNCHANGED <<now, programVars, sightings, events, logVars, alive, readerVars>>

FallbackAppends ==
  /\ alive /\ handling.pc = "sweep"
  /\ AppendSweep("observer")
  /\ handling' = [handling EXCEPT !.pc = "fresh"]
  /\ UNCHANGED <<now, programVars, pending, lastFallback, events, logVars,
                 alive, readerVars>>

\* The newest sighting is of a sweep begun before this thread's own.
Overtaken ==
  sightings # <<>> /\ \E i \in DOMAIN sightings :
                        sightings[Len(sightings)].no < sightings[i].no

\* Fault: the sweep is made, the old sighting stands.
TakeFresh_KeepsOld ==
  /\ alive /\ handling.pc = "fresh"
  /\ handling' = [handling EXCEPT !.pc = "append", !.overtaken = Overtaken]
  /\ UNCHANGED <<now, programVars, pending, pollVars, lastFallback, events,
                 logVars, alive, readerVars>>

\* Take the fresh writer if it runs; with none before, take it in any case.
TakeFresh ==
  LET fresh == WriterAtNow
  IN /\ alive /\ handling.pc = "fresh"
     /\ handling' = [handling EXCEPT
          !.pc = "append",
          !.writer = IF StillRunning(fresh) \/ @ = None THEN fresh ELSE @,
          !.overtaken = Overtaken]
     /\ UNCHANGED <<now, programVars, pending, pollVars, lastFallback, events,
                    logVars, alive, readerVars>>

\* The event goes to memory.  `stale` is history: it blames a program that
\* had exited, although another ran from the stamp until now.
Record ==
  LET other == handling.during # None /\ handling.during = running
  IN /\ alive /\ handling.pc = "append"
     /\ events' = Append(events,
          [at |-> handling.at, pid |-> handling.writer,
           stale |-> other /\ handling.writer \notin {None, running},
           swept |-> handling.swept, limited |-> handling.limited,
           overtaken |-> handling.overtaken])
     /\ handling' = [pc |-> "log"]
     /\ UNCHANGED <<now, programVars, pending, pollVars, lastFallback, logVars,
                    alive, readerVars>>

\* The line reaches the file in one piece, or in two with a reader between.
AppendLine ==
  /\ alive /\ handling.pc = "log"
  /\ log' = Append(log, events[Len(events)])
  /\ torn' = "none"
  /\ handling' = Idle
  /\ UNCHANGED <<now, programVars, pending, pollVars, lastFallback, events,
                 alive, readerVars>>

AppendPart ==
  /\ alive /\ handling.pc = "log" /\ torn = "none"
  /\ torn' \in {"cut", "whole"}
  /\ UNCHANGED <<now, programVars, pending, pollVars, handling, lastFallback,
                 events, log, alive, readerVars>>

-----------------------------------------------------------------------------
(* Readers in other processes.                                             *)

\* read_all: the complete lines, and a last line that only lacks its end.
ReadAll == IF torn = "whole" THEN Append(log, events[Len(events)]) ELSE log

\* The live attack begins: skip what the log holds.
Rewind ==
  /\ reader = "attack" /\ consumed = 0 /\ drained = <<>>
  /\ consumed' = Len(ReadAll) /\ skipped' = Len(ReadAll)
  /\ UNCHANGED <<now, programVars, pending, pollVars, handling, lastFallback,
                 events, logVars, alive, reader, drained, window>>

\* Fault: the cursor counts the lines that are terminated.
Drain_Terminated ==
  /\ reader = "attack"
  /\ drained' = drained \o SubSeq(ReadAll, consumed + 1, Len(ReadAll))
  /\ consumed' = Len(log)
  /\ UNCHANGED <<now, programVars, pending, pollVars, handling, lastFallback,
                 events, logVars, alive, reader, skipped, window>>

Drain ==
  /\ reader = "attack"
  /\ drained' = drained \o SubSeq(ReadAll, consumed + 1, Len(ReadAll))
  /\ consumed' = Len(ReadAll)
  /\ UNCHANGED <<now, programVars, pending, pollVars, handling, lastFallback,
                 events, logVars, alive, reader, skipped, window>>

InWindow(event, p) == started[p] <= event.at /\ event.at <= ended[p] + Settle

\* Fault: the settle window is not waited for.
Settled_AtOnce(p) == ended[p] > 0

\* At the limit itself both comparisons of the code hold; a tick is too coarse
\* to say that nothing happens in that very moment, so the reader comes after.
Settled(p) == ended[p] > 0 /\ now > ended[p] + Settle

\* A settled run is given the events of its window that the log holds.
ReadWindow(p) ==
  /\ reader = "engine" /\ Settled(p) /\ window[p] = Unread
  /\ window' = [window EXCEPT ![p] =
       [read |-> TRUE,
        given |-> {i \in DOMAIN ReadAll : InWindow(ReadAll[i], p)}]]
  /\ UNCHANGED <<now, programVars, pending, pollVars, handling, lastFallback,
                 events, logVars, alive, reader, consumed, skipped, drained>>

Next ==
  \/ Tick \/ Launch \/ Exit \/ Change \/ KillAgent
  \/ PollBegins \/ PollAppends
  \/ HandleKnown \/ HandleRateLimited \/ HandleSweeps
  \/ FallbackAppends \/ TakeFresh \/ Record \/ AppendLine \/ AppendPart
  \/ Rewind \/ Drain
  \/ \E p \in Program : ReadWindow(p)

Spec == Init /\ [][Next]_vars

-----------------------------------------------------------------------------
\* Every variable keeps its type.
TypeOK ==
  /\ now \in Nat /\ sweeps \in Nat /\ lastFallback \in Nat
  /\ running \in Program \union {None}
  /\ started \in [Program -> Nat] /\ ended \in [Program -> Nat]
  /\ pending \in Nat
  /\ alive \in BOOLEAN /\ torn \in {"none", "cut", "whole"}
  /\ reader \in {"attack", "engine"}
  /\ consumed \in Nat /\ skipped \in Nat

\* The live attack's cursor yields every event of the log once and in order,
\* whatever part of the last line it meets: a line without its end is read,
\* or left for the next drain, never both and never neither.
CursorReadsOnce ==
  /\ consumed <= Len(events)
  /\ drained = SubSeq(events, skipped + 1, consumed)

\* A settled run is given every event of its window but one at most: the one
\* that was stamped and not yet in the log (a fallback sweep stands between).
RunMissesOneAtMost ==
  \A p \in Program :
    window[p] # Unread =>
      Cardinality({i \in DOMAIN events : InWindow(events[i], p)} \ window[p].given) <= 1

\* An event blames a program that has exited, with another one running since
\* before its stamp, only within the second after a fallback sweep, or when
\* the poll thread appended an older sweep behind the fallback's.
BlameOfTheDead ==
  \A i \in DOMAIN events :
    events[i].stale => events[i].limited \/ events[i].overtaken

\* "Sweep now and take the writer that is really running."  Not kept: the
\* sightings are not in time order when two sweeps overlap.
SweepFindsTheWriter ==
  \A i \in DOMAIN events : events[i].stale => ~events[i].swept
=============================================================================
