---------------------------- MODULE WatcherProofs ----------------------------
(***************************************************************************)
(* The cursor of the live attack over the Watcher's log, whom an event     *)
(* blames, and what a run is given of its window: for every number of      *)
(* programs, sweeps and changes, and every moment at which a line has      *)
(* reached the file in part.                                               *)
(***************************************************************************)
EXTENDS Watcher, SequenceTheorems, FiniteSetTheorems, TLAPS

\* A sequence, of whatever events.
IsSeq(s) == \E S : s \in Seq(S)

\* A sequence is its own part from the first element to the last.
LEMMA SeqFacts ==
  ASSUME NEW s, IsSeq(s)
  PROVE  Len(s) \in Nat /\ s = SubSeq(s, 1, Len(s))
<1>1. PICK S : s \in Seq(S)
  BY DEF IsSeq
<1>2. Len(s) \in Nat
  BY <1>1, LenProperties
<1>3. s = SubSeq(s, 1, Len(s))
  BY <1>1, SubSeqFull
<1> QED BY <1>2, <1>3

\* One event more changes no part of the sequence that was read.
LEMMA AppendFacts ==
  ASSUME NEW s, IsSeq(s), NEW e
  PROVE  /\ IsSeq(Append(s, e)) /\ Len(Append(s, e)) = Len(s) + 1
         /\ Append(s, e)[Len(s) + 1] = e
         /\ \A m, n \in Nat : m >= 1 /\ n <= Len(s)
              => SubSeq(Append(s, e), m, n) = SubSeq(s, m, n)
<1>1. PICK S : s \in Seq(S)
  BY DEF IsSeq
<1> DEFINE T == S \union {e}
<1>2. s \in Seq(T) /\ e \in T
  BY <1>1, SeqMonotonic
<1> HIDE DEF T
<1> DEFINE t == Append(s, e)
<1>3. /\ t \in Seq(T) /\ Len(t) = Len(s) + 1 /\ t[Len(s) + 1] = e
      /\ \A i \in 1 .. Len(s) : t[i] = s[i]
  BY <1>2, AppendProperties
<1>4. Len(s) \in Nat /\ \A i \in 1 .. Len(s) : s[i] \in T
  BY <1>2, LenProperties, ElementOfSeq
<1> HIDE DEF t
<1>5. ASSUME NEW m \in Nat, NEW n \in Nat, m >= 1, n <= Len(s)
      PROVE  SubSeq(t, m, n) = SubSeq(s, m, n)
  <2>1. \A i \in m .. n : s[i] \in T /\ t[i] = s[i]
    BY <1>3, <1>4, <1>5
  <2>2. /\ SubSeq(s, m, n) \in Seq(T) /\ SubSeq(t, m, n) \in Seq(T)
        /\ Len(SubSeq(s, m, n)) = IF m <= n THEN n - m + 1 ELSE 0
        /\ Len(SubSeq(t, m, n)) = IF m <= n THEN n - m + 1 ELSE 0
        /\ \A i \in 1 .. n - m + 1 : SubSeq(s, m, n)[i] = s[m + i - 1]
        /\ \A i \in 1 .. n - m + 1 : SubSeq(t, m, n)[i] = t[m + i - 1]
    BY <2>1, SubSeqProperties
  <2>3. \A i \in 1 .. Len(SubSeq(s, m, n)) : SubSeq(s, m, n)[i] = SubSeq(t, m, n)[i]
    <3>1. ASSUME NEW i \in 1 .. Len(SubSeq(s, m, n))
          PROVE  i \in 1 .. n - m + 1 /\ m + i - 1 \in m .. n
      BY <2>2
    <3> QED BY <2>1, <2>2, <3>1
  <2> QED BY <2>2, <2>3, SeqEqual
<1>6. t = Append(s, e) /\ IsSeq(t)
  BY <1>3 DEF t, IsSeq
<1> QED BY <1>3, <1>5, <1>6

\* A part of the first n events is that part of all of them.
LEMMA PartOfPrefix ==
  ASSUME NEW s, IsSeq(s), NEW n \in Nat, n <= Len(s), NEW m \in Nat, m >= 1
  PROVE  /\ Len(SubSeq(s, 1, n)) = n
         /\ SubSeq(SubSeq(s, 1, n), m, n) = SubSeq(s, m, n)
<1>1. PICK S : s \in Seq(S)
  BY DEF IsSeq
<1>2. Len(s) \in Nat /\ \A i \in 1 .. Len(s) : s[i] \in S
  BY <1>1, LenProperties, ElementOfSeq
<1>3. PICK p : p = SubSeq(s, 1, n)
  OBVIOUS
<1>4. \A i \in 1 .. n : s[i] \in S
  BY <1>2
<1>5. /\ Len(p) = IF 1 <= n THEN n - 1 + 1 ELSE 0
      /\ \A i \in 1 .. n - 1 + 1 : p[i] = s[1 + i - 1]
  BY <1>3, <1>4, SubSeqProperties
<1>6. Len(p) = n /\ \A i \in 1 .. n : p[i] = s[i]
  BY <1>5
<1>7. \A i \in m .. n : s[i] \in S /\ p[i] \in S
  BY <1>4, <1>6
<1>8. /\ SubSeq(s, m, n) \in Seq(S) /\ SubSeq(p, m, n) \in Seq(S)
      /\ Len(SubSeq(s, m, n)) = IF m <= n THEN n - m + 1 ELSE 0
      /\ Len(SubSeq(p, m, n)) = IF m <= n THEN n - m + 1 ELSE 0
      /\ \A i \in 1 .. n - m + 1 : SubSeq(s, m, n)[i] = s[m + i - 1]
      /\ \A i \in 1 .. n - m + 1 : SubSeq(p, m, n)[i] = p[m + i - 1]
  BY <1>7, SubSeqProperties
<1>9. \A i \in 1 .. Len(SubSeq(s, m, n)) : SubSeq(s, m, n)[i] = SubSeq(p, m, n)[i]
  <2>1. ASSUME NEW i \in 1 .. Len(SubSeq(s, m, n))
        PROVE  i \in 1 .. n - m + 1 /\ m + i - 1 \in 1 .. n
    BY <1>8
  <2> QED BY <1>6, <1>8, <2>1
<1>10. SubSeq(p, m, n) = SubSeq(s, m, n)
  BY <1>8, <1>9, SeqEqual
<1> QED BY <1>3, <1>6, <1>10

\* The last event, put behind the others, makes them all.
LEMMA LastOneBack ==
  ASSUME NEW s, IsSeq(s), Len(s) >= 1
  PROVE  Append(SubSeq(s, 1, Len(s) - 1), s[Len(s)]) = s
<1>1. PICK S : s \in Seq(S)
  BY DEF IsSeq
<1>2. Len(s) \in Nat /\ \A i \in 1 .. Len(s) : s[i] \in S
  BY <1>1, LenProperties, ElementOfSeq
<1>3. PICK n : n = Len(s) - 1
  OBVIOUS
<1>4. n \in Nat /\ n + 1 = Len(s) /\ s[n + 1] \in S
  BY <1>2, <1>3
<1>5. \A i \in 1 .. n : s[i] \in S
  BY <1>2, <1>4
<1>6. PICK p : p = SubSeq(s, 1, n)
  OBVIOUS
<1>7. /\ p \in Seq(S) /\ Len(p) = IF 1 <= n THEN n - 1 + 1 ELSE 0
      /\ \A i \in 1 .. n - 1 + 1 : p[i] = s[1 + i - 1]
  BY <1>4, <1>5, <1>6, SubSeqProperties
<1>8. Len(p) = n /\ \A i \in 1 .. n : p[i] = s[i]
  BY <1>4, <1>7
<1>9. PICK q : q = Append(p, s[n + 1])
  OBVIOUS
<1>10. /\ q \in Seq(S) /\ Len(q) = Len(p) + 1 /\ q[Len(p) + 1] = s[n + 1]
       /\ \A i \in 1 .. Len(p) : q[i] = p[i]
  BY <1>4, <1>7, <1>9, AppendProperties
<1>11. Len(q) = Len(s)
  BY <1>4, <1>8, <1>10, Zenon
<1>12. \A i \in 1 .. Len(q) : q[i] = s[i]
  <2>1. ASSUME NEW i \in 1 .. n + 1 PROVE i \in 1 .. n \/ i = n + 1
    BY <1>4
  <2> QED BY <1>4, <1>8, <1>10, <2>1
<1>13. q = s
  BY <1>1, <1>10, <1>11, <1>12, SeqEqual
<1> QED BY <1>3, <1>4, <1>6, <1>9, <1>13

-----------------------------------------------------------------------------
(* The log and its reader.                                                 *)

\* How many events a reader of the file finds: the last one counts when its
\* line is whole, terminated or not.
Readable == IF handling.pc = "log" /\ torn # "whole" THEN Len(events) - 1 ELSE Len(events)

\* The log is what the agent has in memory, but for the line being written, and
\* what a reader has once found does not go away again.
CursorInv ==
  /\ IsSeq(events) /\ "pc" \in DOMAIN handling
  /\ handling.pc = "log" => Len(events) >= 1 /\ log = SubSeq(events, 1, Len(events) - 1)
  /\ handling.pc # "log" => log = events /\ torn = "none"
  /\ consumed \in Nat /\ skipped \in Nat
  /\ skipped <= consumed /\ consumed <= Readable
  /\ drained = SubSeq(events, skipped + 1, consumed)

\* A reader of the log finds the first events the agent recorded, in order and
\* without a gap.
LEMMA ReadAllIsPrefix ==
  ASSUME CursorInv
  PROVE  /\ Readable \in Nat /\ Readable <= Len(events)
         /\ Len(ReadAll) = Readable /\ ReadAll = SubSeq(events, 1, Readable)
<1>1. Len(events) \in Nat /\ SubSeq(events, 1, Len(events)) = events
  BY SeqFacts DEF CursorInv
<1>2. CASE handling.pc # "log"
  <2>1. torn = "none" /\ log = events
    BY <1>2 DEF CursorInv
  <2>2. Readable = Len(events) /\ ReadAll = events
    BY <1>2, <2>1 DEF Readable, ReadAll
  <2>3. Len(events) <= Len(events)
    BY <1>1
  <2> QED BY <1>1, <2>2, <2>3, Zenon
<1>3. CASE handling.pc = "log" /\ torn = "whole"
  <2>1. Append(log, events[Len(events)]) = events
    BY <1>3, LastOneBack DEF CursorInv
  <2> QED BY <1>1, <1>3, <2>1 DEF Readable, ReadAll
<1>4. CASE handling.pc = "log" /\ torn # "whole"
  <2>1. PICK n : n = Len(events) - 1
    OBVIOUS
  <2>2. n \in Nat /\ n <= Len(events)
    BY <1>1, <1>4, <2>1 DEF CursorInv
  <2>3. Readable = n /\ ReadAll = SubSeq(events, 1, n)
    BY <1>4, <2>1 DEF CursorInv, Readable, ReadAll
  <2>4. Len(SubSeq(events, 1, n)) = n
    BY <2>2, PartOfPrefix DEF CursorInv
  <2> QED BY <2>2, <2>3, <2>4
<1> QED BY <1>2, <1>3, <1>4

\* What only reads, or does not touch the agent's memory and file.
LEMMA OthersKeepCursor ==
  ASSUME CursorInv, UNCHANGED <<handling, events, logVars, readerVars>>
  PROVE  CursorInv'
BY DEF CursorInv, Readable, logVars, readerVars

\* Attributing an event, with or without a sweep, touches neither the log nor its reader.
LEMMA AgentKeepsCursor ==
  ASSUME CursorInv,
         HandleKnown \/ HandleRateLimited \/ HandleSweeps \/ FallbackAppends \/ TakeFresh
  PROVE  CursorInv'
<1> USE DEF CursorInv, Readable, logVars, readerVars
<1>1. CASE HandleKnown \/ HandleRateLimited \/ HandleSweeps
  BY <1>1 DEF HandleKnown, HandleRateLimited, HandleSweeps, Take, Idle
<1>2. CASE FallbackAppends \/ TakeFresh
  BY <1>2 DEF FallbackAppends, TakeFresh
<1> QED BY <1>1, <1>2

\* The event goes to memory, and its line to the file.
LEMMA WritingKeepsCursor ==
  ASSUME CursorInv, Record \/ AppendLine \/ AppendPart
  PROVE  CursorInv'
<1>1. Len(events) \in Nat /\ SubSeq(events, 1, Len(events)) = events
  BY SeqFacts DEF CursorInv
<1>2. CASE Record
  <2>1. PICK e : events' = Append(events, e)
    BY <1>2 DEF Record
  <2>2. /\ handling.pc = "append" /\ handling' = [pc |-> "log"]
        /\ UNCHANGED <<log, torn, consumed, skipped, drained>>
    BY <1>2 DEF Record, logVars, readerVars
  <2>3. log = events /\ torn = "none" /\ Readable = Len(events)
    BY <2>2 DEF CursorInv, Readable
  <2>4. /\ IsSeq(events') /\ Len(events') = Len(events) + 1
        /\ \A m, n \in Nat : m >= 1 /\ n <= Len(events)
             => SubSeq(events', m, n) = SubSeq(events, m, n)
    BY <2>1, AppendFacts DEF CursorInv
  <2>5. Len(events') - 1 = Len(events) /\ Len(events') >= 1
    BY <1>1, <2>4
  <2>6. log' = SubSeq(events', 1, Len(events') - 1)
    BY <1>1, <2>2, <2>3, <2>4, <2>5
  <2>7. Readable' = Len(events)
    BY <2>2, <2>3, <2>5 DEF Readable
  <2>8. consumed <= Len(events) /\ skipped + 1 \in Nat /\ skipped + 1 >= 1
    BY <2>3 DEF CursorInv
  <2>9. drained' = SubSeq(events', skipped' + 1, consumed')
    BY <2>2, <2>4, <2>8 DEF CursorInv
  <2> QED BY <2>2, <2>4, <2>5, <2>6, <2>7, <2>8, <2>9 DEF CursorInv
<1>3. CASE AppendLine
  <2>1. /\ handling.pc = "log" /\ handling' = [pc |-> "idle"] /\ torn' = "none"
        /\ log' = Append(log, events[Len(events)])
        /\ UNCHANGED <<events, consumed, skipped, drained>>
    BY <1>3 DEF AppendLine, Idle, readerVars
  <2>2. log' = events
    BY <2>1, LastOneBack DEF CursorInv
  <2>3. Readable' = Len(events) /\ Readable <= Readable'
    BY <1>1, <2>1 DEF Readable
  <2>4. consumed <= Readable'
    BY <1>1, <2>1, <2>3 DEF CursorInv, Readable
  <2> QED BY <2>1, <2>2, <2>4 DEF CursorInv
<1>4. CASE AppendPart
  <2>1. /\ handling.pc = "log" /\ torn = "none"
        /\ UNCHANGED <<handling, events, log, consumed, skipped, drained>>
    BY <1>4 DEF AppendPart, readerVars
  <2>2. consumed <= Readable'
    BY <1>1, <2>1 DEF CursorInv, Readable
  <2> QED BY <2>1, <2>2 DEF CursorInv
<1> QED BY <1>2, <1>3, <1>4

\* The attack winds its cursor to the end, and later reads on from it.
LEMMA ReadingKeepsCursor ==
  ASSUME CursorInv, Rewind \/ Drain
  PROVE  CursorInv'
<1>1. /\ Readable \in Nat /\ Readable <= Len(events)
      /\ Len(ReadAll) = Readable /\ ReadAll = SubSeq(events, 1, Readable)
  BY ReadAllIsPrefix
<1>2. CASE Rewind
  <2>1. /\ consumed' = Readable /\ skipped' = Readable /\ drained = <<>>
        /\ UNCHANGED <<handling, events, log, torn, drained>>
    BY <1>1, <1>2 DEF Rewind, logVars
  <2>2. Readable' = Readable
    BY <2>1 DEF Readable
  <2>3. SubSeq(events, Readable + 1, Readable) = <<>>
    <3>1. Readable + 1 \in Int /\ Readable \in Int /\ Readable < Readable + 1
      BY <1>1
    <3> QED BY <3>1, SubSeqEmpty
  <2> QED BY <1>1, <2>1, <2>2, <2>3 DEF CursorInv
<1>3. CASE Drain
  <2>1. /\ drained' = drained \o SubSeq(ReadAll, consumed + 1, Readable)
        /\ consumed' = Readable
        /\ UNCHANGED <<handling, events, log, torn, skipped>>
    BY <1>1, <1>3 DEF Drain, logVars
  <2>2. Readable' = Readable
    BY <2>1 DEF Readable
  <2>3. consumed + 1 \in Nat /\ consumed + 1 >= 1
    BY DEF CursorInv
  <2>4. SubSeq(ReadAll, consumed + 1, Readable) = SubSeq(events, consumed + 1, Readable)
    BY <1>1, <2>3, PartOfPrefix DEF CursorInv
  <2>5. SubSeq(events, skipped + 1, consumed) \o SubSeq(events, consumed + 1, Readable)
          = SubSeq(events, skipped + 1, Readable)
    <3>1. PICK S : events \in Seq(S)
      BY DEF CursorInv, IsSeq
    <3>2. Len(events) \in Nat
      BY <3>1, LenProperties
    <3>3. /\ skipped + 1 \in 1 .. Len(events) + 1
          /\ consumed \in (skipped + 1) - 1 .. Len(events)
          /\ Readable \in consumed .. Len(events)
      <4>1. /\ consumed \in Nat /\ skipped \in Nat
            /\ skipped <= consumed /\ consumed <= Readable
        BY DEF CursorInv
      <4>2. ASSUME NEW l \in Nat, Readable <= l
            PROVE  /\ skipped + 1 \in 1 .. l + 1
                   /\ consumed \in (skipped + 1) - 1 .. l
                   /\ Readable \in consumed .. l
        BY <1>1, <4>1, <4>2
      <4> QED BY <1>1, <3>2, <4>2
    <3> QED BY <3>1, <3>3, ConcatAdjacentSubSeq
  <2>6. drained' = SubSeq(events, skipped + 1, Readable)
    BY <2>1, <2>4, <2>5 DEF CursorInv
  <2>7. skipped <= Readable
    BY <1>1 DEF CursorInv
  <2> QED BY <1>1, <2>1, <2>2, <2>6, <2>7 DEF CursorInv
<1> QED BY <1>2, <1>3

\* The log and its reader start empty.
LEMMA CursorStarts == Init => CursorInv
<1> SUFFICES ASSUME Init PROVE CursorInv
  OBVIOUS
<1>1. IsSeq(<<>>) /\ Len(<<>>) = 0
  BY EmptySeq DEF IsSeq
<1>2. SubSeq(<<>>, 0 + 1, 0) = <<>>
  BY SubSeqEmpty
<1> QED BY <1>1, <1>2 DEF Init, Idle, CursorInv, Readable

\* Every step keeps the reader's place in the log.
LEMMA CursorStep == CursorInv /\ [Next]_vars => CursorInv'
<1> SUFFICES ASSUME CursorInv, [Next]_vars PROVE CursorInv'
  OBVIOUS
<1>1. CASE Tick \/ Launch \/ Exit \/ Change \/ KillAgent
  BY <1>1, OthersKeepCursor DEF Tick, Launch, Exit, Change, KillAgent
<1>2. CASE PollBegins \/ PollAppends \/ UNCHANGED vars
  BY <1>2, OthersKeepCursor DEF PollBegins, PollAppends, vars
<1>3. CASE HandleKnown \/ HandleRateLimited \/ HandleSweeps \/ FallbackAppends \/ TakeFresh
  BY <1>3, AgentKeepsCursor
<1>4. CASE Record \/ AppendLine \/ AppendPart
  BY <1>4, WritingKeepsCursor
<1>5. CASE Rewind \/ Drain
  BY <1>5, ReadingKeepsCursor
<1>6. CASE \E p \in Program : ReadWindow(p)
  BY <1>6 DEF ReadWindow, CursorInv, Readable, logVars
<1> QED BY <1>1, <1>2, <1>3, <1>4, <1>5, <1>6 DEF Next

\* The live attack's cursor yields every event once and in order, whatever
\* part of the last line it meets.
THEOREM CursorAlwaysReadsOnce == Spec => []CursorReadsOnce
<1>1. CursorInv => CursorReadsOnce
  <2> SUFFICES ASSUME CursorInv PROVE CursorReadsOnce
    OBVIOUS
  <2>1. Readable \in Nat /\ Readable <= Len(events) /\ consumed <= Readable
    BY ReadAllIsPrefix DEF CursorInv
  <2>2. Len(events) \in Nat /\ consumed \in Nat
    BY SeqFacts DEF CursorInv
  <2>3. consumed <= Len(events)
    BY <2>1, <2>2
  <2> QED BY <2>3 DEF CursorInv, CursorReadsOnce
<1> QED BY <1>1, CursorStarts, CursorStep, PTL DEF Spec

-----------------------------------------------------------------------------
(* The agent at work: what its variables hold, and which programs were and  *)
(* are at work.                                                             *)

Sighting == [at : Nat, no : Nat, pid : Program]
Sweep == [at : Nat, listed : SUBSET Program, no : Nat]
Hand == [pc : {"append", "sweep", "fresh"}, at : Nat, writer : Program \union {None},
         swept : BOOLEAN, limited : BOOLEAN, during : Program \union {None},
         overtaken : BOOLEAN]
Event == [at : Nat, pid : Program \union {None}, stale : BOOLEAN, swept : BOOLEAN,
          limited : BOOLEAN, overtaken : BOOLEAN]

\* A stamped change is in the observer's hands and not yet an event.
Stamped == handling.pc \in {"append", "sweep", "fresh"}

AgentType ==
  /\ now \in Nat /\ now > 0 /\ sweeps \in Nat
  /\ running \in Program \union {None}
  /\ started \in [Program -> Nat] /\ ended \in [Program -> Nat]
  /\ sightings \in Seq(Sighting)
  /\ sweeping \in [Threads -> {NoSweep} \union Sweep]
  /\ Stamped => handling \in Hand
  /\ handling.pc = "sweep" => sweeping["observer"] \in Sweep
  /\ events \in Seq(Event)

\* A program is launched once, and exits after that.
ProgramsInv ==
  /\ running # None => started[running] > 0 /\ ended[running] = 0
  /\ \A p \in Program : ended[p] > 0 => started[p] > 0
  /\ Stamped /\ handling.during # None => started[handling.during] > 0

AgentInv == AgentType /\ ProgramsInv

\* A thread that is in no sweep has no list of processes.
LEMMA NoSweepIsNone == NoSweep \notin Sweep
<1>1. DOMAIN NoSweep = {"at"}
  BY DEF NoSweep
<1>2. \A s \in Sweep : DOMAIN s = {"at", "listed", "no"}
  BY DEF Sweep
<1>3. "no" \notin {"at"} /\ "no" \in {"at", "listed", "no"}
  OBVIOUS
<1> QED BY <1>1, <1>2, <1>3

\* The writer seen last is a program, or nobody was seen.
LEMMA WriterIsProgram ==
  ASSUME AgentType
  PROVE  WriterAtNow \in Program \union {None}
<1>1. CASE sightings = <<>>
  BY <1>1 DEF WriterAtNow
<1>2. CASE sightings # <<>>
  <2>1. Len(sightings) \in 1 .. Len(sightings)
    BY <1>2 DEF AgentType
  <2>2. sightings[Len(sightings)] \in Sighting
    BY <2>1 DEF AgentType
  <2> QED BY <1>2, <2>2 DEF WriterAtNow, Sighting
<1> QED BY <1>1, <1>2

\* What the end of a sweep appends: nothing, or a program the sweep had listed,
\* and the one at work if it had listed it.
LEMMA SweepAppends ==
  ASSUME AgentType, NEW t \in Threads, sweeping[t] \in Sweep, AppendSweep(t)
  PROVE  /\ sweeping' = [sweeping EXCEPT ![t] = NoSweep] /\ sweeps' = sweeps
         /\ sightings' \in Seq(Sighting)
         /\ \/ sightings' = sightings
               /\ running \notin sweeping[t].listed
            \/ \E s \in Sighting :
                 /\ sightings' = Append(sightings, s)
                 /\ s.no = sweeping[t].no /\ s.pid \in sweeping[t].listed
<1>1. PICK found \in Found(sweeping[t]) :
        sightings' = IF found = {} THEN sightings
                     ELSE Append(sightings,
                            [at |-> sweeping[t].at, no |-> sweeping[t].no,
                             pid |-> CHOOSE p \in found : TRUE])
  BY DEF AppendSweep
<1>2. /\ found \subseteq sweeping[t].listed
      /\ running \in sweeping[t].listed => running \in found
  BY DEF Found
<1>3. /\ sweeping[t].at \in Nat /\ sweeping[t].no \in Nat
      /\ sweeping[t].listed \subseteq Program
  BY DEF Sweep
<1>4. sweeping' = [sweeping EXCEPT ![t] = NoSweep] /\ sweeps' = sweeps
  BY DEF AppendSweep
<1>5. CASE found = {}
  BY <1>1, <1>2, <1>4, <1>5 DEF AgentType
<1>6. CASE found # {}
  <2>1. PICK q : q = CHOOSE p \in found : TRUE
    OBVIOUS
  <2>2. q \in found
    BY <1>6, <2>1
  <2>3. PICK s : s = [at |-> sweeping[t].at, no |-> sweeping[t].no, pid |-> q]
    OBVIOUS
  <2>4. s \in Sighting /\ s.no = sweeping[t].no /\ s.pid = q
    BY <1>2, <1>3, <2>2, <2>3 DEF Sighting
  <2>5. sightings' = Append(sightings, s)
    BY <1>1, <1>6, <2>1, <2>3
  <2>6. sightings' \in Seq(Sighting)
    BY <2>4, <2>5 DEF AgentType
  <2> QED BY <1>2, <1>4, <2>2, <2>4, <2>5, <2>6
<1> QED BY <1>5, <1>6

\* A sweep that begins lists the program at work, and nothing else.
LEMMA SweepBegins ==
  ASSUME AgentType, NEW t \in Threads, BeginSweep(t)
  PROVE  /\ sweeps' = sweeps + 1
         /\ sweeping' \in [Threads -> {NoSweep} \union Sweep]
         /\ sweeping'[t] \in Sweep /\ sweeping'[t].no = sweeps + 1
         /\ sweeping'[t].listed = Listed
         /\ \A u \in Threads : u # t => sweeping'[u] = sweeping[u]
<1>1. PICK s : s = [at |-> now, listed |-> Listed, no |-> sweeps + 1]
  OBVIOUS
<1>2. s \in Sweep /\ s.no = sweeps + 1 /\ s.listed = Listed
  BY <1>1 DEF Sweep, Listed, AgentType
<1>3. sweeping' = [sweeping EXCEPT ![t] = s] /\ sweeps' = sweeps + 1
  BY <1>1 DEF BeginSweep
<1> QED BY <1>2, <1>3 DEF AgentType

\* What neither the programs nor the agent's threads do.
LEMMA OthersKeepAgent ==
  ASSUME AgentInv, now' \in Nat, now' >= now,
         UNCHANGED <<programVars, pollVars, handling, events>>
  PROVE  AgentInv'
BY DEF AgentInv, AgentType, ProgramsInv, Stamped, programVars, pollVars

\* Every step keeps the agent's variables in their range.
LEMMA AgentStep ==
  ASSUME AgentInv, [Next]_vars
  PROVE  AgentInv'
<1>1. CASE Tick \/ Change \/ KillAgent \/ UNCHANGED vars
  <2>1. /\ UNCHANGED <<programVars, pollVars, handling, events>>
        /\ now' = now \/ now' = now + 1
    BY <1>1 DEF Tick, Change, KillAgent, vars
  <2>2. now' \in Nat /\ now' >= now
    BY <2>1 DEF AgentInv, AgentType
  <2> QED BY <2>1, <2>2, OthersKeepAgent
<1>2. CASE AppendPart \/ Rewind \/ Drain \/ \E p \in Program : ReadWindow(p)
  BY <1>2, OthersKeepAgent
     DEF AppendPart, Rewind, Drain, ReadWindow, AgentInv, AgentType
<1>3. CASE Launch
  BY <1>3 DEF Launch, AgentInv, AgentType, ProgramsInv, Stamped, pollVars, None, Program
<1>4. CASE Exit
  BY <1>4 DEF Exit, AgentInv, AgentType, ProgramsInv, Stamped, pollVars, None, Program
<1>5. CASE PollBegins
  <2>1. BeginSweep("poll") /\ "poll" \in Threads
    BY <1>5 DEF PollBegins, Threads
  <2>2. UNCHANGED <<now, programVars, sightings, handling, events>>
    BY <1>5 DEF PollBegins
  <2>3. sweeping'["observer"] = sweeping["observer"]
    BY <2>1, SweepBegins DEF AgentInv, Threads
  <2> QED BY <2>1, <2>2, <2>3, SweepBegins DEF AgentInv, AgentType, ProgramsInv, Stamped, programVars
<1>6. CASE PollAppends
  <2>1. /\ AppendSweep("poll") /\ "poll" \in Threads /\ "observer" \in Threads
        /\ sweeping["poll"] \in Sweep
    BY <1>6 DEF PollAppends, Threads, AgentInv, AgentType
  <2>2. UNCHANGED <<now, programVars, handling, events>>
    BY <1>6 DEF PollAppends
  <2>3. /\ sweeping' \in [Threads -> {NoSweep} \union Sweep] /\ sweeps' = sweeps
        /\ sweeping'["observer"] = sweeping["observer"]
    BY <2>1, SweepAppends DEF AgentInv, AgentType, Threads
  <2>4. sightings' \in Seq(Sighting)
    BY <2>1, SweepAppends DEF AgentInv
  <2> QED BY <2>2, <2>3, <2>4 DEF AgentInv, AgentType, ProgramsInv, Stamped, programVars
<1>7. CASE HandleKnown \/ HandleRateLimited
  <2>1. PICK h : /\ handling' = h
                 /\ \E limited \in BOOLEAN :
                      h = [pc |-> "append", at |-> now, writer |-> WriterAtNow,
                           swept |-> FALSE, limited |-> limited, during |-> running,
                           overtaken |-> FALSE]
    BY <1>7 DEF HandleKnown, HandleRateLimited, Take
  <2>2. h \in Hand /\ h.pc = "append" /\ h.during = running
    BY <2>1, WriterIsProgram DEF Hand, AgentInv, AgentType
  <2>3. UNCHANGED <<now, programVars, pollVars, events>>
    BY <1>7 DEF HandleKnown, HandleRateLimited
  <2> QED BY <2>1, <2>2, <2>3
          DEF AgentInv, AgentType, ProgramsInv, Stamped, programVars, pollVars
<1>8. CASE HandleSweeps
  <2>1. PICK h : /\ handling' = h
                 /\ h = [pc |-> "sweep", at |-> now, writer |-> WriterAtNow,
                         swept |-> TRUE, limited |-> FALSE, during |-> running,
                         overtaken |-> FALSE]
    BY <1>8 DEF HandleSweeps, Take
  <2>2. h \in Hand /\ h.during = running
    BY <2>1, WriterIsProgram DEF Hand, AgentInv, AgentType
  <2>3. BeginSweep("observer") /\ "observer" \in Threads
    BY <1>8 DEF HandleSweeps, Threads
  <2>4. UNCHANGED <<now, programVars, sightings, events>>
    BY <1>8 DEF HandleSweeps
  <2> QED BY <2>1, <2>2, <2>3, <2>4, SweepBegins
          DEF AgentInv, AgentType, ProgramsInv, Stamped, programVars
<1>9. CASE FallbackAppends
  <2>1. /\ AppendSweep("observer") /\ "observer" \in Threads
        /\ sweeping["observer"] \in Sweep /\ handling \in Hand
    BY <1>9 DEF FallbackAppends, Threads, AgentInv, AgentType, Stamped
  <2>2. /\ handling' = [handling EXCEPT !.pc = "fresh"]
        /\ UNCHANGED <<now, programVars, events>>
    BY <1>9 DEF FallbackAppends
  <2>3. /\ handling' \in Hand /\ handling'.pc = "fresh"
        /\ handling'.during = handling.during
    BY <2>1, <2>2 DEF Hand
  <2>4. sweeping' \in [Threads -> {NoSweep} \union Sweep] /\ sweeps' = sweeps
    BY <2>1, SweepAppends DEF AgentInv, AgentType
  <2>5. sightings' \in Seq(Sighting)
    BY <2>1, SweepAppends DEF AgentInv
  <2>6. handling.pc = "sweep"
    BY <1>9 DEF FallbackAppends
  <2> QED BY <2>2, <2>3, <2>4, <2>5, <2>6
          DEF AgentInv, AgentType, ProgramsInv, Stamped, programVars
<1>10. CASE TakeFresh
  <2>1. /\ handling.pc = "fresh" /\ handling \in Hand
        /\ handling' = [handling EXCEPT !.pc = "append",
             !.writer = IF StillRunning(WriterAtNow) \/ @ = None THEN WriterAtNow ELSE @,
             !.overtaken = Overtaken]
        /\ UNCHANGED <<now, programVars, pollVars, events>>
    BY <1>10 DEF TakeFresh, AgentInv, AgentType, Stamped
  <2>2. Overtaken \in BOOLEAN
    BY DEF Overtaken
  <2>3. /\ handling' \in Hand /\ handling'.pc = "append"
        /\ handling'.during = handling.during
    <3> HIDE DEF Overtaken
    <3> QED BY <2>1, <2>2, WriterIsProgram DEF Hand, AgentInv
  <2> QED BY <2>1, <2>3 DEF AgentInv, AgentType, ProgramsInv, Stamped, programVars, pollVars
<1>11. CASE Record
  <2>1. handling \in Hand /\ handling'.pc = "log"
    BY <1>11 DEF Record, AgentInv, AgentType, Stamped
  <2>2. UNCHANGED <<now, programVars, pollVars>>
    BY <1>11 DEF Record
  <2>3. events' \in Seq(Event)
    <3>1. PICK stale \in BOOLEAN :
            events' = Append(events,
              [at |-> handling.at, pid |-> handling.writer, stale |-> stale,
               swept |-> handling.swept, limited |-> handling.limited,
               overtaken |-> handling.overtaken])
      BY <1>11 DEF Record
    <3>2. [at |-> handling.at, pid |-> handling.writer, stale |-> stale,
           swept |-> handling.swept, limited |-> handling.limited,
           overtaken |-> handling.overtaken] \in Event
      BY <2>1 DEF Event, Hand
    <3> QED BY <3>1, <3>2 DEF AgentInv, AgentType
  <2> QED BY <2>1, <2>2, <2>3
          DEF AgentInv, AgentType, ProgramsInv, Stamped, programVars, pollVars
<1>12. CASE AppendLine
  <2>1. handling'.pc = "idle" /\ UNCHANGED <<now, programVars, pollVars, events>>
    BY <1>12 DEF AppendLine, Idle
  <2> QED BY <2>1 DEF AgentInv, AgentType, ProgramsInv, Stamped, programVars, pollVars
<1> QED BY <1>1, <1>2, <1>3, <1>4, <1>5, <1>6, <1>7, <1>8, <1>9, <1>10, <1>11, <1>12
        DEF Next

\* The agent starts with nothing seen and nobody at work.
LEMMA AgentStarts == Init => AgentInv
<1> SUFFICES ASSUME Init PROVE AgentInv
  OBVIOUS
<1>1. NoSweep \in {NoSweep} \union Sweep /\ handling.pc = "idle"
  BY DEF Init, Idle
<1>2. RateLimit \in Nat /\ RateLimit > 0
  BY WatcherAssumption
<1> QED BY <1>1, <1>2 DEF Init, AgentInv, AgentType, ProgramsInv, Stamped, Program, None

-----------------------------------------------------------------------------
(* Who is blamed.                                                          *)

\* Whatever was or will be found by a sweep from number n on is the program at
\* work, because it was at work when the sweep began.
SweptSince(n) ==
  /\ \A i \in DOMAIN sightings : sightings[i].no >= n => sightings[i].pid = running
  /\ \A t \in Threads :
       sweeping[t] \in Sweep /\ sweeping[t].no >= n => sweeping[t].listed = {running}

\* The program that was at work when the change was taken up still is.
SameWriter == running # None /\ handling.during = running

BlameInv ==
  /\ \A i \in DOMAIN sightings : sightings[i].no <= sweeps
  /\ \A t \in Threads : sweeping[t] \in Sweep => sweeping[t].no <= sweeps
  /\ handling.pc = "sweep" /\ SameWriter =>
       /\ SweptSince(sweeping["observer"].no)
       /\ sweeping["observer"].listed = {running}
  /\ handling.pc = "fresh" /\ SameWriter =>
       \E i \in DOMAIN sightings : SweptSince(sightings[i].no)
  /\ handling.pc = "append" /\ SameWriter =>
       \/ handling.limited \/ handling.overtaken
       \/ handling.writer \in {None, running}
  /\ BlameOfTheDead

\* One sighting more stands behind the others.
LEMMA SightingsGrow ==
  ASSUME AgentType, NEW s \in Sighting, sightings' = Append(sightings, s)
  PROVE  /\ DOMAIN sightings = 1 .. Len(sightings) /\ Len(sightings) \in Nat
         /\ DOMAIN sightings' = 1 .. Len(sightings) + 1
         /\ sightings'[Len(sightings) + 1] = s
         /\ \A i \in 1 .. Len(sightings) : sightings'[i] = sightings[i]
         /\ \A i \in DOMAIN sightings : i \in DOMAIN sightings'
BY DEF AgentType

\* One event more stands behind the others.
LEMMA EventsGrow ==
  ASSUME AgentType
  PROVE  /\ DOMAIN events = 1 .. Len(events) /\ Len(events) \in Nat
         /\ \A i \in DOMAIN events : events[i].at \in Nat
         /\ \A e : events' = Append(events, e) =>
              /\ DOMAIN events' = 1 .. Len(events) + 1
              /\ events'[Len(events) + 1] = e
              /\ \A i \in 1 .. Len(events) : events'[i] = events[i]
<1>1. /\ events \in Seq(Event) /\ Len(events) \in Nat
      /\ DOMAIN events = 1 .. Len(events)
  BY DEF AgentType
<1>2. \A i \in DOMAIN events : events[i].at \in Nat
  <2>1. \A i \in DOMAIN events : events[i] \in Event
    BY <1>1, ElementOfSeq
  <2>2. \A e \in Event : e.at \in Nat
    BY DEF Event
  <2> QED BY <2>1, <2>2
<1>3. ASSUME NEW e, events' = Append(events, e)
      PROVE  /\ DOMAIN events' = 1 .. Len(events) + 1
             /\ events'[Len(events) + 1] = e
             /\ \A i \in 1 .. Len(events) : events'[i] = events[i]
  <2>1. events \in Seq(Event \union {e}) /\ e \in Event \union {e}
    BY <1>1, SeqMonotonic
  <2>2. /\ events' \in Seq(Event \union {e}) /\ Len(events') = Len(events) + 1
        /\ events'[Len(events) + 1] = e
        /\ \A i \in 1 .. Len(events) : events'[i] = events[i]
    BY <1>3, <2>1, AppendProperties
  <2>3. DOMAIN events' = 1 .. Len(events')
    BY <2>2, LenProperties
  <2> QED BY <2>2, <2>3
<1> QED BY <1>1, <1>2, <1>3

\* A sighting carries the number of its sweep.
LEMMA SightingNumbers ==
  ASSUME AgentType
  PROVE  \A i \in DOMAIN sightings : sightings[i] \in Sighting /\ sightings[i].no \in Nat
<1>1. \A i \in DOMAIN sightings : sightings[i] \in Sighting
  <2>1. sightings \in Seq(Sighting) /\ DOMAIN sightings = 1 .. Len(sightings)
    BY DEF AgentType
  <2> QED BY <2>1, ElementOfSeq
<1>2. \A s \in Sighting : s.no \in Nat
  BY DEF Sighting
<1> QED BY <1>1, <1>2

\* The end of a sweep finds the program at work, when the sweep began under it.
LEMMA SweptIsKept ==
  ASSUME AgentInv, NEW t \in Threads, sweeping[t] \in Sweep, AppendSweep(t),
         running' = running, NEW n \in Nat, SweptSince(n)
  PROVE  SweptSince(n)'
<1>1. /\ sweeping' = [sweeping EXCEPT ![t] = NoSweep]
      /\ \/ sightings' = sightings
         \/ \E s \in Sighting :
              /\ sightings' = Append(sightings, s)
              /\ s.no = sweeping[t].no /\ s.pid \in sweeping[t].listed
  BY SweepAppends DEF AgentInv
<1>2. ASSUME NEW u \in Threads, sweeping'[u] \in Sweep
      PROVE  sweeping'[u] = sweeping[u]
  BY <1>1, <1>2, NoSweepIsNone DEF AgentInv, AgentType
<1>3. \A u \in Threads :
        sweeping'[u] \in Sweep /\ sweeping'[u].no >= n => sweeping'[u].listed = {running'}
  BY <1>2 DEF SweptSince
<1>4. CASE sightings' = sightings
  BY <1>3, <1>4 DEF SweptSince
<1>5. ASSUME NEW s \in Sighting, sightings' = Append(sightings, s),
             s.no = sweeping[t].no, s.pid \in sweeping[t].listed
      PROVE  SweptSince(n)'
  <2>1. s.no >= n => s.pid = running
    BY <1>5 DEF SweptSince
  <2>2. ASSUME NEW i \in DOMAIN sightings', sightings'[i].no >= n
        PROVE  sightings'[i].pid = running'
    <3>1. CASE i \in 1 .. Len(sightings)
      BY <1>5, <2>2, <3>1, SightingsGrow DEF AgentInv, SweptSince
    <3>2. CASE i = Len(sightings) + 1
      BY <1>5, <2>1, <2>2, <3>2, SightingsGrow DEF AgentInv
    <3> QED BY <1>5, <2>2, <3>1, <3>2, SightingsGrow DEF AgentInv
  <2> QED BY <1>3, <2>2 DEF SweptSince
<1> QED BY <1>1, <1>4, <1>5

\* A new sweep lists the program at work, so it finds nothing else either.
LEMMA SweptIsBegun ==
  ASSUME AgentInv, NEW t \in Threads, BeginSweep(t), running # None,
         UNCHANGED <<running, sightings>>, NEW n \in Nat, SweptSince(n)
  PROVE  SweptSince(n)'
<1>1. /\ sweeping'[t].listed = {running}
      /\ \A u \in Threads : u # t => sweeping'[u] = sweeping[u]
  BY SweepBegins DEF Listed, AgentInv
<1> QED BY <1>1 DEF SweptSince

\* Launches and exits leave no change with another program than it had: the one
\* at work is new, or nobody.
LEMMA ProgramsKeepBlame ==
  ASSUME AgentInv, BlameInv, Launch \/ Exit
  PROVE  BlameInv'
<1>1. UNCHANGED <<sightings, sweeping, sweeps, handling, events>>
  BY DEF Launch, Exit, pollVars
<1>2. Stamped => ~SameWriter'
  <2>1. SUFFICES ASSUME Stamped, SameWriter' PROVE FALSE
    OBVIOUS
  <2>2. handling.during = running' /\ running' # None
    BY <1>1, <2>1 DEF SameWriter
  <2>3. started[running'] > 0
    BY <2>1, <2>2 DEF AgentInv, ProgramsInv
  <2>4. Launch
    BY <2>2 DEF Exit
  <2> QED BY <2>3, <2>4 DEF Launch
<1> QED BY <1>1, <1>2 DEF BlameInv, BlameOfTheDead, Stamped

\* What touches neither the list of sightings nor the change in hand.
LEMMA OthersKeepBlame ==
  ASSUME BlameInv, UNCHANGED <<running, pollVars, handling, events>>
  PROVE  BlameInv'
BY DEF BlameInv, BlameOfTheDead, SameWriter, SweptSince, pollVars

\* The poll thread sweeps between any two steps of the observer.
LEMMA PollKeepsBlame ==
  ASSUME AgentInv, BlameInv, PollBegins \/ PollAppends
  PROVE  BlameInv'
<1> "poll" \in Threads /\ "observer" \in Threads /\ "poll" # "observer"
  BY DEF Threads
<1>a. /\ UNCHANGED <<running, handling, events>>
      /\ SameWriter' <=> SameWriter
      /\ BlameOfTheDead'
  BY DEF PollBegins, PollAppends, programVars, BlameInv, BlameOfTheDead, SameWriter
<1>1. CASE PollBegins
  <2>1. BeginSweep("poll") /\ sightings' = sightings
    BY <1>1 DEF PollBegins
  <2>2. /\ sweeps' = sweeps + 1 /\ sweeps \in Nat
        /\ sweeping'["poll"].no = sweeps + 1
        /\ \A u \in Threads : u # "poll" => sweeping'[u] = sweeping[u]
    BY <2>1, SweepBegins DEF AgentInv, AgentType
  <2>3. \A i \in DOMAIN sightings' : sightings'[i].no <= sweeps'
    <3>1. \A i \in DOMAIN sightings : sightings[i].no \in Nat /\ sightings[i].no <= sweeps
      BY SightingNumbers DEF BlameInv, AgentInv
    <3> QED BY <2>1, <2>2, <3>1
  <2>4. \A t \in Threads : sweeping'[t] \in Sweep => sweeping'[t].no <= sweeps'
    <3>1. \A t \in Threads : sweeping[t] \in Sweep => sweeping[t].no \in Nat
      BY DEF Sweep
    <3> QED BY <2>2, <3>1 DEF BlameInv
  <2>5. ASSUME handling.pc = "sweep", SameWriter
        PROVE  /\ SweptSince(sweeping["observer"].no)'
               /\ sweeping'["observer"].listed = {running}
    <3>1. sweeping["observer"] \in Sweep /\ sweeping["observer"].no \in Nat
      BY <2>5 DEF AgentInv, AgentType, Sweep
    <3>2. PICK n \in Nat : n = sweeping["observer"].no
      BY <3>1
    <3>3. SweptSince(n) /\ sweeping["observer"].listed = {running}
      BY <2>5, <3>2 DEF BlameInv
    <3>4. SweptSince(n)'
      BY <1>a, <2>1, <2>5, <3>3, SweptIsBegun DEF SameWriter
    <3> QED BY <2>2, <3>2, <3>3, <3>4
  <2>6. ASSUME handling.pc = "fresh", SameWriter
        PROVE  \E i \in DOMAIN sightings' : SweptSince(sightings[i].no)'
    <3>1. PICK i \in DOMAIN sightings : SweptSince(sightings[i].no)
      BY <2>6 DEF BlameInv
    <3>2. PICK n \in Nat : n = sightings[i].no
      BY SightingNumbers DEF AgentInv
    <3>3. SweptSince(n)'
      BY <1>a, <2>1, <2>6, <3>1, <3>2, SweptIsBegun DEF SameWriter
    <3> QED BY <2>1, <3>2, <3>3
  <2> QED BY <1>a, <2>3, <2>4, <2>5, <2>6 DEF BlameInv
<1>2. CASE PollAppends
  <2>1. AppendSweep("poll") /\ sweeping["poll"] \in Sweep
    BY <1>2 DEF PollAppends, AgentInv, AgentType
  <2>2. /\ sweeping' = [sweeping EXCEPT !["poll"] = NoSweep] /\ sweeps' = sweeps
        /\ \/ sightings' = sightings
           \/ \E s \in Sighting :
                sightings' = Append(sightings, s) /\ s.no = sweeping["poll"].no
    BY <2>1, SweepAppends DEF AgentInv
  <2>3. \A i \in DOMAIN sightings' : sightings'[i].no <= sweeps'
    <3>1. ASSUME NEW s \in Sighting, sightings' = Append(sightings, s),
                 s.no = sweeping["poll"].no
          PROVE  \A i \in DOMAIN sightings' : sightings'[i].no <= sweeps'
      <4>1. s.no <= sweeps
        BY <2>1, <3>1 DEF BlameInv
      <4>2. \A i \in 1 .. Len(sightings) + 1 :
              i \in 1 .. Len(sightings) \/ i = Len(sightings) + 1
        BY <3>1, SightingsGrow DEF AgentInv
      <4> QED BY <2>2, <3>1, <4>1, <4>2, SightingsGrow DEF AgentInv, BlameInv
    <3> QED BY <2>2, <3>1 DEF BlameInv
  <2>4. /\ sweeping'["observer"] = sweeping["observer"]
        /\ \A t \in Threads : sweeping'[t] \in Sweep => sweeping'[t].no <= sweeps'
    BY <2>2, NoSweepIsNone DEF AgentInv, AgentType, BlameInv, Threads
  <2>5. ASSUME handling.pc = "sweep", SameWriter
        PROVE  /\ SweptSince(sweeping["observer"].no)'
               /\ sweeping'["observer"].listed = {running}
    <3>1. sweeping["observer"] \in Sweep /\ sweeping["observer"].no \in Nat
      BY <2>5 DEF AgentInv, AgentType, Sweep
    <3>2. PICK n \in Nat : n = sweeping["observer"].no
      BY <3>1
    <3>3. SweptSince(n) /\ sweeping["observer"].listed = {running}
      BY <2>5, <3>2 DEF BlameInv
    <3>4. SweptSince(n)'
      BY <1>a, <2>1, <3>3, SweptIsKept
    <3> QED BY <2>4, <3>2, <3>3, <3>4
  <2>6. ASSUME handling.pc = "fresh", SameWriter
        PROVE  \E i \in DOMAIN sightings' : SweptSince(sightings[i].no)'
    <3>1. PICK i \in DOMAIN sightings : SweptSince(sightings[i].no)
      BY <2>6 DEF BlameInv
    <3>2. PICK n \in Nat : n = sightings[i].no
      BY SightingNumbers DEF AgentInv
    <3>3. SweptSince(n)'
      BY <1>a, <2>1, <3>1, <3>2, SweptIsKept
    <3>4. i \in DOMAIN sightings' /\ sightings'[i] = sightings[i]
      BY <2>2, SightingsGrow DEF AgentInv
    <3> QED BY <3>2, <3>3, <3>4
  <2> QED BY <1>a, <2>3, <2>4, <2>5, <2>6 DEF BlameInv
<1> QED BY <1>1, <1>2

\* A change taken up blames the program at work, or waits for a sweep that was
\* begun under it.
LEMMA TakingKeepsBlame ==
  ASSUME AgentInv, BlameInv, HandleKnown \/ HandleRateLimited \/ HandleSweeps
  PROVE  BlameInv'
<1> "observer" \in Threads
  BY DEF Threads
<1>1. CASE HandleKnown \/ HandleRateLimited
  <2>1. /\ handling'.pc = "append"
        /\ handling'.limited \/ handling'.writer = running
        /\ UNCHANGED <<running, sightings, sweeping, sweeps, events>>
    BY <1>1 DEF HandleKnown, HandleRateLimited, Take, StillRunning, programVars, pollVars
  <2> QED BY <2>1 DEF BlameInv, BlameOfTheDead
<1>2. CASE HandleSweeps
  <2>1. /\ BeginSweep("observer") /\ handling'.pc = "sweep" /\ handling'.during = running
        /\ UNCHANGED <<running, sightings, events>>
    BY <1>2 DEF HandleSweeps, Take, programVars
  <2>2. /\ sweeps' = sweeps + 1 /\ sweeps \in Nat
        /\ sweeping'["observer"].no = sweeps + 1 /\ sweeping'["observer"].listed = Listed
        /\ \A u \in Threads : u # "observer" => sweeping'[u] = sweeping[u]
    BY <2>1, SweepBegins DEF AgentInv, AgentType
  <2>3. \A i \in DOMAIN sightings : sightings[i].no \in Nat /\ sightings[i].no <= sweeps
    BY SightingNumbers DEF BlameInv, AgentInv
  <2>4. \A t \in Threads :
          sweeping[t] \in Sweep => sweeping[t].no \in Nat /\ sweeping[t].no <= sweeps
    BY DEF BlameInv, Sweep
  <2>5. /\ \A i \in DOMAIN sightings' : sightings'[i].no <= sweeps'
        /\ \A t \in Threads : sweeping'[t] \in Sweep => sweeping'[t].no <= sweeps'
    BY <2>1, <2>2, <2>3, <2>4
  <2>6. ASSUME running # None
        PROVE  /\ SweptSince(sweeping["observer"].no)'
               /\ sweeping'["observer"].listed = {running}
    <3>1. sweeping'["observer"].listed = {running}
      BY <2>2, <2>6 DEF Listed
    <3>2. \A i \in DOMAIN sightings' : ~(sightings'[i].no >= sweeps + 1)
      BY <2>1, <2>2, <2>3
    <3>3. \A t \in Threads : t # "observer" =>
            ~(sweeping'[t] \in Sweep /\ sweeping'[t].no >= sweeps + 1)
      BY <2>2, <2>4
    <3> QED BY <2>1, <2>2, <3>1, <3>2, <3>3 DEF SweptSince
  <2> QED BY <2>1, <2>5, <2>6 DEF BlameInv, BlameOfTheDead, SameWriter
<1> QED BY <1>1, <1>2

\* The fallback sweep has found the program that was at work when the change
\* was taken up, if it still is; nothing later in number says otherwise.
LEMMA FallbackKeepsBlame ==
  ASSUME AgentInv, BlameInv, FallbackAppends
  PROVE  BlameInv'
<1>1. /\ AppendSweep("observer") /\ "observer" \in Threads /\ handling.pc = "sweep"
      /\ sweeping["observer"] \in Sweep /\ handling \in Hand
  BY DEF FallbackAppends, Threads, AgentInv, AgentType, Stamped
<1>2. /\ handling'.pc = "fresh" /\ handling'.during = handling.during
      /\ UNCHANGED <<running, events>>
  BY <1>1 DEF FallbackAppends, programVars, Hand
<1>3. /\ sweeping' = [sweeping EXCEPT !["observer"] = NoSweep] /\ sweeps' = sweeps
      /\ \/ sightings' = sightings /\ running \notin sweeping["observer"].listed
         \/ \E s \in Sighting :
              sightings' = Append(sightings, s) /\ s.no = sweeping["observer"].no
  BY <1>1, SweepAppends DEF AgentInv
<1>4. \A i \in DOMAIN sightings' : sightings'[i].no <= sweeps'
  <2>1. ASSUME NEW s \in Sighting, sightings' = Append(sightings, s),
               s.no = sweeping["observer"].no
        PROVE  \A i \in DOMAIN sightings' : sightings'[i].no <= sweeps'
    <3>1. s.no <= sweeps
      BY <1>1, <2>1 DEF BlameInv
    <3>2. \A i \in 1 .. Len(sightings) + 1 :
            i \in 1 .. Len(sightings) \/ i = Len(sightings) + 1
      BY <2>1, SightingsGrow DEF AgentInv
    <3> QED BY <1>3, <2>1, <3>1, <3>2, SightingsGrow DEF AgentInv, BlameInv
  <2> QED BY <1>3, <2>1 DEF BlameInv
<1>5. \A t \in Threads : sweeping'[t] \in Sweep => sweeping'[t].no <= sweeps'
  BY <1>3, NoSweepIsNone DEF AgentInv, AgentType, BlameInv
<1>6. ASSUME SameWriter'
      PROVE  \E i \in DOMAIN sightings' : SweptSince(sightings[i].no)'
  <2>1. SameWriter
    BY <1>2, <1>6 DEF SameWriter
  <2>2. PICK n \in Nat : n = sweeping["observer"].no
    BY <1>1 DEF Sweep
  <2>3. SweptSince(n) /\ sweeping["observer"].listed = {running}
    BY <1>1, <2>1, <2>2 DEF BlameInv
  <2>4. SweptSince(n)'
    BY <1>1, <1>2, <2>3, SweptIsKept
  <2>5. PICK s \in Sighting : sightings' = Append(sightings, s) /\ s.no = n
    BY <1>3, <2>2, <2>3
  <2>6. Len(sightings) + 1 \in DOMAIN sightings' /\ sightings'[Len(sightings) + 1].no = n
    BY <2>5, SightingsGrow DEF AgentInv
  <2> QED BY <2>4, <2>6
<1> QED BY <1>2, <1>4, <1>5, <1>6 DEF BlameInv, BlameOfTheDead

\* The newest sighting is the program at work, unless an older sweep's stands
\* behind the fallback's.
LEMMA FreshKeepsBlame ==
  ASSUME AgentInv, BlameInv, TakeFresh
  PROVE  BlameInv'
<1>1. /\ handling.pc = "fresh" /\ handling \in Hand
      /\ handling' = [handling EXCEPT !.pc = "append",
           !.writer = IF StillRunning(WriterAtNow) \/ @ = None THEN WriterAtNow ELSE @,
           !.overtaken = Overtaken]
      /\ UNCHANGED <<running, sightings, sweeping, sweeps, events>>
  BY DEF TakeFresh, AgentInv, AgentType, Stamped, programVars, pollVars
<1>2. /\ handling'.pc = "append" /\ handling'.during = handling.during
      /\ handling'.overtaken = Overtaken
      /\ StillRunning(WriterAtNow) => handling'.writer = WriterAtNow
  <2> HIDE DEF Overtaken, WriterAtNow, StillRunning
  <2> QED BY <1>1 DEF Hand
<1>3. ASSUME SameWriter', ~Overtaken
      PROVE  handling'.writer = running
  <2>1. SameWriter
    BY <1>1, <1>2, <1>3 DEF SameWriter
  <2>2. PICK i \in DOMAIN sightings : SweptSince(sightings[i].no)
    BY <1>1, <2>1 DEF BlameInv
  <2>3. /\ sightings # <<>> /\ Len(sightings) \in DOMAIN sightings
        /\ \A j \in DOMAIN sightings : sightings[j].no \in Nat
    BY <2>2, SightingNumbers DEF AgentInv, AgentType
  <2>4. sightings[Len(sightings)].no >= sightings[i].no
    BY <1>3, <2>3 DEF Overtaken
  <2>5. WriterAtNow = running
    BY <2>2, <2>3, <2>4 DEF SweptSince, WriterAtNow
  <2> QED BY <1>2, <2>1, <2>5 DEF StillRunning, SameWriter
<1> QED BY <1>1, <1>2, <1>3 DEF BlameInv, BlameOfTheDead

\* The event takes its blame from the change in hand.
LEMMA RecordKeepsBlame ==
  ASSUME AgentInv, BlameInv, Record \/ AppendLine
  PROVE  BlameInv'
<1>1. CASE Record
  <2>1. /\ handling \in Hand /\ handling.pc = "append" /\ handling'.pc = "log"
        /\ UNCHANGED <<running, sightings, sweeping, sweeps>>
    BY <1>1 DEF Record, AgentInv, AgentType, Stamped, programVars, pollVars
  <2> DEFINE wrong == /\ handling.during # None /\ handling.during = running
                      /\ handling.writer \notin {None, running}
  <2>a. PICK e : /\ events' = Append(events, e)
                 /\ e = [at |-> handling.at, pid |-> handling.writer, stale |-> wrong,
                         swept |-> handling.swept, limited |-> handling.limited,
                         overtaken |-> handling.overtaken]
    BY <1>1, Zenon DEF Record
  <2>2. /\ e.stale = wrong
        /\ e.limited = handling.limited /\ e.overtaken = handling.overtaken
    <3> HIDE DEF wrong
    <3> QED BY <2>a
  <2>3. e.stale => e.limited \/ e.overtaken
    BY <2>1, <2>2 DEF BlameInv, SameWriter
  <2>4. /\ DOMAIN events' = 1 .. Len(events) + 1 /\ DOMAIN events = 1 .. Len(events)
        /\ events'[Len(events) + 1] = e
        /\ \A i \in 1 .. Len(events) : events'[i] = events[i]
    BY <2>a, EventsGrow DEF AgentInv
  <2>5. \A i \in 1 .. Len(events) + 1 : i \in 1 .. Len(events) \/ i = Len(events) + 1
    BY EventsGrow DEF AgentInv
  <2>6. BlameOfTheDead'
    BY <2>3, <2>4, <2>5 DEF BlameInv, BlameOfTheDead
  <2> QED BY <2>1, <2>6 DEF BlameInv
<1>2. CASE AppendLine
  <2>1. handling'.pc = "idle" /\ UNCHANGED <<running, sightings, sweeping, sweeps, events>>
    BY <1>2 DEF AppendLine, Idle, programVars, pollVars
  <2> QED BY <2>1 DEF BlameInv, BlameOfTheDead
<1> QED BY <1>1, <1>2

(* An event blames a program that has exited, with another at work since before
   its stamp, only when the rate limit forbade a sweep, or when the poll thread
   appended an older sweep behind the fallback's. *)
THEOREM BlameIsAsSwept == Spec => []BlameOfTheDead
<1>1. Init => AgentInv /\ BlameInv
  <2> SUFFICES ASSUME Init PROVE BlameInv
    BY AgentStarts
  <2>1. handling.pc = "idle" /\ sightings = <<>> /\ events = <<>> /\ sweeps = 0
        /\ \A t \in Threads : sweeping[t] = NoSweep
    BY DEF Init, Idle
  <2> QED BY <2>1, NoSweepIsNone DEF BlameInv, BlameOfTheDead
<1>2. AgentInv /\ BlameInv /\ [Next]_vars => (AgentInv /\ BlameInv)'
  <2> SUFFICES ASSUME AgentInv, BlameInv, [Next]_vars PROVE BlameInv'
    BY AgentStep
  <2>1. CASE Tick \/ Change \/ KillAgent \/ AppendPart \/ UNCHANGED vars
    BY <2>1, OthersKeepBlame DEF Tick, Change, KillAgent, AppendPart, vars, programVars
  <2>2. CASE Rewind \/ Drain \/ \E p \in Program : ReadWindow(p)
    BY <2>2, OthersKeepBlame DEF Rewind, Drain, ReadWindow, programVars
  <2>3. CASE Launch \/ Exit
    BY <2>3, ProgramsKeepBlame
  <2>4. CASE PollBegins \/ PollAppends
    BY <2>4, PollKeepsBlame
  <2>5. CASE HandleKnown \/ HandleRateLimited \/ HandleSweeps
    BY <2>5, TakingKeepsBlame
  <2>6. CASE FallbackAppends
    BY <2>6, FallbackKeepsBlame
  <2>7. CASE TakeFresh
    BY <2>7, FreshKeepsBlame
  <2>8. CASE Record \/ AppendLine
    BY <2>8, RecordKeepsBlame
  <2> QED BY <2>1, <2>2, <2>3, <2>4, <2>5, <2>6, <2>7, <2>8 DEF Next
<1>3. BlameInv => BlameOfTheDead
  BY DEF BlameInv
<1> QED BY <1>1, <1>2, <1>3, PTL DEF Spec

-----------------------------------------------------------------------------
(* What a run is given.                                                    *)

\* The events of a run's window that it was not given.
Missing(p) == {i \in DOMAIN events : InWindow(events[i], p)} \ window[p].given

\* Once read, a run misses nothing and may still lose the change in hand; or it
\* misses one, and the change in hand was stamped after its window.
WindowInv ==
  \A p \in Program : window[p] # Unread =>
    /\ ended[p] > 0 /\ now > ended[p] + Settle
    /\ \/ Missing(p) = {}
       \/ /\ \E i \in DOMAIN events : Missing(p) \subseteq {i}
          /\ Stamped => handling.at > ended[p] + Settle

\* Nothing happens to a program that has exited.
LEMMA ExitIsFinal ==
  ASSUME AgentInv, [Next]_vars, NEW p \in Program, ended[p] > 0
  PROVE  started'[p] = started[p] /\ ended'[p] = ended[p]
<1>1. started[p] > 0 /\ (running = p => FALSE) /\ ended[p] \in Nat /\ started[p] \in Nat
  BY DEF AgentInv, AgentType, ProgramsInv, Program, None
<1>2. CASE Launch
  BY <1>1, <1>2 DEF Launch, AgentInv, AgentType
<1>3. CASE Exit
  BY <1>1, <1>3 DEF Exit, AgentInv, AgentType
<1>4. CASE UNCHANGED programVars
  BY <1>4 DEF programVars
<1>5. Launch \/ Exit \/ UNCHANGED programVars
  BY DEF Next, Tick, Change, KillAgent, PollBegins, PollAppends, HandleKnown,
     HandleRateLimited, HandleSweeps, FallbackAppends, TakeFresh, Record, AppendLine,
     AppendPart, Rewind, Drain, ReadWindow, vars
<1> QED BY <1>2, <1>3, <1>4, <1>5

\* As long as no event is recorded and no run is read, what is missing stays;
\* a change taken up now is stamped after the windows of the runs read.
LEMMA OthersKeepWindow ==
  ASSUME AgentInv, WindowInv, [Next]_vars, UNCHANGED <<events, window>>, now' \in Nat,
         now' >= now,
         Stamped' => (Stamped /\ handling'.at = handling.at) \/ handling'.at = now
  PROVE  WindowInv'
<1> SUFFICES ASSUME NEW p \in Program, window[p] # Unread
             PROVE  /\ ended'[p] > 0 /\ now' > ended'[p] + Settle
                    /\ \/ Missing(p)' = {}
                       \/ /\ \E i \in DOMAIN events' : Missing(p)' \subseteq {i}
                          /\ Stamped' => handling'.at > ended'[p] + Settle
  BY DEF WindowInv
<1>1. ended[p] > 0 /\ now > ended[p] + Settle
  BY DEF WindowInv
<1>2. started'[p] = started[p] /\ ended'[p] = ended[p]
  BY <1>1, ExitIsFinal
<1>3. Missing(p)' = Missing(p)
  BY <1>2 DEF Missing, InWindow
<1>4. now' > ended'[p] + Settle
  <2>1. ended[p] \in Nat /\ Settle \in Nat /\ now \in Nat
    BY WatcherAssumption DEF AgentInv, AgentType
  <2> QED BY <1>1, <1>2, <2>1
<1>5. CASE Missing(p) = {}
  BY <1>1, <1>2, <1>3, <1>4, <1>5
<1>6. CASE Missing(p) # {}
  <2>1. /\ \E i \in DOMAIN events : Missing(p) \subseteq {i}
        /\ Stamped => handling.at > ended[p] + Settle
    BY <1>6 DEF WindowInv
  <2> QED BY <1>1, <1>2, <1>3, <1>4, <2>1
<1> QED BY <1>5, <1>6

\* An event recorded after a run was read is missing from it only when the
\* change was in hand at the read.
LEMMA RecordKeepsWindow ==
  ASSUME AgentInv, WindowInv, Record
  PROVE  WindowInv'
<1> SUFFICES ASSUME NEW p \in Program, window[p] # Unread
             PROVE  /\ ended'[p] > 0 /\ now' > ended'[p] + Settle
                    /\ \/ Missing(p)' = {}
                       \/ /\ \E i \in DOMAIN events' : Missing(p)' \subseteq {i}
                          /\ Stamped' => handling'.at > ended'[p] + Settle
  BY DEF WindowInv, Record, readerVars
<1>1. /\ ended[p] > 0 /\ now > ended[p] + Settle
      /\ UNCHANGED <<now, started, ended, window>> /\ Stamped /\ ~Stamped'
      /\ handling.at \in Nat /\ ended[p] \in Nat /\ Settle \in Nat
  BY WatcherAssumption
     DEF WindowInv, Record, programVars, readerVars, Stamped, AgentInv, AgentType, Hand
<1>2. PICK e : events' = Append(events, e) /\ e.at = handling.at
  BY DEF Record
<1>3. /\ DOMAIN events' = 1 .. Len(events) + 1 /\ DOMAIN events = 1 .. Len(events)
      /\ events'[Len(events) + 1] = e
      /\ \A i \in 1 .. Len(events) : events'[i] = events[i]
      /\ Len(events) \in Nat
  BY <1>2, EventsGrow DEF AgentInv
<1>4. \A i \in 1 .. Len(events) + 1 : i \in 1 .. Len(events) \/ i = Len(events) + 1
  BY <1>3
<1>5. Missing(p)' \subseteq Missing(p) \union {Len(events) + 1}
  BY <1>1, <1>3, <1>4 DEF Missing, InWindow
<1>6. CASE Missing(p) = {}
  <2>1. Len(events) + 1 \in DOMAIN events' /\ Missing(p)' \subseteq {Len(events) + 1}
    BY <1>3, <1>5, <1>6
  <2> QED BY <1>1, <2>1
<1>7. CASE Missing(p) # {}
  <2>1. PICK i \in DOMAIN events : Missing(p) \subseteq {i}
    BY <1>7 DEF WindowInv
  <2>2. handling.at > ended[p] + Settle
    BY <1>1, <1>7 DEF WindowInv
  <2>3. ~InWindow(e, p)'
    BY <1>1, <1>2, <2>2 DEF InWindow
  <2>4. Len(events) + 1 \notin Missing(p)'
    BY <1>3, <2>3 DEF Missing
  <2>5. Missing(p)' \subseteq {i} /\ i \in DOMAIN events'
    BY <1>3, <1>5, <2>1, <2>4
  <2> QED BY <1>1, <2>5
<1> QED BY <1>6, <1>7

\* A reader sees all events but the one whose line is being written.
LEMMA ReadKeepsWindow ==
  ASSUME AgentInv, CursorInv, WindowInv, NEW q \in Program, ReadWindow(q),
         DOMAIN window = Program
  PROVE  WindowInv'
<1>1. /\ UNCHANGED <<now, started, ended, handling, events>>
      /\ Stamped' <=> Stamped
      /\ ended[q] > 0 /\ now > ended[q] + Settle
      /\ window' = [window EXCEPT ![q] =
           [read |-> TRUE, given |-> {i \in DOMAIN ReadAll : InWindow(ReadAll[i], q)}]]
  BY DEF ReadWindow, Settled, programVars, Stamped
<1>2. ASSUME NEW p \in Program, p # q, window'[p] # Unread
      PROVE  /\ ended'[p] > 0 /\ now' > ended'[p] + Settle
             /\ \/ Missing(p)' = {}
                \/ /\ \E i \in DOMAIN events' : Missing(p)' \subseteq {i}
                   /\ Stamped' => handling'.at > ended'[p] + Settle
  <2>1. window'[p] = window[p]
    BY <1>1, <1>2
  <2>2. Missing(p)' = Missing(p)
    BY <1>1, <2>1 DEF Missing, InWindow
  <2> QED BY <1>1, <1>2, <2>1, <2>2 DEF WindowInv
<1>3. /\ Readable \in Nat /\ Readable <= Len(events)
      /\ Len(ReadAll) = Readable /\ ReadAll = SubSeq(events, 1, Readable)
  BY ReadAllIsPrefix
<1>4. DOMAIN events = 1 .. Len(events) /\ Len(events) \in Nat
  BY EventsGrow DEF AgentInv
<1>5. DOMAIN ReadAll = 1 .. Readable /\ \A i \in 1 .. Readable : ReadAll[i] = events[i]
  <2>1. \A i \in 1 .. Readable : events[i] \in Event
    <3>1. events \in Seq(Event)
      BY DEF AgentInv, AgentType
    <3>2. \A i \in 1 .. Len(events) : events[i] \in Event
      BY <3>1, ElementOfSeq
    <3> QED BY <1>3, <1>4, <3>2
  <2>2. /\ ReadAll \in Seq(Event)
        /\ \A i \in 1 .. Readable - 1 + 1 : ReadAll[i] = events[1 + i - 1]
    BY <1>3, <2>1, SubSeqProperties
  <2>3. DOMAIN ReadAll = 1 .. Len(ReadAll)
    BY <2>2, LenProperties
  <2> QED BY <1>3, <1>4, <2>2, <2>3
<1>6. window'[q].given = {i \in 1 .. Readable : InWindow(events[i], q)}
  BY <1>1, <1>5
<1>7. Missing(q)' \subseteq {i \in 1 .. Len(events) : i \notin 1 .. Readable}
  BY <1>1, <1>4, <1>6 DEF Missing, InWindow
<1>8. CASE Readable = Len(events)
  <2>1. Missing(q)' = {}
    BY <1>7, <1>8
  <2> QED BY <1>1, <1>2, <2>1 DEF WindowInv
<1>9. CASE Readable # Len(events)
  <2>1. handling.pc = "log" /\ Readable = Len(events) - 1
    BY <1>9 DEF Readable
  <2>2. Missing(q)' \subseteq {Len(events)} /\ Len(events) \in DOMAIN events
    BY <1>3, <1>4, <1>7, <2>1
  <2>3. ~Stamped'
    BY <1>1, <2>1 DEF Stamped
  <2> QED BY <1>1, <1>2, <2>2, <2>3 DEF WindowInv
<1> QED BY <1>8, <1>9

RunInv == AgentInv /\ CursorInv /\ DOMAIN window = Program /\ WindowInv

\* Every step keeps what the runs read were given.
LEMMA RunStep ==
  ASSUME RunInv, [Next]_vars
  PROVE  RunInv'
<1> USE DEF RunInv
<1>1. AgentInv' /\ CursorInv'
  BY AgentStep, CursorStep
<1>2. CASE \E p \in Program : ReadWindow(p)
  <2>1. PICK p \in Program : ReadWindow(p)
    BY <1>2
  <2>2. DOMAIN window' = Program
    BY <2>1 DEF ReadWindow
  <2> QED BY <1>1, <2>1, <2>2, ReadKeepsWindow
<1>3. CASE Record
  BY <1>1, <1>3, RecordKeepsWindow DEF Record, readerVars
<1>4. CASE Tick \/ Launch \/ Exit \/ Change \/ KillAgent \/ PollBegins \/ PollAppends
           \/ Rewind \/ Drain \/ AppendPart \/ UNCHANGED vars
  <2>1. /\ UNCHANGED <<events, window, handling>> /\ (now' = now \/ now' = now + 1)
    BY <1>4 DEF Tick, Launch, Exit, Change, KillAgent, PollBegins, PollAppends, Rewind,
       Drain, AppendPart, vars, readerVars
  <2>2. now' \in Nat /\ now' >= now
    BY <2>1 DEF AgentInv, AgentType
  <2> QED BY <1>1, <2>1, <2>2, OthersKeepWindow DEF Stamped
<1>5. CASE \/ HandleKnown \/ HandleRateLimited \/ HandleSweeps
           \/ FallbackAppends \/ TakeFresh \/ AppendLine
  <2>1. UNCHANGED <<events, window, now>>
    BY <1>5 DEF HandleKnown, HandleRateLimited, HandleSweeps, FallbackAppends, TakeFresh,
       AppendLine, readerVars
  <2>2. now' \in Nat /\ now' >= now
    BY <2>1 DEF AgentInv, AgentType
  <2>3. Stamped' => (Stamped /\ handling'.at = handling.at) \/ handling'.at = now
    <3>1. CASE HandleKnown \/ HandleRateLimited \/ HandleSweeps
      BY <3>1 DEF HandleKnown, HandleRateLimited, HandleSweeps, Take
    <3>2. CASE FallbackAppends \/ TakeFresh
      <4>1. Stamped /\ handling \in Hand
        BY <3>2 DEF FallbackAppends, TakeFresh, Stamped, AgentInv, AgentType
      <4>2. handling'.at = handling.at
        BY <3>2, <4>1 DEF FallbackAppends, TakeFresh, Hand
      <4> QED BY <4>1, <4>2
    <3>3. CASE AppendLine
      BY <3>3 DEF AppendLine, Stamped, Idle
    <3> QED BY <1>5, <3>1, <3>2, <3>3
  <2> QED BY <1>1, <2>1, <2>2, <2>3, OthersKeepWindow
<1> QED BY <1>2, <1>3, <1>4, <1>5 DEF Next

(* A run is given every event of its window but one at most, wherever the
   observer and its last line stand when the engine reads the log. *)
THEOREM RunAlwaysMissesOneAtMost == Spec => []RunMissesOneAtMost
<1>1. Init => RunInv
  <2> SUFFICES ASSUME Init PROVE RunInv
    OBVIOUS
  <2>1. AgentInv /\ CursorInv
    BY AgentStarts, CursorStarts
  <2>2. DOMAIN window = Program /\ \A p \in Program : window[p] = Unread
    BY DEF Init
  <2> QED BY <2>1, <2>2 DEF RunInv, WindowInv
<1>2. RunInv /\ [Next]_vars => RunInv'
  BY RunStep
<1>3. RunInv => RunMissesOneAtMost
  <2> SUFFICES ASSUME RunInv, NEW p \in Program, window[p] # Unread
               PROVE  Cardinality(Missing(p)) <= 1
    BY DEF RunMissesOneAtMost, Missing
  <2>1. CASE Missing(p) = {}
    BY <2>1, FS_EmptySet
  <2>2. CASE Missing(p) # {}
    <3>1. PICK i : Missing(p) \subseteq {i}
      BY <2>2 DEF RunInv, WindowInv
    <3>2. IsFiniteSet({i}) /\ Cardinality({i}) = 1
      BY FS_Singleton
    <3>3. Cardinality(Missing(p)) <= Cardinality({i})
      BY <3>1, <3>2, FS_Subset
    <3> QED BY <3>2, <3>3
  <2> QED BY <2>1, <2>2
<1> QED BY <1>1, <1>2, <1>3, PTL DEF Spec

-----------------------------------------------------------------------------
(* The types.                                                              *)

\* The variables no other invariant speaks of.
RestType ==
  /\ pending \in Nat /\ lastFallback \in Nat
  /\ torn \in {"none", "cut", "whole"} /\ alive \in BOOLEAN
  /\ reader \in {"attack", "engine"}

\* Each step keeps their types; the observer handles only what is pending.
LEMMA RestStep ==
  ASSUME AgentInv, RestType, [Next]_vars
  PROVE  RestType'
<1> USE DEF RestType
<1>1. CASE HandleKnown \/ HandleRateLimited \/ HandleSweeps
  BY <1>1 DEF HandleKnown, HandleRateLimited, HandleSweeps, Take, logVars, readerVars,
     AgentInv, AgentType
<1>2. CASE Tick \/ Change \/ KillAgent
  <2>1. /\ pending' = pending \/ pending' = pending + 1
        /\ alive' = alive \/ alive' = FALSE
        /\ UNCHANGED <<lastFallback, torn, reader>>
    BY <1>2 DEF Tick, Change, KillAgent, logVars, readerVars
  <2>2. pending' \in Nat
    BY <2>1
  <2>3. alive' \in BOOLEAN
    BY <2>1, Zenon
  <2> QED BY <2>1, <2>2, <2>3
<1>5. CASE Launch \/ Exit \/ PollBegins \/ PollAppends
  <2>1. UNCHANGED <<pending, lastFallback, torn, alive, reader>>
    BY <1>5 DEF Launch, Exit, PollBegins, PollAppends, logVars, readerVars
  <2> QED BY <2>1
<1>3. CASE FallbackAppends \/ TakeFresh \/ Record \/ AppendLine \/ AppendPart
  BY <1>3 DEF FallbackAppends, TakeFresh, Record, AppendLine, AppendPart, logVars,
     readerVars
<1>4. CASE Rewind \/ Drain \/ (\E p \in Program : ReadWindow(p)) \/ UNCHANGED vars
  BY <1>4 DEF Rewind, Drain, ReadWindow, logVars, readerVars, vars
<1> QED BY <1>1, <1>2, <1>3, <1>4, <1>5 DEF Next

\* Every variable of the agent, its log and its readers keeps its type.
THEOREM WatcherTypeCorrect == Spec => []TypeOK
<1> DEFINE Inv == AgentInv /\ CursorInv /\ RestType
<1>1. Init => Inv
  BY AgentStarts, CursorStarts, WatcherAssumption DEF Init, RestType
<1>2. Inv /\ [Next]_vars => Inv'
  BY AgentStep, CursorStep, RestStep
<1>3. Inv => TypeOK
  BY DEF AgentInv, AgentType, CursorInv, RestType, TypeOK
<1> QED BY <1>1, <1>2, <1>3, PTL DEF Spec

=============================================================================
