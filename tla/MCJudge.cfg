SPECIFICATION Spec
CONSTANTS
  csv = csv
  locked = locked
  decoy = decoy
  kept = kept
  db = db
  beat = beat
  parent = parent
  child = child
  NoFile = NoFile
  NoPid = NoPid
  Jobs = {"export"}
  Programs = {"old", "new"}
  Types = {".csv", ".locked"}
  Readable = {".csv"}
  MinRuns = 1
  Files <- MCFiles
  InData = {db}
  Decoys = {decoy}
  Heartbeat = beat
  HabitDb = db
  Renamed <- MCRenamed
  TypeOf <- MCTypeOf
  FirstFiles <- MCFirst
  FirstReadOnly = {kept}
  Writes <- MCWrites
  Deletes = {decoy}
  Pids = {parent, child}
  Children <- MCChildren
  Burst = 1
  MaxEvents = 2
  MaxSteps = 4
  MaxUndos = 1
INVARIANTS
  CardsAreOneProgram
  PausesAreRecorded
  LocksAreAccounted
  IncidentPausesAWriter
PROPERTIES
  ChangeIsCalled
  KnownGoodStaysGood
CHECK_DEADLOCK FALSE
