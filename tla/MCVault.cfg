SPECIFICATION Spec
CONSTANTS
  csv = csv
  locked = locked
  db = db
  day = day
  night = night
  lossy = lossy
  cipher = cipher
  Absent = Absent
  NoPath = NoPath
  Unreadable = Unreadable
  NoBaseline = NoBaseline
  Paths <- MCPaths
  Versions <- MCVersions
  Rank <- MCRank
  Suffix <- MCSuffix
  Stem <- MCStem
  Backups = {db}
  HeaderOk <- MCHeaderOk
  HighEntropy <- MCHighEntropy
  Cards <- MCCards
  ChangedPct = 50
  DropPct = 2
  Rewrites <- MCRewrites
  FirstShare <- MCFirstShare
  MaxPulls = 3
  MaxEdits = 2
  MaxStarts = 1
  MaxStalls = 0
  MaxRestarts = 0
INVARIANTS
  PinIsClean
  SuspectHoldsTheNextPull
  HeldThroughoutKeepsPin
  AlertsAreTheChanges
PROPERTIES
  CleanPointTakesNoDamage
CHECK_DEADLOCK FALSE
