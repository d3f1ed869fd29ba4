SPECIFICATION FairSpec
CONSTANTS
  csv = csv
  locked = locked
  db = db
  day = day
  night = night
  lossy = lossy
  cipher = cipher
  Absent = Absent
  NoPath = NoPath
  Unreadable = Unreadable
  NoBaseline = NoBaseline
  Paths <- MCPaths
  Versions <- MCVersions
  Rank <- MCRank
  Suffix <- MCSuffix
  Stem <- MCStem
  Backups = {db}
  HeaderOk <- MCHeaderOk
  HighEntropy <- MCHighEntropy
  Cards <- MCCards
  ChangedPct = 50
  DropPct = 2
  Rewrites <- MCRewrites
  FirstShare <- MCFirstShare
  MaxPulls = 2
  MaxEdits = 1
  MaxStarts = 1
  MaxStalls = 0
  MaxRestarts = 1
INVARIANTS
  VerdictFollowsWitnesses
PROPERTIES
  ImplementsPromise
  KilledWatcherIsNoticed
  ProtectModeLetsGo
CHECK_DEADLOCK FALSE
