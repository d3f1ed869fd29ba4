SPECIFICATION RunSpec
CONSTANTS
  csv = csv
  other = other
  locked = locked
  db = db
  day1 = day1
  day2 = day2
  cipher = cipher
  Absent = Absent
  NoPath = NoPath
  Unreadable = Unreadable
  NoBaseline = NoBaseline
  Paths <- MCPaths
  Versions <- MCVersions
  Rank <- MCRank
  Suffix <- MCSuffix
  Stem <- MCStem
  Backups = {db}
  HeaderOk <- MCHeaderOk
  HighEntropy <- MCHighEntropy
  Cards <- MCCards
  ChangedPct = 50
  DropPct = 2
  Rewrites <- MCRewrites
  FirstShare <- MCFirstShare
  Quiet <- MCQuiet
  Cipher = cipher
  QuietDays = 2
  MaxPulls = 3
  MaxEdits = 3
  MaxStarts = 1
  MaxStalls = 1
  MaxRestarts = 0
INVARIANTS
  PassedMeansRecovered
  FailsForAReason
CHECK_DEADLOCK FALSE
