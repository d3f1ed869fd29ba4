SPECIFICATION Spec
CONSTANTS
  ShopCount = 5
  LastNight = 4
  MonthStart = 2
  TopUps = {1, 3}
  ShopCloses = 2
  Opens <- MCOpens
  Delays = {1}
  RunsFor = {1, 2}
  ArchiveLimit = 2
  ArchiveMost = 3
  ChangedPct = 50
INVARIANTS
  JobsDoNotOverlap
  NothingIsLost
  OnlyCleanUpsAreSuspect
CHECK_DEADLOCK FALSE
