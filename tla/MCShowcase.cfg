SPECIFICATION ShowcaseSpec
CONSTANTS
  Threads = {t1, t2}
  MaxStarts = 3
  MaxDeaths = 1
  MaxDemos = 3
INVARIANTS
  OneEngine
  PageTellsOfOneDemo
PROPERTY EnginesEnd
CHECK_DEADLOCK FALSE
