SPECIFICATION Spec
CONSTANTS
  Programs = 2
  Settle = 1
  RateLimit = 1
  MaxTime = 3
  MaxChanges = 2
  MaxSweeps = 2
INVARIANTS
  CursorReadsOnce
  RunMissesOneAtMost
  BlameOfTheDead
CHECK_DEADLOCK FALSE
