SPECIFICATION FairSpec
CONSTANTS
  FileCount = 2
  Share = {1, 2}
  Decoy = {2}
  BurstLimit = 1
  Burst = 1
  Quiet = 2
  Deadline = 4
  Delay = 2
  MaxCalls = 2
INVARIANTS
  AttackIsCaught
  NothingSurvives
  RecordsAreAsAgreed
  LostOnesWereInterrupted
PROPERTY CallEnds
CHECK_DEADLOCK FALSE
