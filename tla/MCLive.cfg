SPECIFICATION FairSpec
CONSTANTS
  Modes = {FALSE, TRUE}
  LearningDays = 1
  GuardDays = 1
  JobsPerDay = 2
  MaxDays = 2
  MaxRequests = 2
  MaxIncidents = 2
INVARIANTS
  NoJobUnderAttack
  NightIsJudgedFirst
  RunsInOrder
  LockMatchesPhase
PROPERTIES
  RestoreReleases
  EndingEnds
  AttackIsSettled
CHECK_DEADLOCK FALSE
