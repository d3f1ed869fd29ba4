SPECIFICATION Spec
CONSTANTS
  f1 = f1  f2 = f2
  c1 = c1  c2 = c2
  Files <- MCFiles
  Contents <- MCContents
  MaxPulls = 2
  MaxCrashes = 2
SYMMETRY MCSymmetry
INVARIANTS
  RestoreTellsTheTruth
  WhatIsListedIsThere
CHECK_DEADLOCK FALSE
