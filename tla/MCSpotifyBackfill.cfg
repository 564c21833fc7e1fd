CONSTANTS
  r1 = r1
  r2 = r2
  b1 = b1
  b2 = b2
  Refreshers = {}
  Backfills = {b1, b2}
  Window = 1
  Limit = 2
  MaxTime = 3
SPECIFICATION FairSpec
PROPERTIES
  BackfillProgress
  BackfillEnds
  BackfillComplete
