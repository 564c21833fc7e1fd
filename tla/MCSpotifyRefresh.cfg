CONSTANTS
  r1 = r1
  r2 = r2
  b1 = b1
  b2 = b2
  Refreshers = {r1, r2}
  Backfills = {}
  Window = 2
  Limit = 3
  MaxTime = 4
SPECIFICATION Spec
SYMMETRY ProcessSymmetry
INVARIANTS
  TypeOK
  AnnouncedOnce
  AnnouncedServed
  SuccessCovers
