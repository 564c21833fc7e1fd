CONSTANTS
  Refreshes = {f1}
  f1 = f1
  u1 = u1
  x = x
  y = y
  pc1 = pc1
  switch = switch
  tv = tv
  Titles = {x, y}
  Jobs = 3
  MediumOf <- ThreeMediums
  Listed <- SharedTitles
  NoMedium = NoMedium
  Limit = 2
  Users = {u1}
  Year <- Released
  MaxSaves = 3
SPECIFICATION SFairSpec
INVARIANTS
  TypeOK
  OkMeansStored
  SavedReadBack
PROPERTIES
  PagesWhole
  RefreshEnds
