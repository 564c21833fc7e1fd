CONSTANTS
  c1 = c1
  c2 = c2
  u1 = u1
  trkX = trkX
  trkY = trkY
  trkZ = trkZ
  albX = albX
  albY = albY
  artP = artP
  artQ = artQ
  Stores = {"v1", "v2"}
  Calls = {c1, c2}
  Users = {u1}
  Times = {1, 2, 3}
  Tracks = {trkX, trkY, trkZ}
  Albums = {albX, albY}
  Artists = {artP, artQ}
  History <- ThreePlays
  AlbumOf <- CatalogueAlbumOf
  ArtistsOf <- CatalogueArtistsOf
  Batches <- OverlappingLists
SPECIFICATION FairSpec
INVARIANTS
  TypeOK
  ForeignKeysHold
  PlaysJoin
  ReportedOnce
  V1NeverDeadlocks
PROPERTIES
  AllOrNothing
  EveryCallReturns
