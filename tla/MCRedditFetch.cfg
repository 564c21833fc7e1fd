CONSTANTS
  w1 = w1
  u1 = u1
  u2 = u2
  p1 = p1
  p2 = p2
  p3 = p3
  p4 = p4
  NoCursor = NoCursor
  NoUser = NoUser
  Workers = {w1}
  Users = {u1, u2}
  Posts = {p1, p2, p3, p4}
  Listing <- SavedAtFirst
  PageSize = 1
  MaxSaves = 4
SPECIFICATION FairSpec
INVARIANTS
  TypeOK
  FetchComplete
PROPERTIES
  FetchEnds
  OwnersKept
