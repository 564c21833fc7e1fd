CONSTANTS
  h1 = h1
  h2 = h2
  u1 = u1
  u2 = u2
  x1 = x1
  x2 = x2
  a1 = a1
  a2 = a2
  a3 = a3
  n1 = n1
  n2 = n2
  Handlers = {h1, h2}
  Users = {u1, u2}
  Times = {1, 2}
  Tracks = {x1, x2}
  Artists = {a1, a2, a3}
  Names = {n1, n2}
  History <- Plays
  Credited <- Lists
  Catalogues <- AtFirst
  MaxEdits = 1
SPECIFICATION Spec
SYMMETRY Symmetry
INVARIANTS
  TypeOK
  StoresAgree
  PlaysServed
PROPERTIES
  HistoryKept
