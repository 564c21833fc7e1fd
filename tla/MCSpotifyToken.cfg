CONSTANTS
  h1 = h1
  h2 = h2
  a1 = a1
  Handlers = {h1, h2}
  Adders = {a1}
  Lifetime = 3
  Buffer = 1
  Timeout = 1
  MaxTime = 5
  MaxGrants = 2
SPECIFICATION Spec
SYMMETRY HandlerSymmetry
INVARIANTS
  TypeOK
  FreshMeansAccepted
  OneAuthorization
  AddedTokenKept
