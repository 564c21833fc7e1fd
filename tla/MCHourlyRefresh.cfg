CONSTANTS
  i1 = i1
  i2 = i2
  l1 = l1
  Invocations = {i1, i2}
  Resources = {"spotify", "reddit"}
  Lambdas = {l1}
  MaxAttempts = 2
  MaxDeliveries = 2
SPECIFICATION Spec
INVARIANTS
  TypeOK
  NoTextLost
  TextsExplained
