CONSTANTS
  i1 = i1
  i2 = i2
  l1 = l1
  Invocations = {i1}
  Resources = {"spotify", "reddit", "metacritic"}
  Lambdas = {l1}
  MaxAttempts = 1
  MaxDeliveries = 1
SPECIFICATION Spec
PROPERTY GracefulShutdown
