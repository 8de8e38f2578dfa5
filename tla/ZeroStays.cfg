SPECIFICATION Spec
CONSTANTS
  ZergId = {0, 3, 5}
  Expensive = 9999
  Sizes = {2, 3}
  Networks <- AllNetworks
INVARIANTS
  SurvivorsFullyLinked
