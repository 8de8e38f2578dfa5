SPECIFICATION Spec
CONSTANTS
  ZergId = {1, 2, 3, 4}
  Expensive = 9999
  Sizes = {0, 1, 2, 3, 4}
  Networks <- AllNetworks
INVARIANTS
  SurvivorsFullyLinked
  ListIsWhatIsGone
PROPERTIES
  NeverTakesLinked
  Reports
