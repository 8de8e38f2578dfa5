SPECIFICATION Spec
CONSTANTS
  ZergId = {1, 2, 3, 4, 5, 6}
  Expensive = 9999
  Distances = {0}
  Networks <- SixNetwork
INVARIANTS
  CompleteAnswer
