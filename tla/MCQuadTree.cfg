SPECIFICATION TreeSpec
CONSTANTS
  Caps = {1, 2}
  Scale = 32
  Place <- Places
  MaxPoints = 5
  MaxSame = 34
INVARIANTS
  SearchExact
  NoneLostEarly
PROPERTIES
  LinkingEnds
CHECK_DEADLOCK FALSE
