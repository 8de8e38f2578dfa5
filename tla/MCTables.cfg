SPECIFICATION MCSpec
CONSTANTS
  Key = {0, 1, 4, 6, 9, 11}
  DefaultCap = 5
  Value = {v}
  NULL = NULL
INVARIANTS
  NoGap
  CountsKeys
  SomeFree
PROPERTIES
  CallsReturn
  ImplementsMap
  ImplementsSet
