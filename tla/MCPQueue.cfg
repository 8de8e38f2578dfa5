SPECIFICATION MCSpec
CONSTANTS
  Obj = {7, 9}
  Priority = {1, 2, 3}
  DefaultCap = 2
  MaxSize = 6
  NoObj = 65535
INVARIANTS
  HeapInv
  NextIsBest
  FitsCapacity
  EndsAsForeseen
PROPERTIES
  ImplementsBag
  CallsReturn
