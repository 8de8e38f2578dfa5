SPECIFICATION MCSpec
CONSTANTS
  Id = {3, 5}
  Fix <- Remote
  Health = {0, 50}
  Percent = {5, 30}
  NoFix = NoFix
  MaxFiles = 1
  MaxPackets = 2
INVARIANTS
  NearLinked
CHECK_DEADLOCK FALSE
