SPECIFICATION MapSpec
CONSTANTS
  Id = {3, 5}
  Fix <- Remote
  Health = {0}
  Percent = {5, 30}
  NoFix = NoFix
  MaxFiles = 1
  MaxPackets = 3
  Expensive = 9999
INVARIANTS
  ListedUnconnected
CHECK_DEADLOCK FALSE
