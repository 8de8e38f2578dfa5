SPECIFICATION MapSpec
CONSTANTS
  Id = {0, 3, 5, 7}
  Fix <- InLine
  Health = {0}
  Percent = {5, 30}
  NoFix = NoFix
  MaxFiles = 2
  MaxPackets = 2
  Expensive = 9999
INVARIANTS
  HeadersFreed
  PointsHaveNodes
  FixIsOwn
  LinksMutual
  SurvivorsCloseBy
  UnplacedReported
CHECK_DEADLOCK FALSE
