SPECIFICATION Spec
CONSTANTS
  ZergId = {1, 2, 3, 4}
  Expensive = 9999
  Distances = {0, 1, 3}
  Networks <- AllNetworks
INVARIANTS
  PathIsRoute
  EndsAsForeseen
  PathIsShortest
  SoundAnswer
  CompleteAnswer
  OnlyBridgesSpoiled
  TrueLeavesNoTrace
PROPERTIES
  CallsReturn
  CallsFollowSearch
