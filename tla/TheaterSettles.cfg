SPECIFICATION FairSpec
CONSTANTS
  Outputs = {1, 2}
  WindowIds = {w1, sim}
  GameIds = {w1}
  Looks <- Windowed
  PlugSets <- OneOrBoth
  ScreenLists <- OneOrBoth
  MaxCalls = 3
  SimulatedId = sim
  Idents = {i}
  Configs <- PlainOnly
  DrmOutputs = {1, 2}
INVARIANTS KnowsNothingFalse GameIsNotDimmed
PROPERTIES CatchesUp SettlesOnTheGame
CHECK_DEADLOCK FALSE
