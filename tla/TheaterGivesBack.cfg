SPECIFICATION FairSpec
CONSTANTS
  Outputs = {1, 2}
  WindowIds = {w1, sim}
  GameIds = {w1}
  Looks <- Windowed
  PlugSets <- Both
  ScreenLists <- Both
  MaxCalls = 3
  SimulatedId = sim
  Idents = {i}
  Configs <- FullscreenOrNot
  DrmOutputs = {1, 2}
PROPERTY DisplaysGivenBack
CHECK_DEADLOCK FALSE
