SPECIFICATION Spec
CONSTANTS
  Outputs = {1, 2, 3}
  WindowIds = {w1, w2}
  SimulatedId = w2
  Idents = {i}
  Configs <- TunedOrDark
  DrmOutputs = {1, 2}
  ScreenLists <- NoneOrThree
  PlugSets = {{1, 2}, {1}}
INVARIANTS
  TypeOK
  DimmedOnlyInTheater
  StageNeverDimmed
  AffectedCoversLit
  RestoreIsScheduled
  FollowsDisplays
PROPERTIES
  ImplementsTheater
  JumpsOnlyAfterDelay
