SPECIFICATION Spec
CONSTANTS
  Outputs = {1, 2}
  WindowIds = {w1, w2}
  SimulatedId = w2
  Idents = {i}
  Configs <- PlainOnly
  DrmOutputs = {1, 2}
  ScreenLists <- NoneOrBoth
  PlugSets = {{1, 2}}
INVARIANT
  HelperWasTold
