SPECIFICATION Spec
CONSTANTS
  Outputs = {1, 2, 3}
  Games = {g1, g2}
  SizeOf <- TwoSizes
  MaxFiles = 3
  TrimFiles = 2
  OldTimes = {0}
  MaxTime = 4
  MaxChange = 3
  MaxBacklog = 1
  None = None
SYMMETRY Symmetry
INVARIANTS ShowsWhatWasSent NeverStale
