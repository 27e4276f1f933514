SPECIFICATION FairSpec
CONSTANTS
  Outputs = {o1, o2}
  MaxOutputs = 2
  Opaque = 2
  Durations = {0, 1}
INVARIANTS OverlayShape RestsAtTarget ShowsWhatItRestsAt OnlySelectedStayDimmed StackedAsAsked
PROPERTY FadesEnd
CHECK_DEADLOCK FALSE
