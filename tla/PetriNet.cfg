SPECIFICATION Spec
CONSTANTS
  Graphs <- NetGraphs
  Labels = {"cp"}
  MaxTicks = 4
INVARIANTS
  NoIdleGap
  AcyclicRunsDry
