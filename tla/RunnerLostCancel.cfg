SPECIFICATION Spec
CONSTANTS
  Graphs <- CoreGraphs
  Labels = {}
  MaxTicks = 3
  RunArgs <- Runs
  Outcomes = {"value", "failed", "aborted"}
  MayRaise = {}
  MaxRaises = 0
  CancelAt = {"phase_a"}
  ResetAt = {"user"}
  CheckpointAt = {}
  Remaps <- NoRemaps
INVARIANTS
  CancelSticks
