SPECIFICATION Spec
CONSTANTS
  Graphs <- CoreGraphs
  Labels = {"cp"}
  MaxTicks = 3
  RunArgs <- Runs
  Outcomes = {"value", "failed", "aborted"}
  MayRaise = {}
  MaxRaises = 0
  CancelAt = {}
  ResetAt = {"user", "phase_a", "phase_b"}
  CheckpointAt = {"user", "start_hooks", "phase_a", "phase_b", "end_hooks"}
  Remaps <- NoRemaps
PROPERTIES
  ImplementsNet
