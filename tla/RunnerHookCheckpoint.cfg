SPECIFICATION Spec
CONSTANTS
  Graphs <- CoreGraphs
  Labels = {"cp"}
  MaxTicks = 3
  RunArgs <- Runs
  Outcomes = {"value", "failed", "aborted"}
  MayRaise = {}
  MaxRaises = 0
  CancelAt = {}
  ResetAt = {"user"}
  CheckpointAt = {"fire_hooks"}
  Remaps <- NoRemaps
INVARIANTS
  NoPhantomToken
