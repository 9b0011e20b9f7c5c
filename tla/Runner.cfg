SPECIFICATION Spec
CONSTANTS
  Graphs <- AllShapes
  Labels = {"cp"}
  MaxTicks = 3
  RunArgs <- Runs
  Outcomes = {"value", "failed", "aborted"}
  MayRaise = {}
  MaxRaises = 0
  CancelAt = {"user", "end_hooks"}
  ResetAt = {"user", "start_hooks", "phase_a", "phase_b", "fire_hooks", "end_hooks"}
  CheckpointAt = {"user", "start_hooks", "phase_a", "phase_b", "end_hooks"}
  Remaps <- NoRemaps
INVARIANTS
  TypeOK
  NoPhantomToken
  NoLostToken
  AtMostOncePerTick
  CancelSticks
PROPERTY
  ImplementsNet
