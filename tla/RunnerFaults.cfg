SPECIFICATION FairSpec
CONSTANTS
  Graphs <- RemapGraphs
  Labels = {}
  MaxTicks = 3
  RunArgs <- Runs
  Outcomes = {"value", "none", "aborted"}
  MayRaise = {"body", "guard"}
  MaxRaises = 1
  CancelAt = {"user", "phase_a", "fire_hooks", "end_hooks"}
  ResetAt = {"user", "start_hooks", "phase_a", "fire_hooks"}
  CheckpointAt = {}
  Remaps <- Swaps
INVARIANTS
  StarvedVerdict
  NoForeignToken
  NoPhantomToken
PROPERTIES
  CallsReturn
  LoopVerdict
  RemapRefusesHistory
