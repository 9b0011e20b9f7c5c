SPECIFICATION FairSpec
CONSTANTS
  Graphs <- FaultGraphs
  Labels = {"cp"}
  MaxTicks = 2
  RunArgs <- OneRun
  Outcomes = {"value"}
  MayRaise = {"body", "guard"}
  MaxRaises = 2
  CancelAt = {"user", "phase_a"}
  ResetAt = {"user", "phase_a", "phase_b"}
  CheckpointAt = {"start_hooks"}
  Remaps <- NoRemaps
INVARIANTS
  AsyncTypeOK
  NoPhantomToken
  RecordedWhole
PROPERTIES
  CallsReturn
