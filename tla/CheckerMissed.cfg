SPECIFICATION Spec
CONSTANTS
  Graphs <- MissedGraphs
INVARIANT
  NoSilentDeadlock
