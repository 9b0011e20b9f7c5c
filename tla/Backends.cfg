SPECIFICATION Spec
CONSTANTS
  Order <- Two
  Sessions = {"s", "t"}
  Labels = {"l", "m"}
  MaxTicks = 3
  MaxFaults = 2
  MaxRollbacks = 1
  Setups <- MCSetups
INVARIANTS
  BackendsTypeOK
  FiringsSurvive
  OrdinalsHold
  QueriesAgree
  CrashCostsOneTick
  CheckpointsSurvive
PROPERTIES
  SavesAtomic
\* The sessions may end.
CHECK_DEADLOCK FALSE
