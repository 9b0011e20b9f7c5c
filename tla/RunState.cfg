SPECIFICATION DispatchSpec
CONSTANTS
  Order <- Two
  Labels = {"cp"}
  MaxTicks = 4
  MaxRestores = 2
  Modes <- SoundModes
INVARIANTS
  RunStateTypeOK
  LayersAgree
  ReadsRight
  AuditRight
  EnginesAgree
  GuardSeesBody
\* A session may end.
CHECK_DEADLOCK FALSE
