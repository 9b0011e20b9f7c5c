SPECIFICATION Spec
CONSTANTS
  Order <- Two
  Labels = {"cp"}
  MaxTicks = 4
  MaxRestores = 2
  Modes <- PlainMode
INVARIANT
  NoFutureRead
