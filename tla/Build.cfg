SPECIFICATION BuildSpec
CONSTANTS
  Graphs <- CheckedGraphs
  Texts <- BuildTexts
  Alphabet <- Names
  Callables <- MCCallables
  Registries <- MCRegistries
INVARIANTS
  NoSilentDeadlockInTrees
  NoFalseAlarm
  PromotionCures
  WarnedCyclesLoop
  UnwarnedRunsEnd
  CallsBind
  InputsHaveFired
  NamesAgree
\* A text may be refused for good.
CHECK_DEADLOCK FALSE
