CONSTANTS
  SAVE_TRACES <- MCSaveTraces
  Levels <- MCLevels
  MaxCalls <- MCMaxCalls
  Atomic = FALSE
SPECIFICATION Spec
INVARIANTS TypeOK CursorSane FillDistinct
