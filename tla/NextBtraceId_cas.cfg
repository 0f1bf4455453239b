CONSTANTS
  SAVE_TRACES <- MCSaveTraces
  Levels <- MCLevels
  MaxCalls <- MCMaxCalls
  Atomic = TRUE
SPECIFICATION Spec
INVARIANTS TypeOK OverlapDistinct CursorSane
PROPERTIES SlotCounterSpec
