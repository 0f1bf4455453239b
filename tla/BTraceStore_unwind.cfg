CONSTANTS
  gc = gc
  crash = crash
  Labels <- MCLabels
  CrashLabel = crash
  SAVE_TRACES <- MCSaveTraces
  MaxStores <- MCMaxStores
  MaxSaves <- MCMaxSaves
  Variant = "unwind"
  HasLD = TRUE
SPECIFICATION Spec
INVARIANTS TypeOK RingHoldsRecent PrintLatestCorrect NamedFindsLatest CrashTraceRendered
CHECK_DEADLOCK FALSE
