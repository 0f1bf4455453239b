CONSTANTS
  gc = gc
  crash = crash
  Labels <- MCLabels
  CrashLabel = crash
  SAVE_TRACES <- MCSaveTraces
  MaxStores <- MCMaxStores
  MaxSaves <- MCMaxSaves
  Variant = "glibc"
  HasLD = TRUE
SPECIFICATION Spec
INVARIANTS TypeOK RingHoldsRecent PrintLatestCorrect NamedFindsLatest CrashTraceRendered
CHECK_DEADLOCK FALSE
