CONSTANTS
  gc = gc
  crash = crash
  Labels <- MCLabels
  CrashLabel = crash
  SAVE_TRACES <- MCSaveTraces
  MaxStores <- MCMaxStores
  MaxSaves <- MCMaxSaves
  Variant = "windows"
  HasLD = TRUE
SPECIFICATION Spec
INVARIANTS CrashTraceRendered
CHECK_DEADLOCK FALSE
