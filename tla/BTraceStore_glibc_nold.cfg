CONSTANTS
  gc = gc
  crash = crash
  Labels <- MCLabels
  CrashLabel = crash
  SAVE_TRACES <- MCSaveTraces
  MaxStores <- MCMaxStores
  MaxSaves <- MCMaxSaves
  Variant = "glibc"
  HasLD = FALSE
SPECIFICATION Spec
INVARIANTS CrashTraceRendered
CHECK_DEADLOCK FALSE
