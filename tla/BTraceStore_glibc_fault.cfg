CONSTANTS
  gc = gc
  crash = crash
  Labels <- MCLabels
  CrashLabel = crash
  SAVE_TRACES <- MCSaveTraces
  MaxStores <- MCMaxStores
  MaxSaves <- MCMaxSaves
  Variant = "glibc"
  HasLD = TRUE
SPECIFICATION Spec
INVARIANTS NoFault
CHECK_DEADLOCK FALSE
