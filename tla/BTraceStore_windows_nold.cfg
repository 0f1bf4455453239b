CONSTANTS
  gc = gc
  crash = crash
  Labels <- MCLabels
  CrashLabel = crash
  SAVE_TRACES <- MCSaveTraces
  MaxStores <- MCMaxStores
  MaxSaves <- MCMaxSaves
  Variant = "windows"
  HasLD = FALSE
SPECIFICATION Spec
INVARIANTS NoFault
CHECK_DEADLOCK FALSE
