CONSTANTS
  Build = "fallback"
  HaveAlarm = TRUE
  HaveKill = TRUE
  MaxFaults = 3
  Threads = {t1, t2}
SPECIFICATION Spec
INVARIANTS HookStatusConvention
CHECK_DEADLOCK FALSE
