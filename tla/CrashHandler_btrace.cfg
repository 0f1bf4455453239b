CONSTANTS
  Build = "btrace"
  HaveAlarm = TRUE
  HaveKill = TRUE
  MaxFaults = 3
  Threads = {t1, t2}
SPECIFICATION Spec
INVARIANTS DeadlineArmed
PROPERTIES Termination
CHECK_DEADLOCK FALSE
