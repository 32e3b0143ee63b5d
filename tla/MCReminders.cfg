CONSTANTS
  t1 = t1
  a1 = a1
  c1 = c1
  c2 = c2
  Timers = {t1}
  Appointments = {a1}
  Contacts = {c1, c2}
  Retries = 2
  Faults <- AllFaults
  MaxFaults = 2
  MaxCrashes = 1
  MaxSaves = 2
SPECIFICATION FairSpec
INVARIANTS TypeOK NoTimerForgotten AlertsAreAccounted OneTarget
PROPERTIES EventuallyAlerted
CHECK_DEADLOCK FALSE
