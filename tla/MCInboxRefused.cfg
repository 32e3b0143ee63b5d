CONSTANTS
  m1 = m1
  m2 = m2
  w1 = w1
  NoMessage = NoMessage
  Messages = {m1}
  Workspaces = {w1}
  Home <- OneHome
  MaxAttempts = 3
  Faults = {}
  MaxFaults = 0
  MaxCrashes = 0
  Timely = TRUE
SPECIFICATION Spec
INVARIANT AppliedIsNotRefused
CHECK_DEADLOCK FALSE
