CONSTANTS
  m1 = m1
  m2 = m2
  w1 = w1
  NoMessage = NoMessage
  Messages = {m1, m2}
  Workspaces = {w1}
  Home <- OneHome
  MaxAttempts = 2
  Faults <- AllFaults
  MaxFaults = 1
  MaxCrashes = 1
  Timely = TRUE
SPECIFICATION FairSpec
INVARIANTS TypeOK AppliedOnce InOrder SilentReplay
PROPERTIES TerminalIsFinal QueueSpec EventuallyClosed
CHECK_DEADLOCK FALSE
