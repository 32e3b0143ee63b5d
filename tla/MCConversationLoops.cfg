CONSTANTS
  t1 = t1
  t2 = t2
  Members = {"ana"}
  Txs = {t1}
  Doubts <- OneDoubt
  Answers = {"amount", "text"}
  MaxRounds = 3
  MaxAttempts = 3
  MaxTools = 1
  Panel = FALSE
  MaxTurns = 5
  MaxFaults = 0
  MaxPanel = 0
SPECIFICATION Spec
INVARIANTS NeverLoops
CHECK_DEADLOCK FALSE
