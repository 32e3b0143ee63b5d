CONSTANTS
  t1 = t1
  t2 = t2
  Members = {"ana", "bia"}
  Txs = {t1, t2}
  Doubts <- OneDoubt
  Answers = {"yes", "no", "amount", "category", "date", "future", "text", "receipt"}
  MaxRounds = 3
  MaxAttempts = 3
  MaxTools = 1
  Panel = TRUE
  MaxTurns = 2
  MaxFaults = 0
  MaxPanel = 1
SYMMETRY AnyEntry
SPECIFICATION Spec
INVARIANTS QuestionMatchesDraft
CHECK_DEADLOCK FALSE
