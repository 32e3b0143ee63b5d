CONSTANTS
  t1 = t1
  t2 = t2
  Members = {"ana", "bia"}
  Txs = {t1, t2}
  Doubts <- FewDoubts
  Answers = {"yes", "no", "amount", "category", "date", "future", "text", "receipt"}
  MaxRounds = 2
  MaxAttempts = 3
  MaxTools = 1
  Panel = FALSE
  MaxTurns = 3
  MaxFaults = 0
  MaxPanel = 0
SYMMETRY AnyEntry
SPECIFICATION Spec
INVARIANTS TypeOK QuestionMatchesDraft GivesUp
CHECK_DEADLOCK FALSE
