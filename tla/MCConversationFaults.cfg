CONSTANTS
  t1 = t1
  t2 = t2
  Members = {"ana", "bia"}
  Txs = {t1, t2}
  Doubts <- OneDoubt
  Answers = {"yes", "no", "amount", "category", "text", "receipt"}
  MaxRounds = 3
  MaxAttempts = 3
  MaxTools = 2
  Panel = TRUE
  MaxTurns = 2
  MaxFaults = 1
  MaxPanel = 1
SYMMETRY AnyEntry
SPECIFICATION Spec
INVARIANTS OneOpenQuestion AnswersReachOpenQuestions
PROPERTIES SettledIsFinal
CHECK_DEADLOCK FALSE
