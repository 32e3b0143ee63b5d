CONSTANTS
  t1 = t1
  t2 = t2
  food = food
  salary = salary
  NoCategory = NoCategory
  Keep = Keep
  Members = {"ana"}
  Sessions = {"panel"}
  Txs = {t1}
  Batches <- Single
  Categories = {food, salary}
  KindOf <- Kind
  Amounts = {1, 2}
  Dates = {1, 2}
  Drafts <- FewDrafts
  Patches <- FewPatches
  Editable = {}
  MaxEvents = 4
SPECIFICATION Spec
INVARIANT UndoDropsNothing
CHECK_DEADLOCK FALSE
