CONSTANTS
  t1 = t1
  t2 = t2
  food = food
  salary = salary
  NoCategory = NoCategory
  Keep = Keep
  Members = {"ana", "bia"}
  Sessions = {"panel"}
  Txs = {t1, t2}
  Batches <- SingleOrPair
  Categories = {food}
  KindOf <- Kind
  Amounts = {1, 2}
  Dates = {1, 2}
  Drafts <- FewDrafts
  Patches <- FewPatches
  Editable = {}
  MaxEvents = 4
SPECIFICATION Spec
PROPERTIES UndoDropsNothingSeen StackSpec
CHECK_DEADLOCK FALSE
