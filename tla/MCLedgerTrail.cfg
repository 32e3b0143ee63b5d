CONSTANTS
  t1 = t1
  t2 = t2
  food = food
  salary = salary
  NoCategory = NoCategory
  Keep = Keep
  Members = {"ana"}
  Sessions = {"panel"}
  Txs = {t1}
  Batches <- Single
  Categories = {food, salary}
  KindOf <- Kind
  Amounts = {1, 2}
  Dates = {1, 2}
  Drafts <- AllDrafts
  Patches <- AllPatches
  Editable = {food}
  MaxEvents = 4
SPECIFICATION Spec
INVARIANTS TypeOK AuditChain UndoneOnce ConfirmedIsComplete
CHECK_DEADLOCK FALSE
