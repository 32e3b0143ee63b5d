------------------------------ MODULE MCLedger ------------------------------
(* Instances of Ledger for TLC. The drafts and patches are the ones that    *)
(* take an entry through every case of normalizeInput and UpdateTransaction: *)
(* complete, without category, doubtful, of the other kind, a transfer.     *)
EXTENDS Ledger

CONSTANTS t1, t2, food, salary

Kind == [k \in Categories |-> IF k = salary THEN "INCOME" ELSE "EXPENSE"]

Single == {<<t>> : t \in Txs}
SingleOrPair == Single \cup {<<t1, t2>>}

Draft(type, category, reasons) ==
  [type |-> type, category |-> category, amount |-> 1, date |-> 1, reasons |-> reasons]

Complete == Draft("EXPENSE", food, {})
Doubtful == Draft("EXPENSE", NoCategory, {"category_missing", "amount_not_in_message"})
Undated == Draft("REFUND", food, {"date_unclear", "possible_duplicate"})

AllDrafts == {Complete, Doubtful, Undated}
FewDrafts == {Complete, Doubtful}

Patch(type, category, amount, date, confirm) ==
  [type |-> type, category |-> category, amount |-> amount, date |-> date, confirm |-> confirm]

Confirm == Patch(Keep, Keep, Keep, Keep, TRUE)
Amount == Patch(Keep, Keep, 2, Keep, FALSE)
Food == Patch(Keep, food, Keep, 2, FALSE)
Salary == Patch(Keep, salary, Keep, Keep, TRUE)
ToIncome == Patch("INCOME", Keep, Keep, Keep, FALSE)
ToSalary == Patch("INCOME", salary, Keep, Keep, TRUE)
ToTransfer == Patch("TRANSFER", Keep, Keep, Keep, FALSE)

AllPatches == {Confirm, Amount, Food, Salary, ToIncome, ToSalary, ToTransfer}
FewPatches == {Confirm, Amount}
=============================================================================
