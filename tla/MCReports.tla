----------------------------- MODULE MCReports ------------------------------
(* A category, its subcategory and a member who pays.  The days hold the    *)
(* end of a year, a leap and an ordinary February, and weeks that cross     *)
(* months; entries are recorded at the end of a long month after a short    *)
(* one, and in the middle of a month.                                      *)
EXTENDS Reports, TLC

CONSTANTS food, lunch, ana

FoodOverLunch == (food :> None) @@ (lunch :> food)
Essentialities == (food :> "ESSENTIAL") @@ (lunch :> "DISCRETIONARY")

EntryOf(type, category, payer, cents, age) ==
  [type |-> type, category |-> category, payer |-> payer, cents |-> cents, age |-> age]

SomeEntries ==
  {EntryOf("EXPENSE", lunch, ana, 3, 0), EntryOf("EXPENSE", food, ana, 3, 31),
   EntryOf("EXPENSE", None, ana, 5, 1), EntryOf("EXPENSE", lunch, None, 2, 365),
   EntryOf("REFUND", lunch, None, 2, 8), EntryOf("INCOME", food, None, 5, 1)}

SomeDays == (Civil(2023, 12, 20)..Civil(2024, 3, 5)) \cup (Civil(2025, 2, 20)..Civil(2025, 4, 2)) \cup {Civil(2024, 3, 31)}
BusyMarch == {Civil(2024, 3, 31), Civil(2025, 3, 9)}
=============================================================================
