------------------------------ MODULE Calendar ------------------------------
(***************************************************************************)
(* Civil days and periods: backend/finance/dates.go.                       *)
(*                                                                         *)
(* A day is its number in the proleptic Gregorian calendar, 1 being 1       *)
(* January of year 1 (a Monday).  An expression the code refuses resolves  *)
(* to the empty set, any other to the set of its one day or period.        *)
(*                                                                         *)
(* time.Date is asked for midnight in Sao Paulo.  Until November 2018 the   *)
(* clocks there skipped one midnight a year, and the code gives the day     *)
(* before for such a day: days before 2019 are out of this module's reach. *)
(***************************************************************************)
EXTENDS Integers, FiniteSets

(* time.Date and time.AddDate: a month or a day out of range is carried on. *)
IsLeap(y) == y % 4 = 0 /\ (y % 100 # 0 \/ y % 400 = 0)

BeforeYear(y) == 365 * (y - 1) + (y - 1) \div 4 - (y - 1) \div 100 + (y - 1) \div 400

BeforeMonth(y, m) ==
  <<0, 31, 59, 90, 120, 151, 181, 212, 243, 273, 304, 334>>[m] + IF m > 2 /\ IsLeap(y) THEN 1 ELSE 0

Civil(y, m, d) ==
  LET year == y + (m - 1) \div 12
  IN BeforeYear(year) + BeforeMonth(year, ((m - 1) % 12) + 1) + d

(* An estimate is at most one off.                                         *)
YearOf(n) ==
  LET e == (n * 400) \div 146097 + 1
  IN CHOOSE y \in {e - 1, e, e + 1} : BeforeYear(y) < n /\ n <= BeforeYear(y + 1)

MonthOf(n) ==
  LET y == YearOf(n)
      day == n - BeforeYear(y)
      e == (day - 1) \div 31 + 1
  IN IF e < 12 /\ day > BeforeMonth(y, e + 1) THEN e + 1 ELSE e

FirstOfMonth(n) == Civil(YearOf(n), MonthOf(n), 1)

DayOf(n) == n - FirstOfMonth(n) + 1

AddMonths(n, k) == Civil(YearOf(n), MonthOf(n) + k, DayOf(n))

MonthLength(y, m) == Civil(y, m + 1, 1) - Civil(y, m, 1)

(* Sunday is 0.                                                            *)
Weekday(n) == n % 7

-----------------------------------------------------------------------------
(* Resolve: what the user said, by form.                                   *)

(* Mutant: "10", said on the tenth, is the tenth of the month before.       *)
LatestDayBefore(day, today) ==
  LET y == YearOf(today)
      m == MonthOf(today)
      months == {i \in 0..11 : day <= MonthLength(y, m - i) /\ Civil(y, m - i, day) < today}
      latest == CHOOSE i \in months : \A j \in months : i <= j
  IN IF months = {} THEN {} ELSE {Civil(y, m - latest, day)}

(* The most recent `day` of a month, within twelve months.                 *)
LatestDay(day, today) ==
  LET y == YearOf(today)
      m == MonthOf(today)
      months == {i \in 0..11 : day <= MonthLength(y, m - i) /\ Civil(y, m - i, day) <= today}
      latest == CHOOSE i \in months : \A j \in months : i <= j
  IN IF months = {} THEN {} ELSE {Civil(y, m - latest, day)}

(* "10/09": this year's, or last year's when it is still to come. "10/09/26" *)
(* has its year; 0 stands for none.                                        *)
DayAndMonth(d, m, y, today) ==
  LET year == IF y = 0 THEN YearOf(today) ELSE y
  IN IF m \notin 1..12 \/ d < 1 \/ d > MonthLength(year, m) THEN {}
     ELSE IF y = 0 /\ Civil(year, m, d) > today THEN {Civil(year - 1, m, d)}
     ELSE {Civil(year, m, d)}

(* resolveExplicit and the words of ResolveDate.                           *)
Meant(said, today) ==
  CASE said.form = "ago" -> {today - said.n}
    [] said.form = "weekday" ->
         LET back == (Weekday(today) - said.n) % 7
         IN {today - IF back = 0 /\ said.past THEN 7 ELSE back}
    [] said.form = "day" -> IF said.n \in 1..31 THEN LatestDay(said.n, today) ELSE {}
    [] said.form = "date" -> {said.n}
    [] said.form = "daymonth" -> DayAndMonth(said.d, said.m, said.y, today)
    [] OTHER -> {}

(* Never in the future, never before 2000.                                 *)
ResolveDate(said, today) == {d \in Meant(said, today) : d <= today /\ YearOf(d) >= 2000}

-----------------------------------------------------------------------------
(* Period                                                                  *)

Period(start, end) == [start |-> start, end |-> end]

Days(p) == p.end - p.start + 1

ElapsedDays(p, today) ==
  LET n == (IF today < p.end THEN today ELSE p.end) - p.start + 1
  IN IF n < 1 THEN 1 ELSE n

IsCurrentMonth(p, today) ==
  DayOf(p.start) = 1 /\ FirstOfMonth(p.start) = FirstOfMonth(today) /\ p.end >= today

PeriodKeys ==
  {"today", "yesterday", "this_week", "last_week", "this_month", "last_month",
   "last_7_days", "last_30_days", "this_year", "month", "custom"}

(* "month" takes the first day of a month in `from`, "custom" a range.     *)
ResolvePeriod(key, from, to, today) ==
  LET first == FirstOfMonth(today)
      weekStart == today - ((Weekday(today) + 6) % 7)
  IN CASE key = "this_month" -> {Period(first, today)}
       [] key = "today" -> {Period(today, today)}
       [] key = "yesterday" -> {Period(today - 1, today - 1)}
       [] key = "this_week" -> {Period(weekStart, today)}
       [] key = "last_week" -> {Period(weekStart - 7, weekStart - 1)}
       [] key = "last_month" -> {Period(AddMonths(first, -1), first - 1)}
       [] key = "last_7_days" -> {Period(today - 6, today)}
       [] key = "last_30_days" -> {Period(today - 29, today)}
       [] key = "this_year" -> {Period(Civil(YearOf(today), 1, 1), today)}
       [] key = "month" -> IF from > today THEN {} ELSE {Period(from, AddMonths(from, 1) - 1)}
       [] key = "custom" -> IF to < from \/ to - from > 5 * 366 THEN {} ELSE {Period(from, to)}
       [] OTHER -> {}

IsWholeMonths(p) == DayOf(p.start) = 1 /\ DayOf(p.end + 1) = 1

(* The comparison baseline.                                                *)
PreviousPeriod(p) ==
  IF DayOf(p.start) # 1
  THEN Period(p.start - Days(p), p.start - 1)
  ELSE LET prevStart == AddMonths(p.start, -1)
           lastOfPrev == p.start - 1
           day == IF DayOf(p.end) > DayOf(lastOfPrev) THEN DayOf(lastOfPrev) ELSE DayOf(p.end)
       IN IF IsWholeMonths(p) THEN Period(prevStart, lastOfPrev) ELSE Period(prevStart, prevStart + day - 1)

=============================================================================
