------------------------------ MODULE Reports -------------------------------
(***************************************************************************)
(* Totals of the ledger: backend/finance/reports.go.                       *)
(*                                                                         *)
(* Every figure is computed from the rows when it is asked for: a summary  *)
(* of a period beside its baseline, by category, by member and by          *)
(* essentiality; a series of buckets; the budgets of the month.  Here the   *)
(* days pass, entries are recorded and deleted, a subcategory is archived,  *)
(* and the reports must tell the same story.  A row that waits for an       *)
(* answer (PENDING) is in no report and not in `book`.  Percentages,        *)
(* projections, names and ranks are left out.                              *)
(***************************************************************************)
EXTENDS Calendar, Sequences, FiniteSetsExt

CONSTANTS
  BookCategories, None,         \* categories; no category, no member, no parent
  ParentOf,           \* category -> its parent, or None
  EssentialityOf,     \* category -> its essentiality
  Payers,
  Entries,            \* the entries that may be recorded: type, category, payer, cents, age
  CalendarDays,       \* bound: the days on which reports are asked for
  BusyDays,           \* bound: those on which something is recorded
  MaxEntries          \* bound

(* A subcategory has no subcategories (CategoryTree).  Entries are dated    *)
(* with days that exist, and it is after 2021: what is said of a day and    *)
(* the periods asked about, with their baselines, reach back to 2019, and   *)
(* no further (Calendar).                                                  *)
ASSUME ReportsAssumption ==
  /\ IsFiniteSet(BookCategories) /\ IsFiniteSet(Payers)
  /\ None \notin BookCategories /\ None \notin Payers
  /\ ParentOf \in [BookCategories -> BookCategories \cup {None}]
  /\ \A c \in BookCategories : ParentOf[c] # None => ParentOf[ParentOf[c]] = None
  /\ \A e \in Entries : /\ e.type \in {"EXPENSE", "REFUND", "INCOME", "TRANSFER"}
                        /\ e.category \in BookCategories \cup {None} /\ e.payer \in Payers \cup {None}
                        /\ e.cents \in Nat /\ e.age \in Int
  /\ CalendarDays \subseteq Nat /\ BusyDays \subseteq CalendarDays
  /\ \A d \in CalendarDays : YearOf(d) > 2021
  /\ \A e \in Entries, d \in BusyDays : d - e.age \in Nat
  /\ MaxEntries \in Nat

VARIABLES
  today,
  book,         \* the rows of finance_transactions
  archived,
  asked         \* somebody asks for reports

reportVars == <<today, book, archived, asked>>

ReportsInit == today \in CalendarDays /\ book = <<>> /\ archived = {} /\ asked = FALSE

NextDay ==
  /\ today + 1 \in CalendarDays /\ book = <<>>
  /\ today' = today + 1
  /\ UNCHANGED <<book, archived, asked>>

Record(e) ==
  /\ today \in BusyDays
  /\ Len(book) < MaxEntries
  /\ book' = Append(book, [type |-> e.type, category |-> e.category, payer |-> e.payer, cents |-> e.cents,
                           status |-> "CONFIRMED", date |-> today - e.age])
  /\ UNCHANGED <<today, archived, asked>>

(* What the panel and the tools do to an entry, as far as a report sees it. *)
Delete(i) ==
  /\ book[i].status = "CONFIRMED"
  /\ book' = [book EXCEPT ![i].status = "DELETED"]
  /\ UNCHANGED <<today, archived, asked>>

Archive(c) ==
  /\ book # <<>> /\ c \notin archived /\ ParentOf[c] # None
  /\ archived' = archived \cup {c}
  /\ UNCHANGED <<today, book, asked>>

(* A page or a tool asks; nothing is kept of the answer.                   *)
Ask == asked' = TRUE /\ UNCHANGED <<today, book, archived>>

ReportsNext ==
  /\ ~asked
  /\ \/ NextDay \/ Ask
     \/ \E e \in Entries : Record(e)
     \/ \E i \in DOMAIN book : Delete(i)
     \/ \E c \in BookCategories : Archive(c)

ReportsSpec == ReportsInit /\ [][ReportsNext]_reportVars

-----------------------------------------------------------------------------
(* Rows                                                                    *)

Within(d, p) == p.start <= d /\ d <= p.end

(* t.category_id = $6 OR c.parent_id = $6                                  *)
UnderCategory(i, c) == book[i].category = c \/ (book[i].category # None /\ ParentOf[book[i].category] = c)

(* The WHERE clause of a report: confirmed, not deleted, in one of the two  *)
(* windows, under the category and by the member of the filter.            *)
Selected(p, f) ==
  LET prev == PreviousPeriod(p)
  IN {i \in DOMAIN book :
       /\ book[i].status = "CONFIRMED"
       /\ Within(book[i].date, p) \/ Within(book[i].date, prev)
       /\ f.category = None \/ UnderCategory(i, f.category)
       /\ f.member = None \/ book[i].payer = f.member}

(* Mutant: the first day falls to the baseline.                            *)
CurrentAfter(rows, p) == {i \in rows : book[i].date > p.start}

(* transaction_date >= $2                                                  *)
Current(rows, p) == {i \in rows : book[i].date >= p.start}

SumOf(f) == MapThenSumSet(LAMBDA x : f[x], DOMAIN f)

CentsOf(rows, types) == SumOf([i \in {j \in rows : book[j].type \in types} |-> book[i].cents])

(* signedSpending                                                          *)
Spending(rows) == CentsOf(rows, {"EXPENSE"}) - CentsOf(rows, {"REFUND"})
Income(rows) == CentsOf(rows, {"INCOME"})

(* The bucket of a row: its top-level category, or, under a category        *)
(* filter, the category itself.                                            *)
Bucket(i, f) ==
  LET c == book[i].category
  IN IF c # None /\ f.category = None /\ ParentOf[c] # None THEN ParentOf[c] ELSE c

(* The figures of the rows of a period, and of those of its baseline.      *)
Figures(cur, old, f) ==
  [expenses |-> Spending(cur), income |-> Income(cur), transfers |-> CentsOf(cur, {"TRANSFER"}),
   prevExpenses |-> Spending(old), prevIncome |-> Income(old),
   categories |-> [c \in BookCategories |-> Spending({i \in cur : Bucket(i, f) = c})],
   incomeCategories |-> [c \in BookCategories |-> Income({i \in cur : Bucket(i, f) = c})],
   prevCategories |-> [c \in BookCategories |-> Spending({i \in old : Bucket(i, f) = c})],
   essentiality |-> [e \in {EssentialityOf[c] : c \in BookCategories} |->
     Spending({i \in cur : book[i].category # None /\ EssentialityOf[book[i].category] = e})],
   members |-> [m \in Payers |-> Spending({i \in cur : book[i].payer = m})]]

Summary(p, f) ==
  LET rows == Selected(p, f)
  IN Figures(Current(rows, p), rows \ Current(rows, p), f)

-----------------------------------------------------------------------------
(* SpendingSeries and IncomeSeries.                                        *)

Granularity(p) == IF Days(p) > 400 THEN "month" ELSE IF Days(p) > 62 THEN "week" ELSE "day"

Index(gran, start, d) ==
  CASE gran = "month" -> (YearOf(d) - YearOf(start)) * 12 + MonthOf(d) - MonthOf(start)
    [] gran = "week" -> (d - start) \div 7
    [] gran = "day" -> d - start

(* What the SQL of a series adds up: expenses, minus everything else.      *)
Signed(rows, types) == CentsOf(rows, types \cap {"EXPENSE"}) - CentsOf(rows, types \ {"EXPENSE"})

(* Rows of the baseline that have no bucket beside them are left out.      *)
Points(gran, cur, old, p, prevStart, types) ==
  [k \in 0..Index(gran, p.start, p.end) |->
    [current |-> Signed({i \in cur : Index(gran, p.start, book[i].date) = k}, types),
     previous |-> Signed({i \in old : Index(gran, prevStart, book[i].date) = k}, types)]]

Series(p, f, types) ==
  LET rows == Selected(p, f)
  IN Points(Granularity(p), Current(rows, p), rows \ Current(rows, p), p, PreviousPeriod(p).start, types)

SpendingSeries(p, f) == Series(p, f, {"EXPENSE", "REFUND"})
IncomeSeries(p, f) == Series(p, f, {"INCOME"})

CurrentOf(series) == SumOf([k \in DOMAIN series |-> series[k].current])
PreviousOf(series) == SumOf([k \in DOMAIN series |-> series[k].previous])

-----------------------------------------------------------------------------
(* Budgets                                                                 *)

NoFilter == [category |-> None, member |-> None]
OfCategory(c) == [NoFilter EXCEPT !.category = c]

ThisMonth == CHOOSE p \in ResolvePeriod("this_month", 0, 0, today) : TRUE

CategorySpending(p) ==
  [c \in BookCategories |-> Spending({i \in DOMAIN book :
    book[i].status = "CONFIRMED" /\ book[i].category = c /\ Within(book[i].date, p)})]

(* Over the categories it is given, here the active ones.                  *)
RollUp(cats, leaf) ==
  [c \in BookCategories |-> leaf[c] + SumOf([k \in {x \in cats : ParentOf[x] = c} |-> leaf[k]])]

Spent == RollUp(BookCategories \ archived, CategorySpending(ThisMonth))

-----------------------------------------------------------------------------
(* Properties.                                                             *)

ReportsTypeOK ==
  /\ today \in CalendarDays
  /\ book \in Seq([type : {"EXPENSE", "REFUND", "INCOME", "TRANSFER"}, category : BookCategories \cup {None},
                   payer : Payers \cup {None}, cents : Nat, status : {"CONFIRMED", "DELETED"},
                   date : Nat])
  /\ archived \subseteq BookCategories
  /\ asked \in BOOLEAN

MonthsAgo(n) == AddMonths(FirstOfMonth(today), -n)

(* Every key, with whole months of this and the last two, the next month    *)
(* (refused), and ranges that cross months, of weeks and of months.        *)
Periods ==
  (UNION {ResolvePeriod(key, 0, 0, today) : key \in PeriodKeys \ {"month", "custom"}})
  \cup (UNION {ResolvePeriod("month", MonthsAgo(n), 0, today) : n \in {-1, 0, 1, 2}})
  \cup (UNION {ResolvePeriod("custom", today - n, today, today) : n \in {10, 100, 500}})

Filters == {NoFilter} \cup {OfCategory(c) : c \in BookCategories} \cup {[NoFilter EXCEPT !.member = m] : m \in Payers}

(* What has no category, or nobody who paid, is in no breakdown.           *)
Uncategorised(p, f) == Spending({i \in Current(Selected(p, f), p) : book[i].category = None})
Unpaid(p, f) == Spending({i \in Current(Selected(p, f), p) : book[i].payer = None})

(* What a summary says of the baseline is what the baseline's own says.    *)
BaselineAgrees(s, before) ==
  /\ s.prevExpenses = before.expenses /\ s.prevIncome = before.income
  /\ s.prevCategories = before.categories

BreakdownsAddUp(s, uncategorised, unpaid) ==
  /\ SumOf(s.categories) = s.expenses - uncategorised
  /\ SumOf(s.essentiality) = s.expenses - uncategorised
  /\ SumOf(s.members) = s.expenses - unpaid

(* The points of the baseline add up unless it has more buckets.           *)
SeriesAddUp(s, spending, income, p) ==
  LET gran == Granularity(p)
      prev == PreviousPeriod(p)
  IN /\ CurrentOf(spending) = s.expenses /\ income \in {s.income, -s.income}
     /\ Index(gran, prev.start, prev.end) <= Index(gran, p.start, p.end) => PreviousOf(spending) = s.prevExpenses

(* One period, asked about in different ways (the sign of the income        *)
(* series is a matter of its own, IncomeBucketsAlike).                     *)
OneStory(p, f) ==
  /\ BaselineAgrees(Summary(p, f), Summary(PreviousPeriod(p), f))
  /\ BreakdownsAddUp(Summary(p, f), Uncategorised(p, f), Unpaid(p, f))
  /\ SeriesAddUp(Summary(p, f), SpendingSeries(p, f), CurrentOf(IncomeSeries(p, f)), p)

(* A category is told the same amount by its line in the summary, by the    *)
(* summary filtered by it, and by its budget (but a budget leaves out what  *)
(* was spent in a subcategory archived since).                             *)
SameCategory(c) ==
  LET s == Summary(ThisMonth, OfCategory(c))
  IN /\ ParentOf[c] = None => Summary(ThisMonth, NoFilter).categories[c] = s.expenses
     /\ {k \in archived : ParentOf[k] = c} = {} => Spent[c] = s.expenses

(* The reports agree with one another, today, for whatever is asked.       *)
(* (Summary, series and Budgets, reports.go 131-422; PreviousPeriod)       *)
ReportsAgree ==
  asked /\ book # <<>> =>
    /\ \A p \in Periods, f \in Filters : OneStory(p, f)
    /\ \A c \in BookCategories \ archived : SameCategory(c)

(* The day bears the name said, as far as the words tell.                  *)
Named(said, d) ==
  CASE said.form = "day" -> DayOf(d) = said.n
    [] said.form = "weekday" -> Weekday(d) = said.n /\ (said.past => d < today)
    [] said.form = "daymonth" -> MonthOf(d) = said.m /\ DayOf(d) = said.d

(* 29/02, still to come in a leap year: there was none the year before.    *)
LeapDayAhead(said) ==
  said.form = "daymonth" /\ said.m = 2 /\ said.d = 29 /\ today < Civil(YearOf(today), 2, 29)

(* What is said of a day means the latest one of that name, today included. *)
DayMeant(said, d) ==
  IF LeapDayAhead(said) THEN d = Civil(YearOf(today) - 1, 3, 1)
  ELSE Named(said, d) /\ \A e \in (d + 1)..today : ~Named(said, e)

Expressions ==
  [form : {"day"}, n : 0..32] \cup [form : {"weekday"}, n : 0..6, past : BOOLEAN]
  \cup [form : {"daymonth"}, d : {1, 28, 29, 30, 31}, m : 1..12, y : {0}]

(* A month to date with the same days of the month before, a whole month    *)
(* with a whole month, anything else with as many days right before.       *)
ComparedLikeForLike(p) ==
  LET prev == PreviousPeriod(p)
  IN CASE IsWholeMonths(p) -> IsWholeMonths(prev) /\ prev.end = p.start - 1
       [] ~IsWholeMonths(p) /\ DayOf(p.start) = 1 ->
            /\ prev.start = AddMonths(p.start, -1)
            /\ Days(prev) = Days(p) \/ (Days(prev) < Days(p) /\ prev.end = p.start - 1)
       [] OTHER -> Days(prev) = Days(p) /\ prev.end = p.start - 1

(* It starts on the first and ends in a later month.                       *)
SeveralMonths(p) == DayOf(p.start) = 1 /\ FirstOfMonth(p.end) # p.start

(* What a member says of a day is resolved to the latest day of that name, *)
(* today included, never to the future; a day of the month and a weekday   *)
(* always resolve. (29/02, still to come in a leap year, becomes 1 March   *)
(* of the year before.) And the periods follow one another: a baseline      *)
(* ends before its period begins and is comparable with it, apart from a    *)
(* period of several months that starts on the first, this_year mostly;    *)
(* last week and last month end where this one begins.                     *)
(* (ResolveDate, dates.go 62-150; ResolvePeriod and PreviousPeriod)         *)
DatesHold ==
  asked /\ book = <<>> =>
    /\ \A said \in Expressions :
         /\ \A d \in ResolveDate(said, today) : d <= today /\ DayMeant(said, d)
         /\ said.form = "weekday" \/ (said.form = "day" /\ said.n \in 1..31) => ResolveDate(said, today) # {}
    /\ \A p \in Periods :
         /\ p.start <= p.end
         /\ PreviousPeriod(p).start <= PreviousPeriod(p).end /\ PreviousPeriod(p).end < p.start
         /\ ElapsedDays(p, today) \in 1..Days(p)
         /\ ComparedLikeForLike(p) \/ SeveralMonths(p)
         /\ IsCurrentMonth(p, today) => ElapsedDays(p, today) = DayOf(today)
    /\ \A now \in ResolvePeriod("this_week", 0, 0, today), last \in ResolvePeriod("last_week", 0, 0, today) :
         last.end + 1 = now.start /\ Weekday(now.start) = 1 /\ Days(last) = 7
    /\ \A now \in ResolvePeriod("this_month", 0, 0, today), last \in ResolvePeriod("last_month", 0, 0, today) :
         last.end + 1 = now.start /\ DayOf(last.start) = 1

(* "IncomeSeries buckets income the same way" (reports.go 272) as            *)
(* SpendingSeries buckets spending: the points add up to the summary.      *)
IncomeBucketsAlike ==
  asked => \A p \in Periods, f \in Filters : CurrentOf(IncomeSeries(p, f)) = Summary(p, f).income

=============================================================================
