--------------------------- MODULE ReportsProofs ----------------------------
(***************************************************************************)
(* Proofs about Reports and Calendar, for any day after 2000, any          *)
(* categories, members, entries and any number of them.                    *)
(*                                                                         *)
(* The calendar: months are numbered through, MonthStart(k) is the last    *)
(* day before month k, and every day belongs to the one month, Serial,     *)
(* whose days it is among.  The year and the month of a day, the length    *)
(* of a month and the same day some months away are told in these terms,   *)
(* which leaves of the dates and the periods a few inequalities.           *)
(*                                                                         *)
(* The sums: SumOf adds up a function over a finite set in some order.     *)
(* Induction over subsets shows that there is such a sum, that the order   *)
(* does not matter, and that sorting the rows into groups changes nothing. *)
(* Each figure of a report is then the sum of one function of the rows,    *)
(* Net or Earned, over the rows of a period, and two figures agree because *)
(* they are of the same rows.                                              *)
(***************************************************************************)
EXTENDS Reports, FiniteSetTheorems, WellFoundedInduction, TLAPS

-----------------------------------------------------------------------------
(* Two forms of induction.                                                 *)

LEMMA NatMinimum ==
  ASSUME NEW T, T \subseteq Nat, T # {}
  PROVE  \E n \in T : \A m \in T : n <= m
<1>1. PICK x \in T : \A y \in T : ~ (<<y, x>> \in OpToRel(<,Nat))
  BY NatLessThanWellFounded, WFMin
<1>2. \A y \in T : ~(y < x)
  BY <1>1 DEF OpToRel
<1>. QED
  BY <1>2

LEMMA SetMinimum ==
  ASSUME NEW S, IsFiniteSet(S), NEW F, F \subseteq SUBSET S, F # {}
  PROVE  \E A \in F : \A B \in F : B \subseteq A => B = A
<1>1. F \subseteq FiniteSubsetsOf(S)
  BY FS_Subset DEF FiniteSubsetsOf
<1>2. PICK A \in F : \A B \in F : ~(<<B, A>> \in StrictSubsetOrdering(S))
  BY <1>1, FS_StrictSubsetOrderingWellFounded, WFMin
<1>. QED
  BY <1>2 DEF StrictSubsetOrdering

-----------------------------------------------------------------------------
(* Years and months.                                                       *)

LEMMA DivStep ==
  ASSUME NEW y \in Int
  PROVE  /\ y \div 4 = (y - 1) \div 4 + (IF y % 4 = 0 THEN 1 ELSE 0)
         /\ y \div 100 = (y - 1) \div 100 + (IF y % 100 = 0 THEN 1 ELSE 0)
         /\ y \div 400 = (y - 1) \div 400 + (IF y % 400 = 0 THEN 1 ELSE 0)
         /\ y % 100 = 0 => y % 4 = 0
         /\ y % 400 = 0 => y % 100 = 0
OBVIOUS

LEMMA YearTyped ==
  ASSUME NEW y \in Int
  PROVE  BeforeYear(y) \in Int
BY DEF BeforeYear

LEMMA YearStep ==
  ASSUME NEW y \in Int
  PROVE  /\ BeforeYear(y) \in Int
         /\ BeforeYear(y + 1) = BeforeYear(y) + (IF IsLeap(y) THEN 366 ELSE 365)
BY DivStep DEF BeforeYear, IsLeap

LEMMA YearsGrow ==
  ASSUME NEW y \in Int, NEW z \in Int, y <= z
  PROVE  BeforeYear(y) <= BeforeYear(z)
BY DEF BeforeYear

LEMMA Estimate ==
  ASSUME NEW n \in Int, NEW e \in Int, e = (n * 400) \div 146097 + 1
  PROVE  BeforeYear(e - 1) < n /\ n <= BeforeYear(e + 2)
BY DEF BeforeYear

LEMMA YearOfDay ==
  ASSUME NEW n \in Int
  PROVE  /\ YearOf(n) \in Int
         /\ BeforeYear(YearOf(n)) < n /\ n <= BeforeYear(YearOf(n) + 1)
<1> DEFINE e == (n * 400) \div 146097 + 1
           P(y) == BeforeYear(y) < n /\ n <= BeforeYear(y + 1)
<1>1. e \in Int
  OBVIOUS
<1>2. \E y \in {e - 1, e, e + 1} : P(y)
  <2>1. BeforeYear(e - 1) < n /\ n <= BeforeYear(e + 2)
    BY <1>1, Estimate
  <2>2. /\ BeforeYear(e - 1) \in Int /\ BeforeYear(e) \in Int /\ BeforeYear(e + 1) \in Int
        /\ e - 1 + 1 = e /\ e + 1 + 1 = e + 2
    BY <1>1, YearTyped
  <2>. HIDE DEF e
  <2>. QED
    BY <1>1, <2>1, <2>2
<1>3. YearOf(n) = CHOOSE y \in {e - 1, e, e + 1} : P(y)
  BY DEF YearOf
<1>. HIDE DEF e, P
<1>4. YearOf(n) \in {e - 1, e, e + 1} /\ P(YearOf(n))
  BY <1>2, <1>3
<1>. QED
  BY <1>1, <1>4 DEF P

LEMMA YearIs ==
  ASSUME NEW n \in Int, NEW y \in Int, BeforeYear(y) < n, n <= BeforeYear(y + 1)
  PROVE  YearOf(n) = y
<1>1. PICK z \in Int : z = YearOf(n)
  BY YearOfDay
<1>2. BeforeYear(z) < n /\ n <= BeforeYear(z + 1)
  BY <1>1, YearOfDay
<1>3. /\ BeforeYear(z) \in Int /\ BeforeYear(z + 1) \in Int
      /\ BeforeYear(y) \in Int /\ BeforeYear(y + 1) \in Int
  BY YearTyped
<1>4. ~(y + 1 <= z) /\ ~(z + 1 <= y)
  BY <1>2, <1>3, YearsGrow
<1>. QED
  BY <1>1, <1>4

LEMMA MonthTyped ==
  ASSUME NEW y \in Int, NEW m \in 1..12
  PROVE  BeforeMonth(y, m) \in Nat
BY DEF BeforeMonth

LEMMA MonthStep ==
  ASSUME NEW y \in Int, NEW m \in 1..12
  PROVE  /\ BeforeMonth(y, m) \in Nat /\ BeforeMonth(y, m) <= 335
         /\ m = 1 => BeforeMonth(y, m) = 0
         /\ m = 12 => BeforeMonth(y, m) + 31 = (IF IsLeap(y) THEN 366 ELSE 365)
BY DEF BeforeMonth

LEMMA NextMonthStep ==
  ASSUME NEW y \in Int, NEW m \in 1..12, m # 12
  PROVE  BeforeMonth(y, m + 1) >= BeforeMonth(y, m) + 28 /\ BeforeMonth(y, m + 1) <= BeforeMonth(y, m) + 31
BY DEF BeforeMonth

LEMMA MonthsGrow ==
  ASSUME NEW y \in Int, NEW a \in 1..12, NEW b \in 1..12, a <= b
  PROVE  BeforeMonth(y, a) <= BeforeMonth(y, b)
BY DEF BeforeMonth

(* Months numbered through: 12 a year, January of year 0 being 0.          *)
MonthStart(k) == BeforeYear(k \div 12) + BeforeMonth(k \div 12, (k % 12) + 1)

Serial(n) == 12 * YearOf(n) + MonthOf(n) - 1

(* Month m of year y has the number k; m may be out of range.              *)
Counted(k, y, m) == k \in Int /\ y \in Int /\ m \in Int /\ k = 12 * y + m - 1

LEMMA CivilIs ==
  ASSUME NEW k, NEW y, NEW m, Counted(k, y, m), NEW d
  PROVE  Civil(y, m, d) = MonthStart(k) + d
<1>1. k \div 12 = y + (m - 1) \div 12 /\ k % 12 = (m - 1) % 12
  BY DEF Counted
<1>. QED
  BY <1>1 DEF Civil, MonthStart

Numbered(k, y, m) == k \in Int /\ y \in Int /\ m \in 1..12 /\ k = 12 * y + m - 1

LEMMA MonthNumber ==
  ASSUME NEW k \in Int
  PROVE  \E y \in Int, m \in 1..12 : Numbered(k, y, m)
<1>1. k \div 12 \in Int /\ (k % 12) + 1 \in 1..12 /\ k = 12 * (k \div 12) + ((k % 12) + 1) - 1
  OBVIOUS
<1>. QED
  BY <1>1 DEF Numbered

LEMMA NextNumber ==
  ASSUME NEW k, NEW y, NEW m, Numbered(k, y, m)
  PROVE  IF m = 12 THEN Numbered(k + 1, y + 1, 1) ELSE Numbered(k + 1, y, m + 1)
BY DEF Numbered

LEMMA MonthStartIs ==
  ASSUME NEW k, NEW y, NEW m, Numbered(k, y, m)
  PROVE  /\ MonthStart(k) = BeforeYear(y) + BeforeMonth(y, m)
         /\ BeforeYear(y) \in Int /\ BeforeMonth(y, m) \in Nat /\ BeforeMonth(y, m) <= 335
<1>1. k \div 12 = y /\ (k % 12) + 1 = m /\ y \in Int /\ m \in 1..12
  BY DEF Numbered
<1>2. MonthStart(k) = BeforeYear(y) + BeforeMonth(y, m)
  BY <1>1 DEF MonthStart
<1>3. BeforeYear(y) \in Int
  BY <1>1, YearTyped
<1>4. BeforeMonth(y, m) \in Nat
  BY <1>1, MonthTyped
<1>5. BeforeMonth(y, m) <= 335
  BY <1>1, MonthStep
<1>. QED
  BY <1>2, <1>3, <1>4, <1>5

LEMMA MonthLengths ==
  ASSUME NEW k \in Int
  PROVE  MonthStart(k) \in Int /\ MonthStart(k) + 28 <= MonthStart(k + 1) /\ MonthStart(k + 1) <= MonthStart(k) + 31
<1>1. PICK y \in Int, m \in 1..12 : Numbered(k, y, m)
  BY MonthNumber
<1>2. MonthStart(k) = BeforeYear(y) + BeforeMonth(y, m) /\ BeforeYear(y) \in Int /\ BeforeMonth(y, m) \in Nat /\ BeforeMonth(y, m) <= 335
  BY <1>1, MonthStartIs
<1>3. CASE m # 12
  <2>1. Numbered(k + 1, y, m + 1)
    BY <1>1, <1>3, NextNumber
  <2>2. MonthStart(k + 1) = BeforeYear(y) + BeforeMonth(y, m + 1) /\ BeforeMonth(y, m + 1) \in Nat /\ BeforeMonth(y, m + 1) <= 335
    BY <2>1, MonthStartIs
  <2>3. BeforeMonth(y, m + 1) >= BeforeMonth(y, m) + 28 /\ BeforeMonth(y, m + 1) <= BeforeMonth(y, m) + 31
    BY <1>3, NextMonthStep
  <2>. QED
    BY <1>2, <2>2, <2>3
<1>4. CASE m = 12
  <2>1. Numbered(k + 1, y + 1, 1)
    BY <1>1, <1>4, NextNumber
  <2>2. MonthStart(k + 1) = BeforeYear(y + 1) + BeforeMonth(y + 1, 1)
    BY <2>1, MonthStartIs
  <2>3. BeforeMonth(y + 1, 1) = 0 /\ BeforeMonth(y, m) + 31 = (IF IsLeap(y) THEN 366 ELSE 365)
    BY <1>4, MonthStep
  <2>. QED
    BY <1>2, <2>2, <2>3, YearStep
<1>. QED
  BY <1>3, <1>4

LEMMA MonthsInOrder ==
  ASSUME NEW j \in Int, NEW k \in Int, j <= k
  PROVE  MonthStart(j) <= MonthStart(k)
<1>1. PICK y \in Int, a \in 1..12 : Numbered(j, y, a)
  BY MonthNumber
<1>2. PICK z \in Int, b \in 1..12 : Numbered(k, z, b)
  BY MonthNumber
<1>3. MonthStart(j) = BeforeYear(y) + BeforeMonth(y, a) /\ BeforeYear(y) \in Int /\ BeforeMonth(y, a) \in Nat /\ BeforeMonth(y, a) <= 335
  BY <1>1, MonthStartIs
<1>4. MonthStart(k) = BeforeYear(z) + BeforeMonth(z, b) /\ BeforeYear(z) \in Int /\ BeforeMonth(z, b) \in Nat /\ BeforeMonth(z, b) <= 335
  BY <1>2, MonthStartIs
<1>5. y < z \/ (y = z /\ a <= b)
  BY <1>1, <1>2 DEF Numbered
<1>6. CASE y < z
  <2>1. y + 1 \in Int /\ y + 1 <= z
    BY <1>6
  <2>2. BeforeYear(y + 1) <= BeforeYear(z)
    BY <2>1, YearsGrow
  <2>3. BeforeYear(y + 1) >= BeforeYear(y) + 365
    BY <1>3, YearStep
  <2>. QED
    BY <1>3, <1>4, <2>1, <2>2, <2>3, YearStep
<1>7. CASE y = z /\ a <= b
  <2>1. BeforeMonth(y, a) <= BeforeMonth(y, b)
    BY <1>7, MonthsGrow
  <2>. QED
    BY <1>3, <1>4, <1>7, <2>1
<1>. QED
  BY <1>5, <1>6, <1>7

LEMMA MonthOfDay ==
  ASSUME NEW n \in Int
  PROVE  /\ Numbered(Serial(n), YearOf(n), MonthOf(n))
         /\ MonthStart(Serial(n)) < n /\ n <= MonthStart(Serial(n) + 1)
<1>1. PICK y \in Int : y = YearOf(n)
  BY YearOfDay
<1>2. PICK day \in Int : day = n - BeforeYear(y)
  BY YearTyped
<1>3. PICK e \in Int : e = (day - 1) \div 31 + 1
  OBVIOUS
<1>4. day >= 1 /\ day <= (IF IsLeap(y) THEN 366 ELSE 365) /\ n = BeforeYear(y) + day /\ BeforeYear(y) \in Int
  BY <1>1, <1>2, YearOfDay, YearStep
<1>5. e \in 1..12 /\ 31 * (e - 1) < day /\ day <= 31 * e
  BY <1>3, <1>4
<1>6. PICK m \in Int : m = (IF e < 12 /\ day > BeforeMonth(y, e + 1) THEN e + 1 ELSE e)
  BY <1>5
<1>7. m = MonthOf(n)
  BY <1>1, <1>2, <1>3, <1>6 DEF MonthOf
<1>8. m \in 1..12
  BY <1>5, <1>6
<1>9. BeforeMonth(y, m) < day
  BY <1>4, <1>5, <1>6 DEF BeforeMonth
<1>10. day <= IF m = 12 THEN (IF IsLeap(y) THEN 366 ELSE 365) ELSE BeforeMonth(y, m + 1)
  BY <1>4, <1>5, <1>6 DEF BeforeMonth
<1>11. Numbered(Serial(n), y, m)
  BY <1>1, <1>7, <1>8 DEF Numbered, Serial
<1>12. MonthStart(Serial(n)) = BeforeYear(y) + BeforeMonth(y, m) /\ BeforeMonth(y, m) \in Nat
  BY <1>11, MonthStartIs
<1>13. CASE m # 12
  <2>1. Numbered(Serial(n) + 1, y, m + 1)
    BY <1>11, <1>13, NextNumber
  <2>2. MonthStart(Serial(n) + 1) = BeforeYear(y) + BeforeMonth(y, m + 1) /\ BeforeMonth(y, m + 1) \in Nat
    BY <2>1, MonthStartIs
  <2>. QED
    BY <1>1, <1>4, <1>7, <1>9, <1>10, <1>11, <1>12, <1>13, <2>2
<1>14. CASE m = 12
  <2>1. Numbered(Serial(n) + 1, y + 1, 1)
    BY <1>11, <1>14, NextNumber
  <2>2. MonthStart(Serial(n) + 1) = BeforeYear(y + 1) + BeforeMonth(y + 1, 1)
    BY <2>1, MonthStartIs
  <2>3. BeforeMonth(y + 1, 1) = 0
    BY MonthStep
  <2>4. BeforeYear(y + 1) = BeforeYear(y) + (IF IsLeap(y) THEN 366 ELSE 365)
    BY YearStep
  <2>. QED
    BY <1>1, <1>4, <1>7, <1>9, <1>10, <1>11, <1>12, <1>14, <2>2, <2>3, <2>4
<1>. QED
  BY <1>8, <1>13, <1>14

LEMMA SerialIs ==
  ASSUME NEW n \in Int, NEW k \in Int, MonthStart(k) < n, n <= MonthStart(k + 1)
  PROVE  Serial(n) = k
<1>1. PICK j \in Int : j = Serial(n)
  BY MonthOfDay DEF Numbered
<1>2. MonthStart(j) < n /\ n <= MonthStart(j + 1)
  BY <1>1, MonthOfDay
<1>3. MonthStart(j) \in Int /\ MonthStart(j + 1) \in Int /\ MonthStart(k) \in Int /\ MonthStart(k + 1) \in Int
  BY MonthLengths
<1>4. ~(j + 1 <= k) /\ ~(k + 1 <= j)
  BY <1>2, <1>3, MonthsInOrder
<1>. QED
  BY <1>1, <1>4

(* What the rest of the calendar is in these terms.                        *)
LEMMA DayIs ==
  ASSUME NEW n \in Int
  PROVE  /\ Serial(n) \in Int
         /\ FirstOfMonth(n) = MonthStart(Serial(n)) + 1
         /\ DayOf(n) = n - MonthStart(Serial(n))
         /\ DayOf(n) \in Nat /\ DayOf(n) >= 1
         /\ DayOf(n) <= MonthStart(Serial(n) + 1) - MonthStart(Serial(n))
<1>1. /\ Serial(n) \in Int /\ YearOf(n) \in Int /\ MonthOf(n) \in Int
      /\ MonthStart(Serial(n)) < n /\ n <= MonthStart(Serial(n) + 1)
  BY MonthOfDay DEF Numbered
<1>2. MonthStart(Serial(n)) \in Int /\ MonthStart(Serial(n) + 1) \in Int
  BY <1>1, MonthLengths
<1>3. FirstOfMonth(n) = MonthStart(Serial(n)) + 1
  <2>1. PICK y \in Int, m \in Int, k \in Int : y = YearOf(n) /\ m = MonthOf(n) /\ k = Serial(n)
    BY <1>1
  <2>2. Counted(k, y, m)
    BY <2>1 DEF Serial, Counted
  <2>3. Civil(y, m, 1) = MonthStart(k) + 1
    BY <2>2, CivilIs
  <2>. QED
    BY <2>1, <2>3 DEF FirstOfMonth
<1>4. DayOf(n) = n - MonthStart(Serial(n))
  BY <1>2, <1>3 DEF DayOf
<1>. QED
  BY <1>1, <1>2, <1>3, <1>4

LEMMA AddMonthsIs ==
  ASSUME NEW n \in Int, NEW j \in Int
  PROVE  AddMonths(n, j) = MonthStart(Serial(n) + j) + DayOf(n)
<1>1. /\ YearOf(n) \in Int /\ MonthOf(n) \in Int
      /\ DayOf(n) \in Int /\ Serial(n) \in Int
  <2>1. YearOf(n) \in Int
    BY YearOfDay
  <2>2. Numbered(Serial(n), YearOf(n), MonthOf(n))
    BY MonthOfDay
  <2>3. MonthOf(n) \in Int
    BY <2>2 DEF Numbered
  <2>4. DayOf(n) \in Int /\ Serial(n) \in Int
    BY DayIs
  <2>. QED
    BY <2>1, <2>3, <2>4
<1>2. PICK y \in Int, m \in Int, d \in Int, k \in Int :
        y = YearOf(n) /\ m = MonthOf(n) + j /\ d = DayOf(n) /\ k = Serial(n) + j
  BY <1>1
<1>3. Counted(k, y, m)
  BY <1>1, <1>2 DEF Serial, Counted
<1>4. Civil(y, m, d) = MonthStart(k) + d
  BY <1>3, CivilIs
<1>. QED
  BY <1>2, <1>4 DEF AddMonths

LEMMA MonthLengthIs ==
  ASSUME NEW k, NEW y, NEW m, Counted(k, y, m)
  PROVE  MonthLength(y, m) = MonthStart(k + 1) - MonthStart(k)
<1>1. MonthStart(k) \in Int /\ MonthStart(k + 1) \in Int
  BY MonthLengths DEF Counted
<1>2. Counted(k + 1, y, m + 1)
  BY DEF Counted
<1>3. Civil(y, m + 1, 1) = MonthStart(k + 1) + 1
  BY <1>2, CivilIs
<1>4. Civil(y, m, 1) = MonthStart(k) + 1
  BY CivilIs
<1>. QED
  BY <1>1, <1>3, <1>4 DEF MonthLength

-----------------------------------------------------------------------------
(* Periods.                                                                *)

LEMMA DayIn ==
  ASSUME NEW k \in Int, NEW d \in Int, d >= 1, d <= MonthStart(k + 1) - MonthStart(k), NEW n, n = MonthStart(k) + d
  PROVE  n \in Int /\ Serial(n) = k /\ DayOf(n) = d
<1>1. MonthStart(k) \in Int /\ MonthStart(k + 1) \in Int
  BY MonthLengths
<1>2. n \in Int /\ MonthStart(k) < n /\ n <= MonthStart(k + 1)
  BY <1>1
<1>3. Serial(n) = k
  BY <1>2, SerialIs
<1>. QED
  BY <1>1, <1>2, <1>3, DayIs

LEMMA FirstDay ==
  ASSUME NEW k \in Int, NEW n, n = MonthStart(k) + 1
  PROVE  n \in Int /\ Serial(n) = k /\ DayOf(n) = 1
<1>1. 1 <= MonthStart(k + 1) - MonthStart(k)
  <2>1. MonthStart(k) \in Int /\ MonthStart(k + 1) \in Int /\ MonthStart(k) + 28 <= MonthStart(k + 1)
    BY MonthLengths
  <2>. QED
    BY <2>1
<1>. QED
  BY <1>1, DayIn

LEMMA MonthFollows ==
  ASSUME NEW n \in Int, NEW j \in Int, DayOf(n) = 1
  PROVE  AddMonths(n, j) = MonthStart(Serial(n) + j) + 1 /\ n = MonthStart(Serial(n)) + 1
<1>1. MonthStart(Serial(n)) \in Int
  BY DayIs, MonthLengths
<1>. QED
  BY <1>1, AddMonthsIs, DayIs

GoodPeriod(p) == p.start \in Int /\ p.end \in Int /\ p.start <= p.end

LEMMA PreviousIs ==
  ASSUME NEW p, GoodPeriod(p)
  PROVE  /\ GoodPeriod(PreviousPeriod(p)) /\ PreviousPeriod(p).end < p.start
         /\ ComparedLikeForLike(p) \/ SeveralMonths(p)
<1>1. PICK s \in Int, e \in Int : s = p.start /\ e = p.end
  BY DEF GoodPeriod
<1>2. s <= e
  BY <1>1 DEF GoodPeriod
<1>3. CASE DayOf(s) # 1
  <2>1. PreviousPeriod(p) = Period(s - (e - s + 1), s - 1)
    BY <1>1, <1>3 DEF PreviousPeriod, Days
  <2>2. ~IsWholeMonths(p)
    BY <1>1, <1>3 DEF IsWholeMonths
  <2>3. /\ PreviousPeriod(p).start = s - (e - s + 1)
        /\ PreviousPeriod(p).end = s - 1
    BY <2>1 DEF Period
  <2>4. ComparedLikeForLike(p)
    BY <1>1, <1>3, <2>2, <2>3 DEF ComparedLikeForLike, Days
  <2>. QED
    BY <1>1, <1>2, <2>3, <2>4 DEF GoodPeriod
<1>4. CASE DayOf(s) = 1
  <2>1. PICK k \in Int : k = Serial(s)
    BY DayIs
  <2>2. PICK a \in Int, b \in Int : a = MonthStart(k - 1) /\ b = MonthStart(k)
    <3>1. MonthStart(k - 1) \in Int /\ MonthStart(k) \in Int
      BY MonthLengths
    <3>. QED
      BY <3>1
  <2>3. s = b + 1 /\ AddMonths(s, -1) = a + 1
    BY <1>4, <2>1, <2>2, MonthFollows
  <2>4. a + 28 <= b /\ b <= a + 31
    <3>1. PICK j \in Int : j = k - 1 /\ j + 1 = k
      OBVIOUS
    <3>. QED
      BY <2>2, <3>1, MonthLengths
  <2>5. DayOf(s - 1) = b - a /\ DayOf(a + 1) = 1
    <3>1. PICK j \in Int : j = k - 1 /\ j + 1 = k
      OBVIOUS
    <3>2. PICK l \in Int, d \in Int : l = s - 1 /\ d = b - a
      BY <2>3
    <3>3. l = MonthStart(j) + d /\ d >= 1 /\ d <= MonthStart(j + 1) - MonthStart(j)
      BY <2>2, <2>3, <2>4, <3>1, <3>2
    <3>4. DayOf(l) = d
      BY <3>3, DayIn
    <3>5. DayOf(a + 1) = 1
      BY <2>2, <3>1, FirstDay
    <3>. QED
      BY <3>2, <3>4, <3>5
  <2>6. CASE IsWholeMonths(p)
    <3>1. PreviousPeriod(p).start = a + 1 /\ PreviousPeriod(p).end = s - 1
      BY <1>1, <1>4, <2>3, <2>6 DEF PreviousPeriod, Period
    <3>2. IsWholeMonths(PreviousPeriod(p))
      <4>1. s - 1 + 1 = s
        OBVIOUS
      <4>. QED
        BY <1>4, <2>5, <3>1, <4>1 DEF IsWholeMonths
    <3>3. ComparedLikeForLike(p)
      BY <1>1, <2>6, <3>1, <3>2 DEF ComparedLikeForLike
    <3>. QED
      BY <1>1, <2>3, <2>4, <3>1, <3>3 DEF GoodPeriod
  <2>7. CASE ~IsWholeMonths(p)
    <3>1. PICK d \in Int : d = DayOf(e) /\ d >= 1
      BY DayIs
    <3>2. PICK day \in Int : day = (IF d > b - a THEN b - a ELSE d)
      BY <2>4
    <3>3. PreviousPeriod(p).start = a + 1 /\ PreviousPeriod(p).end = a + 1 + day - 1
      BY <1>1, <1>4, <2>3, <2>5, <2>7, <3>1, <3>2 DEF PreviousPeriod, Period
    <3>4. PreviousPeriod(p).end = a + day
      BY <3>3
    <3>5. day >= 1 /\ day <= b - a
      BY <2>4, <3>1, <3>2
    <3>6. ASSUME ~SeveralMonths(p)
          PROVE  ComparedLikeForLike(p)
      <4>1. FirstOfMonth(e) = s
        BY <1>1, <1>4, <3>6 DEF SeveralMonths
      <4>2. d = e - s + 1
        BY <3>1, <4>1 DEF DayOf
      <4>3. Days(p) = d /\ Days(PreviousPeriod(p)) = day
        BY <1>1, <3>3, <3>4, <4>2 DEF Days
      <4>4. day = d \/ (day < d /\ a + day = s - 1)
        BY <2>3, <3>2
      <4>. QED
        BY <1>1, <1>4, <2>3, <2>7, <3>3, <3>4, <4>3, <4>4 DEF ComparedLikeForLike
    <3>. QED
      BY <1>1, <2>3, <3>3, <3>4, <3>5, <3>6 DEF GoodPeriod
  <2>. QED
    BY <2>6, <2>7
<1>. QED
  BY <1>3, <1>4

LEMMA ElapsedIs ==
  ASSUME NEW p, GoodPeriod(p), NEW t \in Int
  PROVE  /\ ElapsedDays(p, t) \in 1..Days(p)
         /\ IsCurrentMonth(p, t) => ElapsedDays(p, t) = DayOf(t)
<1>1. PICK s \in Int, e \in Int : s = p.start /\ e = p.end
  BY DEF GoodPeriod
<1>2. s <= e
  BY <1>1 DEF GoodPeriod
<1>3. PICK n \in Int : n = (IF t < e THEN t ELSE e) - s + 1
  OBVIOUS
<1>4. ElapsedDays(p, t) = IF n < 1 THEN 1 ELSE n
  BY <1>1, <1>3 DEF ElapsedDays
<1>5. ElapsedDays(p, t) \in 1..Days(p)
  BY <1>1, <1>2, <1>3, <1>4 DEF Days
<1>6. ASSUME IsCurrentMonth(p, t)
      PROVE  ElapsedDays(p, t) = DayOf(t)
  <2>1. DayOf(s) = 1 /\ FirstOfMonth(s) = FirstOfMonth(t) /\ e >= t
    BY <1>1, <1>6 DEF IsCurrentMonth
  <2>2. FirstOfMonth(s) = s
    <3>1. PICK k \in Int, b \in Int : k = Serial(s) /\ b = MonthStart(k)
      BY DayIs, MonthLengths
    <3>2. FirstOfMonth(s) = b + 1 /\ 1 = s - b
      BY <2>1, <3>1, DayIs
    <3>. QED
      BY <3>2
  <2>3. DayOf(t) = t - s + 1 /\ DayOf(t) >= 1
    <3>1. DayOf(t) = t - FirstOfMonth(t) + 1
      BY DEF DayOf
    <3>. QED
      BY <2>1, <2>2, <3>1, DayIs
  <2>. QED
    BY <1>3, <1>4, <2>1, <2>3
<1>. QED
  BY <1>5, <1>6

(* What is known of today and of its month and the months around it.       *)
LEMMA TodayIs ==
  ASSUME NEW t \in Int
  PROVE  \E k \in Int, a \in Int, b \in Int, c \in Int :
           /\ k = Serial(t) /\ a = MonthStart(k - 1) /\ b = MonthStart(k) /\ c = MonthStart(k + 1)
           /\ a + 28 <= b /\ b <= a + 31 /\ b < t /\ t <= c /\ c <= b + 31
           /\ FirstOfMonth(t) = b + 1 /\ DayOf(t) = t - b
<1>1. PICK k \in Int, j \in Int : k = Serial(t) /\ j = k - 1 /\ j + 1 = k
  <2>1. Serial(t) \in Int
    BY DayIs
  <2>2. Serial(t) - 1 \in Int /\ (Serial(t) - 1) + 1 = Serial(t)
    BY <2>1
  <2>. QED
    BY <2>1, <2>2
<1>2. /\ MonthStart(j) \in Int /\ MonthStart(k) \in Int /\ MonthStart(k + 1) \in Int
      /\ MonthStart(j) + 28 <= MonthStart(k) /\ MonthStart(k) <= MonthStart(j) + 31
      /\ MonthStart(k + 1) <= MonthStart(k) + 31
  BY <1>1, MonthLengths
<1>3. MonthStart(k) < t /\ t <= MonthStart(k + 1)
  BY <1>1, MonthOfDay
<1>4. FirstOfMonth(t) = MonthStart(k) + 1 /\ DayOf(t) = t - MonthStart(k)
  BY <1>1, DayIs
<1>. QED
  BY <1>1, <1>2, <1>3, <1>4

LEMMA YearBegins ==
  ASSUME NEW y \in Int
  PROVE  Civil(y, 1, 1) = BeforeYear(y) + 1
<1>1. BeforeMonth(y, 1) = 0
  BY DEF BeforeMonth
<1>2. (1 - 1) \div 12 = 0 /\ (1 - 1) % 12 = 0
  OBVIOUS
<1>. QED
  BY <1>1, <1>2, YearTyped DEF Civil

LEMMA ResolvedIsGood ==
  ASSUME NEW t \in Int, NEW key \in PeriodKeys \ {"month", "custom"}, NEW p \in ResolvePeriod(key, 0, 0, t)
  PROVE  GoodPeriod(p)
<1>1. PICK k \in Int, a \in Int, b \in Int, c \in Int :
           /\ k = Serial(t) /\ a = MonthStart(k - 1) /\ b = MonthStart(k) /\ c = MonthStart(k + 1)
           /\ a + 28 <= b /\ b <= a + 31 /\ b < t /\ t <= c /\ c <= b + 31
           /\ FirstOfMonth(t) = b + 1 /\ DayOf(t) = t - b
  BY TodayIs
<1>2. AddMonths(b + 1, -1) = a + 1
  <2>1. PICK f \in Int : f = b + 1
    OBVIOUS
  <2>2. Serial(f) = k /\ DayOf(f) = 1
    BY <1>1, <2>1, FirstDay
  <2>3. k + (-1) = k - 1
    OBVIOUS
  <2>4. AddMonths(f, -1) = MonthStart(k + (-1)) + 1
    BY <2>2, MonthFollows
  <2>. QED
    BY <1>1, <2>1, <2>3, <2>4
<1>3. PICK f \in Int, q \in Int : f = b + 1 /\ q = (Weekday(t) + 6) % 7 /\ 0 <= q
  BY DEF Weekday
<1>4. PICK y \in Int : y = BeforeYear(YearOf(t)) /\ Civil(YearOf(t), 1, 1) = y + 1 /\ y < t
  BY YearOfDay, YearBegins, YearTyped
<1>5. CASE key = "this_month"
  <2>1. p = Period(f, t)
    BY <1>1, <1>3, <1>5 DEF ResolvePeriod
  <2>. QED
    BY <1>1, <1>3, <2>1 DEF GoodPeriod, Period
<1>6. CASE key = "today"
  <2>1. p = Period(t, t)
    BY <1>6 DEF ResolvePeriod
  <2>. QED
    BY <2>1 DEF GoodPeriod, Period
<1>7. CASE key = "yesterday"
  <2>1. p = Period(t - 1, t - 1)
    BY <1>7 DEF ResolvePeriod
  <2>. QED
    BY <2>1 DEF GoodPeriod, Period
<1>8. CASE key = "this_week"
  <2>1. p = Period(t - q, t)
    BY <1>3, <1>8 DEF ResolvePeriod
  <2>. QED
    BY <1>3, <2>1 DEF GoodPeriod, Period
<1>9. CASE key = "last_week"
  <2>1. p = Period(t - q - 7, t - q - 1)
    BY <1>3, <1>9 DEF ResolvePeriod
  <2>. QED
    BY <2>1 DEF GoodPeriod, Period
<1>10. CASE key = "last_month"
  <2>1. p = Period(a + 1, f - 1)
    BY <1>1, <1>2, <1>3, <1>10 DEF ResolvePeriod
  <2>. QED
    BY <1>1, <1>3, <2>1 DEF GoodPeriod, Period
<1>11. CASE key = "last_7_days"
  <2>1. p = Period(t - 6, t)
    BY <1>11 DEF ResolvePeriod
  <2>. QED
    BY <2>1 DEF GoodPeriod, Period
<1>12. CASE key = "last_30_days"
  <2>1. p = Period(t - 29, t)
    BY <1>12 DEF ResolvePeriod
  <2>. QED
    BY <2>1 DEF GoodPeriod, Period
<1>13. CASE key = "this_year"
  <2>1. p = Period(y + 1, t)
    BY <1>4, <1>13 DEF ResolvePeriod
  <2>. QED
    BY <1>4, <2>1 DEF GoodPeriod, Period
<1>. QED
  BY <1>5, <1>6, <1>7, <1>8, <1>9, <1>10, <1>11, <1>12, <1>13 DEF PeriodKeys

LEMMA MonthIsGood ==
  ASSUME today \in Int, NEW n \in Int, NEW p \in ResolvePeriod("month", MonthsAgo(n), 0, today)
  PROVE  GoodPeriod(p)
<1>1. PICK k \in Int, a \in Int, b \in Int, c \in Int :
           /\ k = Serial(today) /\ a = MonthStart(k - 1) /\ b = MonthStart(k) /\ c = MonthStart(k + 1)
           /\ a + 28 <= b /\ b <= a + 31 /\ b < today /\ today <= c /\ c <= b + 31
           /\ FirstOfMonth(today) = b + 1 /\ DayOf(today) = today - b
  BY TodayIs
<1>2. PICK f \in Int : f = b + 1
  OBVIOUS
<1>3. Serial(f) = k /\ DayOf(f) = 1
  BY <1>1, <1>2, FirstDay
<1>4. PICK j \in Int : j = k + (-n)
  OBVIOUS
<1>5. MonthsAgo(n) = MonthStart(j) + 1
  <2>1. AddMonths(f, -n) = MonthStart(k + (-n)) + 1
    BY <1>3, MonthFollows
  <2>. QED
    BY <1>1, <1>2, <1>4, <2>1 DEF MonthsAgo
<1>6. PICK g \in Int : g = MonthsAgo(n) /\ Serial(g) = j /\ DayOf(g) = 1
  BY <1>5, FirstDay
<1>7. AddMonths(g, 1) = MonthStart(j + 1) + 1
  BY <1>6, MonthFollows
<1>8. p = Period(g, AddMonths(g, 1) - 1)
  BY <1>6 DEF ResolvePeriod
<1>9. MonthStart(j) \in Int /\ MonthStart(j + 1) \in Int /\ MonthStart(j) + 28 <= MonthStart(j + 1)
  BY MonthLengths
<1>. QED
  BY <1>5, <1>6, <1>7, <1>8, <1>9 DEF GoodPeriod, Period

LEMMA PeriodsAreGood ==
  ASSUME today \in Int, NEW p \in Periods
  PROVE  GoodPeriod(p)
<1>1. CASE \E key \in PeriodKeys \ {"month", "custom"} : p \in ResolvePeriod(key, 0, 0, today)
  BY <1>1, ResolvedIsGood
<1>2. CASE \E n \in {-1, 0, 1, 2} : p \in ResolvePeriod("month", MonthsAgo(n), 0, today)
  <2>1. PICK n \in {-1, 0, 1, 2} : p \in ResolvePeriod("month", MonthsAgo(n), 0, today)
    BY <1>2
  <2>2. n \in Int
    OBVIOUS
  <2>. QED
    BY <2>1, <2>2, MonthIsGood
<1>3. CASE \E n \in {10, 100, 500} : p \in ResolvePeriod("custom", today - n, today, today)
  <2>1. PICK n \in {10, 100, 500} : p \in ResolvePeriod("custom", today - n, today, today)
    BY <1>3
  <2>2. p = Period(today - n, today) /\ n \in Nat
    BY <2>1 DEF ResolvePeriod
  <2>. QED
    BY <2>2 DEF GoodPeriod, Period
<1>4. \/ p \in UNION {ResolvePeriod(key, 0, 0, today) : key \in PeriodKeys \ {"month", "custom"}}
      \/ p \in UNION {ResolvePeriod("month", MonthsAgo(n), 0, today) : n \in {-1, 0, 1, 2}}
      \/ p \in UNION {ResolvePeriod("custom", today - n, today, today) : n \in {10, 100, 500}}
  BY DEF Periods
<1>5. CASE p \in UNION {ResolvePeriod(key, 0, 0, today) : key \in PeriodKeys \ {"month", "custom"}}
  BY <1>1, <1>5
<1>6. CASE p \in UNION {ResolvePeriod("month", MonthsAgo(n), 0, today) : n \in {-1, 0, 1, 2}}
  BY <1>2, <1>6
<1>7. CASE p \in UNION {ResolvePeriod("custom", today - n, today, today) : n \in {10, 100, 500}}
  BY <1>3, <1>7
<1>. QED
  BY <1>4, <1>5, <1>6, <1>7

-----------------------------------------------------------------------------
(* What a day resolves to.                                                 *)

LEMMA LengthOf ==
  ASSUME NEW k, NEW y, NEW m, Numbered(k, y, m)
  PROVE  MonthStart(k + 1) - MonthStart(k) =
           IF m = 2 THEN IF IsLeap(y) THEN 29 ELSE 28 ELSE IF m \in {4, 6, 9, 11} THEN 30 ELSE 31
<1>1. MonthStart(k) = BeforeYear(y) + BeforeMonth(y, m) /\ BeforeYear(y) \in Int /\ BeforeMonth(y, m) \in Nat
  BY MonthStartIs
<1>2. y \in Int /\ m \in 1..12
  BY DEF Numbered
<1>3. CASE m = 12
  <2>1. Numbered(k + 1, y + 1, 1)
    BY <1>3, NextNumber
  <2>2. MonthStart(k + 1) = BeforeYear(y + 1) + BeforeMonth(y + 1, 1)
    BY <2>1, MonthStartIs
  <2>3. BeforeMonth(y + 1, 1) = 0 /\ BeforeMonth(y, m) + 31 = (IF IsLeap(y) THEN 366 ELSE 365)
    BY <1>2, <1>3, MonthStep
  <2>. QED
    BY <1>1, <1>2, <1>3, <2>2, <2>3, YearStep
<1>4. CASE m # 12
  <2>1. Numbered(k + 1, y, m + 1)
    BY <1>4, NextNumber
  <2>2. MonthStart(k + 1) = BeforeYear(y) + BeforeMonth(y, m + 1) /\ BeforeMonth(y, m + 1) \in Nat
    BY <2>1, MonthStartIs
  <2>3. BeforeMonth(y, m + 1) - BeforeMonth(y, m) =
          IF m = 2 THEN IF IsLeap(y) THEN 29 ELSE 28 ELSE IF m \in {4, 6, 9, 11} THEN 30 ELSE 31
    BY <1>2, <1>4 DEF BeforeMonth
  <2>. QED
    BY <1>1, <2>2, <2>3
<1>. QED
  BY <1>3, <1>4

(* Of two months in a row one has 31 days.                                 *)
LEMMA OneIsLong ==
  ASSUME NEW k \in Int
  PROVE  MonthStart(k + 1) - MonthStart(k) = 31 \/ MonthStart((k + 1) + 1) - MonthStart(k + 1) = 31
<1>1. PICK y \in Int, m \in 1..12 : Numbered(k, y, m)
  BY MonthNumber
<1>2. CASE m \in {2, 4, 6, 9, 11}
  <2>1. Numbered(k + 1, y, m + 1) /\ m + 1 \notin {2, 4, 6, 9, 11}
    BY <1>1, <1>2, NextNumber
  <2>. QED
    BY <2>1, LengthOf
<1>3. CASE m \notin {2, 4, 6, 9, 11}
  BY <1>1, <1>3, LengthOf
<1>. QED
  BY <1>2, <1>3

LEMMA YearAtLeast ==
  ASSUME NEW n \in Int, NEW y \in Int, BeforeYear(y) < n
  PROVE  y <= YearOf(n)
<1>1. PICK z \in Int : z = YearOf(n)
  BY YearOfDay
<1>2. n <= BeforeYear(z + 1) /\ BeforeYear(z + 1) \in Int /\ BeforeYear(y) \in Int
  BY <1>1, YearOfDay, YearTyped
<1>3. ~(z + 1 <= y)
  BY <1>2, YearsGrow
<1>. QED
  BY <1>1, <1>3

LEMMA Recent ==
  ASSUME NEW t \in Int, YearOf(t) > 2021, NEW n \in Int, n >= t - 93
  PROVE  YearOf(n) >= 2000
<1>1. PICK z \in Int : z = YearOf(t) /\ 2001 <= z
  BY YearOfDay
<1>2. BeforeYear(z) < t /\ BeforeYear(z) \in Int
  BY <1>1, YearOfDay, YearStep
<1>3. BeforeYear(2001) <= BeforeYear(z)
  BY <1>1, YearsGrow
<1>4. BeforeYear(2001) = BeforeYear(2000) + 366 /\ BeforeYear(2000) \in Int
  BY DEF BeforeYear
<1>5. BeforeYear(2000) < n
  BY <1>2, <1>3, <1>4
<1>. QED
  BY <1>5, YearAtLeast

LEMMA MonthBack ==
  ASSUME NEW t \in Int, NEW day \in Int, NEW i \in Int, NEW l \in Int, l = Serial(t) - i
  PROVE  /\ MonthLength(YearOf(t), MonthOf(t) - i) = MonthStart(l + 1) - MonthStart(l)
         /\ Civil(YearOf(t), MonthOf(t) - i, day) = MonthStart(l) + day
<1>1. YearOf(t) \in Int /\ MonthOf(t) \in Int
  BY MonthOfDay DEF Numbered
<1>2. PICK y \in Int, m \in Int, d \in Int : y = YearOf(t) /\ m = MonthOf(t) - i /\ d = day
  BY <1>1
<1>3. Counted(l, y, m)
  BY <1>1, <1>2 DEF Serial, Counted
<1>4. MonthLength(y, m) = MonthStart(l + 1) - MonthStart(l)
  BY <1>3, MonthLengthIs
<1>5. Civil(y, m, d) = MonthStart(l) + d
  BY <1>3, CivilIs
<1>. QED
  BY <1>2, <1>4, <1>5

(* Later days are in the same month or a later one.                        *)
LEMMA SerialGrows ==
  ASSUME NEW n \in Int, NEW t \in Int, n <= t
  PROVE  Serial(n) <= Serial(t)
<1>1. PICK j \in Int, k \in Int : j = Serial(n) /\ k = Serial(t)
  BY DayIs
<1>2. MonthStart(j) < n /\ t <= MonthStart(k + 1) /\ MonthStart(j) \in Int /\ MonthStart(k + 1) \in Int
  BY <1>1, MonthOfDay, MonthLengths
<1>3. ~(k + 1 <= j)
  BY <1>2, MonthsInOrder
<1>. QED
  BY <1>1, <1>3

LEMMA SameDayLater ==
  ASSUME NEW e \in Int, NEW n \in Int, e < n, DayOf(n) = DayOf(e)
  PROVE  Serial(e) < Serial(n)
<1>1. PICK j \in Int, k \in Int, a \in Int, b \in Int :
        j = Serial(e) /\ k = Serial(n) /\ a = MonthStart(j) /\ b = MonthStart(k)
  BY DayIs, MonthLengths
<1>2. DayOf(e) = e - a /\ DayOf(n) = n - b
  BY <1>1, DayIs
<1>3. ~(k <= j)
  BY <1>1, <1>2, MonthsInOrder
<1>. QED
  BY <1>1, <1>3

Latest(e, day, t) ==
  /\ LatestDay(day, t) = {e} /\ e <= t /\ DayOf(e) = day /\ e > t - 93
  /\ \A n \in (e + 1)..t : DayOf(n) # day

LEMMA LatestDayIs ==
  ASSUME NEW t \in Int, NEW day \in Int, 1 <= day, day <= 31
  PROVE  \E e \in Int : Latest(e, day, t)
<1>1. PICK k \in Int, a \in Int, b \in Int, c \in Int :
           /\ k = Serial(t) /\ a = MonthStart(k - 1) /\ b = MonthStart(k) /\ c = MonthStart(k + 1)
           /\ a + 28 <= b /\ b <= a + 31 /\ b < t /\ t <= c /\ c <= b + 31
           /\ FirstOfMonth(t) = b + 1 /\ DayOf(t) = t - b
  BY TodayIs
<1>2. PICK j \in Int : j = k - 2 /\ j + 1 = k - 1 /\ (j + 1) + 1 = k
  OBVIOUS
<1>3. PICK z \in Int : z = MonthStart(j) /\ z + 28 <= a /\ a <= z + 31
  BY <1>1, <1>2, MonthLengths
<1> DEFINE at(i) == Civil(YearOf(t), MonthOf(t) - i, day)
           months == {i \in 0..11 : day <= MonthLength(YearOf(t), MonthOf(t) - i) /\ at(i) <= t}
           latest == CHOOSE i \in months : \A o \in months : i <= o
<1>4. /\ MonthLength(YearOf(t), MonthOf(t) - 0) = c - b /\ at(0) = b + day
      /\ MonthLength(YearOf(t), MonthOf(t) - 1) = b - a /\ at(1) = a + day
      /\ MonthLength(YearOf(t), MonthOf(t) - 2) = a - z /\ at(2) = z + day
  <2>1. MonthLength(YearOf(t), MonthOf(t) - 0) = c - b /\ at(0) = b + day
    <3>1. k = Serial(t) - 0
      BY <1>1
    <3>. QED
      BY <1>1, <3>1, MonthBack
  <2>2. MonthLength(YearOf(t), MonthOf(t) - 1) = b - a /\ at(1) = a + day
    <3>1. PICK l \in Int : l = Serial(t) - 1 /\ l + 1 = k /\ l = k - 1
      BY <1>1
    <3>. QED
      BY <1>1, <3>1, MonthBack
  <2>3. MonthLength(YearOf(t), MonthOf(t) - 2) = a - z /\ at(2) = z + day
    <3>1. j = Serial(t) - 2
      BY <1>1, <1>2
    <3>. QED
      BY <1>1, <1>2, <1>3, <3>1, MonthBack
  <2>. QED
    BY <2>1, <2>2, <2>3
<1>5. b - a = 31 \/ a - z = 31
  BY <1>1, <1>2, <1>3, OneIsLong
<1>6. 1 \in months \/ 2 \in months
  BY <1>1, <1>3, <1>4, <1>5
<1>7. months \subseteq Nat /\ \A i \in months : i \in 0..11
  OBVIOUS
<1>8. LatestDay(day, t) = IF months = {} THEN {} ELSE {at(latest)}
  BY DEF LatestDay
<1>9. \A i \in months : day <= MonthLength(YearOf(t), MonthOf(t) - i) /\ at(i) <= t
  OBVIOUS
<1>. HIDE DEF at, months
<1>10. PICK i \in months : i = latest /\ \A o \in months : i <= o
  <2>1. \E i \in months : \A o \in months : i <= o
    BY <1>6, <1>7, NatMinimum
  <2>. QED
    BY <2>1
<1>11. i \in {0, 1, 2}
  BY <1>6, <1>7, <1>10
<1>12. LatestDay(day, t) = {at(i)}
  BY <1>8, <1>10
<1>13. PICK l \in Int, s \in Int, r \in Int :
         /\ l = k - i /\ s = MonthStart(l) /\ r = MonthStart(l + 1)
         /\ at(i) = s + day /\ day <= r - s
         /\ s >= z
  <2>1. CASE i = 0
    <3>1. k = k - i
      BY <2>1
    <3>2. b = MonthStart(k) /\ c = MonthStart(k + 1)
      BY <1>1
    <3>3. MonthLength(YearOf(t), MonthOf(t) - i) = c - b /\ at(i) = b + day
      BY <1>4, <2>1
    <3>4. day <= c - b /\ b >= z
      BY <1>1, <1>3, <1>9, <3>3
    <3>. QED
      BY <3>1, <3>2, <3>3, <3>4
  <2>2. CASE i = 1
    <3>1. k - 1 = k - i
      BY <2>2
    <3>2. a = MonthStart(k - 1) /\ b = MonthStart((k - 1) + 1)
      BY <1>1, <1>2
    <3>3. MonthLength(YearOf(t), MonthOf(t) - i) = b - a /\ at(i) = a + day
      BY <1>4, <2>2
    <3>4. day <= b - a /\ a >= z
      BY <1>3, <1>9, <3>3
    <3>. QED
      BY <3>1, <3>2, <3>3, <3>4
  <2>3. CASE i = 2
    <3>1. j = k - i
      BY <1>2, <2>3
    <3>2. z = MonthStart(j) /\ a = MonthStart(j + 1)
      BY <1>1, <1>2, <1>3
    <3>3. MonthLength(YearOf(t), MonthOf(t) - i) = a - z /\ at(i) = z + day
      BY <1>4, <2>3
    <3>4. day <= a - z /\ z >= z
      BY <1>9, <3>3
    <3>. QED
      BY <3>1, <3>2, <3>3, <3>4
  <2>. QED
    BY <1>11, <2>1, <2>2, <2>3
<1>14. PICK e \in Int : e = at(i)
  BY <1>13
<1>15. DayOf(e) = day /\ Serial(e) = k - i
  BY <1>13, <1>14, DayIn
<1>16. e <= t
  BY <1>9, <1>14
<1>17. e > z /\ z >= t - 93
  BY <1>1, <1>2, <1>3, <1>13, <1>14
<1>18. ASSUME NEW n \in (e + 1)..t, DayOf(n) = day
       PROVE  FALSE
  <2>1. n \in Int /\ e < n /\ n <= t
    BY <1>14
  <2>2. PICK q \in Int : q = Serial(n) /\ n = MonthStart(q) + day /\ day <= MonthStart(q + 1) - MonthStart(q)
    <3>1. Serial(n) \in Int /\ MonthStart(Serial(n)) \in Int /\ DayOf(n) = n - MonthStart(Serial(n))
          /\ DayOf(n) <= MonthStart(Serial(n) + 1) - MonthStart(Serial(n))
      BY <2>1, DayIs, MonthLengths
    <3>. QED
      BY <1>18, <2>1, <3>1
  <2>3. k - i < q /\ q <= k
    BY <1>1, <1>15, <1>18, <2>1, <2>2, SameDayLater, SerialGrows
  <2>4. q \in {k, k - 1}
    BY <1>11, <2>3
  <2>5. k - q \in months
    <3>1. CASE q = k
      <4>1. k - q = 0 /\ day <= c - b /\ n = b + day
        BY <1>1, <2>2, <3>1
      <4>. QED
        BY <1>4, <2>1, <4>1 DEF months
    <3>2. CASE q = k - 1
      <4>1. k - q = 1 /\ q + 1 = k
        BY <3>2
      <4>2. day <= b - a /\ n = a + day
        BY <1>1, <2>2, <3>2, <4>1
      <4>. QED
        BY <1>4, <2>1, <4>1, <4>2 DEF months
    <3>. QED
      BY <2>4, <3>1, <3>2
  <2>6. i <= k - q
    BY <1>10, <2>5
  <2>. QED
    BY <1>11, <2>3, <2>6
<1>. QED
  BY <1>12, <1>14, <1>15, <1>16, <1>17, <1>18 DEF Latest

(* A day of month m of year y.                                             *)
LEMMA CivilIn ==
  ASSUME NEW y \in Int, NEW m \in 1..12, NEW d \in Int, d >= 1, d <= MonthLength(y, m)
  PROVE  /\ Civil(y, m, d) \in Int
         /\ DayOf(Civil(y, m, d)) = d /\ MonthOf(Civil(y, m, d)) = m
<1>1. PICK k \in Int : Numbered(k, y, m) /\ Counted(k, y, m)
  <2>1. 12 * y + m - 1 \in Int
    OBVIOUS
  <2>. QED
    BY <2>1 DEF Numbered, Counted
<1>2. PICK e : e = Civil(y, m, d)
  OBVIOUS
<1>3. e = MonthStart(k) + d
  BY <1>1, <1>2, CivilIs
<1>4. d <= MonthStart(k + 1) - MonthStart(k)
  BY <1>1, MonthLengthIs
<1>5. e \in Int /\ Serial(e) = k /\ DayOf(e) = d
  BY <1>3, <1>4, DayIn
<1>6. Numbered(k, YearOf(e), MonthOf(e))
  BY <1>5, MonthOfDay
<1>7. MonthOf(e) = m
  BY <1>1, <1>6 DEF Numbered
<1>. QED
  BY <1>2, <1>5, <1>7

LEMMA LengthIs ==
  ASSUME NEW y \in Int, NEW m \in 1..12
  PROVE  MonthLength(y, m) =
           IF m = 2 THEN IF IsLeap(y) THEN 29 ELSE 28 ELSE IF m \in {4, 6, 9, 11} THEN 30 ELSE 31
<1>1. PICK k \in Int : Numbered(k, y, m) /\ Counted(k, y, m)
  <2>1. 12 * y + m - 1 \in Int
    OBVIOUS
  <2>. QED
    BY <2>1 DEF Numbered, Counted
<1>. QED
  BY <1>1, MonthLengthIs, LengthOf

LEMMA CivilInYear ==
  ASSUME NEW y \in Int, NEW m \in 1..12, NEW d \in Int
  PROVE  /\ Civil(y, m, d) = BeforeYear(y) + BeforeMonth(y, m) + d
         /\ BeforeYear(y) \in Int /\ BeforeMonth(y, m) \in Nat
<1>1. PICK k \in Int : Numbered(k, y, m) /\ Counted(k, y, m)
  <2>1. 12 * y + m - 1 \in Int
    OBVIOUS
  <2>. QED
    BY <2>1 DEF Numbered, Counted
<1>2. Civil(y, m, d) = MonthStart(k) + d
  BY <1>1, CivilIs
<1>3. MonthStart(k) = BeforeYear(y) + BeforeMonth(y, m)
  BY <1>1, MonthStartIs
<1>4. BeforeYear(y) \in Int /\ BeforeMonth(y, m) \in Nat
  BY <1>1, MonthStartIs
<1>. QED
  BY <1>2, <1>3, <1>4

(* The same day of a later year is no earlier.                             *)
LEMMA CivilGrows ==
  ASSUME NEW y \in Int, NEW z \in Int, y <= z, NEW m \in 1..12, NEW d \in Int
  PROVE  Civil(y, m, d) <= Civil(z, m, d)
<1>1. PICK j \in Int, k \in Int : Counted(j, y, m) /\ Counted(k, z, m) /\ j <= k
  <2>1. 12 * y + m - 1 \in Int /\ 12 * z + m - 1 \in Int /\ 12 * y + m - 1 <= 12 * z + m - 1
    OBVIOUS
  <2>. QED
    BY <2>1 DEF Counted
<1>2. Civil(y, m, d) = MonthStart(j) + d /\ Civil(z, m, d) = MonthStart(k) + d
  BY <1>1, CivilIs
<1>3. MonthStart(j) \in Int /\ MonthStart(k) \in Int /\ MonthStart(j) <= MonthStart(k)
  BY <1>1, MonthLengths, MonthsInOrder
<1>. QED
  BY <1>2, <1>3

(* A day is the one its year, month and day of the month say.              *)
LEMMA CivilOf ==
  ASSUME NEW n \in Int
  PROVE  n = Civil(YearOf(n), MonthOf(n), DayOf(n))
<1>1. PICK y, m, k : y = YearOf(n) /\ m = MonthOf(n) /\ k = Serial(n)
  OBVIOUS
<1>2. Numbered(k, y, m)
  BY <1>1, MonthOfDay
<1>3. Counted(k, y, m)
  BY <1>2 DEF Numbered, Counted
<1>4. Civil(y, m, DayOf(n)) = MonthStart(k) + DayOf(n)
  BY <1>3, CivilIs
<1>5. k \in Int /\ MonthStart(k) \in Int /\ DayOf(n) = n - MonthStart(k)
  BY <1>1, DayIs, MonthLengths
<1>. QED
  BY <1>1, <1>4, <1>5

LEMMA YearOfGrows ==
  ASSUME NEW n \in Int, NEW t \in Int, n <= t
  PROVE  YearOf(n) <= YearOf(t)
<1>1. PICK y \in Int : y = YearOf(n)
  BY YearOfDay
<1>2. BeforeYear(y) \in Int /\ BeforeYear(y) < n
  BY <1>1, YearOfDay, YearTyped
<1>. QED
  BY <1>1, <1>2, YearAtLeast

(* What "10/09" may give: day d of month m of this year or of the last.     *)
LEMMA DayAndMonthGives ==
  ASSUME NEW t \in Int, NEW d \in Nat, d >= 1, NEW m \in 1..12, NEW e \in DayAndMonth(d, m, 0, t), NEW y \in Int, y = YearOf(t)
  PROVE  /\ d <= MonthLength(y, m) /\ Civil(y, m, d) \in Int
         /\ e = IF Civil(y, m, d) > t THEN Civil(y - 1, m, d) ELSE Civil(y, m, d)
<1>1. PICK l \in Int, c \in Int : l = MonthLength(y, m) /\ c = Civil(y, m, d)
  <2>1. MonthLength(y, m) \in Int
    BY LengthIs
  <2>2. Civil(y, m, d) \in Int
    <3>1. PICK i \in Int : i = d
      OBVIOUS
    <3>2. Civil(y, m, i) = BeforeYear(y) + BeforeMonth(y, m) + i
      BY CivilInYear
    <3>3. BeforeYear(y) \in Int
      BY YearTyped
    <3>4. BeforeMonth(y, m) \in Nat
      BY MonthTyped
    <3>. QED
      BY <3>1, <3>2, <3>3, <3>4
  <2>. QED
    BY <2>1, <2>2
<1>2. e \in IF d > l THEN {} ELSE IF c > t THEN {Civil(y - 1, m, d)} ELSE {c}
  BY <1>1 DEF DayAndMonth
<1>. QED
  BY <1>1, <1>2

LEMMA LeapDayBecomes ==
  ASSUME NEW t \in Int, NEW e \in DayAndMonth(29, 2, 0, t), t < Civil(YearOf(t), 2, 29)
  PROVE  e = Civil(YearOf(t) - 1, 3, 1)
<1>1. PICK y \in Int, x \in Int : y = YearOf(t) /\ x = y - 1 /\ x + 1 = y
  BY YearOfDay
<1>2. 29 <= MonthLength(y, 2) /\ Civil(y, 2, 29) \in Int /\ e = Civil(x, 2, 29)
  BY <1>1, DayAndMonthGives
<1>3. IsLeap(y)
  BY <1>2, LengthIs
<1>4. ~IsLeap(x)
  BY <1>1, <1>3 DEF IsLeap
<1>5. BeforeMonth(x, 3) = 59 /\ BeforeMonth(x, 2) = 31
  BY <1>4 DEF BeforeMonth
<1>6. Civil(x, 2, 29) = BeforeYear(x) + BeforeMonth(x, 2) + 29 /\ BeforeYear(x) \in Int
  <2>1. 2 \in 1..12 /\ 29 \in Int
    OBVIOUS
  <2>. QED
    BY <2>1, CivilInYear
<1>7. Civil(x, 3, 1) = BeforeYear(x) + BeforeMonth(x, 3) + 1
  <2>1. 3 \in 1..12 /\ 1 \in Int
    OBVIOUS
  <2>. QED
    BY <2>1, CivilInYear
<1>. QED
  BY <1>1, <1>2, <1>5, <1>6, <1>7

LEMMA DayAndMonthIs ==
  ASSUME NEW t \in Int, NEW d \in Nat, d >= 1, NEW m \in 1..12, NEW e \in DayAndMonth(d, m, 0, t),
         ~(m = 2 /\ d = 29 /\ t < Civil(YearOf(t), 2, 29))
  PROVE  /\ e \in Int /\ MonthOf(e) = m /\ DayOf(e) = d
         /\ \A n \in (e + 1)..t : ~(MonthOf(n) = m /\ DayOf(n) = d)
<1>1. PICK y \in Int, x \in Int : y = YearOf(t) /\ x = y - 1 /\ x + 1 = y
  BY YearOfDay
<1>2. PICK c \in Int : c = Civil(y, m, d)
  BY <1>1, DayAndMonthGives
<1>3. d <= MonthLength(y, m) /\ e = IF c > t THEN Civil(x, m, d) ELSE c
  BY <1>1, <1>2, DayAndMonthGives
<1>4. /\ c > t => d <= MonthLength(x, m)
      /\ m = 2 /\ d = 29 => ~(t < c)
  <2>1. m = 2 /\ d = 29 => ~(t < c)
    BY <1>1, <1>2
  <2>2. CASE m = 2
    <3>1. MonthLength(y, m) <= 29 /\ MonthLength(y, m) \in Int
      BY <2>2, LengthIs
    <3>2. MonthLength(x, m) >= 28 /\ MonthLength(x, m) \in Int
      BY <2>2, LengthIs
    <3>3. c > t => d # 29
      BY <2>1, <2>2
    <3>. QED
      BY <1>3, <2>1, <3>1, <3>2, <3>3
  <2>3. CASE m # 2
    <3>1. MonthLength(x, m) = IF m \in {4, 6, 9, 11} THEN 30 ELSE 31
      BY <2>3, LengthIs
    <3>2. MonthLength(y, m) = IF m \in {4, 6, 9, 11} THEN 30 ELSE 31
      BY <2>3, LengthIs
    <3>. QED
      BY <1>3, <2>3, <3>1, <3>2
  <2>. QED
    BY <2>2, <2>3
<1>5. e \in Int /\ MonthOf(e) = m /\ DayOf(e) = d
  <2>1. CASE c > t
    BY <1>3, <1>4, <2>1, CivilIn
  <2>2. CASE ~(c > t)
    BY <1>2, <1>3, <2>2, CivilIn
  <2>. QED
    BY <2>1, <2>2
<1>6. ASSUME NEW n \in (e + 1)..t, MonthOf(n) = m, DayOf(n) = d
      PROVE  FALSE
  <2>1. n \in Int /\ e < n /\ n <= t
    BY <1>5
  <2>2. PICK z \in Int : z = YearOf(n) /\ z <= y
    BY <1>1, <2>1, YearOfDay, YearOfGrows
  <2>3. n = Civil(z, m, d)
    BY <1>6, <2>1, <2>2, CivilOf
  <2>4. CASE c > t
    <3>1. z # y
      BY <1>2, <2>1, <2>3, <2>4
    <3>2. z <= x
      BY <1>1, <2>2, <3>1
    <3>3. n <= e
      BY <1>3, <2>3, <2>4, <3>2, CivilGrows
    <3>. QED
      BY <1>5, <2>1, <3>3
  <2>5. CASE ~(c > t)
    <3>1. n <= e
      BY <1>2, <1>3, <2>2, <2>3, <2>5, CivilGrows
    <3>. QED
      BY <1>5, <2>1, <3>1
  <2>. QED
    BY <2>4, <2>5
<1>. QED
  BY <1>5, <1>6

LEMMA DatesMeant ==
  ASSUME today \in Int, YearOf(today) > 2021, NEW said \in Expressions
  PROVE  /\ \A e \in ResolveDate(said, today) : e <= today /\ DayMeant(said, e)
         /\ said.form = "weekday" \/ (said.form = "day" /\ said.n \in 1..31) => ResolveDate(said, today) # {}
<1>1. CASE said.form = "weekday"
  <2>1. said.n \in 0..6 /\ said.past \in BOOLEAN
    BY <1>1 DEF Expressions
  <2>2. PICK n \in 0..6, past \in BOOLEAN : n = said.n /\ past = said.past
    BY <2>1
  <2>3. PICK back \in 0..6, e \in Int : back = (Weekday(today) - n) % 7 /\ e = today - (IF back = 0 /\ past THEN 7 ELSE back)
    <3>1. (Weekday(today) - n) % 7 \in 0..6
      BY DEF Weekday
    <3>. QED
      BY <3>1
  <2>4. Meant(said, today) = {e}
    BY <1>1, <2>2, <2>3 DEF Meant
  <2>5. Weekday(e) = n /\ e >= today - 7 /\ e <= today /\ (past => e < today)
    BY <2>3 DEF Weekday
  <2>0. ASSUME NEW d \in (e + 1)..today, Weekday(d) = n, past => d < today
        PROVE  FALSE
    <3>1. d \in Int /\ e < d /\ d <= today /\ d % 7 = n /\ e % 7 = n
      BY <2>0, <2>5 DEF Weekday
    <3>2. d >= e + 7
      BY <3>1
    <3>. QED
      BY <2>0, <2>3, <3>1, <3>2
  <2>6. YearOf(e) >= 2000
    BY <2>5, Recent
  <2>7. ResolveDate(said, today) = {e}
    BY <2>4, <2>5, <2>6 DEF ResolveDate
  <2>8. DayMeant(said, e)
    <3>1. ~LeapDayAhead(said)
      BY <1>1 DEF LeapDayAhead
    <3>2. \A d : Named(said, d) <=> Weekday(d) = n /\ (past => d < today)
      BY <1>1, <2>2 DEF Named
    <3>. QED
      BY <2>0, <2>5, <3>1, <3>2 DEF DayMeant
  <2>. QED
    BY <2>5, <2>7, <2>8
<1>2. CASE said.form = "day" /\ said.n \in 1..31
  <2>1. PICK n \in Int : n = said.n /\ 1 <= n /\ n <= 31
    BY <1>2
  <2>0. PICK e \in Int : Latest(e, n, today)
    BY <2>1, LatestDayIs
  <2>2. /\ LatestDay(n, today) = {e} /\ e <= today /\ DayOf(e) = n /\ e > today - 93
        /\ \A d \in (e + 1)..today : DayOf(d) # n
    BY <2>0 DEF Latest
  <2>3. Meant(said, today) = {e}
    BY <1>2, <2>1, <2>2 DEF Meant
  <2>4. YearOf(e) >= 2000
    BY <2>2, Recent
  <2>5. ResolveDate(said, today) = {e}
    BY <2>2, <2>3, <2>4 DEF ResolveDate
  <2>6. DayMeant(said, e)
    <3>1. ~LeapDayAhead(said)
      BY <1>2 DEF LeapDayAhead
    <3>2. \A d : Named(said, d) <=> DayOf(d) = n
      BY <1>2, <2>1 DEF Named
    <3>. QED
      BY <2>2, <3>1, <3>2 DEF DayMeant
  <2>. QED
    BY <2>2, <2>5, <2>6
<1>3. CASE said.form = "day" /\ said.n \notin 1..31
  <2>1. ResolveDate(said, today) = {}
    BY <1>3 DEF ResolveDate, Meant
  <2>. QED
    BY <1>3, <2>1
<1>4. CASE said.form = "daymonth"
  <2>1. PICK d \in {1, 28, 29, 30, 31}, m \in 1..12 : d = said.d /\ m = said.m /\ said.y = 0
    BY <1>4 DEF Expressions
  <2>2. Meant(said, today) = DayAndMonth(d, m, 0, today)
    BY <1>4, <2>1 DEF Meant
  <2>3. ASSUME NEW e \in ResolveDate(said, today)
        PROVE  e <= today /\ DayMeant(said, e)
    <3>1. e \in DayAndMonth(d, m, 0, today) /\ e <= today
      BY <2>2, <2>3 DEF ResolveDate
    <3>2. LeapDayAhead(said) <=> m = 2 /\ d = 29 /\ today < Civil(YearOf(today), 2, 29)
      BY <1>4, <2>1 DEF LeapDayAhead
    <3>3. \A n : Named(said, n) <=> MonthOf(n) = m /\ DayOf(n) = d
      BY <1>4, <2>1 DEF Named
    <3>4. CASE LeapDayAhead(said)
      BY <3>1, <3>2, <3>4, LeapDayBecomes DEF DayMeant
    <3>5. CASE ~LeapDayAhead(said)
      <4>1. d \in Nat /\ d >= 1
        OBVIOUS
      <4>2. MonthOf(e) = m /\ DayOf(e) = d /\ \A n \in (e + 1)..today : ~(MonthOf(n) = m /\ DayOf(n) = d)
        BY <3>1, <3>2, <3>5, <4>1, DayAndMonthIs
      <4>. QED
        BY <3>1, <3>3, <3>5, <4>2 DEF DayMeant
    <3>. QED
      BY <3>4, <3>5
  <2>. QED
    BY <1>4, <2>3
<1>. QED
  BY <1>1, <1>2, <1>3, <1>4 DEF Expressions

LEMMA WeeksAreRight ==
  ASSUME NEW t \in Int, NEW now \in ResolvePeriod("this_week", 0, 0, t), NEW last \in ResolvePeriod("last_week", 0, 0, t)
  PROVE  last.end + 1 = now.start /\ Weekday(now.start) = 1 /\ Days(last) = 7
<1>1. PICK w \in Int : w = t - ((Weekday(t) + 6) % 7)
  BY DEF Weekday
<1>2. Weekday(w) = 1
  BY <1>1 DEF Weekday
<1>3. now = Period(w, t) /\ last = Period(w - 7, w - 1)
  BY <1>1 DEF ResolvePeriod
<1>4. now.start = w /\ last.start = w - 7 /\ last.end = w - 1
  BY <1>3 DEF Period
<1>. QED
  BY <1>2, <1>4 DEF Days

LEMMA MonthsAreRight ==
  ASSUME NEW t \in Int, NEW now \in ResolvePeriod("this_month", 0, 0, t), NEW last \in ResolvePeriod("last_month", 0, 0, t)
  PROVE  last.end + 1 = now.start /\ DayOf(last.start) = 1
<1>1. PICK k \in Int, j \in Int, f \in Int : k = Serial(t) /\ j = k + (-1) /\ f = FirstOfMonth(t) /\ f = MonthStart(k) + 1
  <2>1. /\ Serial(t) \in Int /\ Serial(t) + (-1) \in Int
        /\ FirstOfMonth(t) = MonthStart(Serial(t)) + 1 /\ MonthStart(Serial(t)) \in Int
    BY DayIs, MonthLengths
  <2>. QED
    BY <2>1
<1>2. Serial(f) = k /\ DayOf(f) = 1
  BY <1>1, FirstDay
<1>3. AddMonths(f, -1) = MonthStart(j) + 1
  BY <1>1, <1>2, MonthFollows
<1>4. DayOf(AddMonths(f, -1)) = 1
  BY <1>3, FirstDay
<1>5. now = Period(f, t) /\ last = Period(AddMonths(f, -1), f - 1)
  BY <1>1 DEF ResolvePeriod
<1>6. now.start = f /\ last.start = AddMonths(f, -1) /\ last.end = f - 1
  BY <1>5 DEF Period
<1>. QED
  BY <1>4, <1>6

LEMMA DatesAlwaysHold ==
  ASSUME today \in CalendarDays
  PROVE  DatesHold
<1>1. today \in Int /\ YearOf(today) > 2021
  BY ReportsAssumption
<1>2. \A said \in Expressions :
        /\ \A d \in ResolveDate(said, today) : d <= today /\ DayMeant(said, d)
        /\ said.form = "weekday" \/ (said.form = "day" /\ said.n \in 1..31) => ResolveDate(said, today) # {}
  BY <1>1, DatesMeant
<1>3. \A p \in Periods :
         /\ p.start <= p.end
         /\ PreviousPeriod(p).start <= PreviousPeriod(p).end /\ PreviousPeriod(p).end < p.start
         /\ ElapsedDays(p, today) \in 1..Days(p)
         /\ ComparedLikeForLike(p) \/ SeveralMonths(p)
         /\ IsCurrentMonth(p, today) => ElapsedDays(p, today) = DayOf(today)
  <2>. TAKE p \in Periods
  <2>1. GoodPeriod(p)
    BY <1>1, PeriodsAreGood
  <2>2. GoodPeriod(PreviousPeriod(p)) /\ PreviousPeriod(p).end < p.start /\ (ComparedLikeForLike(p) \/ SeveralMonths(p))
    BY <2>1, PreviousIs
  <2>3. ElapsedDays(p, today) \in 1..Days(p) /\ (IsCurrentMonth(p, today) => ElapsedDays(p, today) = DayOf(today))
    BY <1>1, <2>1, ElapsedIs
  <2>. QED
    BY <2>1, <2>2, <2>3 DEF GoodPeriod
<1>4. \A now \in ResolvePeriod("this_week", 0, 0, today), last \in ResolvePeriod("last_week", 0, 0, today) :
         last.end + 1 = now.start /\ Weekday(now.start) = 1 /\ Days(last) = 7
  BY <1>1, WeeksAreRight
<1>5. \A now \in ResolvePeriod("this_month", 0, 0, today), last \in ResolvePeriod("last_month", 0, 0, today) :
         last.end + 1 = now.start /\ DayOf(last.start) = 1
  BY <1>1, MonthsAreRight
<1>. QED
  BY <1>2, <1>3, <1>4, <1>5 DEF DatesHold

-----------------------------------------------------------------------------
(* Sums.                                                                   *)

(* g sums f over every subset of S, one chosen element at a time.          *)
Chosen(s) == CHOOSE x \in s : TRUE

Sums(g, f, S) ==
  g = [s \in SUBSET S |-> IF s = {} THEN 0 ELSE f[Chosen(s)] + g[s \ {Chosen(s)}]]

LEMMA SumOfIs ==
  ASSUME NEW f
  PROVE  SumOf(f) = (CHOOSE g : Sums(g, f, DOMAIN f))[DOMAIN f]
BY DEF SumOf, MapThenSumSet, MapThenFoldSet, Sums, Chosen

(* The equation restricted to sets of at most n elements has a solution.   *)
UpTo(S, n) == {s \in SUBSET S : Cardinality(s) <= n}

SumsUpTo(g, f, S, n) ==
  /\ g \in [UpTo(S, n) -> Int]
  /\ \A s \in UpTo(S, n) : g[s] = IF s = {} THEN 0 ELSE f[Chosen(s)] + g[s \ {Chosen(s)}]

LEMMA OneOut ==
  ASSUME NEW s, IsFiniteSet(s), s # {}
  PROVE  /\ Chosen(s) \in s
         /\ IsFiniteSet(s \ {Chosen(s)})
         /\ Cardinality(s) \in Nat /\ Cardinality(s) > 0
         /\ Cardinality(s \ {Chosen(s)}) = Cardinality(s) - 1
<1>1. Chosen(s) \in s
  BY DEF Chosen
<1>. QED
  BY <1>1, FS_RemoveElement, FS_CardinalityType, FS_EmptySet

LEMMA SumsUpToExist ==
  ASSUME NEW S, IsFiniteSet(S), NEW f \in [S -> Int], NEW n \in Nat
  PROVE  \E g : SumsUpTo(g, f, S, n)
<1> DEFINE T == {m \in Nat : ~ \E g : SumsUpTo(g, f, S, m)}
<1>1. SUFFICES ASSUME T # {} PROVE FALSE
  OBVIOUS
<1>2. PICK m \in T : \A k \in T : m <= k
  BY <1>1, NatMinimum
<1>3. CASE m = 0
  <2> DEFINE g == [s \in UpTo(S, 0) |-> 0]
  <2>1. \A s \in UpTo(S, 0) : s = {}
    BY FS_Subset, FS_EmptySet, FS_CardinalityType DEF UpTo
  <2>2. SumsUpTo(g, f, S, 0)
    BY <2>1 DEF SumsUpTo
  <2>. QED
    BY <1>3, <2>2
<1>4. CASE m # 0
  <2>1. m - 1 \in Nat /\ m - 1 \notin T
    BY <1>2, <1>4
  <2>2. PICK h : SumsUpTo(h, f, S, m - 1)
    BY <2>1
  <2> DEFINE g == [s \in UpTo(S, m) |-> IF s = {} THEN 0 ELSE f[Chosen(s)] + h[s \ {Chosen(s)}]]
  <2>3. \A s \in UpTo(S, m) : s # {} => /\ Chosen(s) \in S /\ s \ {Chosen(s)} \in UpTo(S, m - 1)
                                       /\ s \ {Chosen(s)} \in UpTo(S, m)
    <3>. TAKE s \in UpTo(S, m)
    <3>. HAVE s # {}
    <3>1. s \subseteq S /\ IsFiniteSet(s) /\ Cardinality(s) <= m
      BY FS_Subset DEF UpTo
    <3>. QED
      BY <3>1, OneOut, <2>1 DEF UpTo
  <2>4. \A s \in UpTo(S, m - 1) : s \in UpTo(S, m) /\ (s # {} => s \ {Chosen(s)} \in UpTo(S, m - 1)) /\ h[s] \in Int
    <3>. TAKE s \in UpTo(S, m - 1)
    <3>1. s \subseteq S /\ IsFiniteSet(s) /\ Cardinality(s) <= m - 1 /\ Cardinality(s) \in Nat
      BY FS_Subset, FS_CardinalityType DEF UpTo
    <3>2. s \in UpTo(S, m)
      BY <3>1 DEF UpTo
    <3>3. s # {} => s \ {Chosen(s)} \in UpTo(S, m - 1)
      BY <3>1, OneOut, <2>1 DEF UpTo
    <3>. QED
      BY <3>2, <3>3, <2>2 DEF SumsUpTo
  <2>5. \A s \in UpTo(S, m - 1) : g[s] = h[s]
    BY <2>2, <2>4 DEF SumsUpTo
  <2>6. \A s \in UpTo(S, m) : (IF s = {} THEN 0 ELSE f[Chosen(s)] + h[s \ {Chosen(s)}]) \in Int
    <3>. TAKE s \in UpTo(S, m)
    <3>1. CASE s = {}
      BY <3>1
    <3>2. CASE s # {}
      <4>1. f[Chosen(s)] \in Int /\ h[s \ {Chosen(s)}] \in Int
        BY <2>3, <2>4, <3>2
      <4>. QED
        BY <3>2, <4>1
    <3>. QED
      BY <3>1, <3>2
  <2>7. \A s \in UpTo(S, m) : g[s] = IF s = {} THEN 0 ELSE f[Chosen(s)] + g[s \ {Chosen(s)}]
    BY <2>3, <2>5
  <2>8. SumsUpTo(g, f, S, m)
    BY <2>6, <2>7 DEF SumsUpTo
  <2>. QED
    BY <2>8
<1>. QED
  BY <1>3, <1>4

LEMMA SumsExist ==
  ASSUME NEW S, IsFiniteSet(S), NEW f \in [S -> Int]
  PROVE  \E g \in [SUBSET S -> Int] : Sums(g, f, S)
<1>1. PICK g : SumsUpTo(g, f, S, Cardinality(S))
  BY SumsUpToExist, FS_CardinalityType
<1>2. UpTo(S, Cardinality(S)) = SUBSET S
  BY FS_Subset DEF UpTo
<1>3. g \in [SUBSET S -> Int]
  BY <1>1, <1>2 DEF SumsUpTo
<1>4. Sums(g, f, S)
  BY <1>1, <1>2, <1>3 DEF SumsUpTo, Sums
<1>. QED
  BY <1>3, <1>4

(* Two solutions agree on what they share.                                 *)
LEMMA SumsAgree ==
  ASSUME NEW S, NEW R, IsFiniteSet(R), R \subseteq S,
         NEW f, NEW e, \A x \in R : f[x] = e[x],
         NEW g, NEW h, Sums(g, f, S), Sums(h, e, R)
  PROVE  h[R] = g[R]
<1> DEFINE F == {r \in SUBSET R : h[r] # g[r]}
<1>1. SUFFICES ASSUME F # {} PROVE FALSE
  <2>1. R \in SUBSET R
    OBVIOUS
  <2>. QED
    BY <2>1
<1>0. F \subseteq SUBSET R
  OBVIOUS
<1>2. PICK r \in F : \A q \in F : q \subseteq r => q = r
  <2>. HIDE DEF F
  <2>. QED
    BY <1>0, <1>1, SetMinimum
<1>3. r # {}
  BY DEF Sums
<1>4. Chosen(r) \in r
  BY <1>3 DEF Chosen
<1>5. h[r \ {Chosen(r)}] = g[r \ {Chosen(r)}]
  BY <1>2, <1>4
<1>6. h[r] = e[Chosen(r)] + h[r \ {Chosen(r)}]
  BY <1>3 DEF Sums
<1>7. g[r] = f[Chosen(r)] + g[r \ {Chosen(r)}]
  BY <1>3 DEF Sums
<1>. QED
  BY <1>4, <1>5, <1>6, <1>7

(* The sum of f over a set.                                                *)
Over(f, s) == SumOf([x \in s |-> f[x]])

LEMMA SumOfOver ==
  ASSUME NEW S, NEW f \in [S -> Int]
  PROVE  SumOf(f) = Over(f, S)
<1>1. f = [x \in S |-> f[x]]
  OBVIOUS
<1>. QED
  BY <1>1 DEF Over

LEMMA OverIs ==
  ASSUME NEW S, IsFiniteSet(S), NEW f \in [S -> Int], NEW g, Sums(g, f, S), NEW s \in SUBSET S
  PROVE  Over(f, s) = g[s]
<1> DEFINE e == [x \in s |-> f[x]]
<1>1. e \in [s -> Int] /\ DOMAIN e = s /\ IsFiniteSet(s) /\ \A x \in s : f[x] = e[x]
  BY FS_Subset
<1>. HIDE DEF e
<1>2. PICK k : Sums(k, e, s)
  BY <1>1, SumsExist
<1>3. PICK h : h = (CHOOSE j : Sums(j, e, s)) 
  OBVIOUS
<1>4. Sums(h, e, s)
  BY <1>2, <1>3
<1>5. h[s] = g[s]
  <2>1. s \subseteq S
    OBVIOUS
  <2>. QED
    BY <1>1, <1>4, <2>1, SumsAgree
<1>6. SumOf(e) = h[s]
  BY <1>1, <1>3, SumOfIs
<1>. QED
  BY <1>5, <1>6 DEF Over, e

LEMMA OverStep ==
  ASSUME NEW S, IsFiniteSet(S), NEW f \in [S -> Int], NEW s \in SUBSET S
  PROVE  /\ Over(f, s) \in Int
         /\ s = {} => Over(f, s) = 0
         /\ s # {} => Over(f, s) = f[Chosen(s)] + Over(f, s \ {Chosen(s)})
<1>1. PICK g \in [SUBSET S -> Int] : Sums(g, f, S)
  BY SumsExist
<1>2. g[s] = IF s = {} THEN 0 ELSE f[Chosen(s)] + g[s \ {Chosen(s)}]
  BY <1>1 DEF Sums
<1>3. Over(f, s) = g[s] /\ Over(f, s \ {Chosen(s)}) = g[s \ {Chosen(s)}]
  BY <1>1, OverIs
<1>. QED
  BY <1>1, <1>2, <1>3

LEMMA OverEmpty ==
  ASSUME NEW S, IsFiniteSet(S), NEW f \in [S -> Int]
  PROVE  Over(f, {}) = 0
<1>1. {} \in SUBSET S
  OBVIOUS
<1>. QED
  BY <1>1, OverStep

(* In whatever order the elements are taken.                               *)
LEMMA OverTake ==
  ASSUME NEW S, IsFiniteSet(S), NEW f \in [S -> Int], NEW s \in SUBSET S, NEW x \in s
  PROVE  Over(f, s) = f[x] + Over(f, s \ {x})
<1> DEFINE F == {r \in SUBSET S : \E y \in r : Over(f, r) # f[y] + Over(f, r \ {y})}
<1>1. SUFFICES ASSUME F # {} PROVE FALSE
  OBVIOUS
<1>0. F \subseteq SUBSET S
  OBVIOUS
<1>2. PICK r \in F : \A q \in F : q \subseteq r => q = r
  <2>. HIDE DEF F
  <2>. QED
    BY <1>0, <1>1, SetMinimum
<1>3. PICK y \in r : Over(f, r) # f[y] + Over(f, r \ {y})
  OBVIOUS
<1>4. PICK c : c = Chosen(r)
  OBVIOUS
<1>5. c \in r /\ Over(f, r) = f[c] + Over(f, r \ {c})
  BY <1>4, OverStep DEF Chosen
<1>6. y # c
  BY <1>3, <1>5
<1>7. Over(f, r \ {c}) = f[y] + Over(f, (r \ {c}) \ {y})
  BY <1>2, <1>5, <1>6
<1>8. Over(f, r \ {y}) = f[c] + Over(f, (r \ {y}) \ {c})
  BY <1>2, <1>5, <1>6
<1>9. PICK q \in SUBSET S : q = (r \ {c}) \ {y} /\ q = (r \ {y}) \ {c}
  <2>1. (r \ {c}) \ {y} = (r \ {y}) \ {c} /\ (r \ {c}) \ {y} \in SUBSET S
    OBVIOUS
  <2>. QED
    BY <2>1
<1>10. f[y] \in Int /\ f[c] \in Int /\ Over(f, q) \in Int
  BY <1>5, OverStep
<1>11. Over(f, r) = f[c] + (f[y] + Over(f, q)) /\ f[y] + Over(f, r \ {y}) = f[y] + (f[c] + Over(f, q))
  BY <1>5, <1>7, <1>8, <1>9
<1>. QED
  BY <1>3, <1>10, <1>11

LEMMA OverSame ==
  ASSUME NEW s, NEW f, NEW e, \A x \in s : f[x] = e[x]
  PROVE  Over(f, s) = Over(e, s)
<1>1. [x \in s |-> f[x]] = [x \in s |-> e[x]]
  OBVIOUS
<1>. QED
  BY <1>1 DEF Over

LEMMA OverSplit ==
  ASSUME NEW S, IsFiniteSet(S), NEW f \in [S -> Int],
         NEW A \in SUBSET S, NEW B \in SUBSET S, A \cap B = {}
  PROVE  Over(f, A \cup B) = Over(f, A) + Over(f, B)
<1> DEFINE F == {a \in SUBSET A : Over(f, a \cup B) # Over(f, a) + Over(f, B)}
<1>1. SUFFICES ASSUME F # {} PROVE FALSE
  <2>1. A \in SUBSET A
    OBVIOUS
  <2>. QED
    BY <2>1
<1>2. F \subseteq SUBSET A /\ IsFiniteSet(A)
  BY FS_Subset
<1>3. PICK a \in F : \A b \in F : b \subseteq a => b = a
  <2>. HIDE DEF F
  <2>. QED
    BY <1>1, <1>2, SetMinimum
<1>4. a \in SUBSET S /\ a \cap B = {} /\ Over(f, a \cup B) # Over(f, a) + Over(f, B)
  OBVIOUS
<1>5. CASE a = {}
  <2>1. a \cup B = B /\ Over(f, a) = 0 /\ Over(f, B) \in Int
    BY <1>5, OverStep
  <2>. QED
    BY <1>4, <2>1
<1>6. CASE a # {}
  <2>1. PICK x \in a : TRUE
    BY <1>6
  <2>2. PICK b \in SUBSET S : b = a \ {x}
    BY <1>4
  <2>3. b \notin F /\ b \in SUBSET A
    BY <1>3, <1>4, <2>1, <2>2
  <2>4. Over(f, b \cup B) = Over(f, b) + Over(f, B)
    BY <2>3
  <2>5. Over(f, a) = f[x] + Over(f, b)
    BY <1>4, <2>2, OverTake
  <2>6. Over(f, a \cup B) = f[x] + Over(f, b \cup B)
    <3>1. PICK c \in SUBSET S : c = a \cup B
      BY <1>4
    <3>2. x \in c /\ c \ {x} = b \cup B
      BY <1>4, <2>2, <3>1
    <3>3. Over(f, c) = f[x] + Over(f, c \ {x})
      BY <3>2, OverTake
    <3>. QED
      BY <3>1, <3>2, <3>3
  <2>7. f[x] \in Int /\ Over(f, b) \in Int /\ Over(f, B) \in Int
    BY <1>4, OverStep
  <2>. QED
    BY <1>4, <2>4, <2>5, <2>6, <2>7
<1>. QED
  BY <1>5, <1>6

LEMMA OverPlus ==
  ASSUME NEW S, IsFiniteSet(S), NEW f \in [S -> Int], NEW e \in [S -> Int], NEW d \in [S -> Int],
         \A x \in S : d[x] = f[x] + e[x],
         NEW A \in SUBSET S
  PROVE  Over(d, A) = Over(f, A) + Over(e, A)
<1> DEFINE F == {a \in SUBSET A : Over(d, a) # Over(f, a) + Over(e, a)}
<1>1. SUFFICES ASSUME F # {} PROVE FALSE
  <2>1. A \in SUBSET A
    OBVIOUS
  <2>. QED
    BY <2>1
<1>2. F \subseteq SUBSET A /\ IsFiniteSet(A)
  BY FS_Subset
<1>3. PICK a \in F : \A b \in F : b \subseteq a => b = a
  <2>. HIDE DEF F
  <2>. QED
    BY <1>1, <1>2, SetMinimum
<1>4. a \in SUBSET S /\ Over(d, a) # Over(f, a) + Over(e, a)
  OBVIOUS
<1>5. CASE a = {}
  <2>1. Over(d, a) = 0
    BY <1>5, OverEmpty
  <2>2. Over(f, a) = 0
    BY <1>5, OverEmpty
  <2>3. Over(e, a) = 0
    BY <1>5, OverEmpty
  <2>. QED
    BY <1>4, <2>1, <2>2, <2>3
<1>6. CASE a # {}
  <2>1. PICK x \in a : TRUE
    BY <1>6
  <2>2. PICK b \in SUBSET S : b = a \ {x}
    BY <1>4
  <2>3. b \notin F /\ b \in SUBSET A
    BY <1>3, <1>4, <2>1, <2>2
  <2>4. Over(d, b) = Over(f, b) + Over(e, b)
    BY <2>3
  <2>5. /\ Over(d, a) = d[x] + Over(d, b)
        /\ Over(f, a) = f[x] + Over(f, b)
        /\ Over(e, a) = e[x] + Over(e, b)
    BY <1>4, <2>2, OverTake
  <2>6. x \in S /\ d[x] = f[x] + e[x]
    BY <1>4
  <2>7. f[x] \in Int /\ e[x] \in Int /\ Over(f, b) \in Int /\ Over(e, b) \in Int
    BY <2>6, OverStep
  <2>. QED
    BY <1>4, <2>4, <2>5, <2>6, <2>7
<1>. QED
  BY <1>5, <1>6

LEMMA OverZero ==
  ASSUME NEW S, IsFiniteSet(S), NEW f \in [S -> Int], NEW s \in SUBSET S, \A x \in s : f[x] = 0
  PROVE  Over(f, s) = 0
<1> DEFINE F == {r \in SUBSET s : Over(f, r) # 0}
<1>1. SUFFICES ASSUME F # {} PROVE FALSE
  <2>1. s \in SUBSET s
    OBVIOUS
  <2>. QED
    BY <2>1
<1>2. F \subseteq SUBSET s /\ IsFiniteSet(s)
  BY FS_Subset
<1>3. PICK r \in F : \A q \in F : q \subseteq r => q = r
  <2>. HIDE DEF F
  <2>. QED
    BY <1>1, <1>2, SetMinimum
<1>4. r \in SUBSET S /\ Over(f, r) # 0
  OBVIOUS
<1>5. PICK x \in r : TRUE
  BY <1>4, OverStep
<1>6. Over(f, r \ {x}) = 0
  BY <1>3, <1>5
<1>7. Over(f, r) = f[x] + Over(f, r \ {x})
  BY <1>4, OverTake
<1>. QED
  BY <1>4, <1>5, <1>6, <1>7

LEMMA OverFilter ==
  ASSUME NEW S, IsFiniteSet(S), NEW f \in [S -> Int], NEW d \in [S -> Int],
         NEW s \in SUBSET S, NEW t \in SUBSET s,
         \A x \in t : d[x] = f[x], \A x \in s \ t : d[x] = 0
  PROVE  Over(d, s) = Over(f, t)
<1>1. PICK r \in SUBSET S : r = s \ t
  OBVIOUS
<1>2. t \in SUBSET S /\ t \cap r = {} /\ t \cup r = s
  BY <1>1
<1>3. Over(d, s) = Over(d, t) + Over(d, r)
  BY <1>2, OverSplit
<1>4. Over(d, r) = 0
  BY <1>1, OverZero
<1>5. Over(d, t) = Over(f, t)
  BY OverSame
<1>6. Over(f, t) \in Int
  BY <1>2, OverStep
<1>. QED
  BY <1>3, <1>4, <1>5, <1>6

(* Sorted into groups, the groups add up to what belongs to one.           *)
Groups(f, s, K, h) == SumOf([k \in K |-> Over(f, {x \in s : h[x] = k})])
InGroups(s, K, h) == {x \in s : h[x] \in K}

LEMMA GroupsAddUp ==
  ASSUME NEW S, IsFiniteSet(S), NEW f \in [S -> Int], NEW s \in SUBSET S,
         NEW K, IsFiniteSet(K), NEW h
  PROVE  Groups(f, s, K, h) = Over(f, InGroups(s, K, h))
<1> DEFINE G == [k \in K |-> Over(f, {x \in s : h[x] = k})]
           In(A) == {x \in s : h[x] \in A}
           F == {A \in SUBSET K : Over(G, A) # Over(f, In(A))}
<1>1. \A k : {x \in s : h[x] = k} \in SUBSET S
  OBVIOUS
<1>2. G \in [K -> Int]
  BY <1>1, OverStep
<1>3. \A k \in K : G[k] = Over(f, {x \in s : h[x] = k})
  OBVIOUS
<1>4. \A A : In(A) \in SUBSET S
  OBVIOUS
<1>5. \A A, k : {x \in s : h[x] = k} \cap In(A \ {k}) = {} /\ (k \in A => {x \in s : h[x] = k} \cup In(A \ {k}) = In(A))
  OBVIOUS
<1>6. In({}) = {}
  OBVIOUS
<1>. HIDE DEF G, In
<1>7. SUFFICES ASSUME F # {} PROVE FALSE
  <2>1. K \in SUBSET K
    OBVIOUS
  <2>2. Over(G, K) = Over(f, In(K))
    BY <1>7, <2>1
  <2>3. SumOf(G) = Over(G, K)
    BY <1>2, SumOfOver
  <2>. QED
    BY <2>2, <2>3 DEF G, In, Groups, InGroups
<1>8. F \subseteq SUBSET K
  OBVIOUS
<1>9. PICK A \in F : \A B \in F : B \subseteq A => B = A
  <2>. HIDE DEF F
  <2>. QED
    BY <1>7, <1>8, SetMinimum
<1>10. A \in SUBSET K /\ Over(G, A) # Over(f, In(A))
  OBVIOUS
<1>11. CASE A = {}
  <2>1. Over(G, A) = 0
    BY <1>2, <1>10, <1>11, OverStep
  <2>2. Over(f, In(A)) = 0
    BY <1>4, <1>6, <1>11, OverStep
  <2>. QED
    BY <1>10, <2>1, <2>2
<1>12. CASE A # {}
  <2>1. PICK k \in A : TRUE
    BY <1>12
  <2>2. PICK B \in SUBSET K : B = A \ {k}
    BY <1>10
  <2>3. Over(G, B) = Over(f, In(B))
    BY <1>9, <1>10, <2>1, <2>2
  <2>4. Over(G, A) = G[k] + Over(G, B)
    BY <1>2, <1>10, <2>2, OverTake
  <2>5. PICK u \in SUBSET S, v \in SUBSET S : u = {x \in s : h[x] = k} /\ v = In(B)
    BY <1>1, <1>4
  <2>6. u \cap v = {} /\ u \cup v = In(A)
    BY <1>5, <2>1, <2>2, <2>5
  <2>7. Over(f, u \cup v) = Over(f, u) + Over(f, v)
    BY <2>6, OverSplit
  <2>8. k \in K /\ G[k] = Over(f, u)
    BY <1>3, <1>10, <2>1, <2>5
  <2>. QED
    BY <1>10, <2>3, <2>4, <2>5, <2>6, <2>7, <2>8
<1>. QED
  BY <1>11, <1>12

-----------------------------------------------------------------------------
(* What the figures of a report are sums of.                               *)

Rows == DOMAIN book
Cents == [i \in Rows |-> book[i].cents]
Net == [i \in Rows |-> IF book[i].type = "EXPENSE" THEN book[i].cents
                       ELSE IF book[i].type = "REFUND" THEN -book[i].cents ELSE 0]
Earned == [i \in Rows |-> IF book[i].type = "INCOME" THEN book[i].cents ELSE 0]

(* What is known of the book.                                              *)
BookOK ==
  /\ IsFiniteSet(Rows)
  /\ \A i \in Rows : /\ book[i].cents \in Int /\ book[i].date \in Int
                     /\ book[i].category \in BookCategories \cup {None} /\ book[i].payer \in Payers \cup {None}

LEMMA BookIsOK ==
  ASSUME ReportsTypeOK
  PROVE  BookOK
<1> DEFINE Row == [type : {"EXPENSE", "REFUND", "INCOME", "TRANSFER"}, category : BookCategories \cup {None},
                   payer : Payers \cup {None}, cents : Nat, status : {"CONFIRMED", "DELETED"}, date : Nat]
<1>0. book \in Seq(Row)
  BY DEF ReportsTypeOK
<1>1. \A i \in Rows : book[i] \in Row
  <2>. HIDE DEF Row
  <2>. QED
    BY <1>0 DEF Rows
<1>2. Rows = 1..Len(book) /\ Len(book) \in Nat
  BY DEF ReportsTypeOK, Rows
<1>3. IsFiniteSet(Rows)
  BY <1>2, FS_Interval
<1>. QED
  BY <1>1, <1>3 DEF BookOK

LEMMA AmountsAreTyped ==
  ASSUME BookOK
  PROVE  Cents \in [Rows -> Int] /\ Net \in [Rows -> Int] /\ Earned \in [Rows -> Int]
BY DEF BookOK, Cents, Net, Earned

LEMMA CentsOfIs ==
  ASSUME BookOK, NEW rows \in SUBSET Rows, NEW types
  PROVE  CentsOf(rows, types) = Over(Cents, {i \in rows : book[i].type \in types})
<1> DEFINE T == {i \in rows : book[i].type \in types}
<1>1. [i \in T |-> book[i].cents] = [i \in T |-> Cents[i]]
  BY DEF Cents
<1>. QED
  BY <1>1 DEF CentsOf, Over

LEMMA SpendingIs ==
  ASSUME BookOK, NEW rows \in SUBSET Rows
  PROVE  Spending(rows) = Over(Net, rows)
<1> DEFINE Out == [i \in Rows |-> IF book[i].type = "EXPENSE" THEN book[i].cents ELSE 0]
           Back == [i \in Rows |-> IF book[i].type = "REFUND" THEN book[i].cents ELSE 0]
           E == {i \in rows : book[i].type \in {"EXPENSE"}}
           R == {i \in rows : book[i].type \in {"REFUND"}}
<1>1. Out \in [Rows -> Int] /\ Back \in [Rows -> Int] /\ IsFiniteSet(Rows)
  BY DEF BookOK
<1>2. \A i \in Rows : Out[i] = Net[i] + Back[i]
  BY DEF BookOK, Net
<1>3. /\ E \in SUBSET rows /\ R \in SUBSET rows
      /\ \A i \in E : Out[i] = Cents[i]
      /\ \A i \in rows \ E : Out[i] = 0
      /\ \A i \in R : Back[i] = Cents[i]
      /\ \A i \in rows \ R : Back[i] = 0
  BY DEF Cents
<1>4. Spending(rows) = Over(Cents, E) - Over(Cents, R)
  BY CentsOfIs DEF Spending
<1>. HIDE DEF Out, Back, E, R
<1>5. Over(Out, rows) = Over(Cents, E)
  BY <1>1, <1>3, AmountsAreTyped, OverFilter
<1>6. Over(Back, rows) = Over(Cents, R)
  BY <1>1, <1>3, AmountsAreTyped, OverFilter
<1>7. Over(Out, rows) = Over(Net, rows) + Over(Back, rows)
  BY <1>1, <1>2, AmountsAreTyped, OverPlus
<1>8. Over(Net, rows) \in Int /\ Over(Back, rows) \in Int
  BY <1>1, AmountsAreTyped, OverStep
<1>. QED
  BY <1>4, <1>5, <1>6, <1>7, <1>8

LEMMA IncomeIs ==
  ASSUME BookOK, NEW rows \in SUBSET Rows
  PROVE  Income(rows) = Over(Earned, rows)
<1> DEFINE I == {i \in rows : book[i].type \in {"INCOME"}}
<1>1. I \in SUBSET rows /\ (\A i \in I : Earned[i] = Cents[i]) /\ \A i \in rows \ I : Earned[i] = 0
  BY DEF Cents, Earned
<1>2. Income(rows) = Over(Cents, I)
  BY CentsOfIs DEF Income
<1>. HIDE DEF I
<1>3. Over(Earned, rows) = Over(Cents, I)
  BY <1>1, AmountsAreTyped, OverFilter DEF BookOK
<1>. QED
  BY <1>2, <1>3

LEMMA SignedIs ==
  ASSUME BookOK, NEW rows \in SUBSET Rows
  PROVE  /\ Signed(rows, {"EXPENSE", "REFUND"}) = Over(Net, rows)
         /\ Signed(rows, {"INCOME"}) = -Over(Earned, rows)
<1>1. Signed(rows, {"EXPENSE", "REFUND"}) = Spending(rows)
  <2>1. {"EXPENSE", "REFUND"} \cap {"EXPENSE"} = {"EXPENSE"} /\ {"EXPENSE", "REFUND"} \ {"EXPENSE"} = {"REFUND"}
    OBVIOUS
  <2>. QED
    BY <2>1 DEF Signed, Spending
<1>2. Signed(rows, {"INCOME"}) = 0 - Income(rows)
  <2>1. {"INCOME"} \cap {"EXPENSE"} = {} /\ {"INCOME"} \ {"EXPENSE"} = {"INCOME"}
    OBVIOUS
  <2>2. CentsOf(rows, {}) = 0
    <3>1. {i \in rows : book[i].type \in {}} = {} /\ {} \in SUBSET Rows
      OBVIOUS
    <3>2. CentsOf(rows, {}) = Over(Cents, {})
      BY <3>1, CentsOfIs
    <3>. QED
      BY <3>1, <3>2, AmountsAreTyped, OverStep DEF BookOK
  <2>. QED
    BY <2>1, <2>2 DEF Signed, Income
<1>3. Over(Earned, rows) \in Int
  BY AmountsAreTyped, OverStep DEF BookOK
<1>. QED
  BY <1>1, <1>2, <1>3, SpendingIs, IncomeIs

-----------------------------------------------------------------------------
(* The rows a report is made of.                                           *)
Matches(i, f) ==
  /\ book[i].status = "CONFIRMED"
  /\ f.category = None \/ UnderCategory(i, f.category)
  /\ f.member = None \/ book[i].payer = f.member

RowsIn(q, f) == {i \in Rows : Matches(i, f) /\ Within(book[i].date, q)}

LEMMA RowsOfPeriod ==
  ASSUME BookOK, NEW p, GoodPeriod(p), NEW f
  PROVE  /\ Current(Selected(p, f), p) = RowsIn(p, f)
         /\ Selected(p, f) \ Current(Selected(p, f), p) = RowsIn(PreviousPeriod(p), f)
<1>1. PICK q : q = PreviousPeriod(p)
  OBVIOUS
<1>2. GoodPeriod(q) /\ q.end < p.start
  BY <1>1, PreviousIs
<1>3. Selected(p, f) = {i \in Rows : Matches(i, f) /\ (Within(book[i].date, p) \/ Within(book[i].date, q))}
  BY <1>1 DEF Selected, Matches, Rows
<1>4. \A i \in Rows : /\ Within(book[i].date, p) => book[i].date >= p.start
                      /\ Within(book[i].date, q) => ~(book[i].date >= p.start)
  BY <1>2 DEF BookOK, Within, GoodPeriod
<1>. QED
  BY <1>1, <1>3, <1>4 DEF Current, RowsIn

LEMMA BaselinesAgree ==
  ASSUME BookOK, NEW p, GoodPeriod(p), NEW f
  PROVE  BaselineAgrees(Summary(p, f), Summary(PreviousPeriod(p), f))
<1>1. PICK q : q = PreviousPeriod(p)
  OBVIOUS
<1>2. GoodPeriod(q)
  BY <1>1, PreviousIs
<1>3. Summary(p, f) = Figures(RowsIn(p, f), RowsIn(q, f), f)
  BY <1>1, RowsOfPeriod DEF Summary
<1>4. Summary(q, f) = Figures(RowsIn(q, f), RowsIn(PreviousPeriod(q), f), f)
  BY <1>2, RowsOfPeriod DEF Summary
<1>. QED
  BY <1>1, <1>3, <1>4 DEF BaselineAgrees, Figures

SpendingByGroup(rows, K, h) == SumOf([k \in K |-> Spending({i \in rows : h[i] = k})])

LEMMA GroupedSpending ==
  ASSUME BookOK, NEW rows \in SUBSET Rows, NEW K, IsFiniteSet(K), NEW h
  PROVE  SpendingByGroup(rows, K, h) = Over(Net, InGroups(rows, K, h))
<1>1. \A k \in K : Spending({i \in rows : h[i] = k}) = Over(Net, {i \in rows : h[i] = k})
  <2>. TAKE k \in K
  <2>1. {i \in rows : h[i] = k} \in SUBSET Rows
    OBVIOUS
  <2>. QED
    BY <2>1, SpendingIs
<1>2. [k \in K |-> Spending({i \in rows : h[i] = k})] = [k \in K |-> Over(Net, {i \in rows : h[i] = k})]
  BY <1>1
<1>3. Groups(Net, rows, K, h) = Over(Net, InGroups(rows, K, h))
  <2>1. IsFiniteSet(Rows) /\ Net \in [Rows -> Int]
    BY AmountsAreTyped DEF BookOK
  <2>. QED
    BY <2>1, GroupsAddUp
<1>. QED
  BY <1>2, <1>3 DEF SpendingByGroup, Groups

(* What is in no group is the rest.                                        *)
LEMMA TheRest ==
  ASSUME BookOK, NEW rows \in SUBSET Rows, NEW A \in SUBSET rows, NEW B \in SUBSET rows, A \cup B = rows, A \cap B = {}
  PROVE  Over(Net, A) = Spending(rows) - Spending(B)
<1>1. A \in SUBSET Rows /\ B \in SUBSET Rows
  OBVIOUS
<1>2. Over(Net, A \cup B) = Over(Net, A) + Over(Net, B)
  BY <1>1, AmountsAreTyped, OverSplit DEF BookOK
<1>3. Over(Net, A) \in Int /\ Over(Net, B) \in Int
  BY <1>1, AmountsAreTyped, OverStep DEF BookOK
<1>4. Spending(rows) = Over(Net, A \cup B) /\ Spending(B) = Over(Net, B)
  BY <1>1, SpendingIs
<1>. QED
  BY <1>2, <1>3, <1>4

LEMMA GroupsOfPart ==
  ASSUME BookOK, NEW rows \in SUBSET Rows, NEW part \in SUBSET rows, NEW K, IsFiniteSet(K), NEW h,
         InGroups(part, K, h) \cup (rows \ InGroups(part, K, h)) = rows
  PROVE  SpendingByGroup(part, K, h) = Spending(rows) - Spending(rows \ InGroups(part, K, h))
<1>1. PICK A \in SUBSET rows, B \in SUBSET rows : A = InGroups(part, K, h) /\ B = rows \ A
  BY DEF InGroups
<1>2. A \cup B = rows /\ A \cap B = {}
  BY <1>1
<1>3. Over(Net, A) = Spending(rows) - Spending(B)
  BY <1>2, TheRest
<1>4. part \in SUBSET Rows
  OBVIOUS
<1>5. SpendingByGroup(part, K, h) = Over(Net, A)
  BY <1>1, <1>4, GroupedSpending
<1>. QED
  BY <1>1, <1>3, <1>5

LEMMA BreakdownsAgree ==
  ASSUME BookOK, NEW p, GoodPeriod(p), NEW f
  PROVE  BreakdownsAddUp(Summary(p, f), Uncategorised(p, f), Unpaid(p, f))
<1>1. PICK cur \in SUBSET Rows : cur = RowsIn(p, f)
  BY DEF RowsIn
<1>2. PICK old : old = RowsIn(PreviousPeriod(p), f)
  OBVIOUS
<1>3. Summary(p, f) = Figures(cur, old, f)
  BY <1>1, <1>2, RowsOfPeriod DEF Summary
<1>4. /\ Uncategorised(p, f) = Spending({i \in cur : book[i].category = None})
      /\ Unpaid(p, f) = Spending({i \in cur : book[i].payer = None})
  BY <1>1, RowsOfPeriod DEF Uncategorised, Unpaid
<1>5. SumOf(Figures(cur, old, f).categories) = Spending(cur) - Spending({i \in cur : book[i].category = None})
  <2> DEFINE h == [i \in Rows |-> Bucket(i, f)]
  <2>1. \A i \in Rows : h[i] = Bucket(i, f)
    OBVIOUS
  <2>2. \A i \in Rows : Bucket(i, f) \in BookCategories <=> book[i].category # None
    BY ReportsAssumption DEF BookOK, Bucket
  <2>. HIDE DEF h
  <2>3. \A c \in BookCategories : {i \in cur : Bucket(i, f) = c} = {i \in cur : h[i] = c}
    BY <2>1
  <2>4. [c \in BookCategories |-> Spending({i \in cur : Bucket(i, f) = c})]
          = [c \in BookCategories |-> Spending({i \in cur : h[i] = c})]
    BY <2>3
  <2>5. SumOf(Figures(cur, old, f).categories) = SpendingByGroup(cur, BookCategories, h)
    BY <2>4 DEF Figures, SpendingByGroup
  <2>6. cur \ InGroups(cur, BookCategories, h) = {i \in cur : book[i].category = None}
    BY <2>1, <2>2 DEF InGroups
  <2>7. InGroups(cur, BookCategories, h) \cup (cur \ InGroups(cur, BookCategories, h)) = cur
    BY DEF InGroups
  <2>8. IsFiniteSet(BookCategories) /\ cur \in SUBSET cur
    BY ReportsAssumption
  <2>9. SpendingByGroup(cur, BookCategories, h) = Spending(cur) - Spending(cur \ InGroups(cur, BookCategories, h))
    BY <2>7, <2>8, GroupsOfPart
  <2>. QED
    BY <2>5, <2>6, <2>9
<1>6. SumOf(Figures(cur, old, f).essentiality) = Spending(cur) - Spending({i \in cur : book[i].category = None})
  <2> DEFINE h == [i \in Rows |-> EssentialityOf[book[i].category]]
             part == {i \in cur : book[i].category # None}
             K == {EssentialityOf[c] : c \in BookCategories}
  <2>1. \A i \in Rows : h[i] = EssentialityOf[book[i].category]
    OBVIOUS
  <2>2. \A i \in part : EssentialityOf[book[i].category] \in K
    BY DEF BookOK
  <2>3. \A e \in K : {i \in cur : book[i].category # None /\ EssentialityOf[book[i].category] = e} = {i \in part : h[i] = e}
    BY <2>1
  <2>4. part \in SUBSET cur
    OBVIOUS
  <2>5. IsFiniteSet(K)
    <3>1. PICK g \in [BookCategories -> K] : \A c \in BookCategories : g[c] = EssentialityOf[c]
      <4>1. [c \in BookCategories |-> EssentialityOf[c]] \in [BookCategories -> K]
        OBVIOUS
      <4>. QED
        BY <4>1
    <3>2. g \in Surjection(BookCategories, K)
      BY <3>1 DEF Surjection
    <3>. QED
      BY <3>2, ReportsAssumption, FS_Surjection
  <2>6. Figures(cur, old, f).essentiality =
          [e \in K |-> Spending({i \in cur : book[i].category # None /\ EssentialityOf[book[i].category] = e})]
    BY DEF Figures
  <2>7. cur \ part = {i \in cur : book[i].category = None}
    OBVIOUS
  <2>. HIDE DEF h, part, K
  <2>8. Figures(cur, old, f).essentiality = [e \in K |-> Spending({i \in part : h[i] = e})]
    BY <2>3, <2>6
  <2>9. SumOf(Figures(cur, old, f).essentiality) = SpendingByGroup(part, K, h)
    BY <2>8 DEF SpendingByGroup
  <2>10. InGroups(part, K, h) = part
    BY <2>1, <2>2, <2>4 DEF InGroups
  <2>11. SpendingByGroup(part, K, h) = Spending(cur) - Spending(cur \ part)
    BY <2>4, <2>5, <2>10, GroupsOfPart
  <2>. QED
    BY <2>7, <2>9, <2>11
<1>7. SumOf(Figures(cur, old, f).members) = Spending(cur) - Spending({i \in cur : book[i].payer = None})
  <2> DEFINE h == [i \in Rows |-> book[i].payer]
  <2>1. \A i \in Rows : h[i] = book[i].payer
    OBVIOUS
  <2>. HIDE DEF h
  <2>3. \A m \in Payers : {i \in cur : book[i].payer = m} = {i \in cur : h[i] = m}
    BY <2>1
  <2>4. [m \in Payers |-> Spending({i \in cur : book[i].payer = m})] = [m \in Payers |-> Spending({i \in cur : h[i] = m})]
    BY <2>3
  <2>5. SumOf(Figures(cur, old, f).members) = SpendingByGroup(cur, Payers, h)
    BY <2>4 DEF Figures, SpendingByGroup
  <2>6. cur \ InGroups(cur, Payers, h) = {i \in cur : book[i].payer = None}
    BY <2>1, ReportsAssumption DEF InGroups, BookOK
  <2>7. InGroups(cur, Payers, h) \cup (cur \ InGroups(cur, Payers, h)) = cur
    BY DEF InGroups
  <2>8. IsFiniteSet(Payers) /\ cur \in SUBSET cur
    BY ReportsAssumption
  <2>9. SpendingByGroup(cur, Payers, h) = Spending(cur) - Spending(cur \ InGroups(cur, Payers, h))
    BY <2>7, <2>8, GroupsOfPart
  <2>. QED
    BY <2>5, <2>6, <2>9
<1>8. Figures(cur, old, f).expenses = Spending(cur)
  BY DEF Figures
<1>. QED
  BY <1>3, <1>4, <1>5, <1>6, <1>7, <1>8 DEF BreakdownsAddUp

LEMMA SerialsInOrder ==
  ASSUME NEW d \in Int, NEW e \in Int, d <= e
  PROVE  Serial(d) \in Int /\ Serial(e) \in Int /\ Serial(d) <= Serial(e)
<1>1. PICK i \in Int, j \in Int : i = Serial(d) /\ j = Serial(e)
  BY DayIs
<1>2. MonthStart(i) < d /\ e <= MonthStart(j + 1)
  BY <1>1, MonthOfDay
<1>3. MonthStart(i) \in Int /\ MonthStart(j + 1) \in Int
  BY MonthLengths
<1>4. ~(j + 1 <= i)
  BY <1>2, <1>3, MonthsInOrder
<1>. QED
  BY <1>1, <1>4

LEMMA MonthIndex ==
  ASSUME NEW s \in Int, NEW d \in Int
  PROVE  Index("month", s, d) = Serial(d) - Serial(s)
<1>1. PICK a \in Int, b \in Int, m \in Int, n \in Int : a = YearOf(s) /\ b = YearOf(d) /\ m = MonthOf(s) /\ n = MonthOf(d)
  <2>1. YearOf(s) \in Int /\ YearOf(d) \in Int /\ MonthOf(s) \in Int /\ MonthOf(d) \in Int
    BY MonthOfDay DEF Numbered
  <2>. QED
    BY <2>1
<1>. QED
  BY <1>1 DEF Index, Serial

(* Later days have later buckets.                                          *)
LEMMA IndexInOrder ==
  ASSUME NEW gran \in {"day", "week", "month"}, NEW s \in Int, NEW d \in Int, NEW e \in Int, s <= d, d <= e
  PROVE  /\ Index(gran, s, d) \in Int /\ Index(gran, s, e) \in Int
         /\ 0 <= Index(gran, s, d) /\ Index(gran, s, d) <= Index(gran, s, e)
<1>1. CASE gran = "day"
  BY <1>1 DEF Index
<1>2. CASE gran = "week"
  BY <1>2 DEF Index
<1>3. CASE gran = "month"
  <2>1. PICK i \in Int, j \in Int, k \in Int : i = Serial(s) /\ j = Serial(d) /\ k = Serial(e)
    <3>1. Serial(s) \in Int /\ Serial(d) \in Int /\ Serial(e) \in Int
      BY DayIs
    <3>. QED
      BY <3>1
  <2>2. i <= j /\ j <= k
    BY <2>1, SerialsInOrder
  <2>. QED
    BY <1>3, <2>1, <2>2, MonthIndex
<1>. QED
  BY <1>1, <1>2, <1>3

Bucketed(gran, start, n, rows, types) ==
  SumOf([k \in 0..n |-> Signed({i \in rows : Index(gran, start, book[i].date) = k}, types)])

LEMMA PointsAddUp ==
  ASSUME BookOK, NEW types, NEW v \in [Rows -> Int], \A A \in SUBSET Rows : Signed(A, types) = Over(v, A),
         NEW gran, NEW start, NEW n \in Int, NEW rows \in SUBSET Rows,
         \A i \in rows : Index(gran, start, book[i].date) \in 0..n
  PROVE  Bucketed(gran, start, n, rows, types) = Over(v, rows)
<1> DEFINE h == [i \in Rows |-> Index(gran, start, book[i].date)]
           K == 0..n
<1>1. \A i \in Rows : h[i] = Index(gran, start, book[i].date)
  OBVIOUS
<1>2. IsFiniteSet(K)
  BY FS_Interval
<1>3. \A i \in rows : h[i] \in K
  OBVIOUS
<1>. HIDE DEF h, K
<1>4. \A k \in K : Signed({i \in rows : Index(gran, start, book[i].date) = k}, types) = Over(v, {i \in rows : h[i] = k})
  <2>. TAKE k \in K
  <2>1. {i \in rows : Index(gran, start, book[i].date) = k} = {i \in rows : h[i] = k} /\ {i \in rows : h[i] = k} \in SUBSET Rows
    BY <1>1
  <2>. QED
    BY <2>1
<1>5. [k \in K |-> Signed({i \in rows : Index(gran, start, book[i].date) = k}, types)] = [k \in K |-> Over(v, {i \in rows : h[i] = k})]
  BY <1>4
<1>6. Bucketed(gran, start, n, rows, types) = Groups(v, rows, K, h)
  BY <1>5 DEF Bucketed, Groups, K
<1>7. Groups(v, rows, K, h) = Over(v, InGroups(rows, K, h))
  <2>1. IsFiniteSet(Rows)
    BY DEF BookOK
  <2>. QED
    BY <1>2, <2>1, GroupsAddUp
<1>8. InGroups(rows, K, h) = rows
  BY <1>3 DEF InGroups
<1>. QED
  BY <1>6, <1>7, <1>8

LEMMA SeriesIs ==
  ASSUME BookOK, NEW p, GoodPeriod(p), NEW f, NEW types, NEW q, q = PreviousPeriod(p),
         NEW n, n = Index(Granularity(p), p.start, p.end)
  PROVE  /\ CurrentOf(Series(p, f, types)) = Bucketed(Granularity(p), p.start, n, RowsIn(p, f), types)
         /\ PreviousOf(Series(p, f, types)) = Bucketed(Granularity(p), q.start, n, RowsIn(q, f), types)
<1> DEFINE cur == RowsIn(p, f)
           old == RowsIn(q, f)
           gran == Granularity(p)
           cs(k) == Signed({i \in cur : Index(gran, p.start, book[i].date) = k}, types)
           ps(k) == Signed({i \in old : Index(gran, q.start, book[i].date) = k}, types)
           s == [k \in 0..n |-> [current |-> cs(k), previous |-> ps(k)]]
<1>1. Series(p, f, types) = s
  BY RowsOfPeriod DEF Series, Points
<1>. HIDE DEF cs, ps
<1>2. DOMAIN s = 0..n /\ \A k \in 0..n : s[k].current = cs(k) /\ s[k].previous = ps(k)
  OBVIOUS
<1>. HIDE DEF s
<1>3. [k \in DOMAIN s |-> s[k].current] = [k \in 0..n |-> cs(k)] /\ [k \in DOMAIN s |-> s[k].previous] = [k \in 0..n |-> ps(k)]
  BY <1>2
<1>4. SumOf([k \in 0..n |-> cs(k)]) = Bucketed(gran, p.start, n, cur, types)
  BY DEF Bucketed, cs
<1>5. SumOf([k \in 0..n |-> ps(k)]) = Bucketed(gran, q.start, n, old, types)
  BY DEF Bucketed, ps
<1>. QED
  BY <1>1, <1>3, <1>4, <1>5 DEF CurrentOf, PreviousOf

Owed == [i \in Rows |-> -Earned[i]]

LEMMA OwedIs ==
  ASSUME BookOK, NEW A \in SUBSET Rows
  PROVE  Owed \in [Rows -> Int] /\ Over(Owed, A) = -Over(Earned, A)
<1> DEFINE z == [i \in Rows |-> 0]
<1>1. Owed \in [Rows -> Int] /\ Earned \in [Rows -> Int] /\ IsFiniteSet(Rows)
  BY AmountsAreTyped DEF BookOK, Owed
<1>2. z \in [Rows -> Int] /\ (\A i \in Rows : z[i] = Owed[i] + Earned[i]) /\ \A i \in A : z[i] = 0
  BY <1>1 DEF Owed
<1>. HIDE DEF z
<1>3. Over(z, A) = Over(Owed, A) + Over(Earned, A)
  BY <1>1, <1>2, OverPlus
<1>4. Over(z, A) = 0
  BY <1>1, <1>2, OverZero
<1>5. Over(Owed, A) \in Int /\ Over(Earned, A) \in Int
  BY <1>1, OverStep
<1>. QED
  BY <1>1, <1>3, <1>4, <1>5

LEMMA GranularityIs ==
  ASSUME NEW p
  PROVE  Granularity(p) \in {"day", "week", "month"}
BY DEF Granularity

LEMMA SeriesAgree ==
  ASSUME BookOK, NEW p, GoodPeriod(p), NEW f
  PROVE  SeriesAddUp(Summary(p, f), SpendingSeries(p, f), CurrentOf(IncomeSeries(p, f)), p)
<1>1. PICK q : q = PreviousPeriod(p)
  OBVIOUS
<1>2. GoodPeriod(q)
  BY <1>1, PreviousIs
<1>3. PICK gran \in {"day", "week", "month"} : gran = Granularity(p)
  BY GranularityIs
<1>4. PICK n \in Int : n = Index(gran, p.start, p.end)
  <2>1. PICK s \in Int, e \in Int : s = p.start /\ e = p.end /\ s <= e /\ e <= e
    BY DEF GoodPeriod
  <2>2. Index(gran, s, e) \in Int
    BY <2>1, IndexInOrder
  <2>. QED
    BY <2>1, <2>2
<1>5. PICK cur \in SUBSET Rows, old \in SUBSET Rows : cur = RowsIn(p, f) /\ old = RowsIn(q, f)
  BY DEF RowsIn
<1>6. \A i \in cur : Index(gran, p.start, book[i].date) \in 0..n
  <2>. TAKE i \in cur
  <2>1. PICK d \in Int, s \in Int, e \in Int : d = book[i].date /\ s = p.start /\ e = p.end /\ s <= d /\ d <= e
    BY <1>5 DEF GoodPeriod, BookOK, RowsIn, Within
  <2>2. /\ Index(gran, s, d) \in Int /\ Index(gran, s, e) \in Int
        /\ 0 <= Index(gran, s, d) /\ Index(gran, s, d) <= Index(gran, s, e)
    BY <2>1, IndexInOrder
  <2>. QED
    BY <1>4, <2>1, <2>2
<1>7. ASSUME Index(gran, q.start, q.end) <= n
      PROVE  \A i \in old : Index(gran, q.start, book[i].date) \in 0..n
  <2>. TAKE i \in old
  <2>1. PICK d \in Int, s \in Int, e \in Int : d = book[i].date /\ s = q.start /\ e = q.end /\ s <= d /\ d <= e
    BY <1>2, <1>5 DEF GoodPeriod, BookOK, RowsIn, Within
  <2>2. /\ Index(gran, s, d) \in Int /\ Index(gran, s, e) \in Int
        /\ 0 <= Index(gran, s, d) /\ Index(gran, s, d) <= Index(gran, s, e)
    BY <2>1, IndexInOrder
  <2>. QED
    BY <1>7, <2>1, <2>2
<1>8. Summary(p, f) = Figures(cur, old, f)
  BY <1>1, <1>5, RowsOfPeriod DEF Summary
<1>9. /\ Summary(p, f).expenses = Over(Net, cur) /\ Summary(p, f).prevExpenses = Over(Net, old)
      /\ Summary(p, f).income = Over(Earned, cur)
  BY <1>8, SpendingIs, IncomeIs DEF Figures
<1>10. \A A \in SUBSET Rows : Signed(A, {"EXPENSE", "REFUND"}) = Over(Net, A)
  BY SignedIs
<1>11. \A A \in SUBSET Rows : Signed(A, {"INCOME"}) = Over(Owed, A)
  BY SignedIs, OwedIs
<1>12. Net \in [Rows -> Int] /\ Owed \in [Rows -> Int]
  BY AmountsAreTyped, OwedIs
<1>13. CurrentOf(SpendingSeries(p, f)) = Summary(p, f).expenses
  <2>1. Bucketed(gran, p.start, n, cur, {"EXPENSE", "REFUND"}) = Over(Net, cur)
    BY <1>6, <1>10, <1>12, PointsAddUp
  <2>. QED
    BY <1>1, <1>3, <1>4, <1>5, <1>9, <2>1, SeriesIs DEF SpendingSeries
<1>14. CurrentOf(IncomeSeries(p, f)) = -Summary(p, f).income
  <2>1. Bucketed(gran, p.start, n, cur, {"INCOME"}) = Over(Owed, cur)
    BY <1>6, <1>11, <1>12, PointsAddUp
  <2>. QED
    BY <1>1, <1>3, <1>4, <1>5, <1>9, <2>1, SeriesIs, OwedIs DEF IncomeSeries
<1>15. ASSUME Index(gran, q.start, q.end) <= n
       PROVE  PreviousOf(SpendingSeries(p, f)) = Summary(p, f).prevExpenses
  <2>1. Bucketed(gran, q.start, n, old, {"EXPENSE", "REFUND"}) = Over(Net, old)
    BY <1>7, <1>15, <1>10, <1>12, PointsAddUp
  <2>. QED
    BY <1>1, <1>3, <1>4, <1>5, <1>9, <2>1, SeriesIs DEF SpendingSeries
<1>. QED
  BY <1>1, <1>3, <1>4, <1>13, <1>14, <1>15 DEF SeriesAddUp

LEMMA ThisMonthIs ==
  ASSUME today \in Int
  PROVE  ThisMonth = Period(FirstOfMonth(today), today) /\ GoodPeriod(ThisMonth)
<1>1. ResolvePeriod("this_month", 0, 0, today) = {Period(FirstOfMonth(today), today)}
  BY DEF ResolvePeriod
<1>2. ThisMonth = Period(FirstOfMonth(today), today)
  BY <1>1 DEF ThisMonth
<1>3. GoodPeriod(ThisMonth)
  BY <1>1, <1>2, ResolvedIsGood DEF PeriodKeys
<1>. QED
  BY <1>2, <1>3

LEMMA FilterIs ==
  ASSUME NEW c \in BookCategories
  PROVE  /\ NoFilter.category = None /\ NoFilter.member = None
         /\ OfCategory(c).category = c /\ OfCategory(c).member = None /\ c # None
BY ReportsAssumption DEF NoFilter, OfCategory

LEMMA LineIsFiltered ==
  ASSUME BookOK, NEW p, NEW c \in BookCategories, ParentOf[c] = None
  PROVE  {i \in RowsIn(p, NoFilter) : Bucket(i, NoFilter) = c} = RowsIn(p, OfCategory(c))
<1>1. \A i \in Rows : Bucket(i, NoFilter) = c <=> UnderCategory(i, c)
  BY ReportsAssumption, FilterIs DEF BookOK, Bucket, UnderCategory
<1>. QED
  BY <1>1, FilterIs DEF RowsIn, Matches

LEMMA CategoryAgrees ==
  ASSUME BookOK, today \in Int, NEW c \in BookCategories
  PROVE  SameCategory(c)
<1>1. PICK p : p = ThisMonth /\ GoodPeriod(p)
  BY ThisMonthIs
<1>2. PICK base \in SUBSET Rows, mine \in SUBSET Rows : base = RowsIn(p, NoFilter) /\ mine = RowsIn(p, OfCategory(c))
  BY DEF RowsIn
<1>3. Summary(p, OfCategory(c)).expenses = Over(Net, mine)
  BY <1>1, <1>2, RowsOfPeriod, SpendingIs DEF Summary, Figures
<1>4. ASSUME ParentOf[c] = None
      PROVE  Summary(p, NoFilter).categories[c] = Over(Net, mine)
  <2>1. Summary(p, NoFilter).categories[c] = Spending({i \in base : Bucket(i, NoFilter) = c})
    BY <1>1, <1>2, RowsOfPeriod DEF Summary, Figures
  <2>. QED
    BY <1>2, <1>4, <2>1, LineIsFiltered, SpendingIs
<1>5. ASSUME {k \in archived : ParentOf[k] = c} = {}
      PROVE  Spent[c] = Over(Net, mine)
  <2> DEFINE K == {k \in BookCategories : ParentOf[k] = c}
             h == [i \in Rows |-> book[i].category]
             own == {i \in base : book[i].category = c}
  <2>1. base = {i \in Rows : book[i].status = "CONFIRMED" /\ Within(book[i].date, p)}
    BY <1>2, FilterIs DEF RowsIn, Matches
  <2>2. \A k \in BookCategories : CategorySpending(p)[k] = Spending({i \in base : book[i].category = k})
    <3>. TAKE k \in BookCategories
    <3>1. {i \in DOMAIN book : book[i].status = "CONFIRMED" /\ book[i].category = k /\ Within(book[i].date, p)}
            = {i \in base : book[i].category = k}
      BY <2>1 DEF Rows
    <3>. QED
      BY <3>1 DEF CategorySpending
  <2>3. {x \in BookCategories \ archived : ParentOf[x] = c} = K
    BY <1>5
  <2>4. Spent[c] = CategorySpending(p)[c] + SumOf([k \in K |-> CategorySpending(p)[k]])
    BY <1>1, <2>3 DEF Spent, RollUp
  <2>5. \A i \in Rows : h[i] = book[i].category
    OBVIOUS
  <2>6. K \in SUBSET BookCategories /\ IsFiniteSet(K)
    BY ReportsAssumption, FS_Subset
  <2>7. c \notin K /\ None \notin K
    BY ReportsAssumption
  <2>8. own \cup {i \in base : book[i].category \in K} = mine
    BY <1>2, <2>1, FilterIs DEF RowsIn, Matches, UnderCategory, BookOK
  <2>. HIDE DEF K, h
  <2>9. \A k \in K : CategorySpending(p)[k] = Spending({i \in base : h[i] = k})
    <3>. TAKE k \in K
    <3>1. {i \in base : h[i] = k} = {i \in base : book[i].category = k}
      BY <2>5
    <3>. QED
      BY <2>2, <2>6, <3>1
  <2>10. [k \in K |-> CategorySpending(p)[k]] = [k \in K |-> Spending({i \in base : h[i] = k})]
    BY <2>9
  <2>11. SumOf([k \in K |-> CategorySpending(p)[k]]) = Over(Net, InGroups(base, K, h))
    BY <2>6, <2>10, GroupedSpending DEF SpendingByGroup
  <2>12. PICK kids \in SUBSET Rows : kids = InGroups(base, K, h)
    BY DEF InGroups
  <2>13. own \cup kids = mine /\ own \cap kids = {} /\ own \in SUBSET Rows
    BY <2>5, <2>7, <2>8, <2>12 DEF InGroups
  <2>. HIDE DEF own
  <2>14. Over(Net, own \cup kids) = Over(Net, own) + Over(Net, kids)
    <3>1. IsFiniteSet(Rows) /\ Net \in [Rows -> Int]
      BY AmountsAreTyped DEF BookOK
    <3>. QED
      BY <2>13, <3>1, OverSplit
  <2>15. CategorySpending(p)[c] = Over(Net, own)
    BY <2>2, <2>13, SpendingIs DEF own
  <2>. QED
    BY <2>4, <2>11, <2>12, <2>13, <2>14, <2>15
<1>. QED
  BY <1>1, <1>3, <1>4, <1>5 DEF SameCategory

LEMMA ReportsAlwaysAgree ==
  ASSUME ReportsTypeOK
  PROVE  ReportsAgree
<1>1. BookOK /\ today \in Int
  BY BookIsOK, ReportsAssumption DEF ReportsTypeOK
<1>2. \A p \in Periods, f \in Filters : OneStory(p, f)
  <2>. TAKE p \in Periods, f \in Filters
  <2>1. GoodPeriod(p)
    BY <1>1, PeriodsAreGood
  <2>. QED
    BY <1>1, <2>1, BaselinesAgree, BreakdownsAgree, SeriesAgree DEF OneStory
<1>3. \A c \in BookCategories \ archived : SameCategory(c)
  BY <1>1, CategoryAgrees
<1>. QED
  BY <1>2, <1>3 DEF ReportsAgree

LEMMA ReportsInitTyped == ReportsInit => ReportsTypeOK
<1>. SUFFICES ASSUME ReportsInit PROVE ReportsTypeOK
  OBVIOUS
<1>1. \A R : <<>> \in Seq(R)
  OBVIOUS
<1>. QED
  BY <1>1 DEF ReportsInit, ReportsTypeOK

LEMMA ReportsStepTyped == ReportsTypeOK /\ [ReportsNext]_reportVars => ReportsTypeOK'
<1> DEFINE Row == [type : {"EXPENSE", "REFUND", "INCOME", "TRANSFER"}, category : BookCategories \cup {None},
                   payer : Payers \cup {None}, cents : Nat, status : {"CONFIRMED", "DELETED"}, date : Nat]
<1>. SUFFICES ASSUME ReportsTypeOK, [ReportsNext]_reportVars
              PROVE  ReportsTypeOK'
  OBVIOUS
<1>1. book \in Seq(Row)
  BY DEF ReportsTypeOK
<1>2. CASE NextDay
  BY <1>2 DEF ReportsTypeOK, NextDay
<1>3. CASE Ask
  BY <1>3 DEF ReportsTypeOK, Ask
<1>4. ASSUME NEW e \in Entries, Record(e)
      PROVE  ReportsTypeOK'
  <2>1. PICK r : r = [type |-> e.type, category |-> e.category, payer |-> e.payer, cents |-> e.cents,
                      status |-> "CONFIRMED", date |-> today - e.age]
    OBVIOUS
  <2>2. r \in Row
    BY <1>4, <2>1, ReportsAssumption DEF Record
  <2>3. book' = Append(book, r)
    BY <1>4, <2>1 DEF Record
  <2>. HIDE DEF Row
  <2>4. book' \in Seq(Row)
    BY <1>1, <2>2, <2>3
  <2>. QED
    BY <1>4, <2>4 DEF ReportsTypeOK, Record, Row
<1>5. ASSUME NEW i \in DOMAIN book, Delete(i)
      PROVE  ReportsTypeOK'
  <2>1. book[i] \in Row
    <3>. HIDE DEF Row
    <3>. QED
      BY <1>1
  <2>2. PICK r : r = [book[i] EXCEPT !.status = "DELETED"]
    OBVIOUS
  <2>3. r \in Row
    BY <2>1, <2>2
  <2>4. book' = [book EXCEPT ![i] = r]
    BY <1>5, <2>2 DEF Delete
  <2>. HIDE DEF Row
  <2>5. book' \in Seq(Row)
    BY <1>1, <2>3, <2>4
  <2>. QED
    BY <1>5, <2>5 DEF ReportsTypeOK, Delete, Row
<1>6. ASSUME NEW c \in BookCategories, Archive(c)
      PROVE  ReportsTypeOK'
  BY <1>6 DEF ReportsTypeOK, Archive
<1>7. CASE UNCHANGED reportVars
  BY <1>7 DEF ReportsTypeOK, reportVars
<1>. QED
  BY <1>2, <1>3, <1>4, <1>5, <1>6, <1>7 DEF ReportsNext

-----------------------------------------------------------------------------
(* Theorems.                                                               *)

(* The book keeps its type: what is recorded, deleted, or left alone.      *)
THEOREM ReportsTyped == ReportsSpec => []ReportsTypeOK
<1>. QED
  BY ReportsInitTyped, ReportsStepTyped, PTL DEF ReportsSpec

(* Whatever is recorded, deleted or archived, on whatever day, the summary,  *)
(* its breakdowns, the baseline, the series and the budgets agree.         *)
(* (Summary, series and Budgets, reports.go)                               *)
THEOREM ReportsAlwaysTellOneStory == ReportsSpec => []ReportsAgree
<1>. QED
  BY ReportsTyped, ReportsAlwaysAgree, PTL

(* On every day after 2021 a weekday, a day of the month and a day and     *)
(* month resolve to the latest day of that name (but for 29/02, see        *)
(* DatesHold), and a period is compared with an earlier one like it: whole  *)
(* month with whole month, month to date with the same days of the month    *)
(* before, anything else with as many days right before; nothing is said   *)
(* of what a period of several months from the first is compared with.     *)
(* (ResolveDate, ResolvePeriod and PreviousPeriod, dates.go)               *)
THEOREM DatesHoldEveryDay == ReportsSpec => []DatesHold
<1>1. ReportsTypeOK => DatesHold
  BY DatesAlwaysHold DEF ReportsTypeOK
<1>. QED
  BY <1>1, ReportsTyped, PTL

=============================================================================
