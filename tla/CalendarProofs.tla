--------------------------- MODULE CalendarProofs ---------------------------
(***************************************************************************)
(* Theorems about the calendar library, for any years, fields and dates,   *)
(* and any sequence of clicks, keys, changes and timers: the grid marks    *)
(* the date and goes where its arrows and buttons say, by the civil        *)
(* calendar; a popup writes the field it was opened for; the texts of the  *)
(* clock and the three boxes show what is stored.  Every part has an       *)
(* invariant of its own; the last theorems put them together as the module *)
(* MCCalendar does.                                                        *)
(***************************************************************************)
EXTENDS MCCalendar, SequenceTheorems, WellFoundedInduction, TLAPS

-----------------------------------------------------------------------------
(* The civil calendar.  Before counts the days before a year, Offset those *)
(* before a month in its year: both grow by the lengths of the years and   *)
(* the months, so a date has one year, one month and one day.              *)
Offset(y, m) == BeforeMonth[m + 1] + (IF LeapYear(y) /\ m > 1 THEN 1 ELSE 0)

\* A year has 365 days, a leap year 366.
LEMMA YearLength ==
  ASSUME NEW y \in Int
  PROVE  /\ Before(y) \in Int
         /\ Before(y + 1) = Before(y) + (IF LeapYear(y) THEN 366 ELSE 365)
<1>1. y \div 4 = (y - 1) \div 4 + (IF y % 4 = 0 THEN 1 ELSE 0)
  OBVIOUS
<1>2. y \div 100 = (y - 1) \div 100 + (IF y % 100 = 0 THEN 1 ELSE 0)
  OBVIOUS
<1>3. y \div 400 = (y - 1) \div 400 + (IF y % 400 = 0 THEN 1 ELSE 0)
  OBVIOUS
<1>4. (y % 400 = 0 => y % 100 = 0) /\ (y % 100 = 0 => y % 4 = 0)
  OBVIOUS
<1>5. /\ (y - 1) \div 4 \in Int /\ (y - 1) \div 100 \in Int /\ (y - 1) \div 400 \in Int
      /\ (y + 1) - 1 = y
  OBVIOUS
<1> QED BY <1>1, <1>2, <1>3, <1>4, <1>5 DEF Before, LeapYear

\* A year is at least 365 days before the next.
LEMMA YearGap ==
  ASSUME NEW y \in Int
  PROVE  Before(y) \in Int /\ Before(y + 1) \in Int /\ Before(y) + 365 <= Before(y + 1)
<1>1. y + 1 \in Int
  OBVIOUS
<1>2. Before(y) \in Int /\ Before(y + 1) \in Int
  BY <1>1, YearLength
<1>3. Before(y + 1) = Before(y) + (IF LeapYear(y) THEN 366 ELSE 365)
  BY YearLength
<1> QED BY <1>2, <1>3

\* Later years begin later.
LEMMA YearsGrow ==
  ASSUME NEW a \in Int, NEW b \in Int, a < b
  PROVE  Before(a + 1) <= Before(b)
<1> DEFINE c == b - 1
<1>1. c \in Int /\ a <= c
  OBVIOUS
<1> HIDE DEF c
<1>2. a \div 4 <= c \div 4
  BY <1>1
<1>3. a \div 400 <= c \div 400
  BY <1>1
<1>4. c \div 100 <= a \div 100 + (c - a)
  BY <1>1
<1>5. /\ a \div 4 \in Int /\ a \div 100 \in Int /\ a \div 400 \in Int
      /\ c \div 4 \in Int /\ c \div 100 \in Int /\ c \div 400 \in Int
  BY <1>1
<1>6. /\ Before(a + 1) = 365 * a + a \div 4 - a \div 100 + a \div 400
      /\ Before(b) = 365 * c + c \div 4 - c \div 100 + c \div 400
  BY DEF Before, c
<1> QED BY <1>1, <1>2, <1>3, <1>4, <1>5, <1>6

\* The days of the year before the months.
LEMMA Offsets ==
  ASSUME NEW y \in Int
  PROVE  LET l == IF LeapYear(y) THEN 1 ELSE 0
         IN /\ Offset(y, 0) = 0 /\ Offset(y, 1) = 31 /\ Offset(y, 2) = 59 + l
            /\ Offset(y, 3) = 90 + l /\ Offset(y, 4) = 120 + l /\ Offset(y, 5) = 151 + l
            /\ Offset(y, 6) = 181 + l /\ Offset(y, 7) = 212 + l /\ Offset(y, 8) = 243 + l
            /\ Offset(y, 9) = 273 + l /\ Offset(y, 10) = 304 + l /\ Offset(y, 11) = 334 + l
            /\ MonthDays(y, 0) = 31 /\ MonthDays(y, 1) = 28 + l /\ MonthDays(y, 2) = 31
            /\ MonthDays(y, 3) = 30 /\ MonthDays(y, 4) = 31 /\ MonthDays(y, 5) = 30
            /\ MonthDays(y, 6) = 31 /\ MonthDays(y, 7) = 31 /\ MonthDays(y, 8) = 30
            /\ MonthDays(y, 9) = 31 /\ MonthDays(y, 10) = 30 /\ MonthDays(y, 11) = 31
BY DEF Offset, BeforeMonth, MonthDays, MD

\* A month begins where the one before it ends.
LEMMA MonthLength ==
  ASSUME NEW y \in Int, NEW m \in Months
  PROVE  /\ MonthDays(y, m) \in 28..31 /\ Offset(y, m) \in 0..335
         /\ m < 11 => Offset(y, m + 1) = Offset(y, m) + MonthDays(y, m)
         /\ m = 11 => Offset(y, m) + MonthDays(y, m) = IF LeapYear(y) THEN 366 ELSE 365
<1>1. \/ m = 0 \/ m = 1 \/ m = 2 \/ m = 3 \/ m = 4 \/ m = 5 \/ m = 6 \/ m = 7 \/ m = 8
      \/ m = 9 \/ m = 10 \/ m = 11
  BY DEF Months
<1> QED BY <1>1, Offsets

\* The counts are integers.
LEMMA Sizes ==
  ASSUME NEW y \in Int, NEW m \in Months
  PROVE  /\ Before(y) \in Int /\ Before(y + 1) \in Int /\ Offset(y, m) \in Int
         /\ MonthDays(y, m) \in Int /\ m \in Int
<1>1. y + 1 \in Int /\ m \in Int
  BY DEF Months
<1>2. Before(y) \in Int /\ Before(y + 1) \in Int
  BY <1>1, YearLength
<1>3. Offset(y, m) \in 0..335 /\ MonthDays(y, m) \in 28..31
  BY MonthLength
<1> QED BY <1>1, <1>2, <1>3

\* Later months begin later, and end in the year.
LEMMA MonthsGrow ==
  ASSUME NEW y \in Int, NEW a \in Months, NEW b \in Months, a < b
  PROVE  Offset(y, a) + MonthDays(y, a) <= Offset(y, b)
<1>1. \A m \in Months : \/ m = 0 \/ m = 1 \/ m = 2 \/ m = 3 \/ m = 4 \/ m = 5 \/ m = 6 \/ m = 7
                        \/ m = 8 \/ m = 9 \/ m = 10 \/ m = 11
  BY DEF Months
<1> QED BY <1>1, Offsets

\* A month ends in its year, and begins no later than December.
LEMMA MonthInYear ==
  ASSUME NEW y \in Int, NEW m \in Months
  PROVE  /\ Offset(y, m) + MonthDays(y, m) <= IF LeapYear(y) THEN 366 ELSE 365
         /\ Offset(y, m) <= Offset(y, 11)
<1>1. \/ m = 0 \/ m = 1 \/ m = 2 \/ m = 3 \/ m = 4 \/ m = 5 \/ m = 6 \/ m = 7 \/ m = 8
      \/ m = 9 \/ m = 10 \/ m = 11
  BY DEF Months
<1> QED BY <1>1, Offsets

\* The day of a date is counted from the beginnings of its year and of its month.
LEMMA DateCounts ==
  ASSUME NEW y \in Int, NEW m \in Months, NEW d \in Int
  PROVE  DateOf(y, m, d) = Before(y) + Offset(y, m) + d - 1
<1>1. m \div 12 = 0 /\ m % 12 = m
  BY DEF Months
<1>2. y + 0 = y
  OBVIOUS
<1>3. /\ Before(y) \in Int /\ BeforeMonth[m + 1] \in Int
  BY YearLength DEF BeforeMonth, Months
<1> QED BY <1>1, <1>2, <1>3 DEF DateOf, Offset

Dated(n, y, m, d) ==
  /\ y \in Int /\ m \in Months /\ d \in 1..MonthDays(y, m)
  /\ n = Before(y) + Offset(y, m) + d - 1

\* A date is in its year, and in its month.
LEMMA DatedBounds ==
  ASSUME NEW n, NEW y, NEW m, NEW d, Dated(n, y, m, d)
  PROVE  /\ n \in Int /\ Before(y) <= n /\ n < Before(y + 1)
         /\ Before(y) + Offset(y, m) <= n /\ n < Before(y) + Offset(y, m) + MonthDays(y, m)
<1>1. /\ y \in Int /\ m \in Months /\ d \in 1..MonthDays(y, m)
      /\ n = Before(y) + Offset(y, m) + d - 1
  BY DEF Dated
<1>2. /\ Before(y) \in Int /\ Before(y + 1) = Before(y) + (IF LeapYear(y) THEN 366 ELSE 365)
      /\ MonthDays(y, m) \in 28..31 /\ Offset(y, m) \in 0..335
      /\ Offset(y, m) + MonthDays(y, m) <= IF LeapYear(y) THEN 366 ELSE 365
  BY <1>1, YearLength, MonthLength, MonthInYear
<1> QED BY <1>1, <1>2

\* A date has one year, one month and one day.
LEMMA DatedOnce ==
  ASSUME NEW n, NEW y, NEW m, NEW d, NEW y2, NEW m2, NEW d2,
         Dated(n, y, m, d), Dated(n, y2, m2, d2)
  PROVE  y = y2 /\ m = m2 /\ d = d2
<1>1. y \in Int /\ y2 \in Int /\ m \in Months /\ m2 \in Months
  BY DEF Dated
<1>2. /\ n \in Int /\ Before(y) <= n /\ n < Before(y + 1) /\ Before(y2) <= n /\ n < Before(y2 + 1)
      /\ Before(y) \in Int /\ Before(y + 1) \in Int /\ Before(y2) \in Int /\ Before(y2 + 1) \in Int
  BY <1>1, DatedBounds, YearLength
<1>3. y = y2
  <2>1. ~(y < y2)
    BY <1>1, <1>2, YearsGrow
  <2>2. ~(y2 < y)
    BY <1>1, <1>2, YearsGrow
  <2> QED BY <1>1, <2>1, <2>2
<1>4. m = m2
  <2>1. /\ Before(y) + Offset(y, m) <= n /\ n < Before(y) + Offset(y, m) + MonthDays(y, m)
        /\ Before(y) + Offset(y, m2) <= n /\ n < Before(y) + Offset(y, m2) + MonthDays(y, m2)
        /\ Offset(y, m) \in Int /\ Offset(y, m2) \in Int /\ MonthDays(y, m) \in Int
        /\ MonthDays(y, m2) \in Int
    BY <1>1, <1>3, DatedBounds, MonthLength
  <2>2. ~(m < m2)
    BY <1>1, <1>2, <2>1, MonthsGrow
  <2>3. ~(m2 < m)
    BY <1>1, <1>2, <2>1, MonthsGrow
  <2> QED BY <1>1, <2>2, <2>3 DEF Months
<1> QED BY <1>1, <1>2, <1>3, <1>4, MonthLength DEF Dated

YearsKnown == (MinYear - 2)..(MaxYear + 1)

\* Days are the dates of the years around the range.
LEMMA DaysKnown ==
  /\ YearsKnown \subseteq Nat /\ MinYear - 2 \in YearsKnown /\ MaxYear + 1 \in YearsKnown
  /\ Before(MinYear - 2) \in Int /\ Before(MaxYear + 2) \in Int
  /\ Days = Before(MinYear - 2)..(Before(MaxYear + 2) - 1)
  /\ Before(MinYear - 2) < Before(MaxYear + 2)
<1> USE RangeConstants DEF RangeAssumption
<1>1. /\ YearsKnown \subseteq Nat /\ MinYear - 2 \in YearsKnown /\ MaxYear + 1 \in YearsKnown
  BY DEF YearsKnown
<1>2. /\ Before(MinYear - 2) \in Int /\ Before(MaxYear + 1) \in Int /\ Before(MaxYear + 2) \in Int
      /\ Before(MaxYear + 2) = Before(MaxYear + 1) + (IF LeapYear(MaxYear + 1) THEN 366 ELSE 365)
      /\ Before(MinYear - 1) = Before(MinYear - 2) + (IF LeapYear(MinYear - 2) THEN 366 ELSE 365)
  <2>1. (MaxYear + 1) + 1 = MaxYear + 2 /\ (MinYear - 2) + 1 = MinYear - 1
    OBVIOUS
  <2> QED BY <2>1, YearLength
<1>3. DateOf(MinYear - 2, 0, 1) = Before(MinYear - 2)
  BY <1>2, DateCounts, Offsets DEF Months
<1>4. DateOf(MaxYear + 1, 11, 31) = Before(MaxYear + 2) - 1
  <2>1. DateOf(MaxYear + 1, 11, 31) = Before(MaxYear + 1) + Offset(MaxYear + 1, 11) + 31 - 1
    BY DateCounts DEF Months
  <2>2. Offset(MaxYear + 1, 11) = 334 + (IF LeapYear(MaxYear + 1) THEN 1 ELSE 0)
    BY Offsets
  <2> QED BY <1>2, <2>1, <2>2
<1>5. Before((MinYear - 2) + 1) <= Before(MaxYear + 2)
  BY YearsGrow
<1> QED BY <1>1, <1>2, <1>3, <1>4, <1>5 DEF Days

\* The years around the range have the days between their beginnings.
LEMMA KnownYears ==
  ASSUME NEW y \in YearsKnown
  PROVE  Before(MinYear - 2) <= Before(y) /\ Before(y + 1) <= Before(MaxYear + 2)
<1>2. /\ y \in Int /\ MinYear - 2 \in Int /\ MaxYear + 2 \in Int /\ MinYear - 2 <= y /\ y <= MaxYear + 1
      /\ Before(y) \in Int /\ Before(y + 1) \in Int
  <2>1. /\ y \in Int /\ MinYear - 2 \in Int /\ MaxYear + 2 \in Int /\ MinYear - 2 <= y
        /\ y <= MaxYear + 1
    BY RangeConstants DEF RangeAssumption, YearsKnown
  <2>2. y + 1 \in Int
    BY <2>1
  <2> QED BY <2>1, <2>2, YearLength
<1>3. Before(MinYear - 2) <= Before(y)
  <2>1. CASE MinYear - 2 = y
    BY <1>2, <2>1
  <2>2. CASE MinYear - 2 < y
    <3>1. Before((MinYear - 2) + 1) <= Before(y)
      BY <1>2, <2>2, YearsGrow
    <3>2. Before(MinYear - 2) <= Before((MinYear - 2) + 1)
      BY <1>2, YearLength
    <3>3. /\ Before(MinYear - 2) \in Int /\ Before((MinYear - 2) + 1) \in Int
      BY <1>2, YearLength
    <3> QED BY <1>2, <3>1, <3>2, <3>3
  <2> QED BY <1>2, <2>1, <2>2
<1>4. Before(y + 1) <= Before(MaxYear + 2)
  <2>1. y < MaxYear + 2
    BY <1>2, RangeConstants DEF RangeAssumption
  <2> QED BY <1>2, <2>1, YearsGrow
<1> QED BY <1>3, <1>4

\* Every date of the years around the range is one of Days.
LEMMA KnownDated ==
  ASSUME NEW n, NEW y \in YearsKnown, NEW m, NEW d, Dated(n, y, m, d)
  PROVE  n \in Days
<1>1. n \in Int /\ Before(y) <= n /\ n < Before(y + 1)
  BY DatedBounds
<1>2. y \in Int
  BY DaysKnown
<1>3. Before(y) \in Int /\ Before(y + 1) \in Int
  BY <1>2, YearLength
<1> QED BY <1>1, <1>3, KnownYears, DaysKnown

\* Every day has a date: its year is the first that ends after it.
LEMMA KnownDate ==
  ASSUME NEW n \in Days
  PROVE  \E y \in YearsKnown, m \in Months, d \in Int : Dated(n, y, m, d)
<1> DEFINE S == {k \in Nat : k >= MinYear - 2 /\ n < Before(k + 1)}
<1>1. /\ MinYear \in Nat /\ MaxYear \in Nat /\ 100 < MinYear /\ n \in Int
      /\ Before(MinYear - 2) <= n /\ n < Before(MaxYear + 2)
  BY RangeConstants, DaysKnown DEF RangeAssumption
<1>2. MaxYear + 1 \in S
  <2>1. (MaxYear + 1) + 1 = MaxYear + 2
    BY <1>1
  <2> QED BY <1>1, <2>1, RangeConstants DEF RangeAssumption
<1>3. PICK y \in S : \A k \in S : ~(<<k, y>> \in OpToRel(<, Nat))
  BY <1>2, NatLessThanWellFounded, WFMin
<1>4. /\ y \in Nat /\ y >= MinYear - 2 /\ n < Before(y + 1) /\ ~(MaxYear + 1 < y)
      /\ \A k \in S : ~(k < y)
  BY <1>1, <1>2, <1>3 DEF OpToRel
<1>5. y \in YearsKnown
  BY <1>1, <1>4 DEF YearsKnown
<1>6. Before(y) <= n
  <2>1. CASE y = MinYear - 2
    BY <1>1, <2>1
  <2>2. CASE y # MinYear - 2
    <3>1. y - 1 \in Nat /\ y - 1 >= MinYear - 2 /\ y - 1 < y /\ (y - 1) + 1 = y
      BY <1>1, <1>4, <2>2
    <3>2. ~(n < Before(y))
      BY <1>4, <3>1
    <3> QED BY <1>1, <1>4, <3>2, YearLength
  <2> QED BY <2>1, <2>2
<1>7. PICK m \in Months : Before(y) + Offset(y, m) <= n /\ n < Before(y) + Offset(y, m) + MonthDays(y, m)
  <2>1. Before(y) \in Int /\ n < Before(y) + (IF LeapYear(y) THEN 366 ELSE 365)
    BY <1>4, YearLength
  <2> DEFINE r == n - Before(y)
             In(m) == Offset(y, m) <= r /\ r < Offset(y, m) + MonthDays(y, m)
  <2>2. r \in Int /\ 0 <= r /\ r < (IF LeapYear(y) THEN 366 ELSE 365)
    BY <1>1, <1>6, <2>1
  <2>3. \/ In(0) \/ In(1) \/ In(2) \/ In(3) \/ In(4) \/ In(5) \/ In(6) \/ In(7) \/ In(8)
        \/ In(9) \/ In(10) \/ In(11)
    <3> HIDE DEF r
    <3> QED BY <1>4, <2>2, Offsets
  <2>4. PICK m \in Months : In(m)
    <3> HIDE DEF In
    <3> QED BY <2>3 DEF Months
  <2>5. Offset(y, m) \in Int /\ MonthDays(y, m) \in Int
    BY <1>4, MonthLength
  <2> QED BY <1>1, <2>1, <2>4, <2>5
<1> DEFINE d == n - Before(y) - Offset(y, m) + 1
<1>8. /\ d \in 1..MonthDays(y, m) /\ n = Before(y) + Offset(y, m) + d - 1
  <2>1. Before(y) \in Int /\ Offset(y, m) \in Int /\ MonthDays(y, m) \in Int
    BY <1>4, Sizes
  <2> QED BY <1>1, <1>7, <2>1
<1>9. Dated(n, y, m, d) /\ d \in Int
  BY <1>4, <1>8, MonthLength DEF Dated
<1> QED BY <1>5, <1>9

\* Civil finds the year, the month and the day.
LEMMA CivilIsDate ==
  ASSUME NEW n, NEW y \in YearsKnown, NEW m, NEW d, Dated(n, y, m, d)
  PROVE  n \in Days /\ Year(n) = y /\ Month(n) = m /\ Day(n) = d
<1>1. /\ y \in Int /\ m \in Months /\ d \in 1..MonthDays(y, m) /\ n \in Int
      /\ n = Before(y) + Offset(y, m) + d - 1 /\ n \in Days
      /\ Before(y) \in Int /\ Offset(y, m) \in Int /\ MonthDays(y, m) \in Int
  <2>1. /\ y \in Int /\ m \in Months /\ d \in 1..MonthDays(y, m)
        /\ n = Before(y) + Offset(y, m) + d - 1
    BY DEF Dated
  <2>2. n \in Int /\ n \in Days
    BY KnownDated, DatedBounds
  <2> QED BY <2>1, <2>2, Sizes
<1> DEFINE ThisYear(k) == Before(k) <= n /\ n < Before(k + 1)
           ThisMonth(k) == DateOf(y, k, 1) <= n /\ n < DateOf(y, k + 1, 1)
<1>2. ThisYear(y)
  BY DatedBounds
<1>3. ASSUME NEW k \in YearsKnown, ThisYear(k) PROVE k = y
  <2>1. k \in Int /\ Before(k) \in Int /\ Before(k + 1) \in Int /\ Before(y + 1) \in Int
    BY <1>1, DaysKnown, YearLength
  <2>2. ~(k < y) /\ ~(y < k)
    BY <1>1, <1>2, <1>3, <2>1, YearsGrow
  <2> QED BY <1>1, <2>1, <2>2
<1>4. (CHOOSE k \in YearsKnown : ThisYear(k)) = y
  <2> HIDE DEF ThisYear
  <2> QED BY <1>2, <1>3
<1>5. ASSUME NEW k \in Months
      PROVE  ThisMonth(k) <=> Before(y) + Offset(y, k) <= n /\ n < Before(y) + Offset(y, k) + MonthDays(y, k)
  <2>0. /\ Before(y) \in Int /\ Before(y + 1) \in Int /\ Offset(y, k) \in Int
        /\ MonthDays(y, k) \in Int /\ k \in Int
    BY <1>1, Sizes
  <2>1. DateOf(y, k, 1) = Before(y) + Offset(y, k)
    <3>1. DateOf(y, k, 1) = Before(y) + Offset(y, k) + 1 - 1
      BY <1>1, DateCounts
    <3> QED BY <2>0, <3>1
  <2>2. DateOf(y, k + 1, 1) = Before(y) + Offset(y, k) + MonthDays(y, k)
    <3>1. CASE k < 11
      <4>1. k + 1 \in Months
        BY <3>1 DEF Months
      <4>2. DateOf(y, k + 1, 1) = Before(y) + Offset(y, k + 1) + 1 - 1
        BY <1>1, <4>1, DateCounts
      <4>3. Offset(y, k + 1) = Offset(y, k) + MonthDays(y, k)
        BY <1>1, <3>1, MonthLength
      <4> QED BY <2>0, <4>2, <4>3
    <3>2. CASE k = 11
      <4>1. (11 + 1) \div 12 = 1 /\ (11 + 1) % 12 = 0
        OBVIOUS
      <4>2. BeforeMonth[0 + 1] = 0 /\ ~(0 > 1)
        BY DEF BeforeMonth
      <4>3. DateOf(y, k + 1, 1) = Before(y + 1) + 0 + 0 + 1 - 1
        BY <3>2, <4>1, <4>2 DEF DateOf
      <4>4. Before(y + 1) = Before(y) + (Offset(y, k) + MonthDays(y, k))
        <5>1. Offset(y, k) + MonthDays(y, k) = IF LeapYear(y) THEN 366 ELSE 365
          BY <1>1, <3>2, MonthLength
        <5> QED BY <1>1, <5>1, YearLength
      <4> QED BY <2>0, <4>3, <4>4
    <3>3. k < 11 \/ k = 11
      BY DEF Months
    <3> QED BY <3>1, <3>2, <3>3
  <2> QED BY <2>1, <2>2
<1>6. ThisMonth(m)
  BY <1>1, <1>5, DatedBounds
<1>7. ASSUME NEW k \in Months, ThisMonth(k) PROVE k = m
  <2>1. k \in Int /\ Offset(y, k) \in Int /\ MonthDays(y, k) \in Int /\ m \in Int
    BY <1>1, Sizes
  <2>2. ~(k < m) /\ ~(m < k)
    BY <1>1, <1>5, <1>6, <1>7, <2>1, MonthsGrow
  <2> QED BY <2>1, <2>2
<1>8. (CHOOSE k \in Months : ThisMonth(k)) = m
  <2> HIDE DEF ThisMonth
  <2> QED BY <1>1, <1>6, <1>7
<1>9. Civil[n] = [year |-> y, month |-> m, day |-> n - DateOf(y, m, 1) + 1]
  BY <1>1, <1>4, <1>8 DEF Civil, YearsKnown
<1>10. n - DateOf(y, m, 1) + 1 = d
  BY <1>1, DateCounts
<1> QED BY <1>1, <1>9, <1>10 DEF Year, Month, Day

\* Every day is the date that Civil says.
LEMMA Dates ==
  ASSUME NEW n \in Days
  PROVE  /\ n \in Int /\ Year(n) \in YearsKnown /\ Year(n) \in Int /\ Month(n) \in Months
         /\ Day(n) \in 1..MonthDays(Year(n), Month(n)) /\ Day(n) \in 1..31
         /\ Dated(n, Year(n), Month(n), Day(n))
         /\ Before(Year(n)) <= n /\ n < Before(Year(n) + 1)
<1>1. PICK y \in YearsKnown, m \in Months, d \in Int : Dated(n, y, m, d)
  BY KnownDate
<1>2. Year(n) = y /\ Month(n) = m /\ Day(n) = d
  BY <1>1, CivilIsDate
<1>3. y \in Int /\ d \in 1..MonthDays(y, m) /\ MonthDays(y, m) \in 28..31
  BY <1>1, MonthLength DEF Dated
<1> QED BY <1>1, <1>2, <1>3, DatedBounds

\* DateOf and SetDay make the date they are asked for.
LEMMA DateOfIs ==
  ASSUME NEW y \in YearsKnown, NEW m \in Months, NEW d \in 1..MonthDays(y, m)
  PROVE  LET k == DateOf(y, m, d)
         IN /\ Dated(k, y, m, d) /\ k \in Days /\ Year(k) = y /\ Month(k) = m /\ Day(k) = d
<1>1. y \in Int /\ d \in Int
  BY DaysKnown
<1>2. Dated(DateOf(y, m, d), y, m, d)
  BY <1>1, DateCounts DEF Dated
<1> QED BY <1>2, CivilIsDate

\* setDate keeps the year and the month for a day that the month has.
LEMMA SetDayIs ==
  ASSUME NEW n \in Days, NEW d \in 1..MonthDays(Year(n), Month(n))
  PROVE  LET k == SetDay(n, d)
         IN /\ k = DateOf(Year(n), Month(n), d) /\ k \in Days
            /\ Year(k) = Year(n) /\ Month(k) = Month(n) /\ Day(k) = d
<1>1. /\ n \in Int /\ Year(n) \in YearsKnown /\ Year(n) \in Int /\ Month(n) \in Months
      /\ Day(n) \in Int /\ d \in Int
      /\ n = Before(Year(n)) + Offset(Year(n), Month(n)) + Day(n) - 1
  BY Dates DEF Dated
<1>2. Before(Year(n)) \in Int /\ Offset(Year(n), Month(n)) \in Int
  BY <1>1, Sizes
<1>3. SetDay(n, d) = Before(Year(n)) + Offset(Year(n), Month(n)) + d - 1
  BY <1>1, <1>2 DEF SetDay
<1>4. SetDay(n, d) = DateOf(Year(n), Month(n), d)
  BY <1>1, <1>3, DateCounts
<1> QED BY <1>1, <1>4, DateOfIs

\* The first of a month.
LEMMA FirstIs ==
  ASSUME NEW n \in Days
  PROVE  LET k == SetDay(n, 1)
         IN /\ k = DateOf(Year(n), Month(n), 1) /\ k \in Days /\ k = n - Day(n) + 1
            /\ Year(k) = Year(n) /\ Month(k) = Month(n) /\ Day(k) = 1
<1>1. 1 \in 1..MonthDays(Year(n), Month(n))
  BY Dates, MonthLength
<1> QED BY <1>1, SetDayIs DEF SetDay

\* Another year keeps the month, and the day but for 29 February.
LEMMA SetFullYearIs ==
  ASSUME NEW n \in Days, NEW y \in YearsKnown
  PROVE  LET k == SetFullYear(n, y)
         IN /\ k \in Days /\ Year(k) = y /\ Month(k) = Month(n)
            /\ Day(k) = Day(n) \/ Day(k) = 28
            /\ y = Year(n) \/ Day(n) = 1 => Day(k) = Day(n)
<1> DEFINE m == Month(n)
           d == Day(n)
<1>1. /\ Year(n) \in YearsKnown /\ m \in Months /\ d \in 1..MonthDays(Year(n), m) /\ y \in Int
      /\ Year(n) \in Int /\ OldSetFullYear(n, y) = DateOf(y, m, d)
  BY Dates, DaysKnown DEF OldSetFullYear
<1>2. MonthDays(y, m) \in 28..31
  BY <1>1, MonthLength
<1>3. CASE d <= MonthDays(y, m)
  <2>1. d \in 1..MonthDays(y, m)
    BY <1>1, <1>2, <1>3
  <2>2. SetFullYear(n, y) = DateOf(y, m, d)
    BY <1>1, <2>1, DateOfIs DEF SetFullYear
  <2> QED BY <1>1, <2>1, <2>2, DateOfIs
<1>4. CASE ~(d <= MonthDays(y, m))
  <2>1. MonthDays(Year(n), m) # MonthDays(y, m)
    BY <1>1, <1>2, <1>4
  <2>2. m = 1 /\ ~LeapYear(y) /\ d = 29
    <3>1. m = 1
      BY <2>1 DEF MonthDays
    <3>2. /\ MonthDays(y, 1) = IF LeapYear(y) THEN 29 ELSE 28
          /\ MonthDays(Year(n), 1) = IF LeapYear(Year(n)) THEN 29 ELSE 28
      BY DEF MonthDays, MD
    <3> QED BY <1>1, <1>4, <3>1, <3>2
  <2>3. DateOf(y, 1, 29) = DateOf(y, 2, 1)
    <3>1. DateOf(y, 1, 29) = Before(y) + 31 + 29 - 1 /\ DateOf(y, 2, 1) = Before(y) + 59 + 1 - 1
      BY <1>1, <2>2, DateCounts, Offsets DEF Months
    <3> QED BY <1>1, <3>1, YearLength
  <2>4. 2 \in Months /\ 1 \in 1..MonthDays(y, 2)
    BY <1>1, Offsets DEF Months
  <2>5. Month(OldSetFullYear(n, y)) = 2
    BY <1>1, <2>2, <2>3, <2>4, DateOfIs
  <2>6. 28 \in 1..MonthDays(Year(n), m) /\ 28 \in 1..MonthDays(y, m)
    BY <1>1, <1>2, MonthLength
  <2>7. SetFullYear(n, y) = DateOf(y, m, 28)
    BY <2>2, <2>5, <2>6, SetDayIs DEF SetFullYear, OldSetFullYear
  <2>8. y # Year(n) /\ d # 1
    BY <2>1, <2>2
  <2> QED BY <1>1, <2>6, <2>7, <2>8, DateOfIs
<1> QED BY <1>3, <1>4

\* By way of the first of its month, every date is reached.
LEMMA SetDateOnlyIs ==
  ASSUME NEW n \in Days, NEW k \in Days
  PROVE  SetDateOnly(n, k) = k
<1> DEFINE first == SetDay(n, 1)
           inYear == SetFullYear(first, Year(k))
<1>1. first \in Days
  BY FirstIs
<1>2. Year(inYear) = Year(k)
  BY <1>1, SetFullYearIs, Dates
<1>3. SetDateOnly(n, k) = DateOf(Year(k), Month(k), 1) + Day(k) - 1
  BY <1>2 DEF SetDateOnly
<1>4. DateOf(Year(k), Month(k), 1) = k - Day(k) + 1 /\ k \in Int /\ Day(k) \in Int
  BY FirstIs, Dates
<1> QED BY <1>3, <1>4

\* A button's month is the month, with a day it has.
LEMMA ToMonthIs ==
  ASSUME NEW n \in Days, NEW m \in Months
  PROVE  ToMonth(n, m) \in Days /\ Year(ToMonth(n, m)) = Year(n) /\ Month(ToMonth(n, m)) = m
<1>1. /\ Year(n) \in YearsKnown /\ Year(n) \in Int /\ Month(n) \in Months
      /\ Day(n) \in 1..MonthDays(Year(n), Month(n))
      /\ MonthDays(Year(n), m) \in 28..31 /\ MonthDays(Year(n), Month(n)) \in 28..31
  BY Dates, MonthLength
<1>2. CASE Day(n) > MonthDays(Year(n), m)
  <2>1. MonthDays(Year(n), m) \in 1..MonthDays(Year(n), Month(n))
    BY <1>1, <1>2
  <2>2. ToMonth(n, m) = DateOf(Year(n), m, MonthDays(Year(n), m))
    BY <1>2, <2>1, SetDayIs DEF ToMonth, SetMonth
  <2>3. MonthDays(Year(n), m) \in 1..MonthDays(Year(n), m)
    BY <1>1
  <2> QED BY <1>1, <2>2, <2>3, DateOfIs
<1>3. CASE ~(Day(n) > MonthDays(Year(n), m))
  <2>1. Day(n) \in 1..MonthDays(Year(n), m)
    BY <1>1, <1>3
  <2>2. ToMonth(n, m) = DateOf(Year(n), m, Day(n))
    BY <1>3 DEF ToMonth, SetMonth
  <2> QED BY <1>1, <2>1, <2>2, DateOfIs
<1> QED BY <1>2, <1>3

\* A month of the box is set in the year, or a day or so after.
LEMMA SetMonthIs ==
  ASSUME NEW n \in Days, NEW m \in Months
  PROVE  SetMonth(n, m) \in Days
<1> DEFINE y == Year(n)
<1>1. /\ y \in YearsKnown /\ y \in Int /\ Day(n) \in 1..31 /\ 11 \in Months
  BY Dates DEF Months
<1> HIDE DEF y
<1>2. SetMonth(n, m) = Before(y) + Offset(y, m) + Day(n) - 1
  BY <1>1, DateCounts DEF SetMonth, y
<1>3. Offset(y, m) <= Offset(y, 11) /\ Offset(y, m) >= 0
  BY <1>1, MonthInYear, MonthLength
<1>4. /\ Before(y) \in Int /\ Before(y + 1) = Before(y) + (IF LeapYear(y) THEN 366 ELSE 365)
      /\ Offset(y, 11) = 334 + (IF LeapYear(y) THEN 1 ELSE 0) /\ Offset(y, m) \in Int
  BY <1>1, YearLength, Offsets, Sizes
<1>5. Before(y) <= SetMonth(n, m) /\ SetMonth(n, m) < Before(y + 1) /\ SetMonth(n, m) \in Int
  BY <1>1, <1>2, <1>3, <1>4
<1>6. Before(MinYear - 2) <= Before(y) /\ Before(y + 1) <= Before(MaxYear + 2)
  BY <1>1, KnownYears DEF y
<1>7. Before(y + 1) \in Int
  BY <1>1, Sizes
<1> QED BY <1>4, <1>5, <1>6, <1>7, DaysKnown

\* The range, in days.
LEMMA RangeIs ==
  /\ Before(MinYear) \in Int /\ Before(MaxYear + 1) \in Int
  /\ Before(MinYear - 2) + 730 <= Before(MinYear) /\ Before(MinYear) < Before(MaxYear + 1)
  /\ Before(MaxYear + 1) + 365 <= Before(MaxYear + 2)
  /\ \A n \in Days : InRange(n) <=> Before(MinYear) <= n /\ n < Before(MaxYear + 1)
<1> USE RangeConstants DEF RangeAssumption
<1>1. /\ Before(MinYear) \in Int /\ Before(MaxYear + 1) \in Int /\ Before(MinYear - 2) \in Int
      /\ Before(MaxYear + 2) \in Int /\ Before(MinYear - 1) \in Int
      /\ Before(MinYear - 1) >= Before(MinYear - 2) + 365 /\ Before(MinYear) >= Before(MinYear - 1) + 365
      /\ Before(MaxYear + 2) >= Before(MaxYear + 1) + 365
  <2>1. /\ (MinYear - 2) + 1 = MinYear - 1 /\ (MinYear - 1) + 1 = MinYear
        /\ (MaxYear + 1) + 1 = MaxYear + 2
    OBVIOUS
  <2>2. \A y \in Int : Before(y) \in Int /\ Before(y + 1) \in Int /\ Before(y + 1) >= Before(y) + 365
    <3>1. \A y \in Int : Before(y) \in Int /\ Before(y + 1) \in Int /\ Before(y) + 365 <= Before(y + 1)
      BY YearGap
    <3> QED BY <3>1
  <2> QED BY <2>1, <2>2
<1>2. Before(MinYear) < Before(MaxYear + 1)
  <2>1. Before(MinYear + 1) <= Before(MaxYear + 1)
    BY YearsGrow
  <2>2. Before(MinYear + 1) >= Before(MinYear) + 365 /\ Before(MinYear + 1) \in Int
    BY YearLength
  <2> QED BY <1>1, <2>1, <2>2
<1>3. ASSUME NEW n \in Days
      PROVE  InRange(n) <=> Before(MinYear) <= n /\ n < Before(MaxYear + 1)
  <2> DEFINE y == Year(n)
  <2>1. y \in Int /\ n \in Int /\ Before(y) <= n /\ n < Before(y + 1)
    BY Dates
  <2> HIDE DEF y
  <2>2. Before(y) \in Int /\ Before(y + 1) \in Int
    BY <2>1, YearLength
  <2>3. y < MinYear => Before(y + 1) <= Before(MinYear)
    BY <2>1, YearsGrow
  <2>4. MaxYear + 1 <= y => Before(MaxYear + 1) <= Before(y)
    <3>1. MaxYear + 1 < y => Before((MaxYear + 1) + 1) <= Before(y)
      BY <2>1, YearsGrow
    <3> QED BY <1>1, <2>1, <2>2, <3>1
  <2>5. MinYear <= y => Before(MinYear) <= Before(y)
    <3>1. MinYear < y => Before(MinYear + 1) <= Before(y)
      BY <2>1, YearsGrow
    <3>2. Before(MinYear + 1) >= Before(MinYear) /\ Before(MinYear + 1) \in Int
      BY <1>1, YearLength
    <3> QED BY <1>1, <2>1, <2>2, <3>1, <3>2
  <2>6. y <= MaxYear => Before(y + 1) <= Before(MaxYear + 1)
    BY <2>1, YearsGrow
  <2>7. y \in MinYear..MaxYear <=> MinYear <= y /\ y <= MaxYear
    BY <2>1
  <2> QED BY <1>1, <2>1, <2>2, <2>3, <2>4, <2>5, <2>6, <2>7 DEF InRange, y
<1> QED BY <1>1, <1>2, <1>3

\* _init brings every date into the range, and leaves those that are in it.
LEMMA ClampIs ==
  ASSUME NEW n \in Days
  PROVE  /\ Clamp(n) \in Days /\ InRange(Clamp(n)) /\ Month(Clamp(n)) = Month(n)
         /\ Day(Clamp(n)) = Day(n) \/ Day(Clamp(n)) = 28
         /\ InRange(n) => Clamp(n) = n
<1>1. /\ Year(n) \in Int /\ MinYear \in YearsKnown /\ MaxYear \in YearsKnown
      /\ MinYear \in Nat /\ MaxYear \in Nat /\ MinYear <= MaxYear
  BY RangeConstants, Dates DEF RangeAssumption, YearsKnown
<1> QED BY <1>1, SetFullYearIs DEF Clamp, InRange

-----------------------------------------------------------------------------
(* The grid.  It begins up to six days before the month that it shows, so  *)
(* its cells are near the range.                                           *)
Near == (Before(MinYear) - 60)..(Before(MaxYear + 1) + 60)

\* Around a date near the range there is a month of days on either side.
LEMMA NearDays ==
  /\ \A n \in Near : n \in Int /\ (n - 31)..(n + 31) \subseteq Days /\ n \in Days
  /\ \A n \in Days : InRange(n) => n \in Near
BY RangeIs, DaysKnown DEF Near

\* The grid begins at most six days before the month.
LEMMA FirstShownIs ==
  ASSUME NEW g \in Days, NEW f \in 0..6
  PROVE  FirstShown(g, f) \in (SetDay(g, 1) - 6)..SetDay(g, 1)
<1> DEFINE first == SetDay(g, 1)
           w == (first + 1) % 7
<1>1. first \in Int
  BY FirstIs, Dates
<1> HIDE DEF first
<1>2. w \in 0..6
  BY <1>1
<1> HIDE DEF w
<1>3. (w - f) % 7 \in 0..6
  BY <1>2
<1>4. FirstShown(g, f) = first - ((w - f) % 7)
  BY DEF FirstShown, Weekday, first, w
<1> QED BY <1>1, <1>3, <1>4 DEF first

\* The months of the range are near it with the whole grid.
LEMMA CellsNear ==
  ASSUME NEW g \in Days, InRange(g), NEW f \in 0..6, NEW p \in Cells
  PROVE  /\ CellDate(g, f, p) \in Near /\ CellDate(g, f, p) \in (SetDay(g, 1) - 6)..(SetDay(g, 1) + 41)
         /\ FirstShown(g, f) \in Int /\ CellDate(g, f, p) - p = FirstShown(g, f)
<1>1. FirstShown(g, f) \in (SetDay(g, 1) - 6)..SetDay(g, 1) /\ SetDay(g, 1) \in Int
  BY FirstShownIs, FirstIs, Dates
<1>2. InRange(SetDay(g, 1)) /\ SetDay(g, 1) \in Days
  BY FirstIs DEF InRange
<1>3. Before(MinYear) <= SetDay(g, 1) /\ SetDay(g, 1) < Before(MaxYear + 1)
  BY <1>2, RangeIs
<1> QED BY <1>1, <1>3, RangeIs DEF CellDate, Cells, Near

\* Two months begin at least four weeks apart.
LEMMA FirstsApart ==
  ASSUME NEW a \in Days, NEW b \in Days, Day(a) = 1, Day(b) = 1, a < b
  PROVE  a + 28 <= b
<1> SUFFICES ASSUME b < a + 28 PROVE FALSE
  BY Dates
<1> DEFINE d == b - a + 1
<1>1. a \in Int /\ b \in Int /\ MonthDays(Year(a), Month(a)) \in 28..31
  BY Dates, MonthLength
<1>2. d \in 1..MonthDays(Year(a), Month(a)) /\ d # 1
  BY <1>1
<1>3. SetDay(a, d) = b
  BY <1>1 DEF SetDay
<1>4. Day(SetDay(a, d)) = d
  BY <1>2, SetDayIs
<1> QED BY <1>2, <1>3, <1>4

\* A cell with the month's number is of that month.
LEMMA CellOfMonth ==
  ASSUME NEW g \in Days, NEW k \in Days, k \in (SetDay(g, 1) - 6)..(SetDay(g, 1) + 41),
         Month(k) = Month(g)
  PROVE  SetDay(k, 1) = SetDay(g, 1)
<1> DEFINE m == Month(g)
           y == Year(g)
           z == Year(k)
<1>1. /\ y \in Int /\ z \in Int /\ m \in Months /\ k \in Int /\ Day(k) \in 1..31
      /\ k = Before(z) + Offset(z, m) + Day(k) - 1
      /\ SetDay(g, 1) = Before(y) + Offset(y, m) + 1 - 1
      /\ SetDay(k, 1) = Before(z) + Offset(z, m) + 1 - 1
  BY Dates, FirstIs, DateCounts DEF Dated
<1>2. /\ Before(y) \in Int /\ Before(z) \in Int /\ Offset(y, m) \in Int /\ Offset(z, m) \in Int
      /\ Offset(y, m) - Offset(z, m) \in -1..1
  <2>1. Offset(y, m) - Offset(z, m) \in -1..1
    <3>1. BeforeMonth[m + 1] \in Int
      BY <1>1 DEF BeforeMonth, Months
    <3> QED BY <3>1 DEF Offset
  <2> QED BY <1>1, <2>1, Sizes
<1> HIDE DEF y, z, m
<1>3. ~(y < z)
  <2> SUFFICES ASSUME y < z PROVE FALSE
    OBVIOUS
  <2>1. Before(y) + 365 <= Before(z)
    <3>1. Before(y + 1) <= Before(z) /\ Before(y) + 365 <= Before(y + 1) /\ Before(y + 1) \in Int
      BY <1>1, YearsGrow, YearGap
    <3> QED BY <1>2, <3>1
  <2> QED BY <1>1, <1>2, <2>1
<1>4. ~(z < y)
  <2> SUFFICES ASSUME z < y PROVE FALSE
    OBVIOUS
  <2>1. Before(z) + 365 <= Before(y)
    <3>1. Before(z + 1) <= Before(y) /\ Before(z) + 365 <= Before(z + 1) /\ Before(z + 1) \in Int
      BY <1>1, YearsGrow, YearGap
    <3> QED BY <1>2, <3>1
  <2> QED BY <1>1, <1>2, <2>1
<1> QED BY <1>1, <1>3, <1>4

-----------------------------------------------------------------------------
(* What the calendar shows: Good says of a date, a grid and a current cell *)
(* that they are near the range and agree.  A current cell whose date is   *)
(* an old one is placed as in the grid of that date's month, when only the *)
(* month's days are shown: in the grid of another month it is not where    *)
(* the date is.                                                            *)
ElPlaced(el) ==
  \/ showsOther
  \/ /\ InRange(el.caldate)
     /\ el.caldate - el.pos \in (SetDay(el.caldate, 1) - 6)..SetDay(el.caldate, 1)
ElGood(el) == el \in [pos : Cells, caldate : Near] /\ ElPlaced(el)

Good(s, f) ==
  /\ s.date \in Near /\ s.grid \in Days /\ InRange(s.grid) /\ Day(s.grid) = 1
  /\ ElGood(s.el)
  /\ InRange(s.date) \/ (showsOther /\ s.date = s.el.caldate)
  /\ CellDate(s.grid, f, s.el.pos) = s.el.caldate => s.grid = SetDay(s.date, 1)
  /\ s.grid = SetDay(s.date, 1) /\ s.date \notin Disabled => s.el.caldate = s.date

\* The first of a month has the grid of the month.
LEMMA FirstFacts ==
  ASSUME NEW n \in Days
  PROVE  /\ SetDay(SetDay(n, 1), 1) = SetDay(n, 1)
         /\ Day(n) = 1 => SetDay(n, 1) = n
         /\ \A f : FirstShown(SetDay(n, 1), f) = FirstShown(n, f)
         /\ InRange(SetDay(n, 1)) <=> InRange(n)
<1>1. /\ SetDay(n, 1) \in Days /\ SetDay(n, 1) \in Int /\ Day(SetDay(n, 1)) = 1
      /\ Year(SetDay(n, 1)) = Year(n) /\ SetDay(n, 1) = n - Day(n) + 1 /\ n \in Int
  BY FirstIs, Dates
<1>2. SetDay(SetDay(n, 1), 1) = SetDay(n, 1)
  BY <1>1 DEF SetDay
<1> QED BY <1>1, <1>2 DEF FirstShown, InRange

\* A cell of the month shown is placed.
LEMMA CellPlaced ==
  ASSUME NEW g \in Days, InRange(g), NEW f \in 0..6, NEW p \in Cells,
         showsOther \/ Month(CellDate(g, f, p)) = Month(g)
  PROVE  ElGood([pos |-> p, caldate |-> CellDate(g, f, p)])
<1> DEFINE k == CellDate(g, f, p)
<1>1. /\ k \in Near /\ k \in Days /\ k \in (SetDay(g, 1) - 6)..(SetDay(g, 1) + 41)
      /\ k - p = FirstShown(g, f) /\ FirstShown(g, f) \in (SetDay(g, 1) - 6)..SetDay(g, 1)
  BY CellsNear, NearDays, FirstShownIs
<1> HIDE DEF k
<1>2. CASE ~showsOther
  <2>1. SetDay(k, 1) = SetDay(g, 1)
    BY <1>1, <1>2, CellOfMonth DEF k
  <2>2. InRange(k)
    BY <1>1, <2>1, FirstFacts
  <2> QED BY <1>1, <2>1, <2>2 DEF ElGood, ElPlaced, k
<1> QED BY <1>1, <1>2 DEF ElGood, ElPlaced, k

\* _init puts the current cell on the date, or leaves it where it was.
LEMMA CurrentGood ==
  ASSUME NEW n \in Days, InRange(n), NEW f \in 0..6, NEW el, ElGood(el)
  PROVE  /\ ElGood(Current(n, f, el))
         /\ n \notin Disabled =>
              Current(n, f, el) = [pos |-> n - FirstShown(n, f), caldate |-> n]
         /\ n - FirstShown(n, f) \in Cells /\ CellDate(n, f, n - FirstShown(n, f)) = n
<1> DEFINE q == n - FirstShown(n, f)
<1>1. /\ n \in Int /\ SetDay(n, 1) = n - Day(n) + 1 /\ Day(n) \in 1..31
      /\ FirstShown(n, f) \in (SetDay(n, 1) - 6)..SetDay(n, 1)
  BY Dates, FirstIs, FirstShownIs
<1>2. q \in Cells /\ CellDate(n, f, q) = n
  BY <1>1 DEF Cells, CellDate
<1>3. ElGood([pos |-> q, caldate |-> n])
  BY <1>2, CellPlaced
<1>4. CASE n \notin Disabled
  BY <1>2, <1>3, <1>4 DEF Current, Enabled, OtherMonth
<1>5. CASE n \in Disabled
  <2> DEFINE k == CellDate(n, f, el.pos)
  <2>1. el = [pos |-> el.pos, caldate |-> el.caldate] /\ el.pos \in Cells
    BY DEF ElGood
  <2>2. CASE Enabled(k, n)
    <3>1. ElGood([pos |-> el.pos, caldate |-> k])
      BY <2>1, <2>2, CellPlaced DEF Enabled, OtherMonth
    <3>2. Current(n, f, el) = [pos |-> el.pos, caldate |-> k]
      BY <1>5, <2>1, <2>2 DEF Current, Enabled
    <3> QED BY <1>2, <1>5, <3>1, <3>2
  <2>3. CASE ~Enabled(k, n)
    <3>1. Current(n, f, el) = el
      BY <1>5, <2>3 DEF Current, Enabled
    <3> QED BY <1>2, <1>5, <3>1
  <2> QED BY <2>2, <2>3
<1> QED BY <1>4, <1>5

\* What _init leaves, by its parts.
LEMMA ShownIs ==
  ASSUME NEW n \in Days, NEW f, NEW el
  PROVE  /\ Shown(n, f, el).date = Clamp(n)
         /\ Shown(n, f, el).grid = SetDay(Clamp(n), 1)
         /\ Shown(n, f, el).el = Current(Clamp(n), f, el)
BY ClampIs DEF Shown

\* After _init the date, the grid and the current cell agree, whatever cell was current.
LEMMA ShownGood ==
  ASSUME NEW n \in Days, NEW f \in 0..6, NEW el, ElGood(el)
  PROVE  Good(Shown(n, f, el), f)
<1> DEFINE k == Clamp(n)
           s == Shown(n, f, el)
<1>1. /\ k \in Days /\ InRange(k) /\ k \in Near /\ SetDay(k, 1) \in Days
      /\ Day(SetDay(k, 1)) = 1 /\ InRange(SetDay(k, 1))
  BY ClampIs, NearDays, FirstIs, FirstFacts
<1>2. s.date = k /\ s.grid = SetDay(k, 1) /\ s.el = Current(k, f, el)
  BY ShownIs
<1> HIDE DEF k, s
<1>3. ElGood(Current(k, f, el)) /\ (k \notin Disabled => Current(k, f, el).caldate = k)
  BY <1>1, CurrentGood
<1>4. Good(s, f)
  BY <1>1, <1>2, <1>3 DEF Good
<1> QED BY <1>4 DEF s

\* setDate does nothing or calls _init.
LEMMA SetDateGood ==
  ASSUME NEW s, fdow \in 0..6, Good(s, fdow), NEW n \in Days
  PROVE  Good(SetDate(s, n), fdow)
<1>1. Good(Shown(n, fdow, s.el), fdow)
  BY ShownGood DEF Good
<1> QED BY <1>1 DEF SetDate

\* A click takes the date of the cell.
LEMMA CellClickIs ==
  ASSUME NEW s, fdow \in 0..6, Good(s, fdow), NEW p \in Cells
  PROVE  LET there == CellDate(s.grid, fdow, p)
             caldate == IF p = s.el.pos THEN s.el.caldate ELSE there
             el == [pos |-> p, caldate |-> caldate]
         IN CellClick(s, p) = IF showsOther /\ OtherMonth(there, s.grid)
                              THEN Shown(caldate, fdow, el)
                              ELSE [date |-> caldate, grid |-> s.grid, el |-> el]
<1> DEFINE there == CellDate(s.grid, fdow, p)
           caldate == IF p = s.el.pos THEN s.el.caldate ELSE there
<1>1. there \in Near /\ s.el.caldate \in Near /\ s.date \in Near
  BY CellsNear DEF Good, ElGood
<1>2. caldate \in Days /\ s.date \in Days
  BY <1>1, NearDays
<1>3. SetDateOnly(s.date, caldate) = caldate
  BY <1>2, SetDateOnlyIs
<1> QED BY <1>3 DEF CellClick

\* A click on the current cell, or on one that is enabled, leaves a good state.
LEMMA CellClickGood ==
  ASSUME NEW s, fdow \in 0..6, Good(s, fdow), NEW p \in Cells,
         p = s.el.pos \/ Enabled(CellDate(s.grid, fdow, p), s.grid)
  PROVE  Good(CellClick(s, p), fdow)
<1> DEFINE there == CellDate(s.grid, fdow, p)
           caldate == IF p = s.el.pos THEN s.el.caldate ELSE there
           el == [pos |-> p, caldate |-> caldate]
           t == [date |-> caldate, grid |-> s.grid, el |-> el]
<1>1. CellClick(s, p) = IF showsOther /\ OtherMonth(there, s.grid)
                        THEN Shown(caldate, fdow, el) ELSE t
  BY CellClickIs
<1>2. /\ s.grid \in Days /\ InRange(s.grid) /\ Day(s.grid) = 1 /\ SetDay(s.grid, 1) = s.grid
      /\ s.el \in [pos : Cells, caldate : Near] /\ ElGood(s.el)
  BY FirstFacts DEF Good, ElGood
<1>3. ElGood(el)
  <2>1. CASE p = s.el.pos
    <3>1. el = s.el
      BY <1>2, <2>1
    <3> QED BY <1>2, <3>1
  <2>2. CASE p # s.el.pos
    <3>1. ElGood([pos |-> p, caldate |-> there])
      BY <1>2, <2>2, CellPlaced DEF Enabled, OtherMonth
    <3>2. caldate = there
      BY <2>2
    <3> QED BY <3>1, <3>2
  <2> QED BY <2>1, <2>2
<1>4. caldate \in Near /\ caldate \in Days
  BY <1>3, NearDays DEF ElGood
<1>5. /\ there \in Days /\ there \in (SetDay(s.grid, 1) - 6)..(SetDay(s.grid, 1) + 41)
      /\ there - p = FirstShown(s.grid, fdow)
      /\ FirstShown(s.grid, fdow) \in (s.grid - 6)..s.grid
  BY <1>2, CellsNear, NearDays, FirstShownIs
<1> HIDE DEF there, caldate
<1>6. CASE showsOther /\ OtherMonth(there, s.grid)
  BY <1>1, <1>3, <1>4, <1>6, ShownGood
<1>7. CASE ~(showsOther /\ OtherMonth(there, s.grid))
  <2>1. ASSUME there = caldate PROVE s.grid = SetDay(caldate, 1)
    <3>1. CASE showsOther
      BY <1>2, <1>5, <1>7, <2>1, <3>1, CellOfMonth DEF OtherMonth
    <3>2. CASE ~showsOther
      <4>1. caldate - p \in (SetDay(caldate, 1) - 6)..SetDay(caldate, 1)
        BY <1>3, <3>2 DEF ElGood, ElPlaced
      <4>2. /\ SetDay(caldate, 1) \in Days /\ Day(SetDay(caldate, 1)) = 1
            /\ SetDay(caldate, 1) \in Int /\ s.grid \in Int
        BY <1>2, <1>4, FirstIs, Dates
      <4>3. ~(s.grid < SetDay(caldate, 1))
        BY <1>2, <1>5, <2>1, <4>1, <4>2, FirstsApart
      <4>4. ~(SetDay(caldate, 1) < s.grid)
        BY <1>2, <1>5, <2>1, <4>1, <4>2, FirstsApart
      <4> QED BY <4>2, <4>3, <4>4
    <3> QED BY <3>1, <3>2
  <2>2. InRange(caldate) \/ showsOther
    BY <1>3 DEF ElGood, ElPlaced
  <2>3. Good(t, fdow)
    BY <1>2, <1>3, <1>4, <2>1, <2>2 DEF Good, there
  <2> QED BY <1>1, <1>7, <2>3
<1> QED BY <1>6, <1>7

-----------------------------------------------------------------------------
(* The steps of the grid.                                                  *)
GridInv ==
  /\ Good(State, fdow) /\ fdow \in 0..6 /\ showsOther \in BOOLEAN
  /\ pressed \in {-2, -1, 0, 1, 2}
  /\ combo \subseteq Months \/ combo \subseteq MinYear..MaxYear

\* The calendar opens at today, in a good state.
LEMMA GridInit == Init => GridInv
<1> SUFFICES ASSUME Init PROVE GridInv
  OBVIOUS
<1> DEFINE n == Today
           el == [pos |-> n - FirstShown(n, fdow), caldate |-> n]
<1>1. n \in Days /\ n \notin Disabled /\ InRange(n) /\ fdow \in 0..6
  BY RangeConstants DEF RangeAssumption, InRange, Init
<1>2. /\ SetDay(n, 1) \in Days /\ Day(SetDay(n, 1)) = 1 /\ InRange(SetDay(n, 1)) /\ n \in Near
  BY <1>1, FirstIs, FirstFacts, NearDays
<1>3. n - FirstShown(n, fdow) \in Cells /\ CellDate(n, fdow, n - FirstShown(n, fdow)) = n
  <2>1. /\ n \in Int /\ SetDay(n, 1) = n - Day(n) + 1 /\ Day(n) \in 1..31
        /\ FirstShown(n, fdow) \in (SetDay(n, 1) - 6)..SetDay(n, 1)
    BY <1>1, Dates, FirstIs, FirstShownIs
  <2> QED BY <2>1 DEF Cells, CellDate
<1>4. ElGood(el)
  BY <1>1, <1>3, CellPlaced
<1>5. State = [date |-> n, grid |-> SetDay(n, 1), el |-> el]
  BY DEF State, Init
<1> HIDE DEF n
<1>6. Good(State, fdow)
  BY <1>1, <1>2, <1>4, <1>5 DEF Good
<1> QED BY <1>1, <1>6 DEF GridInv, Init

\* What the buttons ask for is a day.
LEMMA NavDateIs ==
  ASSUME date \in Days, NEW nav \in {-2, -1, 1, 2}
  PROVE  /\ NavDate(nav) \in Days
         /\ nav \in {-2, 2} => /\ Month(NavDate(nav)) = Month(date)
                               /\ Day(NavDate(nav)) = Day(date) \/ Day(NavDate(nav)) = 28
         /\ nav = -1 /\ Month(date) > 0 =>
              Year(NavDate(nav)) = Year(date) /\ Month(NavDate(nav)) = Month(date) - 1
         /\ nav = -1 /\ Month(date) = 0 /\ Year(date) > MinYear =>
              Year(NavDate(nav)) = Year(date) - 1 /\ Month(NavDate(nav)) = 11
         /\ nav = 1 /\ Month(date) < 11 =>
              Year(NavDate(nav)) = Year(date) /\ Month(NavDate(nav)) = Month(date) + 1
         /\ nav = 1 /\ Month(date) = 11 /\ Year(date) < MaxYear =>
              Year(NavDate(nav)) = Year(date) + 1 /\ Month(NavDate(nav)) = 0
<1> DEFINE y == Year(date)
           m == Month(date)
<1>1. /\ y \in YearsKnown /\ y \in Int /\ m \in Months /\ m \in Int
      /\ MinYear \in Nat /\ MaxYear \in Nat
  BY Dates, RangeConstants DEF RangeAssumption, Months
<1>2. /\ y > MinYear => y - 1 \in YearsKnown
      /\ y < MaxYear => y + 1 \in YearsKnown
  BY <1>1 DEF YearsKnown
<1>3. \A k \in YearsKnown :
        LET t == SetFullYear(date, k)
        IN /\ t \in Days /\ Year(t) = k /\ Month(t) = m /\ (Day(t) = Day(date) \/ Day(t) = 28)
  BY SetFullYearIs
<1>4. \A k \in Days, j \in Months :
        ToMonth(k, j) \in Days /\ Year(ToMonth(k, j)) = Year(k) /\ Month(ToMonth(k, j)) = j
  BY ToMonthIs
<1>5. CASE nav = -2
  <2>1. NavDate(nav) = IF y > MinYear THEN SetFullYear(date, y - 1) ELSE date
    BY <1>5 DEF NavDate
  <2> HIDE DEF y, m
  <2> QED BY <1>2, <1>3, <1>5, <2>1 DEF m
<1>6. CASE nav = 2
  <2>1. NavDate(nav) = IF y < MaxYear THEN SetFullYear(date, y + 1) ELSE date
    BY <1>6 DEF NavDate
  <2> HIDE DEF y, m
  <2> QED BY <1>2, <1>3, <1>6, <2>1 DEF m
<1>7. CASE nav = -1
  <2>1. NavDate(nav) = IF m > 0 THEN ToMonth(date, m - 1)
                       ELSE IF y > MinYear THEN ToMonth(SetFullYear(date, y - 1), 11) ELSE date
    BY <1>7 DEF NavDate
  <2>2. (m > 0 => m - 1 \in Months) /\ 11 \in Months
    BY <1>1 DEF Months
  <2> HIDE DEF y, m
  <2>3. y > MinYear => SetFullYear(date, y - 1) \in Days /\ Year(SetFullYear(date, y - 1)) = y - 1
    BY <1>2, <1>3
  <2> QED BY <1>1, <1>4, <1>7, <2>1, <2>2, <2>3 DEF y, m
<1>8. CASE nav = 1
  <2>1. NavDate(nav) = IF m < 11 THEN ToMonth(date, m + 1)
                       ELSE IF y < MaxYear THEN ToMonth(SetFullYear(date, y + 1), 0) ELSE date
    BY <1>8 DEF NavDate
  <2>2. (m < 11 => m + 1 \in Months) /\ 0 \in Months
    BY <1>1 DEF Months
  <2> HIDE DEF y, m
  <2>3. y < MaxYear => SetFullYear(date, y + 1) \in Days /\ Year(SetFullYear(date, y + 1)) = y + 1
    BY <1>2, <1>3
  <2> QED BY <1>1, <1>4, <1>8, <2>1, <2>2, <2>3 DEF y, m
<1> QED BY <1>5, <1>6, <1>7, <1>8

\* An arrow leads from a good state to a good one.
LEMMA ArrowGood ==
  ASSUME GridInv, NEW k \in DOMAIN Steps
  PROVE  Good(ArrowTo(k), fdow)
<1> DEFINE q == Neighbour(currentEl.pos, k)
           Away(s) == SetDate(s, s.date + Steps[k])
           s1 == IF q \in Cells THEN State ELSE Away(State)
           ne == IF q \in Cells THEN q ELSE s1.el.pos
<1>1. Good(State, fdow) /\ fdow \in 0..6 /\ Steps[k] \in -7..7
  BY DEF GridInv, Steps
<1>2. ASSUME NEW s, Good(s, fdow) PROVE Good(Away(s), fdow)
  <2>1. s.date + Steps[k] \in Days
    <3>1. s.date \in Near
      BY <1>2 DEF Good
    <3>2. s.date \in Int /\ (s.date - 31)..(s.date + 31) \subseteq Days
      BY <3>1, NearDays
    <3> QED BY <1>1, <3>2
  <2> QED BY <1>1, <1>2, <2>1, SetDateGood
<1>3. Good(s1, fdow)
  BY <1>1, <1>2
<1>4. ne \in Cells
  BY <1>3 DEF Good, ElGood
<1>5. ArrowTo(k) = IF Enabled(CellDate(s1.grid, fdow, ne), s1.grid) THEN CellClick(s1, ne) ELSE Away(s1)
  BY DEF ArrowTo
<1> HIDE DEF s1, ne, Away
<1>6. CASE Enabled(CellDate(s1.grid, fdow, ne), s1.grid)
  BY <1>1, <1>3, <1>4, <1>5, <1>6, CellClickGood
<1>7. CASE ~Enabled(CellDate(s1.grid, fdow, ne), s1.grid)
  BY <1>2, <1>3, <1>5, <1>7
<1> QED BY <1>6, <1>7

\* What a step shows is good, so the state after it is.
LEMMA BecomesGood ==
  ASSUME NEW s, NEW f, Good(s, f), Becomes(s), fdow' = f, showsOther' = showsOther
  PROVE  Good(State, fdow)'
<1>1. /\ State'.date = s.date /\ State'.grid = s.grid /\ State'.el = s.el
  BY DEF Becomes, State
<1>2. Good(State, fdow)' <=> Good(s, f)
  BY <1>1 DEF Good, ElGood, ElPlaced
<1> QED BY <1>2

\* Every click, key and choice of a box keeps the invariant.
LEMMA GridStep == GridInv /\ [Next]_vars => GridInv'
<1> SUFFICES ASSUME GridInv, [Next]_vars PROVE GridInv'
  OBVIOUS
<1>1. /\ Good(State, fdow) /\ fdow \in 0..6 /\ showsOther \in BOOLEAN
      /\ State.date = date /\ State.grid = grid /\ State.el = currentEl
      /\ date \in Days /\ ElGood(currentEl) /\ currentEl.pos \in Cells
  <2>1. Good(State, fdow) /\ fdow \in 0..6 /\ showsOther \in BOOLEAN
    BY DEF GridInv
  <2>2. State.date = date /\ State.grid = grid /\ State.el = currentEl
    BY DEF State
  <2>3. date \in Near /\ ElGood(currentEl)
    BY <2>1, <2>2 DEF Good
  <2> QED BY <2>1, <2>2, <2>3, NearDays DEF ElGood
<1>2. ASSUME NEW s, NEW f \in 0..6, Good(s, f), Becomes(s), fdow' = f, showsOther' = showsOther,
             pressed' \in {pressed, 0}, combo' \in {combo, {}}
      PROVE  GridInv'
  <2>1. Good(State, fdow)'
    BY <1>2, BecomesGood
  <2> QED BY <1>2, <2>1 DEF GridInv
<1>3. ASSUME NEW p \in Cells, ClickDay(p) PROVE GridInv'
  <2>1. Enabled(CellDate(State.grid, fdow, p), State.grid)
    BY <1>1, <1>3 DEF ClickDay
  <2>2. Good(CellClick(State, p), fdow)
    BY <1>1, <2>1, CellClickGood
  <2> QED BY <1>1, <1>2, <1>3, <2>2 DEF ClickDay
<1>4. CASE ClickToday
  <2>1. SetDateOnly(date, Today) \in Days
    BY <1>1, SetDateOnlyIs, RangeConstants DEF RangeAssumption
  <2>2. Good(SetDate(State, SetDateOnly(date, Today)), fdow)
    BY <1>1, <2>1, SetDateGood
  <2> QED BY <1>1, <1>2, <1>4, <2>2 DEF ClickToday
<1>5. ASSUME NEW f \in Fdows, SetFirstDayOfWeek(f) PROVE GridInv'
  <2>1. f \in 0..6
    BY RangeConstants DEF RangeAssumption
  <2>2. Good(Shown(date, f, currentEl), f)
    BY <1>1, <2>1, ShownGood
  <2> QED BY <1>2, <1>5, <2>1, <2>2 DEF SetFirstDayOfWeek
<1>6. ASSUME NEW nav \in {-2, -1, 1, 2} PROVE Good(NavTo(nav), fdow)
  BY <1>1, NavDateIs, SetDateGood DEF NavTo
<1>7. ASSUME NEW nav \in {-2, -1, 1, 2}, CtrlArrow(nav) PROVE GridInv'
  BY <1>1, <1>2, <1>6, <1>7 DEF CtrlArrow, Navigate
<1>8. CASE ReleaseOnButton
  <2>1. pressed \in {-2, -1, 1, 2}
    BY <1>8 DEF ReleaseOnButton, Released, GridInv
  <2> QED BY <1>1, <1>2, <1>6, <1>8, <2>1 DEF ReleaseOnButton, Released, Navigate
<1>9. ASSUME NEW m \in Months, ReleaseOnMonth(m) PROVE GridInv'
  <2>1. Good(SetDate(State, SetMonth(date, m)), fdow)
    BY <1>1, SetMonthIs, SetDateGood
  <2> QED BY <1>1, <1>2, <1>9, <2>1 DEF ReleaseOnMonth, Released
<1>10. ASSUME NEW y \in MinYear..MaxYear, ReleaseOnYear(y) PROVE GridInv'
  <2>1. y \in YearsKnown
    BY RangeConstants DEF RangeAssumption, YearsKnown
  <2>2. Good(SetDate(State, SetFullYear(date, y)), fdow)
    BY <1>1, <2>1, SetFullYearIs, SetDateGood
  <2> QED BY <1>1, <1>2, <1>10, <2>2 DEF ReleaseOnYear, Released
<1>11. ASSUME NEW k \in DOMAIN Steps, Arrow(k) PROVE GridInv'
  BY <1>1, <1>2, <1>11, ArrowGood DEF Arrow
<1>12. CASE Enter
  <2>1. Good(CellClick(State, currentEl.pos), fdow)
    BY <1>1, CellClickGood
  <2> QED BY <1>1, <1>2, <1>12, <2>1 DEF Enter
<1>13. ASSUME UNCHANGED <<date, fdow, grid, showsOther, currentEl>>,
              pressed' \in {-2, -1, 0, 1, 2},
              combo' \subseteq Months \/ combo' \subseteq MinYear..MaxYear
       PROVE  GridInv'
  <2>1. Becomes(State)
    BY <1>1, <1>13 DEF Becomes
  <2>2. Good(State, fdow)'
    BY <1>1, <1>13, <2>1, BecomesGood
  <2> QED BY <1>1, <1>13, <2>2 DEF GridInv
<1>14. ASSUME NEW nav \in {-2, -1, 1, 2}, Press(nav) PROVE GridInv'
  BY <1>13, <1>14 DEF Press, GridInv
<1>15. CASE ShowCombo
  BY <1>13, <1>15 DEF ShowCombo, YearsOffered, GridInv
<1>16. CASE ReleaseElsewhere
  BY <1>13, <1>16 DEF ReleaseElsewhere, Released
<1>17. CASE UNCHANGED vars
  BY <1>13, <1>17 DEF vars, GridInv
<1> QED BY <1>3, <1>4, <1>5, <1>7, <1>8, <1>9, <1>10, <1>11, <1>12, <1>14, <1>15, <1>16, <1>17
        DEF Next

-----------------------------------------------------------------------------
(* What holds in every state of the grid.                                  *)

\* The calendar's parts are of their types.
LEMMA GridTyped == GridInv => CalendarTypeOK
<1> SUFFICES ASSUME GridInv PROVE CalendarTypeOK
  OBVIOUS
<1>1. /\ State.date = date /\ State.grid = grid /\ State.el = currentEl
      /\ Good(State, fdow)
  BY DEF State, GridInv
<1>2. /\ date \in Near /\ grid \in Days /\ InRange(grid) /\ currentEl \in [pos : Cells, caldate : Near]
      /\ InRange(date) \/ (showsOther /\ date = currentEl.caldate)
  BY <1>1 DEF Good, ElGood
<1>3. Near \subseteq Days
  BY NearDays
<1> QED BY <1>2, <1>3 DEF CalendarTypeOK, GridInv

\* The current cell is that of the date: a part of Good.
LEMMA GridCurrent == GridInv => CurrentIsDate
BY DEF GridInv, Good, State, CurrentIsDate, CurrentIsShown

\* What SetDate shows is the day, if that is in the range.
LEMMA SetDateShows ==
  ASSUME NEW s, NEW n \in Days, InRange(n)
  PROVE  SetDate(s, n).date = n
BY ShownIs, ClampIs DEF SetDate

\* An arrow goes a day or a week.
LEMMA GridArrows == GridInv => ArrowGoes
<1> SUFFICES ASSUME GridInv, currentEl.caldate = date, CurrentIsShown, NEW k \in DOMAIN Steps,
                    InRange(date + Steps[k]), date + Steps[k] \notin Disabled
             PROVE  ArrowTo(k).date = date + Steps[k]
  BY DEF ArrowGoes
<1> DEFINE q == Neighbour(currentEl.pos, k)
           t == date + Steps[k]
           Away(s) == SetDate(s, s.date + Steps[k])
           s1 == IF q \in Cells THEN State ELSE Away(State)
           ne == IF q \in Cells THEN q ELSE s1.el.pos
<1>1. /\ Good(State, fdow) /\ fdow \in 0..6 /\ Steps[k] \in -7..7 /\ Steps[k] # 0
      /\ State.date = date /\ State.grid = grid /\ State.el = currentEl
  BY DEF GridInv, Steps, State
<1>2. /\ date \in Near /\ grid \in Days /\ InRange(grid) /\ currentEl.pos \in Cells
      /\ CellDate(grid, fdow, currentEl.pos) = date
  BY <1>1 DEF Good, ElGood, CurrentIsShown
<1>3. /\ date \in Int /\ t \in Days /\ t \in Int /\ t # date
  <2>1. date \in Int /\ (date - 31)..(date + 31) \subseteq Days
    BY <1>2, NearDays
  <2> QED BY <1>1, <2>1
<1>4. ArrowTo(k) = IF Enabled(CellDate(s1.grid, fdow, ne), s1.grid) THEN CellClick(s1, ne) ELSE Away(s1)
  BY DEF ArrowTo
<1>5. CASE q \in Cells
  <2>1. CellDate(grid, fdow, q) = t /\ q # currentEl.pos
    <3>1. FirstShown(grid, fdow) \in Int /\ CellDate(grid, fdow, currentEl.pos) = FirstShown(grid, fdow) + currentEl.pos
      BY <1>1, <1>2, CellsNear DEF CellDate
    <3>2. CellDate(grid, fdow, q) = FirstShown(grid, fdow) + (currentEl.pos + Steps[k])
      BY DEF CellDate, Neighbour
    <3>3. q = currentEl.pos + Steps[k]
      BY DEF Neighbour
    <3> QED BY <1>1, <1>2, <3>1, <3>2, <3>3 DEF Cells
  <2>2. s1 = State /\ ne = q
    BY <1>5
  <2>3. CASE Enabled(t, grid)
    <3>1. ArrowTo(k) = CellClick(State, q)
      BY <1>1, <1>4, <2>1, <2>2, <2>3
    <3>2. CellClick(State, q) = IF showsOther /\ OtherMonth(t, grid)
                                THEN Shown(t, fdow, [pos |-> q, caldate |-> t])
                                ELSE [date |-> t, grid |-> grid, el |-> [pos |-> q, caldate |-> t]]
      BY <1>1, <1>5, <2>1, CellClickIs
    <3>3. Shown(t, fdow, [pos |-> q, caldate |-> t]).date = t
      BY <1>3, ShownIs, ClampIs
    <3> HIDE DEF t, q
    <3>4. ArrowTo(k).date = t
      BY <3>1, <3>2, <3>3
    <3> QED BY <3>4 DEF t
  <2>4. CASE ~Enabled(t, grid)
    <3>1. ArrowTo(k) = SetDate(State, t)
      BY <1>1, <1>4, <2>1, <2>2, <2>4
    <3> QED BY <1>3, <3>1, SetDateShows
  <2> QED BY <2>3, <2>4
<1>6. CASE q \notin Cells
  <2> DEFINE u == Shown(t, fdow, currentEl)
             v == t - FirstShown(t, fdow)
  <2>1. s1 = u /\ ne = u.el.pos
    BY <1>1, <1>3, <1>6 DEF SetDate
  <2>2. /\ u.date = t /\ u.grid = SetDay(t, 1) /\ u.el = Current(t, fdow, currentEl)
    BY <1>3, ShownIs, ClampIs
  <2>3. /\ u.el = [pos |-> v, caldate |-> t] /\ v \in Cells /\ CellDate(t, fdow, v) = t
    <3>1. ElGood(currentEl)
      BY <1>1 DEF Good
    <3> QED BY <1>1, <1>3, <2>2, <3>1, CurrentGood
  <2>4. CellDate(u.grid, fdow, v) = t
    BY <1>3, <2>2, <2>3, FirstFacts DEF CellDate
  <2>5. ~OtherMonth(t, u.grid)
    BY <1>3, <2>2, FirstIs DEF OtherMonth
  <2>6. Good(u, fdow)
    BY <1>1, <1>3, ShownGood DEF Good
  <2> HIDE DEF u, v
  <2>7. ArrowTo(k) = CellClick(u, v)
    BY <1>4, <2>1, <2>3, <2>4, <2>5 DEF Enabled
  <2>8. CellClick(u, v) = [date |-> t, grid |-> u.grid, el |-> [pos |-> v, caldate |-> t]]
    BY <1>1, <2>3, <2>4, <2>5, <2>6, CellClickIs
  <2> QED BY <2>7, <2>8
<1> QED BY <1>5, <1>6

\* Years are ordered as their beginnings are.
LEMMA YearsOrdered ==
  ASSUME NEW a \in Int, NEW b \in Int
  PROVE  /\ a <= b => Before(a) <= Before(b)
         /\ Before(a) < Before(b) => a < b
<1>1. /\ Before(a) \in Int /\ Before(b) \in Int /\ Before(a) + 365 <= Before(a + 1)
      /\ Before(b) + 365 <= Before(b + 1) /\ Before(a + 1) \in Int /\ Before(b + 1) \in Int
  BY YearGap
<1>2. a < b => Before(a + 1) <= Before(b)
  BY YearsGrow
<1>3. b < a => Before(b + 1) <= Before(a)
  BY YearsGrow
<1> QED BY <1>1, <1>2, <1>3

\* A button of the month goes to the next month or to the previous one.
LEMMA GridButtons == GridInv => ButtonGoes
<1> SUFFICES ASSUME GridInv, NEW nav \in {-1, 1}, InRange(date + 31 * nav)
             PROVE  MonthIndex(NavTo(nav).date) = MonthIndex(date) + nav
  BY DEF ButtonGoes
<1> DEFINE y == Year(date)
           m == Month(date)
           d == Day(date)
           e == date + 31 * nav
           n == NavDate(nav)
<1>1. date \in Near /\ date \in Days /\ date \in Int /\ e \in Days
  <2>1. date \in Near
    BY DEF GridInv, Good, State
  <2>2. date \in Int /\ (date - 31)..(date + 31) \subseteq Days /\ date \in Days
    BY <2>1, NearDays
  <2> QED BY <2>1, <2>2
<1>2. /\ y \in Int /\ m \in Months /\ m \in Int /\ d \in 1..31 /\ y \in YearsKnown
      /\ date = Before(y) + Offset(y, m) + d - 1 /\ d \in 1..MonthDays(y, m)
      /\ Before(y) <= date /\ date < Before(y + 1)
  BY <1>1, Dates DEF Dated, Months
<1>3. Before(MinYear) <= e /\ e < Before(MaxYear + 1) /\ Before(MinYear) \in Int /\ Before(MaxYear + 1) \in Int
  BY <1>1, RangeIs
<1>4. /\ Before(y) \in Int /\ Before(y + 1) \in Int /\ Offset(y, m) \in Int /\ MonthDays(y, m) \in Int
  BY <1>2, Sizes
<1>5. /\ n \in Days
      /\ nav = -1 /\ m > 0 => Year(n) = y /\ Month(n) = m - 1
      /\ nav = -1 /\ m = 0 /\ y > MinYear => Year(n) = y - 1 /\ Month(n) = 11
      /\ nav = 1 /\ m < 11 => Year(n) = y /\ Month(n) = m + 1
      /\ nav = 1 /\ m = 11 /\ y < MaxYear => Year(n) = y + 1 /\ Month(n) = 0
  BY <1>1, NavDateIs
<1>6. InRange(n) => NavTo(nav).date = n
  BY <1>5, SetDateShows DEF NavTo
<1>7. MinYear \in Int /\ MaxYear \in Int /\ MaxYear + 1 \in Int /\ y <= MaxYear + 1
  BY <1>2, RangeConstants DEF RangeAssumption, YearsKnown
<1> HIDE DEF y, m, d, n
<1>8. CASE nav = -1 /\ m > 0
  <2>1. y >= MinYear
    <3>1. Before(MinYear) < Before(y + 1)
      BY <1>1, <1>2, <1>3, <1>4, <1>8
    <3> QED BY <1>2, <1>7, <3>1, YearsOrdered
  <2>2. y <= MaxYear
    <3>1. Offset(y, m) >= 31
      <4>1. 0 \in Months /\ 0 < m /\ Offset(y, 0) = 0 /\ MonthDays(y, 0) = 31
        BY <1>2, <1>8, Offsets DEF Months
      <4> QED BY <1>2, <4>1, MonthsGrow
    <3>2. Before(y) < Before(MaxYear + 1)
      BY <1>1, <1>2, <1>3, <1>4, <1>8, <3>1
    <3> QED BY <1>2, <1>7, <3>2, YearsOrdered
  <2>3. InRange(n)
    BY <1>2, <1>5, <1>7, <1>8, <2>1, <2>2 DEF InRange
  <2> QED BY <1>2, <1>5, <1>6, <1>8, <2>3 DEF MonthIndex, y, m
<1>9. CASE nav = -1 /\ m = 0
  <2>1. Offset(y, m) = 0
    BY <1>2, <1>9, Offsets
  <2>2. Before(MinYear) < Before(y)
    BY <1>1, <1>2, <1>3, <1>4, <1>9, <2>1
  <2>3. MinYear < y
    BY <1>2, <1>7, <2>2, YearsOrdered
  <2>4. InRange(n)
    BY <1>2, <1>5, <1>7, <1>9, <2>3 DEF InRange
  <2> QED BY <1>2, <1>5, <1>6, <1>9, <2>3, <2>4 DEF MonthIndex, y, m
<1>10. CASE nav = 1 /\ m < 11
  <2>1. y <= MaxYear
    <3>1. Before(y) < Before(MaxYear + 1)
      BY <1>1, <1>2, <1>3, <1>4, <1>10
    <3> QED BY <1>2, <1>7, <3>1, YearsOrdered
  <2>2. y >= MinYear
    <3>1. Offset(y, m) + MonthDays(y, m) <= Offset(y, 11)
      BY <1>2, <1>10, MonthsGrow DEF Months
    <3>2. Before(y + 1) = Before(y) + Offset(y, 11) + 31
      BY <1>2, Offsets, YearLength
    <3>3. Offset(y, 11) \in Int
      BY <1>2, Offsets
    <3>4. Before(MinYear) < Before(y + 1)
      BY <1>1, <1>2, <1>3, <1>4, <1>10, <3>1, <3>2, <3>3
    <3> QED BY <1>2, <1>7, <3>4, YearsOrdered
  <2>3. InRange(n)
    BY <1>2, <1>5, <1>7, <1>10, <2>1, <2>2 DEF InRange
  <2> QED BY <1>2, <1>5, <1>6, <1>10, <2>3 DEF MonthIndex, y, m
<1>11. CASE nav = 1 /\ m = 11
  <2>1. Before(y + 1) = Before(y) + Offset(y, m) + 31
    BY <1>2, <1>11, Offsets, YearLength
  <2>2. Before(y + 1) < Before(MaxYear + 1)
    BY <1>1, <1>2, <1>3, <1>4, <1>11, <2>1
  <2>3. y + 1 < MaxYear + 1
    BY <1>2, <1>7, <2>2, YearsOrdered
  <2>4. Before(MinYear) < Before((y + 1) + 1)
    BY <1>1, <1>2, <1>3, <1>4, <1>11, <2>1, YearGap
  <2>5. MinYear < (y + 1) + 1
    BY <1>2, <1>7, <2>4, YearsOrdered
  <2>6. InRange(n)
    BY <1>2, <1>5, <1>7, <1>11, <2>3, <2>5 DEF InRange
  <2> QED BY <1>2, <1>5, <1>6, <1>7, <1>11, <2>3, <2>6 DEF MonthIndex, y, m
<1> QED BY <1>2, <1>8, <1>9, <1>10, <1>11 DEF Months

\* The date is near the range, so its year is not a short one.
LEMMA GridDate ==
  ASSUME GridInv
  PROVE  /\ date \in Near /\ date \in Days /\ date \in Int /\ (date - 31)..(date + 31) \subseteq Days
         /\ Year(date) \in Int /\ Year(date) >= 100
<1>1. date \in Near
  BY DEF GridInv, Good, State
<1>2. date \in Days /\ date \in Int /\ (date - 31)..(date + 31) \subseteq Days
  BY <1>1, NearDays
<1>3. /\ MinYear \in Int /\ MinYear > 100 /\ MinYear - 1 \in Int /\ (MinYear - 1) + 1 = MinYear
      /\ Year(date) \in Int /\ Year(date) + 1 \in Int /\ date < Before(Year(date) + 1)
  BY <1>2, Dates, RangeConstants DEF RangeAssumption
<1>4. Before(MinYear - 1) + 365 <= Before(MinYear) /\ Before(MinYear - 1) \in Int /\ Before(MinYear) \in Int
  BY <1>3, YearGap
<1>5. Before(Year(date) + 1) \in Int
  BY <1>3, YearGap
<1>6. Before(MinYear) - 60 <= date
  BY <1>1, RangeIs DEF Near
<1>7. Before(MinYear - 1) < Before(Year(date) + 1)
  BY <1>2, <1>3, <1>4, <1>5, <1>6
<1>8. MinYear - 1 < Year(date) + 1
  BY <1>3, <1>7, YearsOrdered
<1> QED BY <1>1, <1>2, <1>3, <1>8

\* The number of a week is that of its Thursday: rounding takes up an hour of summer
\* time at either end.
LEMMA GridWeeks == GridInv => WeekNumberIsIso
<1> SUFFICES ASSUME GridInv PROVE WeekNumberIsIso
  OBVIOUS
<1> DEFINE t == date - (date % 7) + 3
           y == Year(t)
           j == SetDay(SetMonth(t, 0), 4)
           x == t - Before(y)
<1>1. date \in Int /\ date % 7 \in 0..6 /\ (((date + 1) % 7) + 6) % 7 = date % 7 /\ t \in Days
  <2>1. date \in Int /\ (date - 31)..(date + 31) \subseteq Days
    BY GridDate
  <2>2. date % 7 \in 0..6
    BY <2>1
  <2>3. (((date + 1) % 7) + 6) % 7 = date % 7
    BY <2>1
  <2>4. t \in (date - 31)..(date + 31)
    BY <2>1, <2>2
  <2> QED BY <2>1, <2>2, <2>3, <2>4
<1>2. SetDay(date, Day(date) - ((Weekday(date) + 6) % 7) + 3) = t
  <2>1. Day(date) \in Int
    BY Dates, GridDate
  <2>2. SetDay(date, Day(date) - (date % 7) + 3) = t
    <3> HIDE DEF t
    <3>1. Day(date) - (date % 7) \in Int
      BY <1>1, <2>1
    <3> QED BY <1>1, <2>1, <3>1 DEF SetDay, t
  <2> QED BY <1>1, <2>2 DEF Weekday
<1> HIDE DEF t
<1>3. /\ t \in Int /\ y \in YearsKnown /\ y \in Int /\ Day(t) \in 1..31
      /\ Before(y) <= t /\ t < Before(y + 1) /\ 0 \in Months
  BY <1>1, Dates DEF Months
<1> HIDE DEF y
<1>4. Before(y) \in Int /\ Offset(y, 0) = 0 /\ MonthDays(y, 0) = 31
  BY <1>3, YearLength, Offsets
<1>5. j = Before(y) + 3
  <2>1. SetMonth(t, 0) = DateOf(y, 0, Day(t))
    BY DEF SetMonth, y
  <2>2. SetMonth(t, 0) \in Days /\ Year(SetMonth(t, 0)) = y /\ Month(SetMonth(t, 0)) = 0
    BY <1>3, <1>4, <2>1, DateOfIs
  <2>3. j = DateOf(y, 0, 4)
    BY <1>4, <2>2, SetDayIs
  <2>4. DateOf(y, 0, 4) = Before(y) + Offset(y, 0) + 4 - 1
    BY <1>3, DateCounts
  <2> QED BY <1>4, <2>3, <2>4
<1> HIDE DEF j
<1>6. DateOf(y, 0, 1) = Before(y)
  <2>1. DateOf(y, 0, 1) = Before(y) + Offset(y, 0) + 1 - 1
    BY <1>3, DateCounts
  <2> QED BY <1>4, <2>1
<1>7. PICK e \in -1..1 : Hours(t) - Hours(j) = 24 * (x - 3) + e
  <2>1. /\ Hours(t) = 24 * t \/ Hours(t) = 24 * t - 1
        /\ Hours(j) = 24 * j \/ Hours(j) = 24 * j - 1
    BY <1>3, <1>4, <1>5 DEF Hours
  <2>2. j \in Int
    BY <1>4, <1>5
  <2> QED BY <1>3, <1>4, <1>5, <2>1, <2>2
<1>8. x \in Int /\ x >= 0 /\ t - DateOf(y, 0, 1) = x
  BY <1>3, <1>4, <1>6
<1> HIDE DEF x
<1>9. Round(24 * (x - 3) + e, 7 * 24) = x \div 7
  <2>1. Round(24 * (x - 3) + e, 7 * 24) = (48 * x + 24 + 2 * e) \div 336
    BY <1>7, <1>8 DEF Round
  <2> DEFINE q == x \div 7
             r == x % 7
  <2>2. q \in Int /\ r \in 0..6 /\ x = 7 * q + r
    BY <1>8
  <2> HIDE DEF q, r
  <2>3. 48 * x + 24 + 2 * e = 336 * q + (48 * r + 24 + 2 * e) /\ 48 * r + 24 + 2 * e \in 0..335
    BY <1>7, <2>2
  <2>4. (48 * x + 24 + 2 * e) \div 336 = q
    BY <1>7, <1>8, <2>2, <2>3
  <2> QED BY <2>1, <2>4 DEF q
<1>10. WeekNumber(date) = x \div 7 + 1
  BY <1>2, <1>7, <1>9 DEF WeekNumber, j
<1> QED BY <1>8, <1>10 DEF WeekNumberIsIso, t, y

\* In winter the hour that 1 January may lack is rounded away.
LEMMA GridDays == GridInv => DayOfYearCounts
<1> SUFFICES ASSUME GridInv, ~Summer(date)
             PROVE  DayOfYear(date) = date - DateOf(Year(date), 0, 1) + 1
  BY DEF DayOfYearCounts
<1> DEFINE b == Before(Year(date))
           l == DateOf(Year(date), 0, 0)
<1>1. date \in Int /\ Year(date) \in Int /\ b \in Int /\ Offset(Year(date), 0) = 0 /\ 0 \in Months
  BY GridDate, YearLength, Offsets DEF Months
<1>2. DateOf(Year(date), 0, 1) = b /\ l = b - 1
  <2>1. /\ DateOf(Year(date), 0, 1) = b + Offset(Year(date), 0) + 1 - 1
        /\ l = b + Offset(Year(date), 0) + 0 - 1
    BY <1>1, DateCounts
  <2> HIDE DEF b, l
  <2> QED BY <1>1, <2>1
<1> HIDE DEF b, l
<1>3. Hours(date) = 24 * date
  BY <1>1 DEF Hours
<1>4. Hours(l) = 24 * (b - 1) \/ Hours(l) = 24 * (b - 1) - 1
  BY <1>1, <1>2 DEF Hours
<1>5. (24 * date - 24 * (b - 1)) \div 24 = date - b + 1
  BY <1>1
<1>6. (24 * date - (24 * (b - 1) - 1)) \div 24 = date - b + 1
  BY <1>1
<1> QED BY <1>2, <1>3, <1>4, <1>5, <1>6 DEF DayOfYear, l

\* What is printed has all its parts, so it is read as it was written.
LEMMA GridTexts == GridInv => PrintedIsParsed
<1> SUFFICES ASSUME GridInv, NEW f \in Formats, f[3] # "%y" \/ Year(date) \in 1930..2029
             PROVE  ParseDate(PrintDate(date, f), f, Today) = date
  BY DEF PrintedIsParsed
<1> DEFINE y == Year(date)
           m == Month(date)
           d == Day(date)
           text == PrintDate(date, f)
           all == [y |-> y, m |-> m, d |-> d]
<1>1. /\ y \in Int /\ y >= 100 /\ m \in 0..11 /\ d \in 1..31
      /\ date = DateOf(y, m, d)
  <2>1. date \in Days /\ Year(date) \in Int /\ Year(date) >= 100
    BY GridDate
  <2>2. /\ Month(date) \in Months /\ Day(date) \in 1..31
        /\ date = Before(y) + Offset(y, m) + d - 1
    BY <2>1, Dates DEF Dated
  <2>3. DateOf(y, m, d) = Before(y) + Offset(y, m) + d - 1
    BY <2>1, <2>2, DateCounts
  <2> QED BY <2>1, <2>2, <2>3 DEF Months
<1> HIDE DEF y, m, d
<1>2. /\ Century(y) = y /\ (m + 1) - 1 = m
      /\ f[3] = "%y" => Century(y % 100) = y
  BY <1>1 DEF Century, y
<1> DEFINE Parts(i, j, k) == [y |-> i, m |-> j, d |-> k]
<1>3. ASSUME NEW i \in Int, NEW j \in Int, NEW k \in Int, NEW v \in Int
      PROVE  /\ TakeWord(Parts(i, j, k), Number(v), "%d") = Parts(i, j, v)
             /\ TakeWord(Parts(i, j, k), Number(v), "%e") = Parts(i, j, v)
             /\ TakeWord(Parts(i, j, k), Number(v), "%m") = Parts(i, v - 1, k)
             /\ TakeWord(Parts(i, j, k), MonthName(v), "%b") = Parts(i, v, k)
             /\ TakeWord(Parts(i, j, k), Number(v), "%Y") = Parts(Century(v), j, k)
             /\ TakeWord(Parts(i, j, k), Number(v), "%y") = Parts(Century(v), j, k)
  BY DEF TakeWord, Number, MonthName
<1>4. /\ NoParts = Parts(0, -1, 0) /\ all = Parts(y, m, d) /\ -1 \in Int /\ 0 \in Int
      /\ y % 100 \in Int /\ m + 1 \in Int /\ m \in Int /\ d \in Int
  BY <1>1 DEF NoParts
<1> DEFINE a1 == TakeWord(NoParts, text[1], f[1])
           a2 == TakeWord(a1, text[2], f[2])
           a3 == TakeWord(a2, text[3], f[3])
<1>5. a3 = all
  <2>1. CASE f = <<"%Y", "%m", "%d">>
    <3>1. text[1] = Number(y) /\ text[2] = Number(m + 1) /\ text[3] = Number(d)
      BY <2>1 DEF PrintDate, Word, y, m, d
    <3>2. f[1] = "%Y" /\ f[2] = "%m" /\ f[3] = "%d"
      BY <2>1
    <3> HIDE DEF text, Parts, all
    <3>3. a1 = Parts(y, -1, 0)
      BY <1>1, <1>2, <1>3, <1>4, <3>1, <3>2
    <3> HIDE DEF a1
    <3>4. a2 = Parts(y, m, 0)
      BY <1>1, <1>2, <1>3, <1>4, <3>1, <3>2, <3>3
    <3> HIDE DEF a2
    <3> QED BY <1>1, <1>3, <1>4, <3>1, <3>2, <3>4
  <2>2. CASE f = <<"%d", "%b", "%y">>
    <3>1. text[1] = Number(d) /\ text[2] = MonthName(m) /\ text[3] = Number(y % 100)
      BY <2>2 DEF PrintDate, Word, y, m, d
    <3>2. f[1] = "%d" /\ f[2] = "%b" /\ f[3] = "%y"
      BY <2>2
    <3> HIDE DEF text, Parts, all
    <3>3. a1 = Parts(0, -1, d)
      BY <1>1, <1>3, <1>4, <3>1, <3>2
    <3> HIDE DEF a1
    <3>4. a2 = Parts(0, m, d)
      BY <1>1, <1>3, <1>4, <3>1, <3>2, <3>3
    <3> HIDE DEF a2
    <3> QED BY <1>1, <1>2, <1>3, <1>4, <3>1, <3>2, <3>4
  <2>3. CASE f = <<"%m", "%e", "%Y">>
    <3>1. text[1] = Number(m + 1) /\ text[2] = Number(d) /\ text[3] = Number(y)
      BY <2>3 DEF PrintDate, Word, y, m, d
    <3>2. f[1] = "%m" /\ f[2] = "%e" /\ f[3] = "%Y"
      BY <2>3
    <3> HIDE DEF text, Parts, all
    <3>3. a1 = Parts(0, m, 0)
      BY <1>1, <1>2, <1>3, <1>4, <3>1, <3>2
    <3> HIDE DEF a1
    <3>4. a2 = Parts(0, m, d)
      BY <1>1, <1>3, <1>4, <3>1, <3>2, <3>3
    <3> HIDE DEF a2
    <3> QED BY <1>1, <1>2, <1>3, <1>4, <3>1, <3>2, <3>4
  <2> QED BY <2>1, <2>2, <2>3 DEF Formats
<1>6. Complete(all) /\ all.y # 0
  BY <1>1 DEF Complete
<1>7. ParseDate(text, f, Today) = IF Complete(a3) /\ a3.y # 0 THEN DateOf(a3.y, a3.m, a3.d)
                                  ELSE ParseDate(text, f, Today)
  <2> HIDE DEF text
  <2> QED BY DEF ParseDate
<1> HIDE DEF a3, text
<1>8. ParseDate(text, f, Today) = DateOf(y, m, d)
  BY <1>5, <1>6, <1>7
<1> QED BY <1>1, <1>8 DEF text

\* A year set keeps the month, also when _init brings the date into the range.
LEMMA YearSet ==
  ASSUME GridInv, NEW n \in Days, Month(n) = Month(date), Day(n) = Day(date) \/ Day(n) = 28,
         Becomes(SetDate(State, n))
  PROVE  Month(date') = Month(date) /\ (Day(date') = Day(date) \/ Day(date') = 28)
<1>1. date' = date \/ date' = Clamp(n)
  BY ShownIs DEF Becomes, SetDate, State
<1> QED BY <1>1, ClampIs

\* The buttons, the keys and the box of the years keep the month.
LEMMA GridYears == GridInv => YearKept
<1> SUFFICES ASSUME GridInv,
                    \/ \E nav \in {-2, 2} : CtrlArrow(nav) \/ (pressed = nav /\ ReleaseOnButton)
                    \/ \E y \in MinYear..MaxYear : ReleaseOnYear(y)
             PROVE  Month(date') = Month(date) /\ (Day(date') = Day(date) \/ Day(date') = 28)
  BY DEF YearKept
<1>1. date \in Days
  BY GridDate
<1>2. ASSUME NEW nav \in {-2, 2}, CtrlArrow(nav) \/ (pressed = nav /\ ReleaseOnButton)
      PROVE  Month(date') = Month(date) /\ (Day(date') = Day(date) \/ Day(date') = 28)
  <2>1. Becomes(SetDate(State, NavDate(nav)))
    BY <1>2 DEF CtrlArrow, ReleaseOnButton, Navigate, NavTo
  <2>2. /\ NavDate(nav) \in Days /\ Month(NavDate(nav)) = Month(date)
        /\ Day(NavDate(nav)) = Day(date) \/ Day(NavDate(nav)) = 28
    BY <1>1, NavDateIs
  <2> QED BY <2>1, <2>2, YearSet
<1>3. ASSUME NEW y \in MinYear..MaxYear, ReleaseOnYear(y)
      PROVE  Month(date') = Month(date) /\ (Day(date') = Day(date) \/ Day(date') = 28)
  <2>1. y \in YearsKnown
    BY RangeConstants DEF RangeAssumption, YearsKnown
  <2>2. Becomes(SetDate(State, SetFullYear(date, y)))
    BY <1>3 DEF ReleaseOnYear
  <2> QED BY <1>1, <2>1, <2>2, SetFullYearIs, YearSet
<1> QED BY <1>2, <1>3

-----------------------------------------------------------------------------
(* The popup.                                                              *)
PopupInv ==
  /\ Popup!PopupTypeOK
  /\ Popup!ListensWhenVisible /\ Popup!NothingChosen /\ Popup!ElectricFollows

\* At first there is no calendar.
LEMMA PopupInit == Popup!Init => PopupInv
BY CalendarConstants
DEF CalendarAssumption, Popup!Init, PopupInv, Popup!PopupTypeOK, Popup!ListensWhenVisible,
    Popup!NothingChosen, Popup!ElectricFollows

\* The handler writes the calendar's date into the field it is open for.
LEMMA PopupSelected ==
  ASSUME PopupInv, visible, NEW d \in PopupDates, NEW clicked \in BOOLEAN,
         NEW closing \in BOOLEAN, Popup!Selected(d, clicked, closing),
         chosen => chosen', clicked => chosen', NEW cell \in BOOLEAN, marked' = cell
  PROVE  PopupInv'
<1>1. Popup!PopupTypeOK'
  BY DEF PopupInv, Popup!PopupTypeOK, Popup!Selected, Popup!Hidden, Popup!FieldOf,
         Popup!paramVars
<1>2. Popup!ListensWhenVisible'
  BY DEF PopupInv, Popup!PopupTypeOK, Popup!ListensWhenVisible, Popup!Selected, Popup!Hidden
<1>3. Popup!NothingChosen'
  BY DEF PopupInv, Popup!PopupTypeOK, Popup!NothingChosen, Popup!Selected, Popup!Update,
         Popup!paramVars
<1>4. Popup!ElectricFollows'
  <2> SUFFICES ASSUME electric PROVE value'[params'] = popupDate'
    BY DEF Popup!ElectricFollows, Popup!Selected, Popup!paramVars
  <2>1. value' = [value EXCEPT ![params] = d]
    BY DEF Popup!Selected, Popup!Update, Popup!FieldOf
  <2>2. params' = params /\ popupDate' = d
    BY DEF Popup!Selected
  <2>3. value \in [PopupFields -> PopupDates \cup {Empty}] /\ params \in PopupFields
    BY DEF PopupInv, Popup!PopupTypeOK
  <2> QED BY <2>1, <2>2, <2>3
<1> QED BY <1>1, <1>2, <1>3, <1>4 DEF PopupInv

\* A date set without the handler leaves the fields alone.
LEMMA PopupSetOnly ==
  ASSUME PopupInv, NEW d \in PopupDates, NEW clicked \in BOOLEAN, Popup!SetOnly(d, clicked),
         Popup!Hidden \/ UNCHANGED <<visible, listening>>,
         NEW cell \in BOOLEAN, marked' = cell
  PROVE  PopupInv'
<1>1. Popup!PopupTypeOK'
  <2>1. CASE Popup!Hidden
    BY <2>1 DEF PopupInv, Popup!PopupTypeOK, Popup!SetOnly, Popup!Hidden, Popup!paramVars
  <2>2. CASE UNCHANGED <<visible, listening>>
    BY <2>2 DEF PopupInv, Popup!PopupTypeOK, Popup!SetOnly, Popup!paramVars
  <2> QED BY <2>1, <2>2
<1>2. Popup!ListensWhenVisible'
  BY DEF PopupInv, Popup!PopupTypeOK, Popup!ListensWhenVisible, Popup!Hidden
<1>3. Popup!NothingChosen' /\ Popup!ElectricFollows'
  BY DEF PopupInv, Popup!NothingChosen, Popup!ElectricFollows, Popup!SetOnly, Popup!paramVars
<1> QED BY <1>1, <1>2, <1>3 DEF PopupInv

\* Every click, key and trigger keeps the invariant.
LEMMA PopupStep == PopupInv /\ [Popup!Next]_(Popup!vars) => PopupInv'
<1> SUFFICES ASSUME PopupInv, [Popup!Next]_(Popup!vars) PROVE PopupInv'
  OBVIOUS
<1> USE CalendarConstants DEF CalendarAssumption
<1>a. marked \in BOOLEAN
  BY DEF PopupInv, Popup!PopupTypeOK
<1>1. ASSUME NEW f \in PopupFields, Popup!Trigger(f) PROVE PopupInv'
  BY <1>1 DEF PopupInv, Popup!PopupTypeOK, Popup!ListensWhenVisible, Popup!NothingChosen,
              Popup!ElectricFollows, Popup!Trigger, Popup!Reused, Popup!paramVars
<1>2. ASSUME NEW d \in PopupDates, Popup!Navigate(d) PROVE PopupInv'
  <2>1. /\ visible /\ Popup!Selected(d, FALSE, FALSE) /\ (chosen => chosen')
        /\ Popup!Redrawn(d)
    BY <1>2 DEF Popup!Navigate, Popup!NavClicked
  <2> QED BY <2>1, PopupSelected DEF Popup!Redrawn
<1>3. ASSUME NEW d \in PopupDates, Popup!Arrow(d) PROVE PopupInv'
  BY <1>a, <1>3, PopupSetOnly DEF Popup!Arrow
<1>4. ASSUME NEW d \in PopupDates, Popup!CtrlArrow(d) PROVE PopupInv'
  BY <1>4, PopupSetOnly DEF Popup!CtrlArrow, Popup!Redrawn
<1>5. ASSUME NEW d \in PopupDates, NEW other \in BOOLEAN, Popup!ClickDay(d, other)
      PROVE  PopupInv'
  <2>1. PICK cell \in BOOLEAN : marked' = cell
    BY <1>a, <1>5 DEF Popup!ClickDay, Popup!Redrawn
  <2>2. CASE marked \/ other
    <3>1. PICK closing \in BOOLEAN :
            chosen' = (chosen \/ ~other) /\ Popup!Selected(d, ~other, closing)
      BY <1>5, <2>2 DEF Popup!ClickDay
    <3>2. visible
      BY <1>5 DEF Popup!ClickDay
    <3> QED BY <2>1, <3>1, <3>2, PopupSelected
  <2>3. CASE ~(marked \/ other)
    BY <1>5, <2>1, <2>3, PopupSetOnly DEF Popup!ClickDay
  <2> QED BY <2>2, <2>3
<1>6. CASE Popup!ClickToday
  <2>1. /\ visible /\ Popup!Selected(PopupToday, FALSE, popupDate = PopupToday)
        /\ (chosen => chosen') /\ Popup!Redrawn(PopupToday)
    BY <1>6 DEF Popup!ClickToday, Popup!NavClicked
  <2> QED BY <2>1, PopupSelected DEF Popup!Redrawn
<1>7. ASSUME NEW d \in PopupDates, NEW other \in BOOLEAN, NEW disabled \in BOOLEAN,
             Popup!Enter(d, other, disabled)
      PROVE  PopupInv'
  <2>1. PICK cell \in BOOLEAN : marked' = cell
    BY <1>a, <1>7 DEF Popup!Enter, Popup!Redrawn
  <2>2. CASE disabled
    BY <1>7, <2>1, <2>2, PopupSetOnly DEF Popup!Enter
  <2>3. CASE ~disabled
    <3>1. visible
      BY <1>7 DEF Popup!Enter, PopupInv, Popup!ListensWhenVisible
    <3>2. chosen' = (chosen \/ ~other) /\ Popup!Selected(d, ~other, TRUE)
      BY <1>7, <2>3 DEF Popup!Enter
    <3> QED BY <2>1, <3>1, <3>2, PopupSelected
  <2> QED BY <2>2, <2>3
<1>8. CASE Popup!Close
  BY <1>8 DEF PopupInv, Popup!PopupTypeOK, Popup!ListensWhenVisible, Popup!NothingChosen,
              Popup!ElectricFollows, Popup!Close, Popup!ListeningAfter, Popup!paramVars
<1>9. CASE UNCHANGED Popup!vars
  BY <1>9 DEF PopupInv, Popup!PopupTypeOK, Popup!ListensWhenVisible, Popup!NothingChosen,
              Popup!ElectricFollows, Popup!vars, Popup!paramVars
<1> QED BY <1>1, <1>2, <1>3, <1>5, <1>6, <1>7, <1>8, <1>9, <1>4 DEF Popup!Next

\* A field changes only while the calendar is open for it.
LEMMA PopupOwnStep ==
  PopupInv /\ [Popup!Next]_(Popup!vars) =>
    [\A f \in PopupFields : value'[f] # value[f] =>
       visible /\ params = f /\ value'[f] = popupDate' /\ params' = f]_(Popup!vars)
<1> SUFFICES ASSUME PopupInv, Popup!Next, NEW f \in PopupFields, value'[f] # value[f]
             PROVE  visible /\ params = f /\ value'[f] = popupDate' /\ params' = f
  OBVIOUS
<1>1. ASSUME NEW d, NEW clicked \in BOOLEAN, NEW closing \in BOOLEAN, visible,
             Popup!Selected(d, clicked, closing)
      PROVE  visible /\ params = f /\ value'[f] = popupDate' /\ params' = f
  BY <1>1 DEF PopupInv, Popup!PopupTypeOK, Popup!Selected, Popup!FieldOf, Popup!Update
<1>2. ASSUME NEW d \in PopupDates, NEW other \in BOOLEAN, NEW disabled \in BOOLEAN,
             Popup!Enter(d, other, disabled)
      PROVE  visible /\ params = f /\ value'[f] = popupDate' /\ params' = f
  <2>1. visible /\ Popup!Selected(d, ~other, TRUE)
    BY <1>2 DEF Popup!Enter, Popup!SetOnly, PopupInv, Popup!ListensWhenVisible
  <2> QED BY <1>1, <2>1
<1>3. ASSUME NEW d \in PopupDates, Popup!Navigate(d)
      PROVE  visible /\ params = f /\ value'[f] = popupDate' /\ params' = f
  BY <1>1, <1>3 DEF Popup!Navigate, Popup!NavClicked
<1>4. ASSUME NEW d \in PopupDates, NEW other \in BOOLEAN, Popup!ClickDay(d, other)
      PROVE  visible /\ params = f /\ value'[f] = popupDate' /\ params' = f
  <2>1. PICK closing \in BOOLEAN : visible /\ Popup!Selected(d, ~other, closing)
    BY <1>4 DEF Popup!ClickDay, Popup!SetOnly
  <2> QED BY <1>1, <2>1
<1>5. CASE Popup!ClickToday
  BY <1>1, <1>5 DEF Popup!ClickToday, Popup!NavClicked
<1>6. ~Popup!Close /\ ~(\E g \in PopupFields : Popup!Trigger(g))
  BY DEF Popup!Close, Popup!Trigger
<1>7. \A d \in PopupDates : ~Popup!Arrow(d) /\ ~Popup!CtrlArrow(d)
  BY DEF Popup!Arrow, Popup!CtrlArrow, Popup!SetOnly
<1> QED BY <1>2, <1>3, <1>4, <1>5, <1>6, <1>7 DEF Popup!Next

\* The calendar opens at the date of its field.
LEMMA PopupOpenStep ==
  [Popup!Next]_(Popup!vars) =>
    [~visible /\ visible' =>
       popupDate' = IF value[params'] = Empty THEN PopupToday ELSE value[params']]_(Popup!vars)
<1> SUFFICES ASSUME Popup!Next, ~visible, visible'
             PROVE  popupDate' = IF value[params'] = Empty THEN PopupToday ELSE value[params']
  OBVIOUS
<1>1. \E f \in PopupFields : Popup!Trigger(f)
  BY DEF Popup!Next, Popup!Navigate, Popup!Arrow, Popup!CtrlArrow, Popup!ClickDay,
         Popup!ClickToday, Popup!Enter, Popup!Close, Popup!Selected, Popup!Hidden
<1> QED BY <1>1 DEF Popup!Trigger, Popup!Reused

-----------------------------------------------------------------------------
(* The clock.                                                              *)
ClockInv == Clock!ClockTypeOK /\ Clock!ClockAgrees

\* An hour has one text on either clock, and the texts give the hour back.
LEMMA HourOfShown ==
  ASSUME t12 \in BOOLEAN, NEW h \in 0..23
  PROVE  /\ Clock!ShownHour(h) \in Clock!Hours /\ Clock!ShownHalf(h) \in {"am", "pm"}
         /\ Clock!HourOf(Clock!ShownHour(h), Clock!ShownHalf(h)) = h
BY DEF Clock!ShownHour, Clock!ShownHalf, Clock!Hours, Clock!HourOf

\* A text and a half of the day are those of the hour they give.
LEMMA ShownHourOf ==
  ASSUME t12 \in BOOLEAN, NEW k \in Clock!Hours, NEW half \in {"am", "pm"}
  PROVE  /\ Clock!HourOf(k, half) \in 0..23
         /\ Clock!ShownHour(Clock!HourOf(k, half)) = k
         /\ t12 => Clock!ShownHalf(Clock!HourOf(k, half)) = half
BY DEF Clock!ShownHour, Clock!ShownHalf, Clock!Hours, Clock!HourOf

\* A text so many places further is one of the clock's.
LEMMA MovedIsHour ==
  ASSUME t12 \in BOOLEAN, NEW k \in Int, NEW n \in Int
  PROVE  Clock!Moved(k, n) \in Clock!Hours
<1>1. CASE t12
  <2>1. (k - 1 + n) % 12 \in 0..11
    OBVIOUS
  <2> QED BY <1>1, <2>1 DEF Clock!Moved, Clock!First, Clock!Size, Clock!Hours
<1>2. CASE ~t12
  <2>1. (k - 0 + n) % 24 \in 0..23
    OBVIOUS
  <2> QED BY <1>2, <2>1 DEF Clock!Moved, Clock!First, Clock!Size, Clock!Hours
<1> QED BY <1>1, <1>2

\* The clock starts at the hour it shows.
LEMMA ClockInit == Clock!Init => ClockInv
BY HourOfShown DEF Clock!Init, ClockInv, Clock!ClockTypeOK, Clock!ClockAgrees

\* A click, a drag or another date changes texts and hour together.
LEMMA ClockStep == ClockInv /\ [Clock!Next]_(Clock!vars) => ClockInv'
<1> SUFFICES ASSUME ClockInv, [Clock!Next]_(Clock!vars) PROVE ClockInv'
  OBVIOUS
<1>1. /\ t12 \in BOOLEAN /\ hours \in 0..23 /\ H \in Clock!Hours /\ H \in 0..23
      /\ AP \in {"am", "pm"} /\ pressedHour \in 0..24
      /\ H = Clock!ShownHour(hours) /\ (t12 => AP = Clock!ShownHalf(hours))
  BY DEF ClockInv, Clock!ClockTypeOK, Clock!ClockAgrees, Clock!Hours
<1>2. ASSUME NEW k \in Clock!Hours, NEW half \in {"am", "pm"}, t12' = t12, H' = k,
             AP' = half, hours' = Clock!HourOf(k, half), pressedHour' = pressedHour
      PROVE  ClockInv'
  <2>1. /\ hours' \in 0..23 /\ H' = Clock!ShownHour(hours')
        /\ (t12' => AP' = Clock!ShownHalf(hours'))
    BY <1>1, <1>2, ShownHourOf
  <2>2. /\ Clock!ShownHour(hours)' = Clock!ShownHour(hours')
        /\ Clock!ShownHalf(hours)' = Clock!ShownHalf(hours') /\ Clock!Hours' = Clock!Hours
    BY <1>2 DEF Clock!ShownHour, Clock!ShownHalf, Clock!Hours
  <2> QED BY <1>1, <1>2, <2>1, <2>2 DEF ClockInv, Clock!ClockTypeOK, Clock!ClockAgrees
<1>3. ASSUME NEW shift \in BOOLEAN, Clock!ClickHour(shift) PROVE ClockInv'
  <2> DEFINE n == IF shift THEN Clock!Size - 1 ELSE 1
  <2>1. n \in Int
    BY DEF Clock!Size
  <2>2. Clock!Moved(H, n) \in Clock!Hours
    BY <1>1, <2>1, MovedIsHour
  <2>3. /\ H' = Clock!Moved(H, n) /\ AP' = AP /\ t12' = t12 /\ pressedHour' = pressedHour
        /\ hours' = Clock!HourOf(Clock!Moved(H, n), AP)
    BY <1>3 DEF Clock!ClickHour
  <2> HIDE DEF n
  <2> QED BY <1>1, <1>2, <2>2, <2>3
<1>4. CASE Clock!ClickHalf
  <2>1. PICK half \in {"am", "pm"} : AP' = half /\ hours' = Clock!HourOf(H, half)
    BY <1>4, <1>1 DEF Clock!ClickHalf
  <2> QED BY <1>1, <1>2, <1>4, <2>1 DEF Clock!ClickHalf
<1>5. ASSUME NEW n \in 0..23, Clock!Drag(n) PROVE ClockInv'
  <2>1. Clock!Moved(pressedHour - 1, n) \in Clock!Hours
    BY <1>1, MovedIsHour
  <2> QED BY <1>1, <1>2, <1>5, <2>1 DEF Clock!Drag
<1>6. ASSUME NEW h \in 0..23, Clock!SetTime(h) PROVE ClockInv'
  <2>1. /\ Clock!ShownHour(h) \in Clock!Hours /\ Clock!ShownHalf(h) \in {"am", "pm"}
        /\ Clock!HourOf(Clock!ShownHour(h), Clock!ShownHalf(h)) = h
    BY <1>1, HourOfShown
  <2> QED BY <1>2, <1>6, <2>1 DEF Clock!SetTime
<1>7. CASE Clock!Press \/ Clock!Release \/ UNCHANGED Clock!vars
  <2>1. /\ t12' = t12 /\ hours' = hours /\ H' = H /\ AP' = AP /\ pressedHour' \in 0..24
    BY <1>1, <1>7 DEF Clock!Press, Clock!Release, Clock!vars
  <2>2. /\ Clock!ShownHour(hours)' = Clock!ShownHour(hours)
        /\ Clock!ShownHalf(hours)' = Clock!ShownHalf(hours) /\ Clock!Hours' = Clock!Hours
    BY <2>1 DEF Clock!ShownHour, Clock!ShownHalf, Clock!Hours
  <2> QED BY <1>1, <2>1, <2>2 DEF ClockInv, Clock!ClockTypeOK, Clock!ClockAgrees
<1> QED BY <1>3, <1>4, <1>5, <1>6, <1>7 DEF Clock!Next

-----------------------------------------------------------------------------
(* The boxes.  A timer of the page carries the year or the month that the  *)
(* widget has, unless the user was early or the year is not offered; the   *)
(* last timer carries a day that its box offers, so the field is written   *)
(* with the box's day.                                                     *)
Years == FirstYear..LastYear
PageYears == {s[1] : s \in PageDates}
DayValues == (1..31) \cup Widget!Default

\* What a timer may carry, for the year y, the month m and the history o.
Carries(o, y, m, v) ==
  \/ v[1] = "year" /\ v[2] \in Years \cup {-1} /\ ("year" \notin o => v[2] = y)
  \/ v[1] = "month" /\ v[2] \in 1..12 /\ ("month" \notin o => v[2] = m)
  \/ v[1] = "day" /\ v[2] \in DayValues

BoxesTyped ==
  /\ Widget!WidgetTypeOK /\ show_default \in BOOLEAN /\ own \subseteq {"year", "month"}
  /\ days = Widget!MaxDay(yearOf, monthOf)
  /\ timers \in Seq({"year", "month", "day"} \X Int)
TimersCarry == \A i \in 1..Len(timers) : Carries(own, yearOf, monthOf, timers[i])
LastIsOffered ==
  timers # <<>> =>
    /\ timers[Len(timers)][1] = "day"
    /\ timers[Len(timers)][2] \in (1..days) \cup Widget!Default
BoxesSet ==
  /\ "year" \notin own /\ ~Widget!Awaits("year") => year_select = yearOf
  /\ "month" \notin own /\ ~Widget!Awaits("month") => month_select = monthOf
BoxesInv == BoxesTyped /\ TimersCarry /\ LastIsOffered /\ BoxesSet /\ Widget!FieldIsBoxes

\* A month that the boxes show has the days of the civil calendar.
LEMMA OfferedDaysAreCivil ==
  ASSUME NEW y \in Years, NEW m \in 1..12
  PROVE  Widget!MaxDay(y, m) = Widget!DaysIn(y, m)
<1>1. y \in Int /\ (y % 4 = 0 => (y % 100 # 0 \/ y % 400 = 0))
  BY CalendarConstants DEF CalendarAssumption, Years
<1> QED BY <1>1 DEF Widget!MaxDay, Widget!DaysIn

\* A month is offered with 28 to 31 days.
LEMMA OfferedDays == \A y, m : Widget!MaxDay(y, m) \in 28..31
BY DEF Widget!MaxDay

\* The day selected in a box is one it offers.
LEMMA SelectedIsOffered ==
  ASSUME show_default \in BOOLEAN, NEW n \in 28..31, NEW d
  PROVE  /\ Widget!SelectedDay(d, n) \in (1..n) \cup Widget!Default
         /\ Widget!FirstOf(1) \in (1..n) \cup Widget!Default
BY DEF Widget!SelectedDay, Widget!FirstOf, Widget!Default

\* The page comes with a date and a timer for each of its boxes.
LEMMA BoxesInit == Widget!Init => BoxesInv
<1> SUFFICES ASSUME Widget!Init PROVE BoxesInv
  OBVIOUS
<1> DEFINE v == Widget!SelectedDay(dayOf, days)
           years == <<"year", Widget!YearFor(yearOf)>>
           months == <<"month", monthOf>>
           theDay == <<"day", v>>
<1>1. /\ yearOf \in PageYears /\ monthOf \in 1..12 /\ dayOf \in 1..31
      /\ LastYear \in Years /\ FirstYear \in Nat /\ LastYear \in Nat
  <2>1. PICK s \in PageDates : yearOf = s[1] /\ monthOf = s[2] /\ dayOf = s[3]
    BY DEF Widget!Init
  <2>2. /\ s[2] \in 1..12 /\ s[3] \in 1..Widget!DaysIn(s[1], s[2])
        /\ FirstYear \in Nat /\ LastYear \in Nat /\ FirstYear <= LastYear
    BY CalendarConstants DEF CalendarAssumption
  <2>3. Widget!DaysIn(s[1], s[2]) \in 28..31
    BY DEF Widget!DaysIn
  <2> QED BY <2>1, <2>2, <2>3 DEF Years, PageYears
<1>2. /\ days \in 28..31 /\ days = Widget!MaxDay(yearOf, monthOf)
      /\ show_default \in BOOLEAN /\ day_select = Widget!FirstOf(1)
      /\ timers = <<years, months, theDay>>
      /\ own = (IF Widget!YearFor(yearOf) = yearOf THEN {} ELSE {"year"})
  BY OfferedDays DEF Widget!Init
<1>b. Widget!YearFor(yearOf) \in Years \cup {-1} /\ Widget!YearFor(yearOf) \in Int
  BY <1>1 DEF Widget!YearFor, Widget!FirstOf, Years
<1>3. v \in (1..days) \cup Widget!Default /\ day_select \in (1..days) \cup Widget!Default
  BY <1>2, SelectedIsOffered
<1>4. v \in DayValues /\ v \in Int
  BY <1>2, <1>3 DEF DayValues, Widget!Default
<1> HIDE DEF v
<1>5. /\ timers \in Seq({"year", "month", "day"} \X Int) /\ Len(timers) = 3
      /\ timers[1] = years /\ timers[2] = months /\ timers[3] = theDay
  <2> DEFINE w == Widget!YearFor(yearOf)
  <2>1. w \in Int
    BY <1>b
  <2> HIDE DEF w
  <2>2. years = <<"year", w>>
    BY DEF w
  <2> QED BY <1>1, <1>2, <1>4, <2>1, <2>2
<1>6. Widget!WidgetTypeOK
  <2>1. /\ year_select \in Years \cup {-1} /\ month_select \in (1..12) \cup {-1}
    BY <1>1, <1>2 DEF Widget!Init, Widget!FirstOf
  <2>2. timers # <<>>
    BY <1>5
  <2> QED BY <1>1, <1>2, <1>3, <2>1, <2>2 DEF Widget!WidgetTypeOK, Years, PageYears
<1>7. TimersCarry
  <2>1. Carries(own, yearOf, monthOf, timers[1])
    BY <1>2, <1>b, <1>5 DEF Carries
  <2>2. Carries(own, yearOf, monthOf, timers[2])
    BY <1>1, <1>5 DEF Carries
  <2>3. Carries(own, yearOf, monthOf, timers[3])
    BY <1>4, <1>5 DEF Carries
  <2>4. \A i \in 1..Len(timers) : i = 1 \/ i = 2 \/ i = 3
    BY <1>5
  <2> QED BY <2>1, <2>2, <2>3, <2>4 DEF TimersCarry
<1>8. LastIsOffered
  BY <1>3, <1>5 DEF LastIsOffered
<1>9. Widget!Awaits("year") /\ Widget!Awaits("month")
  BY <1>5 DEF Widget!Awaits
<1> QED BY <1>2, <1>5, <1>6, <1>7, <1>8, <1>9
        DEF BoxesInv, BoxesTyped, BoxesSet, Widget!FieldIsBoxes

\* What a timer does to a queue of them.
LEMMA TimersTail ==
  ASSUME BoxesTyped, timers # <<>>, timers' = Tail(timers)
  PROVE  /\ timers' \in Seq({"year", "month", "day"} \X Int)
         /\ Len(timers) \in Nat \ {0} /\ Len(timers') = Len(timers) - 1
         /\ Head(timers) = timers[1]
         /\ \A i \in 1..(Len(timers) - 1) : timers'[i] = timers[i + 1]
         /\ timers' = <<>> <=> Len(timers) = 1
<1> DEFINE T == {"year", "month", "day"} \X Int
<1>1. timers \in Seq(T)
  BY DEF BoxesTyped
<1> HIDE DEF T
<1>2. /\ Tail(timers) \in Seq(T) /\ Len(Tail(timers)) = Len(timers) - 1
      /\ \A i \in 1..(Len(timers) - 1) : Tail(timers)[i] = timers[i + 1]
  BY <1>1, HeadTailProperties
<1>3. Len(timers) \in Nat \ {0} /\ (Tail(timers) = <<>> <=> Len(Tail(timers)) = 0)
  BY <1>1, <1>2, EmptySeq
<1>4. Head(timers) = timers[1]
  BY <1>1, HeadTailProperties
<1>5. Tail(timers) = <<>> <=> Len(timers) = 1
  BY <1>2, <1>3
<1> QED BY <1>2, <1>3, <1>4, <1>5 DEF T

\* A timer sets its box and writes the field with the day's.
LEMMA BoxesTimer == BoxesInv /\ Widget!Timer => BoxesInv'
<1> SUFFICES ASSUME BoxesInv, Widget!Timer PROVE BoxesInv'
  OBVIOUS
<1> DEFINE n == Len(timers)
           box == timers[1][1]
           v == timers[1][2]
<1>1. /\ timers' \in Seq({"year", "month", "day"} \X Int)
      /\ timers \in Seq({"year", "month", "day"} \X Int)
      /\ n \in Nat \ {0} /\ Len(timers') = n - 1 /\ Head(timers) = timers[1]
      /\ \A i \in 1..(n - 1) : timers'[i] = timers[i + 1]
      /\ timers' = <<>> <=> n = 1
      /\ timers # <<>>
  BY TimersTail DEF BoxesInv, BoxesTyped, Widget!Timer
<1>2. /\ show_default' = show_default /\ yearOf' = yearOf /\ monthOf' = monthOf
      /\ days' = days /\ own' = own
      /\ year_select' = (IF box = "year" THEN v ELSE year_select)
      /\ month_select' = (IF box = "month" THEN v ELSE month_select)
      /\ day_select' = (IF box # "day" THEN day_select ELSE IF v > days THEN 0 ELSE v)
      /\ dayOf' = day_select'
      /\ control' = (IF year_select' = -1 /\ month_select' = -1 /\ day_select' = -1
                     THEN Widget!None ELSE Widget!DateOf(yearOf, monthOf, dayOf'))
  BY <1>1 DEF Widget!Timer, Widget!DayTaken
<1>3. /\ Carries(own, yearOf, monthOf, timers[1]) /\ timers[1] \in {"year", "month", "day"} \X Int
      /\ days \in 28..31 /\ days = Widget!MaxDay(yearOf, monthOf)
      /\ show_default \in BOOLEAN
  BY <1>1 DEF BoxesInv, BoxesTyped, TimersCarry, Widget!WidgetTypeOK
<1>4. Widget!Default' = Widget!Default /\ DayValues' = DayValues
      /\ Widget!Default \in {{}, {-1}}
  BY <1>2 DEF Widget!Default, DayValues
<1>5. TimersCarry'
  <2> SUFFICES ASSUME NEW i \in 1..(n - 1) PROVE Carries(own, yearOf, monthOf, timers[i + 1])
    BY <1>1, <1>2, <1>4 DEF TimersCarry, Carries
  <2>1. i + 1 \in 1..n
    BY <1>1
  <2> QED BY <2>1 DEF BoxesInv, TimersCarry
<1>6. timers[n][1] = "day" /\ timers[n][2] \in (1..days) \cup Widget!Default
  BY <1>1 DEF BoxesInv, LastIsOffered
<1>7. LastIsOffered'
  <2> SUFFICES ASSUME n # 1 PROVE timers'[n - 1] = timers[n]
    BY <1>1, <1>2, <1>4, <1>6 DEF LastIsOffered
  <2>1. n - 1 \in 1..(n - 1) /\ (n - 1) + 1 = n
    BY <1>1
  <2> QED BY <1>1, <2>1
<1>8. ASSUME NEW b, Widget!Awaits(b), box # b PROVE Widget!Awaits(b)'
  <2>1. PICK i \in 1..n : timers[i][1] = b
    BY <1>1, <1>8 DEF Widget!Awaits
  <2>2. i - 1 \in 1..(n - 1) /\ (i - 1) + 1 = i
    BY <1>1, <1>8, <2>1
  <2>3. timers'[i - 1] = timers[i] /\ i - 1 \in DOMAIN timers'
    BY <1>1, <2>2
  <2> QED BY <2>1, <2>3 DEF Widget!Awaits
<1>9. BoxesSet'
  <2>1. ASSUME "year" \notin own, ~(Widget!Awaits("year")') PROVE year_select' = yearOf
    BY <1>2, <1>3, <1>8, <2>1 DEF BoxesInv, BoxesSet, Carries
  <2>2. ASSUME "month" \notin own, ~(Widget!Awaits("month")') PROVE month_select' = monthOf
    BY <1>2, <1>3, <1>8, <2>2 DEF BoxesInv, BoxesSet, Carries
  <2> QED BY <1>2, <2>1, <2>2 DEF BoxesSet
<1>10. n = 1 => day_select' \in (1..days) \cup Widget!Default
  BY <1>2, <1>3, <1>4, <1>6
<1>11. BoxesTyped'
  <2>1. /\ year_select' \in Years \cup {-1} /\ month_select' \in (1..12) \cup {-1}
    BY <1>2, <1>3 DEF BoxesInv, BoxesTyped, Widget!WidgetTypeOK, Carries, Years
  <2>2. day_select \in (0..days) \cup Widget!Default
    BY DEF BoxesInv, BoxesTyped, Widget!WidgetTypeOK
  <2>3. box = "day" => v \in DayValues
    BY <1>3 DEF Carries
  <2>4. day_select' \in (0..days) \cup Widget!Default
    BY <1>2, <1>3, <1>4, <2>2, <2>3 DEF DayValues
  <2>5. dayOf' \in (0..31) \cup {-1}
    BY <1>2, <1>3, <1>4, <2>4
  <2>6. timers' = <<>> => day_select' # 0
    BY <1>1, <1>3, <1>4, <1>10
  <2>7. yearOf \in Years \cup PageYears \cup {-1} /\ monthOf \in (1..12) \cup {-1}
    BY DEF BoxesInv, BoxesTyped, Widget!WidgetTypeOK, Years, PageYears
  <2>8. Widget!WidgetTypeOK'
    BY <1>2, <1>3, <1>4, <2>1, <2>4, <2>5, <2>6, <2>7
       DEF Widget!WidgetTypeOK, Years, PageYears
  <2>9. own \subseteq {"year", "month"}
    BY DEF BoxesInv, BoxesTyped
  <2> QED BY <1>1, <1>2, <1>3, <2>8, <2>9 DEF BoxesTyped
<1>12. Widget!FieldIsBoxes'
  <2> SUFFICES ASSUME n = 1, own = {}, year_select' # -1, month_select' # -1, day_select' # -1
               PROVE  control' = <<year_select', month_select', day_select'>>
    BY <1>1, <1>2 DEF Widget!FieldIsBoxes, Widget!Chosen
  <2>1. ~(Widget!Awaits("year")') /\ ~(Widget!Awaits("month")')
    BY <1>1 DEF Widget!Awaits
  <2>2. year_select' = yearOf /\ month_select' = monthOf
    BY <1>2, <1>9, <2>1 DEF BoxesSet
  <2>3. yearOf \in Years /\ monthOf \in 1..12
    <3>1. /\ year_select' \in Years \cup {-1} /\ month_select' \in (1..12) \cup {-1}
      BY <1>2, <1>3 DEF BoxesInv, BoxesTyped, Widget!WidgetTypeOK, Carries, Years
    <3> QED BY <2>2, <3>1
  <2>4. dayOf' = day_select' /\ day_select' \in 1..Widget!DaysIn(yearOf, monthOf)
    BY <1>2, <1>3, <1>4, <1>10, <2>3, OfferedDaysAreCivil
  <2>5. control' = Widget!DateOf(yearOf, monthOf, dayOf')
    BY <1>2
  <2> QED BY <2>2, <2>4, <2>5 DEF Widget!DateOf, Widget!Chosen
<1> QED BY <1>5, <1>7, <1>9, <1>11, <1>12 DEF BoxesInv

\* A change of a box: what a year or a month chosen early leaves open is in own.
Changed(y, m) ==
  /\ y \in Years \cup PageYears \cup {-1} /\ m \in (1..12) \cup {-1}
  /\ year_select' \in Years \cup {-1} /\ month_select' \in (1..12) \cup {-1}
  /\ own' \subseteq {"year", "month"}
  /\ "year" \notin own' => IF Widget!Awaits("year") THEN y = yearOf /\ "year" \notin own
                           ELSE year_select' = y
  /\ "month" \notin own' => IF Widget!Awaits("month") THEN m = monthOf /\ "month" \notin own
                            ELSE month_select' = m

\* A choice in a box keeps the invariant.
LEMMA BoxesChange ==
  ASSUME BoxesInv, NEW y, NEW m, NEW d \in (0..31) \cup {-1}, Changed(y, m),
         Widget!Change(y, m, d)
  PROVE  BoxesInv'
<1> DEFINE n == Len(timers)
           t == <<"day", Widget!SelectedDay(d, days')>>
<1>1. /\ timers \in Seq({"year", "month", "day"} \X Int) /\ n \in Nat
      /\ show_default \in BOOLEAN
  BY DEF BoxesInv, BoxesTyped
<1>2. /\ yearOf' = y /\ monthOf' = m /\ dayOf' = d /\ show_default' = show_default
      /\ days' = Widget!MaxDay(y, m) /\ day_select' = Widget!FirstOf(1)
      /\ timers' = Append(timers, t) /\ days' \in 28..31
  BY OfferedDays DEF Widget!Change
<1>3. /\ Widget!SelectedDay(d, days') \in (1..days') \cup Widget!Default
      /\ day_select' \in (1..days') \cup Widget!Default
  BY <1>1, <1>2, SelectedIsOffered
<1>4. Widget!Default' = Widget!Default /\ DayValues' = DayValues
      /\ Widget!Default \in {{}, {-1}}
  BY <1>2 DEF Widget!Default, DayValues
<1>5. t \in {"year", "month", "day"} \X Int /\ t[1] = "day"
      /\ t[2] \in (1..days') \cup Widget!Default /\ t[2] \in DayValues
  <2> DEFINE w == Widget!SelectedDay(d, days')
  <2>1. w \in (1..days') \cup Widget!Default
    BY <1>3
  <2> HIDE DEF w
  <2>2. w \in Int /\ w \in (1..31) \cup Widget!Default
    BY <1>2, <1>4, <2>1
  <2>3. t[1] = "day" /\ t[2] = w /\ t = <<"day", w>>
    BY DEF w
  <2> QED BY <2>1, <2>2, <2>3 DEF DayValues
<1> HIDE DEF t
<1>6. /\ timers' \in Seq({"year", "month", "day"} \X Int) /\ Len(timers') = n + 1
      /\ \A i \in 1..n : timers'[i] = timers[i]
      /\ timers'[n + 1] = t /\ timers' # <<>>
  BY <1>1, <1>2, <1>5
<1>7. TimersCarry'
  <2>1. Carries(own', y, m, t)
    BY <1>5 DEF Carries
  <2>2. ASSUME NEW i \in 1..n PROVE Carries(own', y, m, timers[i])
    <3>1. Carries(own, yearOf, monthOf, timers[i])
      BY DEF BoxesInv, TimersCarry
    <3>2. i \in DOMAIN timers
      BY <1>1
    <3> QED BY <1>1, <3>1, <3>2 DEF Carries, Changed, Widget!Awaits
  <2>3. \A i \in 1..(n + 1) : Carries(own', y, m, timers'[i])
    <3>1. \A i \in 1..(n + 1) : i = n + 1 \/ i \in 1..n
      BY <1>1
    <3> QED BY <1>6, <2>1, <2>2, <3>1
  <2> QED BY <1>2, <1>4, <1>6, <2>3 DEF TimersCarry, Carries
<1>8. LastIsOffered'
  BY <1>4, <1>5, <1>6 DEF LastIsOffered
<1>9. ASSUME NEW b, ~(Widget!Awaits(b)') PROVE ~Widget!Awaits(b)
  <2> SUFFICES ASSUME NEW i \in 1..n, timers[i][1] = b PROVE FALSE
    BY <1>1 DEF Widget!Awaits
  <2>1. i \in DOMAIN timers' /\ timers'[i] = timers[i]
    BY <1>1, <1>6
  <2> QED BY <1>9, <2>1 DEF Widget!Awaits
<1>10. BoxesSet'
  BY <1>2, <1>9 DEF BoxesSet, Changed
<1>11. Widget!WidgetTypeOK'
  BY <1>2, <1>3, <1>4, <1>6 DEF Widget!WidgetTypeOK, Changed, Years, PageYears
<1>12. BoxesTyped'
  BY <1>1, <1>2, <1>6, <1>11 DEF BoxesTyped, Changed
<1>13. Widget!FieldIsBoxes'
  BY <1>6 DEF Widget!FieldIsBoxes
<1> QED BY <1>7, <1>8, <1>10, <1>12, <1>13 DEF BoxesInv

\* Every timer and every change keeps the invariant.
LEMMA BoxesStep == BoxesInv /\ [Widget!Next]_(Widget!vars) => BoxesInv'
<1> SUFFICES ASSUME BoxesInv, [Widget!Next]_(Widget!vars) PROVE BoxesInv'
  OBVIOUS
<1>1. /\ yearOf \in Years \cup PageYears \cup {-1} /\ monthOf \in (1..12) \cup {-1}
      /\ dayOf \in (0..31) \cup {-1} /\ days \in 28..31
      /\ year_select \in Years \cup {-1} /\ month_select \in (1..12) \cup {-1}
      /\ own \subseteq {"year", "month"}
      /\ show_default \in BOOLEAN /\ Widget!Default \subseteq {-1}
  BY DEF BoxesInv, BoxesTyped, Widget!WidgetTypeOK, Widget!Default, Years, PageYears
<1>2. ASSUME NEW y \in Years \cup Widget!Default, Widget!ChangeYear(y) PROVE BoxesInv'
  <2>1. Changed(y, monthOf)
    BY <1>1, <1>2 DEF Widget!ChangeYear, Changed, BoxesInv, BoxesSet
  <2> QED BY <1>1, <1>2, <2>1, BoxesChange DEF Widget!ChangeYear
<1>3. ASSUME NEW m \in ChosenMonths \cup Widget!Default, Widget!ChangeMonth(m) PROVE BoxesInv'
  <2>1. m \in (1..12) \cup {-1}
    BY <1>1, CalendarConstants DEF CalendarAssumption
  <2>2. Changed(yearOf, m)
    BY <1>1, <1>3, <2>1 DEF Widget!ChangeMonth, Changed, BoxesInv, BoxesSet
  <2> QED BY <1>1, <1>3, <2>2, BoxesChange DEF Widget!ChangeMonth
<1>4. ASSUME NEW d \in (ChosenDays \cap 1..days) \cup Widget!Default, Widget!ChangeDay(d)
      PROVE  BoxesInv'
  <2>1. d \in 1..days \/ d = -1
    BY <1>1
  <2>2. d \in (0..31) \cup {-1}
    BY <1>1, <2>1
  <2>3. Changed(yearOf, monthOf)
    BY <1>1, <1>4 DEF Widget!ChangeDay, Changed, BoxesInv, BoxesSet
  <2> QED BY <1>4, <2>2, <2>3, BoxesChange DEF Widget!ChangeDay
<1>5. CASE UNCHANGED Widget!vars
  <2>1. /\ show_default' = show_default /\ yearOf' = yearOf /\ monthOf' = monthOf
        /\ dayOf' = dayOf /\ days' = days /\ timers' = timers /\ control' = control /\ own' = own
        /\ year_select' = year_select /\ month_select' = month_select
        /\ day_select' = day_select
    BY <1>5 DEF Widget!vars
  <2>2. BoxesTyped'
    BY <2>1 DEF BoxesInv, BoxesTyped, Widget!WidgetTypeOK, Widget!MaxDay, Widget!Default
  <2>3. TimersCarry' /\ LastIsOffered'
    BY <2>1 DEF BoxesInv, TimersCarry, Carries, DayValues, LastIsOffered, Widget!Default
  <2>4. BoxesSet' /\ Widget!FieldIsBoxes'
    BY <2>1 DEF BoxesInv, BoxesSet, Widget!FieldIsBoxes, Widget!Awaits, Widget!Chosen
  <2> QED BY <2>2, <2>3, <2>4 DEF BoxesInv
<1> QED BY <1>2, <1>3, <1>4, <1>5, BoxesTimer DEF Widget!Next, Years

-----------------------------------------------------------------------------
(* The parts together.                                                     *)
PartsInv == PopupInv /\ ClockInv /\ BoxesInv

\* A step of one part leaves the others alone.
LEMMA PartSteps ==
  [MCNext]_MCvars =>
    [Popup!Next]_(Popup!vars) /\ [Clock!Next]_(Clock!vars) /\ [Widget!Next]_(Widget!vars)
BY DEF MCNext, MCvars, popupVars, clockVars, widgetVars, Popup!vars, Popup!paramVars,
       Clock!vars, Widget!vars

\* Each part keeps its own invariant.
LEMMA PartsInvariance == MCSpec => []PartsInv
<1>1. MCInit => PartsInv
  BY PopupInit, ClockInit, BoxesInit DEF MCInit, PartsInv
<1>2. PartsInv /\ [MCNext]_MCvars => PartsInv'
  BY PartSteps, PopupStep, ClockStep, BoxesStep DEF PartsInv
<1> QED BY <1>1, <1>2, PTL DEF MCSpec

\* The popup listens while it is seen, no field changes before a day is chosen, an
\* electric one follows the calendar; the texts of the clock are its hour; once the
\* timers have run the field is the date in the boxes, but for a year or a month that
\* its box does not show (own).
THEOREM PartsAgreeAlways == MCSpec => []PartsAgree
<1>1. PartsInv => PartsAgree
  BY DEF PartsInv, PopupInv, ClockInv, BoxesInv, BoxesTyped, PartsAgree
<1> QED BY <1>1, PartsInvariance, PTL

\* A popup changes no field but the one it is open for, to its own date, and opens at the
\* date of that field, whichever field it was open for before.
THEOREM PopupStepsAlways == MCSpec => PopupSteps
<1>1. PartsInv /\ [MCNext]_MCvars =>
        /\ [\A f \in PopupFields : value'[f] # value[f] =>
              visible /\ params = f /\ value'[f] = popupDate' /\ params' = f]_(Popup!vars)
        /\ [~visible /\ visible' =>
              popupDate' = IF value[params'] = Empty THEN PopupToday ELSE value[params']]_(Popup!vars)
  BY PartSteps, PopupOwnStep, PopupOpenStep DEF PartsInv
<1> QED BY <1>1, PartsInvariance, PTL DEF MCSpec, PopupSteps, Popup!OwnField, Popup!OpensAtField

\* The grid's invariant holds whichever part of the library runs.
LEMMA GridInvariance == MCSpec => []GridInv
<1>1. MCInit => GridInv
  BY GridInit DEF MCInit
<1>2. GridInv /\ [MCNext]_MCvars => GridInv'
  <2>1. [MCNext]_MCvars => [Next]_vars
    BY DEF MCNext, MCvars
  <2> QED BY <2>1, GridStep
<1> QED BY <1>1, <1>2, PTL DEF MCSpec

\* For all years after 100, any disabled dates, any months of summer time and any first
\* day of the week: the marked cell is the date's, arrows and buttons lead to the day,
\* week or month beside it, and weeks, days of the year and printed dates are right.
THEOREM GridAgreesAlways == MCSpec => []GridAgrees
<1>1. GridInv => GridAgrees
  BY GridTyped, GridCurrent, GridArrows, GridButtons, GridWeeks, GridDays, GridTexts
     DEF GridAgrees
<1> QED BY <1>1, GridInvariance, PTL

\* A year set by a button, a key or the box keeps the month, and the day unless it
\* becomes the 28th.
THEOREM GridStepsAlways == MCSpec => GridSteps
<1>1. GridInv => [part = "grid" => YearKept]_vars
  BY GridYears
<1> QED BY <1>1, GridInvariance, PTL DEF GridSteps
=============================================================================
