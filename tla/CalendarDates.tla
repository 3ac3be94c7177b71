--------------------------- MODULE CalendarDates ---------------------------
(***************************************************************************)
(* The patches of JavaScript's Date that the calendar rests on.  A date is *)
(* the number of its day since 1 January of the year 1; months are 0..11,  *)
(* days of the week 0..6 from Sunday.  The zone has summer time: a local   *)
(* midnight in summer is an hour early.                                    *)
(***************************************************************************)
EXTENDS Integers, Sequences

CONSTANTS MinYear, MaxYear, FirstSummerMonth, LastSummerMonth

Months == 0..11
LeapYear(y) == y % 4 = 0 /\ (y % 100 # 0 \/ y % 400 = 0)

(* getMonthDays *)
MD == <<31, 28, 31, 30, 31, 30, 31, 31, 30, 31, 30, 31>>
MonthDays(y, m) == IF LeapYear(y) /\ m = 1 THEN 29 ELSE MD[m + 1]

-----------------------------------------------------------------------------
(* What Date itself does: new Date(y, m, d) takes a month or a day beyond  *)
(* its range into the next or the previous ones.                           *)
Before(y) == 365 * (y - 1) + (y - 1) \div 4 - (y - 1) \div 100 + (y - 1) \div 400
BeforeMonth == <<0, 31, 59, 90, 120, 151, 181, 212, 243, 273, 304, 334>>
DateOf(y, m, d) ==
  LET yy == y + m \div 12
      mm == m % 12
  IN Before(yy) + BeforeMonth[mm + 1] + (IF LeapYear(yy) /\ mm > 1 THEN 1 ELSE 0) + d - 1

Days == DateOf(MinYear - 2, 0, 1)..DateOf(MaxYear + 1, 11, 31)
Civil == [n \in Days |->
            LET y == CHOOSE k \in (MinYear - 2)..(MaxYear + 1) :
                       Before(k) <= n /\ n < Before(k + 1)
                m == CHOOSE k \in Months : DateOf(y, k, 1) <= n /\ n < DateOf(y, k + 1, 1)
            IN [year |-> y, month |-> m, day |-> n - DateOf(y, m, 1) + 1]]
Year(n) == Civil[n].year
Month(n) == Civil[n].month
Day(n) == Civil[n].day
Weekday(n) == (n + 1) % 7
SetDay(n, d) == n - Day(n) + d
SetMonth(n, m) == DateOf(Year(n), m, Day(n))
OldSetFullYear(n, y) == DateOf(y, Month(n), Day(n))

Summer(n) == Month(n) \in FirstSummerMonth..LastSummerMonth
Hours(n) == 24 * n - IF Summer(n) THEN 1 ELSE 0

-----------------------------------------------------------------------------
(* setFullYear: 29 February goes to the 28th. *)
SetFullYearMutant(n, y) == OldSetFullYear(n, y)
SetFullYear(n, y) ==
  IF Month(OldSetFullYear(n, y)) = Month(n) THEN OldSetFullYear(n, y)
  ELSE OldSetFullYear(SetDay(n, 28), y)

(* setDateOnly: by way of the first, lest a short month be skipped. *)
SetDateOnly(n, k) ==
  LET inYear == SetFullYear(SetDay(n, 1), Year(k))
      inMonth == DateOf(Year(inYear), Month(k), 1)
  IN inMonth + Day(k) - 1

(* getDayOfYear: the days since the day before 1 January, rounded down. *)
DayOfYear(n) == (Hours(n) - Hours(DateOf(Year(n), 0, 0))) \div 24

(* getWeekNumber: the weeks from 4 January to the Thursday of the week,    *)
(* rounded to the nearest.                                                 *)
Round(a, b) == (2 * a + b) \div (2 * b)
WeekNumber(n) ==
  LET t == SetDay(n, Day(n) - ((Weekday(n) + 6) % 7) + 3)
  IN Round(Hours(t) - Hours(SetDay(SetMonth(t, 0), 4)), 7 * 24) + 1

-----------------------------------------------------------------------------
(* print and Date.parseDate, for formats of a day, a month (as a number or *)
(* a name) and a year (of two digits or four).  A text is the sequence of  *)
(* its three words, a word a number or the name of a month.                *)
Formats == {<<"%Y", "%m", "%d">>, <<"%d", "%b", "%y">>, <<"%m", "%e", "%Y">>}
Number(v) == [name |-> FALSE, v |-> v]
MonthName(m) == [name |-> TRUE, v |-> m]

Word(n, f) ==
  CASE f \in {"%d", "%e"} -> Number(Day(n))
    [] f = "%m" -> Number(Month(n) + 1)
    [] f = "%b" -> MonthName(Month(n))
    [] f = "%Y" -> Number(Year(n))
    [] f = "%y" -> Number(Year(n) % 100)
PrintDate(n, format) == [i \in DOMAIN format |-> Word(n, format[i])]

Century(y) == IF y < 100 THEN y + IF y > 29 THEN 1900 ELSE 2000 ELSE y

NoParts == [y |-> 0, m |-> -1, d |-> 0]
TakeWord(a, w, f) ==
  CASE f \in {"%d", "%e"} -> [a EXCEPT !.d = w.v]
    [] f = "%m" -> [a EXCEPT !.m = w.v - 1]
    [] f = "%b" -> [a EXCEPT !.m = w.v]
    [] f \in {"%Y", "%y"} -> [a EXCEPT !.y = Century(w.v)]

(* The second attempt guesses what a word is by its value. *)
GuessWord(a, w) ==
  IF w.name THEN [a EXCEPT !.d = IF a.m # -1 THEN a.m + 1 ELSE @, !.m = w.v]
  ELSE IF w.v <= 12 /\ a.m = -1 THEN [a EXCEPT !.m = w.v - 1]
  ELSE IF w.v > 31 /\ a.y = 0 THEN [a EXCEPT !.y = Century(w.v)]
  ELSE IF a.d = 0 THEN [a EXCEPT !.d = w.v]
  ELSE a

Complete(a) == a.m # -1 /\ a.d # 0
ParseDate(text, format, today) ==
  LET Take(a, i) == TakeWord(a, text[i], format[i])
      taken == Take(Take(Take(NoParts, 1), 2), 3)
      guess == GuessWord(GuessWord(GuessWord(NoParts, text[1]), text[2]), text[3])
  IN IF Complete(taken) /\ taken.y # 0 THEN DateOf(taken.y, taken.m, taken.d)
     ELSE IF Complete(guess)
     THEN DateOf(IF guess.y = 0 THEN Year(today) ELSE guess.y, guess.m, guess.d)
     ELSE today
=============================================================================
