----------------------------- MODULE DateWidget -----------------------------
(***************************************************************************)
(* Three select boxes for a date and the hidden field they fill.  After a  *)
(* change the options of the day are made anew, and a timer (1 ms) selects *)
(* one of them and writes the field; the user may change another box       *)
(* before it.  -1 is the value of "---".                                   *)
(***************************************************************************)
EXTENDS Integers, Sequences

CONSTANTS
  MinYear, MaxYear,  \* years offered
  Starts,        \* dates a page may come with, of any year: the field's, today's if it is empty
  Months, Days,  \* bound: the ones the user chooses
  MaxTimers      \* bound: timers that wait when a box is changed

VARIABLES
  show_default,  \* there is a "---"
  year, month, day,                        \* the widget's
  year_select, month_select, day_select,   \* what the boxes show
  days,          \* days offered
  timers,        \* timers of setup_options: box and value to select
  control,       \* the field, a date or None
  own            \* (history) boxes (year, month) that show another value than the widget has

vars == <<show_default, year, month, day, year_select, month_select, day_select, days,
          timers, control, own>>

None == <<>>
Default == IF show_default THEN {-1} ELSE {}

(* day_options: the days of a month, 31 for a month that is not chosen. *)
MaxDayMutant(y, m) == IF m = 2 THEN IF y % 4 = 0 THEN 29 ELSE 28 ELSE 31
MaxDay(y, m) ==
  IF m = 2 THEN IF y % 4 = 0 THEN 29 ELSE 28
  ELSE IF m \in {4, 6, 9, 11} THEN 30 ELSE 31

(* new Date(y, m - 1, d): a day too many is the next month's, day 0 (an    *)
(* empty value) the last of the month before; what -1 makes of it is left  *)
(* open.                                                                   *)
DaysIn(y, m) ==
  IF m = 2 THEN IF y % 4 = 0 /\ (y % 100 # 0 \/ y % 400 = 0) THEN 29 ELSE 28
  ELSE IF m \in {4, 6, 9, 11} THEN 30 ELSE 31
Chosen(y, m, d) == y # -1 /\ m # -1 /\ d # -1
DateOf(y, m, d) ==
  IF ~Chosen(y, m, d) THEN <<0, 0, 0>>
  ELSE IF d \in 1..DaysIn(y, m) THEN <<y, m, d>>
  ELSE IF d = 0 THEN IF m = 1 THEN <<y - 1, 12, 31>> ELSE <<y, m - 1, DaysIn(y, m - 1)>>
  ELSE <<y, m + 1, d - DaysIn(y, m)>>

(* Once the timers have run, the box of the day has one of its options     *)
(* selected.                                                               *)
WidgetTypeOK ==
  /\ year \in (MinYear..MaxYear) \cup {s[1] : s \in Starts} \cup {-1} /\ month \in (1..12) \cup {-1}
  /\ day \in (0..31) \cup {-1}
  /\ year_select \in (MinYear..MaxYear) \cup {-1} /\ month_select \in (1..12) \cup {-1}
  /\ days \in 28..31 /\ day_select \in (0..days) \cup Default
  /\ timers = <<>> => day_select # 0

(* The first option, which a box shows when its options are new. *)
FirstOf(v) == IF show_default THEN -1 ELSE v
SelectedDay(d, n) == IF d \in 1..n \/ (d = -1 /\ show_default) THEN d ELSE FirstOf(1)

(* A year that is not offered leaves its box at the first option, and the  *)
(* widget with the year of the page.                                       *)
YearFor(y) == IF y \in MinYear..MaxYear THEN y ELSE FirstOf(MaxYear)

Init ==
  /\ show_default \in BOOLEAN
  /\ \E s \in Starts : year = s[1] /\ month = s[2] /\ day = s[3] /\ control \in {None, s}
  /\ days = MaxDay(year, month)
  /\ year_select = FirstOf(MaxYear) /\ month_select = FirstOf(1) /\ day_select = FirstOf(1)
  /\ timers = <<<<"year", YearFor(year)>>, <<"month", month>>, <<"day", SelectedDay(day, days)>>>>
  /\ own = IF YearFor(year) = year THEN {} ELSE {"year"}

-----------------------------------------------------------------------------
(* A timer: the index it selects in its box, none (0) if the options have  *)
(* become fewer; this.day is what the day's box has; setValue.             *)
DayTaken(d) == d
Timer ==
  /\ timers # <<>> /\ timers' = Tail(timers)
  /\ LET box == Head(timers)[1]
         v == Head(timers)[2]
     IN /\ year_select' = IF box = "year" THEN v ELSE year_select
        /\ month_select' = IF box = "month" THEN v ELSE month_select
        /\ day_select' = IF box # "day" THEN day_select ELSE IF v > days THEN 0 ELSE v
  /\ day' = DayTaken(day_select')
  /\ control' = IF year_select' = -1 /\ month_select' = -1 /\ day_select' = -1
                THEN None ELSE DateOf(year, month, day')
  /\ UNCHANGED <<show_default, year, month, days, own>>

(* handle_change of a box: the options of the day for the year, the month  *)
(* and the day that the widget has now.                                    *)
Change(y, m, d) ==
  /\ Len(timers) < MaxTimers
  /\ year' = y /\ month' = m /\ day' = d
  /\ days' = MaxDay(y, m) /\ day_select' = FirstOf(1)
  /\ timers' = Append(timers, <<"day", SelectedDay(d, days')>>)
  /\ UNCHANGED <<show_default, control>>

Awaits(box) == \E i \in DOMAIN timers : timers[i][1] = box
ChangeYear(y) ==
  /\ year_select' = y /\ Change(y, month, day) /\ UNCHANGED month_select
  /\ own' = IF Awaits("year") THEN own \cup {"year"} ELSE own \ {"year"}
ChangeMonth(m) ==
  /\ month_select' = m /\ Change(year, m, day) /\ UNCHANGED year_select
  /\ own' = IF Awaits("month") THEN own \cup {"month"} ELSE own \ {"month"}
ChangeDay(d) == Change(year, month, d) /\ UNCHANGED <<year_select, month_select, own>>

Next ==
  \/ Timer
  \/ \E y \in (MinYear..MaxYear) \cup Default : ChangeYear(y)
  \/ \E m \in Months \cup Default : ChangeMonth(m)
  \/ \E d \in (Days \cap 1..days) \cup Default : ChangeDay(d)

Spec == Init /\ [][Next]_vars
-----------------------------------------------------------------------------
(* Once the timers have run, a date chosen in all three boxes is the one   *)
(* in the field, and with none chosen the field is empty: nothing of an    *)
(* earlier choice or of a timer that came late is left.  (A year of the    *)
(* page that is not offered, and a year or month chosen before the page    *)
(* has set that box, stay in the field while the box shows something else, *)
(* until that box is changed.)                                             *)
FieldIsBoxes ==
  timers = <<>> =>
    /\ own = {} /\ Chosen(year_select, month_select, day_select) =>
         control = <<year_select, month_select, day_select>>
    /\ {year_select, month_select, day_select} = {-1} => control = None

(* "This class allows you to enter the date by three select fields"        *)
(* (lmbDate3SelectWidget): the date they show is the one in the field.     *)
(* Not so for a page's year that is not offered.                           *)
BoxesEnterDate ==
  timers = <<>> /\ Chosen(year_select, month_select, day_select) =>
    control = <<year_select, month_select, day_select>>
=============================================================================
