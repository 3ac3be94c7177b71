------------------------------ MODULE Calendar ------------------------------
(***************************************************************************)
(* The calendar widget: its grid of six weeks, the buttons above it, the   *)
(* month and year boxes that open while a button is held down, and the     *)
(* keys.  The cells of the grid are elements that _init fills anew, so the *)
(* current cell (cal.currentDateEl) is a position, and a cell disabled     *)
(* since then keeps the date it had.                                       *)
(***************************************************************************)
EXTENDS CalendarDates

CONSTANTS
  Disabled,   \* dates that getDateStatus disables
  Fdows,      \* days a week may begin with
  Today

\* The range that the calendar offers (parseDate takes a year below 100 for one of this
\* century or the last); it opens at a date of it that may be chosen.
RangeAssumption ==
  /\ MinYear \in Nat /\ MaxYear \in Nat /\ 100 < MinYear /\ MinYear <= MaxYear
  /\ Fdows \subseteq 0..6
  /\ Today \in Days \ Disabled /\ Year(Today) \in MinYear..MaxYear
ASSUME RangeConstants == RangeAssumption

VARIABLES
  date,        \* cal.date
  fdow,        \* cal.firstDayOfWeek
  grid,        \* first day of the month that _init last filled the cells with
  showsOther,  \* cal.showsOtherMonths
  currentEl,   \* cal.currentDateEl: its position and its caldate
  pressed,     \* button held down (its navtype), 0 for none
  combo        \* the box that is open: its months or its years

vars == <<date, fdow, grid, showsOther, currentEl, pressed, combo>>

Cells == 0..41
InRange(n) == Year(n) \in MinYear..MaxYear
FirstShown(n, f) == LET first == SetDay(n, 1) IN first - ((Weekday(first) - f) % 7)
CellDate(n, f, p) == FirstShown(n, f) + p
OtherMonth(k, n) == Month(k) # Month(n)
Enabled(k, n) == (showsOther \/ ~OtherMonth(k, n)) /\ k \notin Disabled

(* The date leaves the range only to that of a cell of another month, and  *)
(* an earlier one (see CurrentIsDate).                                     *)
CalendarTypeOK ==
  /\ {date, grid} \subseteq Days /\ InRange(grid)
  /\ InRange(date) \/ (showsOther /\ date = currentEl.caldate)
  /\ fdow \in 0..6 /\ showsOther \in BOOLEAN
  /\ currentEl \in [pos : Cells, caldate : Days]
  /\ pressed \in {-2, -1, 0, 1, 2}
  /\ combo \subseteq Months \/ combo \subseteq MinYear..MaxYear

(* _init: the year is brought into the range; the cell of the date becomes *)
(* the current one unless it is disabled.                                  *)
Clamp(n) ==
  IF Year(n) < MinYear THEN SetFullYear(n, MinYear)
  ELSE IF Year(n) > MaxYear THEN SetFullYear(n, MaxYear) ELSE n

CurrentMutant(n, f, el) == el
Current(n, f, el) ==
  LET shown == CellDate(n, f, el.pos)
  IN IF Enabled(n, n) THEN [pos |-> n - FirstShown(n, f), caldate |-> n]
     ELSE IF Enabled(shown, n) THEN [el EXCEPT !.caldate = shown] ELSE el

(* The calendar after _init: its date, its grid and its current cell. *)
Shown(n, f, el) ==
  LET At[k \in Days] == [date |-> k, grid |-> SetDay(k, 1), el |-> Current(k, f, el)]
  IN At[Clamp(n)]
State == [date |-> date, grid |-> grid, el |-> currentEl]
SetDate(s, n) == IF n = s.date THEN s ELSE Shown(n, fdow, s.el)
Becomes(s) == date' = s.date /\ grid' = s.grid /\ currentEl' = s.el

Init ==
  /\ date = Today /\ grid = SetDay(Today, 1) /\ fdow \in Fdows /\ showsOther \in BOOLEAN
  /\ currentEl = [pos |-> Today - FirstShown(Today, fdow), caldate |-> Today]
  /\ pressed = 0 /\ combo = {}

-----------------------------------------------------------------------------
(* cellClick of the cell p; one of another month draws that month. *)
CellClick(s, p) ==
  LET there == CellDate(s.grid, fdow, p)
      caldate == IF p = s.el.pos THEN s.el.caldate ELSE there
      k == SetDateOnly(s.date, caldate)
      el == [pos |-> p, caldate |-> caldate]
  IN IF showsOther /\ OtherMonth(there, s.grid) THEN Shown(k, fdow, el)
     ELSE [date |-> k, grid |-> s.grid, el |-> el]

ClickDay(p) ==
  /\ pressed = 0 /\ Enabled(CellDate(grid, fdow, p), grid)
  /\ Becomes(CellClick(State, p))
  /\ UNCHANGED <<fdow, showsOther, pressed, combo>>

(* cellClick of a button: the month before or after keeps the day, or      *)
(* takes the month's last one.                                             *)
ToMonth(n, m) ==
  SetMonth(IF Day(n) > MonthDays(Year(n), m) THEN SetDay(n, MonthDays(Year(n), m)) ELSE n, m)
NavDate(nav) ==
  LET y == Year(date)
      m == Month(date)
  IN CASE nav = -2 -> IF y > MinYear THEN SetFullYear(date, y - 1) ELSE date
       [] nav = 2 -> IF y < MaxYear THEN SetFullYear(date, y + 1) ELSE date
       [] nav = -1 -> IF m > 0 THEN ToMonth(date, m - 1)
                      ELSE IF y > MinYear THEN ToMonth(SetFullYear(date, y - 1), 11)
                      ELSE date
       [] nav = 1 -> IF m < 11 THEN ToMonth(date, m + 1)
                     ELSE IF y < MaxYear THEN ToMonth(SetFullYear(date, y + 1), 0)
                     ELSE date

NavTo(nav) == SetDate(State, NavDate(nav))
Navigate(nav) == Becomes(NavTo(nav))

ClickToday ==
  /\ pressed = 0 /\ Today \notin Disabled
  /\ Becomes(SetDate(State, SetDateOnly(date, Today)))
  /\ UNCHANGED <<fdow, showsOther, pressed, combo>>

(* A click on the name of a weekday: setFirstDayOfWeek. *)
SetFirstDayOfWeek(f) ==
  /\ pressed = 0 /\ fdow' = f
  /\ Becomes(Shown(date, f, currentEl))
  /\ UNCHANGED <<showsOther, pressed, combo>>

-----------------------------------------------------------------------------
(* dayMouseDown on a button; 250 ms later its box opens. *)
Press(nav) ==
  /\ pressed = 0 /\ pressed' = nav
  /\ UNCHANGED <<date, fdow, grid, showsOther, currentEl, combo>>

YearsOffered(fwd) ==
  {y \in {Year(date) + (IF fwd THEN 1 ELSE -1) * (1 + 2 * i) : i \in 0..11} :
     y \in MinYear..MaxYear}
ShowCombo ==
  /\ pressed # 0 /\ combo = {}
  /\ combo' = IF pressed \in {-1, 1} THEN Months ELSE YearsOffered(pressed > 0)
  /\ UNCHANGED <<date, fdow, grid, showsOther, currentEl, pressed>>

(* tableMouseUp: over the button it is a click; over a month or a year of  *)
(* the box, that is set (the day is kept, so a month without it is         *)
(* skipped); anywhere else nothing.                                        *)
Released == pressed # 0 /\ pressed' = 0 /\ combo' = {} /\ UNCHANGED <<fdow, showsOther>>
ReleaseOnButton == Released /\ Navigate(pressed)
ReleaseOnMonth(m) ==
  Released /\ pressed \in {-1, 1} /\ m \in combo /\ Becomes(SetDate(State, SetMonth(date, m)))
ReleaseOnYear(y) ==
  /\ Released /\ pressed \in {-2, 2} /\ y \in combo
  /\ Becomes(SetDate(State, SetFullYear(date, y)))
ReleaseElsewhere == Released /\ UNCHANGED <<date, grid, currentEl>>

-----------------------------------------------------------------------------
(* _keyEvent.  An arrow goes to the neighbour of the current cell, or, when *)
(* there is none or it is disabled, to the date so many days away.         *)
Steps == [left |-> -1, up |-> -7, right |-> 1, down |-> 7]
Neighbour(p, k) == p + Steps[k]
ArrowTo(k) ==
  LET q == Neighbour(currentEl.pos, k)
      Away(s) == SetDate(s, s.date + Steps[k])
      s1 == IF q \in Cells THEN State ELSE Away(State)
      ne == IF q \in Cells THEN q ELSE s1.el.pos
  IN IF Enabled(CellDate(s1.grid, fdow, ne), s1.grid) THEN CellClick(s1, ne) ELSE Away(s1)
Arrow(k) == Becomes(ArrowTo(k)) /\ UNCHANGED <<fdow, showsOther, pressed, combo>>

(* Ctrl and an arrow are the buttons; Enter clicks the current cell.       *)
CtrlArrow(nav) == Navigate(nav) /\ UNCHANGED <<fdow, showsOther, pressed, combo>>
Enter ==
  Becomes(CellClick(State, currentEl.pos)) /\ UNCHANGED <<fdow, showsOther, pressed, combo>>

Next ==
  \/ \E p \in Cells : ClickDay(p)
  \/ ClickToday
  \/ \E f \in Fdows : SetFirstDayOfWeek(f)
  \/ \E nav \in {-2, -1, 1, 2} : Press(nav) \/ CtrlArrow(nav)
  \/ ShowCombo \/ ReleaseOnButton \/ ReleaseElsewhere
  \/ \E m \in Months : ReleaseOnMonth(m)
  \/ \E y \in MinYear..MaxYear : ReleaseOnYear(y)
  \/ \E k \in DOMAIN Steps : Arrow(k)
  \/ Enter

Spec == Init /\ [][Next]_vars
-----------------------------------------------------------------------------
(* The grid shows the month of the date, and the current cell is the one   *)
(* of the date.  Not so once the date is disabled: the current cell is     *)
(* then an earlier one, and Enter chooses the date it had, which may be of *)
(* a month the grid does not show.                                         *)
CurrentIsShown == CellDate(grid, fdow, currentEl.pos) = currentEl.caldate
CurrentIsDate ==
  /\ CurrentIsShown => grid = SetDay(date, 1)
  /\ grid = SetDay(date, 1) /\ date \notin Disabled => currentEl.caldate = date

(* An arrow goes exactly a day or a week, through months and years, from   *)
(* a date whose cell is the current one to one that is not disabled (there *)
(* it may go twice) and within the range (beyond its end the year is set   *)
(* back, nearly a year away).                                              *)
ArrowGoes ==
  currentEl.caldate = date /\ CurrentIsShown =>
    \A k \in DOMAIN Steps :
      InRange(date + Steps[k]) /\ date + Steps[k] \notin Disabled
        => ArrowTo(k).date = date + Steps[k]

(* The buttons of the month go to the next and the previous month, never   *)
(* past a short one.                                                       *)
MonthIndex(n) == 12 * Year(n) + Month(n)
ButtonGoes ==
  \A nav \in {-1, 1} :
    InRange(date + 31 * nav) => MonthIndex(NavTo(nav).date) = MonthIndex(date) + nav

(* A year chosen by a button, a key or the box keeps the month, and the    *)
(* day but for 29 February.                                                *)
YearKept ==
  \/ Month(date') = Month(date) /\ (Day(date') = Day(date) \/ Day(date') = 28)
  \/ ~\/ \E nav \in {-2, 2} : CtrlArrow(nav) \/ (pressed = nav /\ ReleaseOnButton)
      \/ \E y \in MinYear..MaxYear : ReleaseOnYear(y)

(* The number shown before a week is that of ISO 8601, in winter and in    *)
(* summer: the Thursdays of its year up to its own.                        *)
WeekNumberIsIso ==
  LET thursday == date - (date % 7) + 3
  IN WeekNumber(date) = (thursday - DateOf(Year(thursday), 0, 1)) \div 7 + 1

(* The day of the year, but in summer, when getDayOfYear is one behind.    *)
DayOfYearCounts ==
  ~Summer(date) => DayOfYear(date) = date - DateOf(Year(date), 0, 1) + 1

(* A date printed in one of the formats and read back is the same date,    *)
(* if its two digits of a year can be those of its century.                *)
PrintedIsParsed ==
  \A f \in Formats :
    f[3] # "%y" \/ Year(date) \in 1930..2029 => ParseDate(PrintDate(date, f), f, Today) = date
=============================================================================
