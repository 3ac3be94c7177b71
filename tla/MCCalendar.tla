----------------------------- MODULE MCCalendar -----------------------------
(***************************************************************************)
(* The parts of the calendar library, each by itself: the grid of days     *)
(* with the arithmetic of dates (module Calendar), the popup that fields   *)
(* share, the clock, and the three boxes of datewidget.js.                 *)
(***************************************************************************)
EXTENDS Calendar
CONSTANTS
  PopupFields, PopupDates, PopupToday, PopupDisabled, Empty,
  FirstYear, LastYear, PageDates, ChosenMonths, ChosenDays, MaxTimers  \* of the boxes

VARIABLES
  part,  \* the part that runs
  electric, singleClick, cache, value, exists, popupDate, dateClicked, marked, params, visible,
  listening, chosen, opened, lagging,
  t12, hours, H, AP, pressedHour,
  show_default, yearOf, monthOf, dayOf, year_select, month_select, day_select, days,
  timers, control, own

popupVars == <<electric, singleClick, cache, value, exists, popupDate, dateClicked, marked,
               params, visible, listening, chosen, opened, lagging>>
clockVars == <<t12, hours, H, AP, pressedHour>>
widgetVars == <<show_default, yearOf, monthOf, dayOf, year_select, month_select, day_select,
                days, timers, control, own>>
MCvars == <<vars, part, popupVars, clockVars, widgetVars>>

MCDisabled == {DateOf(2020, 1, 29), DateOf(2020, 4, 4), DateOf(2020, 4, 5)}
MCToday == DateOf(2020, 11, 31)
MCPageDates == {<<2019, 12, 31>>, <<2018, 12, 31>>}

Popup == INSTANCE CalendarPopup
           WITH Fields <- PopupFields, Dates <- PopupDates, Today <- PopupToday,
                Disabled <- PopupDisabled, None <- Empty, date <- popupDate
Clock == INSTANCE CalendarClock WITH current <- pressedHour
Widget == INSTANCE DateWidget
            WITH MinYear <- FirstYear, MaxYear <- LastYear, Starts <- PageDates,
                 Months <- ChosenMonths, Days <- ChosenDays,
                 year <- yearOf, month <- monthOf, day <- dayOf

\* Today is a date and "no date" is none; some years are offered, and each of them that
\* is a century's first is a leap year (the boxes take every fourth year for one); the
\* page's date is one of the civil calendar, of any year.  (Date takes a year below 100
\* for one of the 1900s.)
CalendarAssumption ==
  /\ PopupToday \in PopupDates /\ Empty \notin PopupDates
  /\ FirstYear \in Nat /\ LastYear \in Nat /\ 100 <= FirstYear /\ FirstYear <= LastYear
  /\ \A y \in FirstYear..LastYear : y % 100 = 0 => y % 400 = 0
  /\ ChosenMonths \subseteq 1..12 /\ MaxTimers \in Nat
  /\ \A s \in PageDates : /\ s[1] \in Nat /\ 100 <= s[1] /\ s[2] \in 1..12
                          /\ s[3] \in 1..Widget!DaysIn(s[1], s[2])
ASSUME CalendarConstants == CalendarAssumption

(* The parts that do not run start in one way only. *)
MCInit ==
  /\ part \in {"grid", "popup", "clock", "widget"}
  /\ Init /\ (part # "grid" => fdow = 0 /\ ~showsOther)
  /\ Popup!Init
  /\ part # "popup" => /\ ~electric /\ ~singleClick /\ ~cache /\ params = CHOOSE f \in PopupFields : TRUE
                      /\ value = [f \in PopupFields |-> Empty]
  /\ Clock!Init /\ (part # "clock" => ~t12 /\ hours = 0)
  /\ Widget!Init /\ (part # "widget" => ~show_default /\ control = <<>> /\ own = {})

MCNext ==
  /\ UNCHANGED part
  /\ \/ part = "grid" /\ Next /\ UNCHANGED <<popupVars, clockVars, widgetVars>>
     \/ part = "popup" /\ Popup!Next /\ UNCHANGED <<vars, clockVars, widgetVars>>
     \/ part = "clock" /\ Clock!Next /\ UNCHANGED <<vars, popupVars, widgetVars>>
     \/ part = "widget" /\ Widget!Next /\ UNCHANGED <<vars, popupVars, clockVars>>

MCSpec == MCInit /\ [][MCNext]_MCvars

\* The cell that is marked, and that Enter and the arrows start from, is the date's, and
\* an arrow or a button leads to the day, week or month beside it; weeks, days of the
\* year and printed dates are those of the civil calendar.  (What does not depend on the
\* button held down, or on the layout, is looked at once.)
GridAgrees == part = "grid" =>
  /\ CalendarTypeOK /\ CurrentIsDate
  /\ pressed = 0 => ArrowGoes /\ ButtonGoes
  /\ pressed = 0 /\ fdow = 0 /\ ~showsOther =>
       WeekNumberIsIso /\ DayOfYearCounts /\ PrintedIsParsed

\* Another year, by button, key or box, is the same month of that year.
GridSteps == [][part = "grid" => YearKept]_vars

\* A popup reads and writes the field it was opened for.
PopupSteps == Popup!OwnField /\ Popup!OpensAtField

\* A popup listens while it is seen, and a field gets the dates its user means; the
\* clock shows the hour, and the three boxes the date, that is stored.
PartsAgree ==
  /\ Popup!PopupTypeOK
  /\ Popup!ListensWhenVisible /\ Popup!NothingChosen /\ Popup!ElectricFollows
  /\ Clock!ClockTypeOK /\ Clock!ClockAgrees
  /\ Widget!WidgetTypeOK /\ Widget!FieldIsBoxes

\* What the library's texts say and its code does not do: a field that is not electric is
\* updated only on close; the boxes show the date of the field.
OnClose == Popup!UpdatedOnClose
EnterDate == Widget!BoxesEnterDate
=============================================================================
