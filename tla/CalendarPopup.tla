--------------------------- MODULE CalendarPopup ---------------------------
(***************************************************************************)
(* Calendar.setup: fields of a page that share the popup calendar          *)
(* (window.calendar).  Clicks and keys of the calendar are the ones of     *)
(* module Calendar, reduced to what they do to the date, to dateClicked    *)
(* and to the two handlers: only clicks call the selected handler.         *)
(***************************************************************************)

CONSTANTS
  Fields, Dates, Today, None,  \* None: the field is empty
  Disabled                     \* dates that may not be chosen

VARIABLES
  electric, singleClick, cache,  \* the parameters, the same for every field
  value,        \* of every field
  exists,       \* window.calendar is there
  date,         \* its date
  dateClicked,
  marked,       \* it has a current cell (currentDateEl)
  params,       \* the field its params are of
  visible,      \* it is shown
  listening,    \* _keyEvent and _checkCalendar hear the document
  chosen,       \* (history) a day was chosen since the calendar was opened
  opened,       \* (history) the field's value at that time
  lagging       \* (history) the date moved without a call of the handler

paramVars == <<electric, singleClick, cache>>
vars == <<paramVars, value, exists, date, dateClicked, marked, params, visible, listening,
          chosen, opened, lagging>>

(* Values; and a calendar is shown only when there is one, at a date also  *)
(* when the field was empty.                                               *)
PopupTypeOK ==
  /\ {electric, singleClick, cache, exists, dateClicked, marked, visible, listening} \subseteq BOOLEAN
  /\ value \in [Fields -> Dates \cup {None}] /\ date \in Dates
  /\ params \in Fields /\ (visible => exists)

Init ==
  /\ electric \in BOOLEAN /\ singleClick \in BOOLEAN /\ cache \in BOOLEAN
  /\ value \in [Fields -> Dates \cup {None}] /\ exists = FALSE /\ date = Today
  /\ dateClicked = FALSE /\ marked = FALSE /\ params \in Fields /\ visible = FALSE /\ listening = FALSE
  /\ chosen = FALSE /\ opened = None /\ lagging = FALSE

Hidden == visible' = FALSE /\ listening' = FALSE

(* _init for another date: its cell is the current one unless it may not   *)
(* be chosen; then the cell that was stays.                                *)
Redrawn(d) == marked' = (marked \/ (d # date /\ d \notin Disabled))

(* A click on the trigger of a field.  Its mousedown closes a popup that   *)
(* is open (_checkCalendar).  The click makes a new calendar at the date   *)
(* of the field, today if it is empty, or brings the one that is cached    *)
(* there, and shows it.                                                    *)
ReusedMutant(f) == date
Reused(f) == IF value[f] = None THEN Today ELSE value[f]
Trigger(f) ==
  /\ exists' = TRUE /\ params' = f
  /\ date' = IF exists /\ cache THEN Reused(f)
             ELSE IF value[f] = None THEN Today ELSE value[f]
  /\ dateClicked' = (exists /\ cache /\ dateClicked)
  /\ marked' = ((exists /\ cache /\ marked) \/ date' \notin Disabled)
  /\ visible' = TRUE /\ listening' = TRUE
  /\ chosen' = FALSE /\ opened' = value[f] /\ lagging' = (value[f] # date')
  /\ UNCHANGED <<paramVars, value>>

(* callHandler: onSelect updates the field of cal.params, and closes the   *)
(* calendar after a click on a day.  The calendar closes too when the      *)
(* clicked cell was the current one (closing).                             *)
FieldOf == params
Update(clicked) == clicked \/ electric
Selected(d, clicked, closing) ==
  /\ date' = d /\ dateClicked' = clicked
  /\ value' = IF Update(clicked) THEN [value EXCEPT ![FieldOf] = d] ELSE value
  /\ lagging' = FALSE
  /\ IF closing \/ (clicked /\ singleClick) THEN Hidden ELSE UNCHANGED <<visible, listening>>
  /\ UNCHANGED <<paramVars, exists, params, opened>>

(* A day of the month shown, or of another month.  It closes the calendar  *)
(* when its cell was the current one, the date's or one left from a date   *)
(* before; with no current cell a day of the month shown is set without    *)
(* the handler.                                                            *)
SetOnly(d, clicked) ==
  /\ date' = d /\ dateClicked' = clicked /\ lagging' = (lagging \/ d # date)
  /\ UNCHANGED <<paramVars, value, exists, params, chosen, opened>>

ClickDay(d, other) ==
  /\ visible /\ d \notin Disabled /\ (other => d # date)
  /\ IF marked \/ other
     THEN \E closing \in IF marked /\ date \in Disabled THEN BOOLEAN ELSE {d = date} :
            chosen' = (chosen \/ ~other) /\ Selected(d, ~other, closing)
     ELSE SetOnly(d, TRUE) /\ UNCHANGED <<visible, listening>>
  /\ IF other THEN Redrawn(d) ELSE UNCHANGED marked

(* A button, a box or the time: no date is clicked. *)
NavClickedMutant == dateClicked
NavClicked == FALSE
Navigate(d) ==
  visible /\ d # date /\ Selected(d, NavClicked, FALSE) /\ Redrawn(d) /\ UNCHANGED chosen
ClickToday ==
  /\ visible /\ Today \notin Disabled
  /\ Selected(Today, NavClicked, date = Today) /\ Redrawn(Today) /\ UNCHANGED chosen

(* An arrow starts at the current cell; it clicks a cell or sets the date, *)
(* without the handlers.                                                   *)
Arrow(d) ==
  /\ listening /\ marked /\ d # date
  /\ \E clicked \in BOOLEAN : SetOnly(d, clicked)
  /\ UNCHANGED <<marked, visible, listening>>

CtrlArrow(d) ==
  listening /\ SetOnly(d, FALSE) /\ Redrawn(d) /\ UNCHANGED <<visible, listening>>

(* Enter clicks the current cell, and it closes the calendar: the date's,  *)
(* or, when that may not be chosen, a cell left from a date before, which  *)
(* has a day of the month shown, of another month (other) or none that may *)
(* be chosen (disabled: no handler).                                       *)
Enter(d, other, disabled) ==
  /\ listening /\ marked /\ (other => d # date)
  /\ date \notin Disabled => d = date /\ ~disabled
  /\ IF disabled
     THEN SetOnly(d, ~other) /\ Hidden
     ELSE chosen' = (chosen \/ ~other) /\ Selected(d, ~other, TRUE)
  /\ IF other THEN Redrawn(d) ELSE UNCHANGED marked

(* Escape, the close button, or a click outside: callCloseHandler. *)
ListeningAfter == FALSE
Close ==
  /\ visible /\ visible' = FALSE /\ listening' = ListeningAfter
  /\ UNCHANGED <<paramVars, value, exists, date, dateClicked, marked, params, chosen, opened, lagging>>

Next ==
  \/ \E f \in Fields : Trigger(f)
  \/ \E d \in Dates : Navigate(d) \/ Arrow(d) \/ CtrlArrow(d)
  \/ \E d \in Dates, other \in BOOLEAN :
       ClickDay(d, other) \/ \E disabled \in BOOLEAN : Enter(d, other, disabled)
  \/ ClickToday \/ Close

Spec == Init /\ [][Next]_vars
-----------------------------------------------------------------------------
(* A field changes only while the calendar is open for it, to the date of  *)
(* the calendar: the fields share one calendar and one handler.            *)
OwnField ==
  [][\A f \in Fields : value'[f] # value[f] =>
       visible /\ params = f /\ value'[f] = date' /\ params' = f]_vars

(* The calendar opens at the date of its field, the cached one too. *)
OpensAtField ==
  [][~visible /\ visible' => date' = IF value[params'] = None THEN Today ELSE value[params']]_vars

(* Keys move the calendar exactly while it is shown. *)
ListensWhenVisible == listening = visible

(* Without "electric" a field keeps its value until a day is chosen, by a  *)
(* click or by Enter, whatever buttons and keys moved the date before.     *)
NothingChosen == exists /\ ~electric /\ ~chosen => value[params] = opened

(* An "electric" field shows the date of the calendar, unless keys have    *)
(* moved it since: they do not call the handler.                           *)
ElectricFollows == exists /\ electric /\ ~lagging => value[params] = date

(* "otherwise they're updated only on close" (calendar-setup.js, of a      *)
(* calendar that is not electric): not so, a click on a day updates the    *)
(* field whether or not it closes the calendar.                            *)
UpdatedOnClose == [][~electric /\ value' # value => visible /\ ~visible']_vars
=============================================================================
