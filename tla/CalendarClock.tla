--------------------------- MODULE CalendarClock ---------------------------
(***************************************************************************)
(* The time of the calendar: the texts of the hour and of am/pm, which the *)
(* user clicks or drags, and the hour of cal.date.  (The minutes are like  *)
(* the hour on a clock of 24 hours and left out.)                          *)
(***************************************************************************)
EXTENDS Integers

VARIABLES
  t12,      \* a clock of twelve hours (not time24)
  hours,    \* of cal.date 
  H, AP,    \* the texts
  current   \* one more than the hour's text when the mouse was pressed on it,
            \* 0 while it is not

vars == <<t12, hours, H, AP, current>>

Hours == IF t12 THEN 1..12 ELSE 0..23
(* The texts are those of the clock's range. *)
ClockTypeOK ==
  /\ t12 \in BOOLEAN /\ hours \in 0..23 /\ H \in Hours /\ AP \in {"am", "pm"}
  /\ current \in 0..24

(* onSetTime: the texts of an hour. *)
ShownHour(h) ==
  LET k == IF t12 /\ h >= 12 THEN h - 12 ELSE h IN IF t12 /\ k = 0 THEN 12 ELSE k
ShownHalf(h) == IF t12 /\ h >= 12 THEN "pm" ELSE "am"

(* onUpdateTime: the hour of the texts. *)
HourOf(h, ap) ==
  IF t12 /\ ap = "pm" /\ h < 12 THEN h + 12 ELSE IF t12 /\ ap = "am" /\ h = 12 THEN 0 ELSE h

Init ==
  /\ t12 \in BOOLEAN /\ hours \in 0..23
  /\ H = ShownHour(hours) /\ AP = ShownHalf(hours) /\ current = 0

First == IF t12 THEN 1 ELSE 0
Size == IF t12 THEN 12 ELSE 24
Moved(h, n) == First + ((h - First + n) % Size)

(* A click takes the next text of the range, with shift the previous one.  *)
ClickHour(shift) ==
  /\ current = 0
  /\ H' = Moved(H, IF shift THEN Size - 1 ELSE 1)
  /\ hours' = HourOf(H', AP) /\ UNCHANGED <<t12, AP, current>>

ClickHalf ==
  /\ t12 /\ current = 0 /\ AP' = IF AP = "am" THEN "pm" ELSE "am"
  /\ hours' = HourOf(H, AP') /\ UNCHANGED <<t12, H, current>>

(* dayMouseDown, and tableMouseOver: so many texts from the first one.     *)
Press == current = 0 /\ current' = H + 1 /\ UNCHANGED <<t12, hours, H, AP>>
Drag(n) ==
  /\ current # 0
  /\ H' = Moved(current - 1, n) /\ hours' = HourOf(H', AP) /\ UNCHANGED <<t12, AP, current>>
Release == current # 0 /\ current' = 0 /\ UNCHANGED <<t12, hours, H, AP>>

(* The date is set to another hour (a date parsed, today): onSetTime. *)
SetTime(h) ==
  /\ current = 0 /\ hours' = h /\ H' = ShownHour(h) /\ AP' = ShownHalf(h)
  /\ UNCHANGED <<t12, current>>

Next ==
  \/ \E shift \in BOOLEAN : ClickHour(shift)
  \/ ClickHalf \/ Press \/ Release
  \/ \E n \in 0..23 : Drag(n) \/ SetTime(n)

Spec == Init /\ [][Next]_vars
-----------------------------------------------------------------------------
(* The texts and the hour of the date say the same time, whichever of them *)
(* was changed: midnight is 12 am, noon 12 pm.                             *)
ClockAgrees == H = ShownHour(hours) /\ (t12 => AP = ShownHalf(hours))
=============================================================================
