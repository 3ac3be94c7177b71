------------------------------ MODULE Accordion ------------------------------
(***************************************************************************)
(* The accordions of the control panel: a click slides up every panel that *)
(* is seen and slides down its own.  Panels are seen while they slide, and *)
(* what a click asks of a panel that slides waits for the end of that.     *)
(***************************************************************************)
EXTENDS Naturals

CONSTANT N    \* panels, from the top
Panels == 1..N

VARIABLE panel  \* state of each panel
vars == <<panel>>

Visible == {p \in Panels : panel[p] # "hidden"}

AccordionTypeOK ==
  panel \in [Panels -> {"hidden", "opening", "open", "closing", "reversing"}]

(* One panel, if any, slides down as the page is made.                     *)
Init == \E p \in 0..N : panel = [q \in Panels |-> IF q = p THEN "opening" ELSE "hidden"]

-----------------------------------------------------------------------------
SlideUp(s) ==
  CASE s = "open" -> "closing"
    [] s = "opening" -> "reversing"
    [] OTHER -> s

(* current: the panels that a click slides up.  As a mutant the first.     *)
CurrentMutant == {p \in Visible : \A q \in Visible : p <= q}
Current == Visible

(* A click on the first panel that is seen does nothing.                   *)
Click(p) ==
  /\ \E q \in Visible \cup {N + 1} : q # p /\ \A r \in Visible : q <= r
  /\ panel' = [q \in Panels |->
       CASE q = p /\ p \notin Visible -> "opening"
         [] q = p \/ q \in Current -> SlideUp(panel[q])
         [] OTHER -> panel[q]]

(* The end of a slide, where what waited for it begins.  As a mutant what   *)
(* waited is forgotten.                                                     *)
SlidMutant(s) == IF s = "closing" THEN "hidden" ELSE "open"
Slid(s) ==
  CASE s = "opening" -> "open"
    [] s = "closing" -> "hidden"
    [] s = "reversing" -> "closing"
SlideEnds(p) == panel[p] \notin {"hidden", "open"} /\ panel' = [panel EXCEPT ![p] = Slid(@)]

Next == \E p \in Panels : Click(p) \/ SlideEnds(p)
Spec == Init /\ [][Next]_vars /\ \A p \in Panels : WF_vars(SlideEnds(p))

-----------------------------------------------------------------------------
(* However fast one clicks, one panel at most is open or to be open when   *)
(* the sliding is over.                                                    *)
OneStaysOpen ==
  \A p, q \in Panels : {panel[p], panel[q]} \subseteq {"open", "opening"} => p = q

(* A panel that was told to close is hidden some time.                     *)
Closes == \A p \in Panels :
  panel[p] \in {"closing", "reversing"} ~> panel[p] = "hidden"
=============================================================================
