------------------------------ MODULE CmsPanel ------------------------------
(***************************************************************************)
(* The control panel's pages (cp.js): the filter form that is moved        *)
(* between a box before the list and one behind it, the sidebar, and the   *)
(* light version, in tabs that share one cookie.  The cookie is a list of  *)
(* names; its names are looked up as regular expressions, so a URL with a  *)
(* query never is found and is added again and again.  The pages are of    *)
(* one directory, for which the browser keeps one cookie.                  *)
(***************************************************************************)
EXTENDS Naturals, FiniteSets

CONSTANTS
  Tabs,
  Plain, Query,  \* URLs without and with a query
  MaxNames       \* names the browser takes in a cookie

Sidebar == "hiddenLimbSidebar"
Light == "lightLimbVersion"
Boxes == {"main", "clone"}
Away == "away"

VARIABLES
  names, spare,   \* the cookie: names, and how many of URLs with a query
  url,            \* of each tab
  light, hidden,  \* of each tab's page: made in the light version, hiddenSidebar
  open, form,     \* boxes not closed, and the box the form is in
  refused,        \* (history) the browser refused a cookie
  crossed,        \* (history) URLs whose filter was moved open, or used in two tabs
  told            \* (history) tabs whose sidebar is as the cookie was told last

vars == <<names, spare, url, light, hidden, open, form, refused, crossed, told>>
page == <<url, light>>

PanelTypeOK ==
  /\ names \subseteq Plain \cup {Sidebar, Light} /\ Cardinality(names) + spare <= MaxNames
  /\ url \in [Tabs -> Plain \cup Query \cup {Away}]
  /\ light \in [Tabs -> BOOLEAN] /\ hidden \in [Tabs -> BOOLEAN]
  /\ open \in [Tabs -> SUBSET Boxes] /\ form \in [Tabs -> Boxes]

Init ==
  /\ names = {} /\ spare = 0 /\ url = [t \in Tabs |-> Away]
  /\ light = [t \in Tabs |-> FALSE] /\ hidden = light
  /\ open = [t \in Tabs |-> {}] /\ form = [t \in Tabs |-> "main"]
  /\ refused = FALSE /\ crossed = {} /\ told = {}

-----------------------------------------------------------------------------
(* CMS.cookie.  A cookie that has become too long is not taken.            *)
Stored(S, n) ==
  IF Cardinality(S) + n <= MaxNames
    THEN names' = S /\ spare' = n /\ UNCHANGED refused
    ELSE refused' = TRUE /\ UNCHANGED <<names, spare>>
SetName(n) == IF n \in Query THEN Stored(names, spare + 1) ELSE Stored(names \cup {n}, spare)
RemoveName(n) == Stored(names \ {n}, spare)
FlipName(n) == IF n \in names THEN RemoveName(n) ELSE SetName(n)

(* The page of a tab is made: what the cookie does not name is closed.     *)
Made(t, u, S) ==
  /\ url' = [url EXCEPT ![t] = u]
  /\ light' = [light EXCEPT ![t] = Light \in S]
  /\ hidden' = [hidden EXCEPT ![t] = Light \notin S /\ Sidebar \in S]
  /\ open' = [open EXCEPT ![t] = IF Light \in S \/ u \in S THEN {"main"} ELSE {}]
  /\ form' = [form EXCEPT ![t] = "main"]
  /\ told' = IF Light \in S THEN told \ {t} ELSE told \cup {t}

Visit(t, u) ==
  /\ Made(t, u, names) /\ UNCHANGED <<names, spare, refused>>
  /\ crossed' = IF \E s \in Tabs \ {t} : url[s] = u THEN crossed ELSE crossed \ {u}

(* toggle of the light version: the page is loaded again.                  *)
ToggleLight(t) ==
  /\ url[t] # Away /\ FlipName(Light)
  /\ Made(t, url[t], names')
  /\ crossed' = IF \E s \in Tabs \ {t} : url[s] = url[t] THEN crossed ELSE crossed \ {url[t]}

(* openFilter: the click turns its own box; a form in the other box closes *)
(* that and comes over.                                                    *)
Turned(t, b) == IF b \in open[t] THEN open[t] \ {b} ELSE (open[t] \ {form[t]}) \cup {b}

(* setFilterCookie.  As a mutant the cookie only is set.                   *)
FilterCookieMutant(u) == SetName(u)
FilterCookie(u) == FlipName(u)

ClickFilter(t, b) ==
  /\ url[t] # Away /\ ~light[t]
  /\ open' = [open EXCEPT ![t] = Turned(t, b)]
  /\ form' = [form EXCEPT ![t] = b]
  /\ FilterCookie(url[t])
  /\ crossed' = IF (form[t] # b /\ form[t] \in open[t]) \/ (\E s \in Tabs \ {t} : url[s] = url[t])
                  THEN crossed \cup {url[t]} ELSE crossed
  /\ UNCHANGED <<url, light, hidden, told>>

(* toggleSidebar: the cookie follows what the page shows.                  *)
ClickSidebar(t) ==
  /\ url[t] # Away /\ ~light[t]
  /\ hidden' = [hidden EXCEPT ![t] = ~hidden[t]]
  /\ IF hidden[t] THEN RemoveName(Sidebar) ELSE SetName(Sidebar)
  /\ told' = {t}
  /\ UNCHANGED <<url, light, open, form, crossed>>

Next == \E t \in Tabs :
  \/ \E u \in Plain \cup Query : Visit(t, u)
  \/ ToggleLight(t)
  \/ \E b \in Boxes : ClickFilter(t, b)
  \/ ClickSidebar(t)

Spec == Init /\ [][Next]_vars

-----------------------------------------------------------------------------
(* Of the two boxes the one with the form is open, or none.                *)
OneOpen == \A t \in Tabs : open[t] \subseteq {form[t]}

(* As long as the browser takes the cookie: it says of a filter whether it *)
(* is shown, unless the open form was moved to the other box, or tabs with *)
(* the same page were used in turn; and it says of the sidebar what the    *)
(* tab shows that hid or showed it last.                                   *)
Remembered == ~refused =>
  \A t \in Tabs : url[t] # Away /\ ~light[t] =>
    /\ url[t] \in Plain \ crossed => (url[t] \in names <=> open[t] # {})
    /\ t \in told => (hidden[t] <=> Sidebar \in names)
=============================================================================
