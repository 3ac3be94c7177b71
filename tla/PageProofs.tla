----------------------------- MODULE PageProofs -----------------------------
(***************************************************************************)
(* Theorems about the scripts of limb's pages, for any tabs, URLs, panels, *)
(* elements, rows and classes, and any sequence of clicks, answers and     *)
(* timers: what a filter, an accordion, an upload, a window, a list and a  *)
(* chain of classes keep agrees with what they show or have called.        *)
(* Every part has an invariant of its own, which its steps keep; the last  *)
(* theorems put the parts together as the module MCPageWidgets does.       *)
(***************************************************************************)
EXTENDS MCPageWidgets, OrderingProofs, SequencesExt, FiniteSetTheorems, SequenceTheorems,
        WellFoundedInduction, TLAPS

-----------------------------------------------------------------------------
(* The control panel's pages.                                              *)
PanelInv == PanelTypeOK /\ OneOpen /\ Remembered

\* Nothing is kept or shown at first.
LEMMA PanelInit == Init => PanelInv
<1> SUFFICES ASSUME Init PROVE PanelInv
  OBVIOUS
<1>1. Cardinality({}) = 0
  BY FS_EmptySet
<1>2. PanelTypeOK
  BY <1>1, PageAssumption DEF Init, PanelTypeOK, Boxes
<1> QED BY <1>2 DEF Init, PanelInv, OneOpen, Remembered

\* A cookie that is taken has been found short enough.
LEMMA StoredFits ==
  ASSUME Cardinality(names) + spare <= MaxNames, NEW S, NEW n, Stored(S, n)
  PROVE  /\ Cardinality(names') + spare' <= MaxNames
         /\ refused => refused'
         /\ names' = S \/ (refused' /\ names' = names)
BY DEF Stored

\* A page that is made shows its filter and its sidebar as the cookie says.
LEMMA PanelMade ==
  ASSUME PanelInv, NEW t \in Tabs, NEW u \in Plain \cup Query, Made(t, u, names'),
         Cardinality(names') + spare' <= MaxNames, names' \subseteq Plain \cup {Sidebar, Light},
         refused' \/ \A n \in Plain \cup {Sidebar} : n \in names <=> n \in names',
         refused => refused',
         crossed' = IF \E s \in Tabs \ {t} : url[s] = u THEN crossed ELSE crossed \ {u}
  PROVE  PanelInv'
<1>1. PanelTypeOK'
  BY DEF PanelInv, PanelTypeOK, Made, Boxes
<1>2. OneOpen'
  BY DEF PanelInv, PanelTypeOK, OneOpen, Made, Boxes
<1>3. ASSUME ~refused', NEW s \in Tabs, url'[s] # Away, ~light'[s]
      PROVE  /\ url'[s] \in Plain \ crossed' => (url'[s] \in names' <=> open'[s] # {})
             /\ s \in told' => (hidden'[s] <=> Sidebar \in names')
  <2>1. CASE s = t
    BY <1>3, <2>1, PageAssumption DEF PanelInv, PanelTypeOK, Made
  <2>2. CASE s # t
    <3>1. /\ url'[s] = url[s] /\ light'[s] = light[s] /\ hidden'[s] = hidden[s]
          /\ open'[s] = open[s] /\ (s \in told' => s \in told)
      BY <2>2 DEF PanelInv, PanelTypeOK, Made
    <3>2. url[s] \notin crossed' => url[s] \notin crossed
      BY <2>2
    <3> QED BY <1>3, <3>1, <3>2 DEF PanelInv, Remembered
  <2> QED BY <2>1, <2>2
<1> QED BY <1>1, <1>2, <1>3 DEF PanelInv, Remembered

\* A visit changes no name, and the light version only its own.
LEMMA PanelVisit ==
  ASSUME PanelInv, NEW t \in Tabs,
         ToggleLight(t) \/ \E u \in Plain \cup Query : Visit(t, u)
  PROVE  PanelInv'
<1>1. ASSUME NEW u \in Plain \cup Query, Visit(t, u) PROVE PanelInv'
  <2>1. /\ names' = names /\ spare' = spare /\ refused' = refused
    BY <1>1 DEF Visit
  <2>2. /\ Cardinality(names) + spare <= MaxNames /\ names \subseteq Plain \cup {Sidebar, Light}
    BY DEF PanelInv, PanelTypeOK
  <2> QED BY <1>1, <2>1, <2>2, PanelMade DEF Visit
<1>2. CASE ToggleLight(t)
  <2>1. Light \notin Plain \cup Query \cup {Sidebar}
    BY PageAssumption DEF Light, Sidebar
  <2>2. \E S : /\ S \in {names \cup {Light}, names \ {Light}} /\ Stored(S, spare)
    BY <1>2, <2>1 DEF ToggleLight, FlipName, SetName, RemoveName
  <2>3. /\ Cardinality(names) + spare <= MaxNames /\ names \subseteq Plain \cup {Sidebar, Light}
    BY DEF PanelInv, PanelTypeOK
  <2>4. /\ Cardinality(names') + spare' <= MaxNames /\ (refused => refused')
        /\ names' \subseteq Plain \cup {Sidebar, Light}
        /\ refused' \/ \A n \in Plain \cup {Sidebar} : n \in names <=> n \in names'
    BY <2>1, <2>2, <2>3, StoredFits
  <2>5. url[t] \in Plain \cup Query
    BY <1>2 DEF ToggleLight, PanelInv, PanelTypeOK
  <2> QED BY <1>2, <2>4, <2>5, PanelMade DEF ToggleLight
<1> QED BY <1>1, <1>2

\* A click on a filter turns both the filter and its name in the cookie.
LEMMA PanelFilter ==
  ASSUME PanelInv, NEW t \in Tabs, NEW b \in Boxes, ClickFilter(t, b)
  PROVE  PanelInv'
<1> USE DEF PanelInv
<1>1. /\ url[t] \in Plain \cup Query /\ url[t] \notin {Sidebar, Light} /\ ~light[t]
      /\ open[t] \subseteq {form[t]} /\ form[t] \in Boxes
  BY PageAssumption DEF ClickFilter, PanelTypeOK, OneOpen, Sidebar, Light
<1>2. /\ Turned(t, b) \subseteq {b} /\ Turned(t, b) \subseteq Boxes
      /\ (form[t] = b \/ form[t] \notin open[t]) => (Turned(t, b) = {} <=> open[t] # {})
  BY <1>1 DEF Turned
<1>3. /\ open' = [open EXCEPT ![t] = Turned(t, b)] /\ form' = [form EXCEPT ![t] = b]
      /\ UNCHANGED <<url, light, hidden, told>> /\ FlipName(url[t])
  BY DEF ClickFilter, FilterCookie
<1>4. CASE url[t] \in names
  <2>1. Stored(names \ {url[t]}, spare)
    BY <1>3, <1>4 DEF FlipName, RemoveName
  <2>2. /\ Cardinality(names') + spare' <= MaxNames /\ (refused => refused')
        /\ names' = names \ {url[t]} \/ (refused' /\ names' = names)
    BY <2>1, StoredFits DEF PanelTypeOK
  <2>3. PanelTypeOK' /\ OneOpen'
    BY <1>1, <1>2, <1>3, <2>2 DEF PanelTypeOK, OneOpen
  <2>4. Remembered'
    <3> SUFFICES ASSUME ~refused', NEW s \in Tabs, url[s] # Away, ~light[s]
                 PROVE  /\ url[s] \in Plain \ crossed' => (url[s] \in names' <=> open'[s] # {})
                        /\ s \in told => (hidden[s] <=> Sidebar \in names')
      BY <1>3 DEF Remembered
    <3>1. /\ names' = names \ {url[t]}
          /\ url[s] \in Plain \ crossed => (url[s] \in names <=> open[s] # {})
          /\ s \in told => (hidden[s] <=> Sidebar \in names)
      BY <2>2 DEF Remembered
    <3>2. CASE s = t
      <4>1. open'[t] = Turned(t, b)
        BY <1>3 DEF PanelTypeOK
      <4>2. url[t] \notin crossed' =>
              url[t] \notin crossed /\ (form[t] = b \/ form[t] \notin open[t])
        BY DEF ClickFilter
      <4>3. url[t] \in Plain \ crossed' => open'[t] = {}
        BY <1>2, <1>4, <3>1, <3>2, <4>1, <4>2
      <4>4. url[t] \notin names' /\ (Sidebar \in names' <=> Sidebar \in names)
        BY <1>1, <3>1
      <4> QED BY <3>1, <3>2, <4>3, <4>4
    <3>3. CASE s # t
      BY <1>1, <1>3, <3>1, <3>3 DEF ClickFilter, PanelTypeOK
    <3> QED BY <3>2, <3>3
  <2> QED BY <2>3, <2>4
<1>5. CASE url[t] \notin names /\ url[t] \in Plain
  <2>1. Stored(names \cup {url[t]}, spare)
    BY <1>3, <1>5, PageAssumption DEF FlipName, SetName
  <2>2. /\ Cardinality(names') + spare' <= MaxNames /\ (refused => refused')
        /\ names' = names \cup {url[t]} \/ (refused' /\ names' = names)
    BY <2>1, StoredFits DEF PanelTypeOK
  <2>3. PanelTypeOK' /\ OneOpen'
    BY <1>1, <1>2, <1>3, <1>5, <2>2 DEF PanelTypeOK, OneOpen
  <2>4. Remembered'
    <3> SUFFICES ASSUME ~refused', NEW s \in Tabs, url[s] # Away, ~light[s]
                 PROVE  /\ url[s] \in Plain \ crossed' => (url[s] \in names' <=> open'[s] # {})
                        /\ s \in told => (hidden[s] <=> Sidebar \in names')
      BY <1>3 DEF Remembered
    <3>1. /\ names' = names \cup {url[t]}
          /\ url[s] \in Plain \ crossed => (url[s] \in names <=> open[s] # {})
          /\ s \in told => (hidden[s] <=> Sidebar \in names)
      BY <2>2 DEF Remembered
    <3>2. CASE s = t
      BY <1>1, <1>2, <1>3, <1>5, <3>1, <3>2 DEF ClickFilter, PanelTypeOK
    <3>3. CASE s # t
      BY <1>1, <1>3, <1>5, <3>1, <3>3 DEF ClickFilter, PanelTypeOK
    <3> QED BY <3>2, <3>3
  <2> QED BY <2>3, <2>4
<1>6. CASE url[t] \notin names /\ url[t] \in Query
  <2>1. Stored(names, spare + 1)
    BY <1>3, <1>6 DEF FlipName, SetName
  <2>2. /\ Cardinality(names') + spare' <= MaxNames /\ (refused => refused')
        /\ names' = names
    BY <2>1, StoredFits DEF PanelTypeOK
  <2>3. PanelTypeOK' /\ OneOpen'
    BY <1>1, <1>2, <1>3, <2>2 DEF PanelTypeOK, OneOpen
  <2>4. url[t] \notin Plain
    BY <1>6, PageAssumption
  <2>5. Remembered'
    <3> SUFFICES ASSUME ~refused', NEW s \in Tabs, url[s] # Away, ~light[s]
                 PROVE  /\ url[s] \in Plain \ crossed' => (url[s] \in names <=> open'[s] # {})
                        /\ s \in told => (hidden[s] <=> Sidebar \in names)
      BY <1>3, <2>2 DEF Remembered
    <3>1. /\ url[s] \in Plain \ crossed => (url[s] \in names <=> open[s] # {})
          /\ s \in told => (hidden[s] <=> Sidebar \in names)
      BY <2>2 DEF Remembered
    <3> QED BY <1>3, <2>4, <3>1 DEF ClickFilter, PanelTypeOK
  <2> QED BY <2>3, <2>5
<1> QED BY <1>1, <1>4, <1>5, <1>6

\* The tab whose sidebar is turned is the one that the cookie follows.
LEMMA PanelSidebar ==
  ASSUME PanelInv, NEW t \in Tabs, ClickSidebar(t)
  PROVE  PanelInv'
<1> USE DEF PanelInv
<1>1. Sidebar \notin Plain \cup Query
  BY PageAssumption DEF Sidebar
<1>2. Stored(IF hidden[t] THEN names \ {Sidebar} ELSE names \cup {Sidebar}, spare)
  BY <1>1 DEF ClickSidebar, RemoveName, SetName
<1>3. /\ Cardinality(names') + spare' <= MaxNames /\ (refused => refused')
      /\ names' = (IF hidden[t] THEN names \ {Sidebar} ELSE names \cup {Sidebar})
         \/ (refused' /\ names' = names)
  BY <1>2, StoredFits DEF PanelTypeOK
<1>4. /\ hidden' = [hidden EXCEPT ![t] = ~hidden[t]] /\ told' = {t}
      /\ UNCHANGED <<url, light, open, form, crossed>>
  BY DEF ClickSidebar
<1>5. PanelTypeOK'
  BY <1>3, <1>4 DEF PanelTypeOK
<1>6. OneOpen' /\ Remembered'
  BY <1>1, <1>3, <1>4 DEF OneOpen, Remembered, PanelTypeOK
<1> QED BY <1>5, <1>6

\* Every step of a tab keeps the invariant.
LEMMA PanelStep == PanelInv /\ [Next]_vars => PanelInv'
<1> SUFFICES ASSUME PanelInv, [Next]_vars PROVE PanelInv'
  OBVIOUS
<1>1. ASSUME NEW t \in Tabs, NEW u \in Plain \cup Query, Visit(t, u) PROVE PanelInv'
  BY <1>1, PanelVisit
<1>2. ASSUME NEW t \in Tabs, ToggleLight(t) PROVE PanelInv'
  BY <1>2, PanelVisit
<1>3. ASSUME NEW t \in Tabs, NEW b \in Boxes, ClickFilter(t, b) PROVE PanelInv'
  BY <1>3, PanelFilter
<1>4. ASSUME NEW t \in Tabs, ClickSidebar(t) PROVE PanelInv'
  BY <1>4, PanelSidebar
<1>5. CASE UNCHANGED vars
  BY <1>5 DEF vars, PanelInv, PanelTypeOK, OneOpen, Remembered
<1> QED BY <1>1, <1>2, <1>3, <1>4, <1>5 DEF Next

-----------------------------------------------------------------------------
(* The accordion.  A panel is open or to be open after a step only if it   *)
(* was before, or it is the one that was clicked while it was not seen;    *)
(* then the click slid up every other.                                     *)
MenuInv == Menu!AccordionTypeOK /\ Menu!OneStaysOpen

LEMMA MenuInit == Menu!Init => MenuInv
BY DEF Menu!Init, MenuInv, Menu!AccordionTypeOK, Menu!OneStaysOpen, Menu!Panels

LEMMA MenuStep == MenuInv /\ [Menu!Next]_panel => MenuInv'
<1> SUFFICES ASSUME MenuInv, [Menu!Next]_panel PROVE MenuInv'
  OBVIOUS
<1> USE DEF MenuInv, Menu!AccordionTypeOK, Menu!OneStaysOpen
<1>1. ASSUME NEW p \in Menu!Panels, Menu!Click(p) PROVE MenuInv'
  <2>1. Menu!AccordionTypeOK'
    BY <1>1 DEF Menu!Click, Menu!SlideUp
  <2>2. \A q \in Menu!Panels :
          panel'[q] \in {"open", "opening"} => q = p /\ p \notin Menu!Visible
    BY <1>1 DEF Menu!Click, Menu!SlideUp, Menu!Current, Menu!Visible
  <2> QED BY <2>1, <2>2
<1>2. ASSUME NEW p \in Menu!Panels, Menu!SlideEnds(p) PROVE MenuInv'
  <2>1. Menu!AccordionTypeOK'
    BY <1>2 DEF Menu!SlideEnds, Menu!Slid
  <2>2. \A q \in Menu!Panels :
          panel'[q] \in {"open", "opening"} => panel[q] \in {"open", "opening"}
    BY <1>2 DEF Menu!SlideEnds, Menu!Slid
  <2> QED BY <2>1, <2>2
<1>3. CASE UNCHANGED panel
  BY <1>3
<1> QED BY <1>1, <1>2, <1>3 DEF Menu!Next

-----------------------------------------------------------------------------
(* The upload.  A callback waits for each load that has been, or has run;  *)
(* the form goes with the first call of on_complete, and with it the       *)
(* iframe, so that nothing is loaded any more.                             *)
UploadInv ==
  /\ Upload!UploadTypeOK
  /\ timers <= (IF blank THEN 0 ELSE 1) + (IF sent THEN 0 ELSE 1)
  /\ sent <=> inFrame = "empty"
  /\ timers > 0 /\ sent => ~blank
  /\ uploadForm => uploadTold = <<>>
  /\ ~uploadForm => uploadTold \in {<<"file">>, <<"error">>}
  /\ uploadTold = <<"file">> => inFrame = "file"
  /\ uploadTold = <<"error">> => inFrame = "failure" \/ (~blank /\ sent)

LEMMA UploadInit == Upload!Init => UploadInv
BY DEF Upload!Init, UploadInv, Upload!UploadTypeOK

LEMMA UploadStep == UploadInv /\ [Upload!Next]_uploadVars => UploadInv'
<1> SUFFICES ASSUME UploadInv, [Upload!Next]_uploadVars PROVE UploadInv'
  OBVIOUS
<1> USE DEF UploadInv, Upload!UploadTypeOK
<1>1. CASE Upload!BlankLoads
  <2>1. blank /\ ~blank' /\ blank' \in BOOLEAN /\ timers' = timers + 1
        /\ UNCHANGED <<sent, inFrame, uploadForm, uploadTold>>
    BY <1>1, Zenon DEF Upload!BlankLoads
  <2> QED BY <2>1
<1>2. CASE Upload!AnswerLoads
  <2>1. uploadForm /\ sent /\ ~sent' /\ sent' \in BOOLEAN /\ timers' = timers + 1
        /\ inFrame' \in {"file", "failure", "foreign"}
        /\ UNCHANGED <<blank, uploadForm, uploadTold>>
    BY <1>2, Zenon DEF Upload!AnswerLoads
  <2> QED BY <2>1
<1>3. CASE Upload!TimerEnds
  <2>1. CASE uploadForm /\ inFrame # "foreign"
    <3>1. /\ uploadTold' = <<IF inFrame = "file" THEN "file" ELSE "error">>
          /\ timers' = timers - 1 /\ timers > 0 /\ UNCHANGED <<blank, sent, inFrame>>
      BY <1>3, <2>1 DEF Upload!TimerEnds
    <3>2. ~uploadForm' /\ uploadForm' \in BOOLEAN
      BY <1>3, <2>1, Zenon DEF Upload!TimerEnds, Upload!Removed
    <3> QED BY <2>1, <3>1, <3>2
  <2>2. CASE ~(uploadForm /\ inFrame # "foreign")
    BY <1>3, <2>2 DEF Upload!TimerEnds
  <2> QED BY <2>1, <2>2
<1>4. CASE UNCHANGED uploadVars
  BY <1>4 DEF uploadVars
<1> QED BY <1>1, <1>2, <1>3, <1>4 DEF Upload!Next

LEMMA UploadTells == UploadInv => Upload!UploadTypeOK /\ Upload!ToldOnce
<1> SUFFICES ASSUME UploadInv PROVE Upload!UploadTypeOK /\ Upload!ToldOnce
  OBVIOUS
<1>1. uploadTold \in {<<>>, <<"file">>, <<"error">>}
  BY DEF UploadInv, Upload!UploadTypeOK
<1>2. Len(uploadTold) <= 1
  BY <1>1
<1> QED BY <1>2 DEF UploadInv, Upload!ToldOnce

-----------------------------------------------------------------------------
(* The window.  As long as it is used for one thing at a time, an element  *)
(* in it is the one its icon gives back, and while it waits for an answer  *)
(* there is none in it; and it waits for one at most.                      *)
ModalInv ==
  /\ Modal!ModalTypeOK /\ Modal!GivesBack
  /\ ~wasCrossed /\ shown =>
       /\ loads > 0 => inside = Modal!Nothing /\ icon = "none"
       /\ inside \in Targets => target = inside /\ fromHome /\ icon = "hideById"
  /\ ~wasCrossed => loads <= 1 /\ (~shown => loads = 0)
  /\ shown /\ icon = "hideById" => target \in Targets

\* Every step leaves the flags Boolean.
ModalFlags ==
  /\ shown \in BOOLEAN /\ windowOverlay \in BOOLEAN /\ fromHome \in BOOLEAN
  /\ confirms \in BOOLEAN /\ wasCrossed \in BOOLEAN

LEMMA ModalFlagsStep == ModalFlags /\ [Modal!Next]_modalVars => ModalFlags'
<1> SUFFICES ASSUME ModalFlags, [Modal!Next]_modalVars PROVE ModalFlags'
  OBVIOUS
<1> USE DEF ModalFlags
<1>1. CASE Modal!LoadByUrl
  BY <1>1, Zenon DEF Modal!LoadByUrl, Modal!Opens
<1>2. CASE Modal!Loaded
  BY <1>2, Zenon DEF Modal!Loaded
<1>3. CASE Modal!ClickHide
  BY <1>3, Zenon DEF Modal!ClickHide, Modal!Hidden
<1>4. CASE Modal!ClickHideById
  <2>1. UNCHANGED <<fromHome, confirms, wasCrossed>> /\ shown' = FALSE /\ windowOverlay' = FALSE
    BY <1>4 DEF Modal!ClickHideById, Modal!Hidden
  <2> QED BY <2>1, Zenon
<1>5. CASE Modal!Escape
  BY <1>5, Zenon DEF Modal!Escape, Modal!Hidden
<1>6. CASE Modal!ConfirmBlock
  BY <1>6, Zenon DEF Modal!ConfirmBlock
<1>7. ASSUME NEW t \in Targets, Modal!LoadById(t) PROVE ModalFlags'
  <2>1. /\ shown' = TRUE /\ windowOverlay' = TRUE /\ wasCrossed' = (wasCrossed \/ shown \/ loads > 0)
        /\ confirms' = confirms
    BY <1>7, Zenon DEF Modal!LoadById, Modal!Opens
  <2>2. fromHome' = (t \in home)
    BY <1>7 DEF Modal!LoadById
  <2>3. fromHome' \in BOOLEAN
    BY <2>2, SMT
  <2> QED BY <2>1, <2>3, Zenon
<1>8. CASE UNCHANGED modalVars
  BY <1>8 DEF modalVars
<1> QED BY <1>1, <1>2, <1>3, <1>4, <1>5, <1>6, <1>7, <1>8 DEF Modal!Next

LEMMA ModalInit == Modal!Init => ModalInv
<1> SUFFICES ASSUME Modal!Init PROVE ModalInv
  OBVIOUS
<1>1. ModalFlags
  BY Zenon DEF Modal!Init, ModalFlags
<1>2. /\ ~shown /\ ~windowOverlay /\ ~wasCrossed /\ loads = 0 /\ home = Targets
      /\ inside = Modal!Nothing /\ target = Modal!Nothing /\ icon = "none"
  BY DEF Modal!Init
<1> QED BY <1>1, <1>2, PageAssumption DEF ModalInv, Modal!ModalTypeOK, Modal!GivesBack, ModalFlags

LEMMA ModalStep == ModalInv /\ [Modal!Next]_modalVars => ModalInv'
<1> SUFFICES ASSUME ModalInv, [Modal!Next]_modalVars PROVE ModalInv'
  OBVIOUS
<1>f. ModalFlags'
  BY ModalFlagsStep DEF ModalInv, Modal!ModalTypeOK, ModalFlags
<1>0. /\ Modal!Nothing \notin Targets /\ Modal!Answer \notin Targets
      /\ MaxLoads \in Nat
  BY PageAssumption DEF Modal!Nothing, Modal!Answer
<1> USE <1>0, <1>f DEF ModalInv, Modal!ModalTypeOK, Modal!GivesBack, ModalFlags
<1>o. Modal!Opens => shown' /\ windowOverlay' /\ (wasCrossed' <=> wasCrossed \/ shown \/ loads > 0)
  BY Zenon DEF Modal!Opens
<1>h. Modal!Hidden => ~shown' /\ ~windowOverlay'
  BY DEF Modal!Hidden
<1>1. CASE Modal!LoadByUrl
  BY <1>1, <1>o DEF Modal!LoadByUrl
<1>2. CASE Modal!Loaded
  <2>1. /\ loads > 0 /\ loads' = loads - 1 /\ inside' = Modal!Answer /\ icon' = "hide"
        /\ UNCHANGED <<shown, windowOverlay, home, target, fromHome, confirms, wasCrossed>>
    BY <1>2 DEF Modal!Loaded
  <2>2. ~wasCrossed => home = Targets
    BY <2>1
  <2>3. loads' \in 0..MaxLoads /\ (~wasCrossed /\ ~shown => loads' = 0)
    BY <2>1
  <2> QED BY <2>1, <2>2, <2>3
<1>3. CASE Modal!ClickHide
  BY <1>3, <1>h DEF Modal!ClickHide
<1>4. CASE Modal!ClickHideById
  <2>1. /\ shown /\ icon = "hideById" /\ target \in Targets /\ ~shown' /\ ~windowOverlay'
        /\ UNCHANGED <<icon, target, fromHome, loads, confirms, wasCrossed>>
    BY <1>4, <1>h DEF Modal!ClickHideById
  <2>2. CASE Modal!GivenBack
    BY <1>4, <2>1, <2>2 DEF Modal!ClickHideById, Modal!GivenBack
  <2>3. CASE ~Modal!GivenBack
    BY <1>4, <2>1, <2>3 DEF Modal!ClickHideById, Modal!GivenBack
  <2> QED BY <2>2, <2>3
<1>5. CASE Modal!Escape
  BY <1>5, <1>h DEF Modal!Escape
<1>6. CASE Modal!ConfirmBlock
  <2>1. windowOverlay' /\ confirms'
    BY <1>6 DEF Modal!ConfirmBlock
  <2> QED BY <1>6, <2>1 DEF Modal!ConfirmBlock
<1>7. ASSUME NEW t \in Targets, Modal!LoadById(t) PROVE ModalInv'
  <2>1. fromHome' <=> t \in home
    BY <1>7, Zenon DEF Modal!LoadById
  <2> QED BY <1>7, <1>o, <2>1 DEF Modal!LoadById
<1>8. CASE UNCHANGED modalVars
  BY <1>8 DEF modalVars
<1> QED BY <1>1, <1>2, <1>3, <1>4, <1>5, <1>6, <1>7, <1>8 DEF Modal!Next

-----------------------------------------------------------------------------
(* The list.                                                               *)
\* An element put in, or taken out, of a sequence moves those behind it by one.
LEMMA InsertedIs ==
  ASSUME NEW S, NEW s \in Seq(S), NEW e \in S, NEW i \in 1..Len(s) + 1
  PROVE  /\ InsertAt(s, i, e) \in Seq(S) /\ Len(InsertAt(s, i, e)) = Len(s) + 1
         /\ \A j \in 1..Len(s) + 1 :
              InsertAt(s, i, e)[j] = IF j < i THEN s[j] ELSE IF j = i THEN e ELSE s[j - 1]
<1> DEFINE a == SubSeq(s, 1, i - 1)
           b == SubSeq(s, i, Len(s))
<1>1. /\ a \in Seq(S) /\ Len(a) = i - 1 /\ \A j \in 1..i - 1 : a[j] = s[j]
  OBVIOUS
<1>2. /\ b \in Seq(S) /\ Len(b) = Len(s) - i + 1
      /\ \A j \in 1..Len(s) - i + 1 : b[j] = s[i + j - 1]
  OBVIOUS
<1>3. InsertAt(s, i, e) = (a \o <<e>>) \o b
  BY DEF InsertAt
<1> DEFINE c == a \o <<e>>
<1> HIDE DEF a, b
<1>4. /\ c \in Seq(S) /\ Len(c) = i /\ c[i] = e /\ \A j \in 1..i - 1 : c[j] = s[j]
  BY <1>1
<1> HIDE DEF c
<1>5. /\ c \o b \in Seq(S) /\ Len(c \o b) = Len(s) + 1
      /\ \A j \in 1..Len(s) + 1 : (c \o b)[j] = IF j <= i THEN c[j] ELSE b[j - i]
  BY <1>2, <1>4
<1>6. \A j \in 1..Len(s) + 1 :
        (c \o b)[j] = IF j < i THEN s[j] ELSE IF j = i THEN e ELSE s[j - 1]
  BY <1>2, <1>4, <1>5
<1>7. InsertAt(s, i, e) = c \o b
  BY <1>3 DEF c
<1> QED BY <1>5, <1>6, <1>7

LEMMA RemovedIs ==
  ASSUME NEW S, NEW s \in Seq(S), NEW i \in DOMAIN s
  PROVE  /\ RemoveAt(s, i) \in Seq(S) /\ Len(RemoveAt(s, i)) = Len(s) - 1
         /\ \A j \in 1..Len(s) - 1 : RemoveAt(s, i)[j] = IF j < i THEN s[j] ELSE s[j + 1]
<1> DEFINE a == SubSeq(s, 1, i - 1)
           b == SubSeq(s, i + 1, Len(s))
<1>1. /\ a \in Seq(S) /\ Len(a) = i - 1 /\ \A j \in 1..i - 1 : a[j] = s[j]
  OBVIOUS
<1>2. /\ b \in Seq(S) /\ Len(b) = Len(s) - i
      /\ \A j \in 1..Len(s) - i : b[j] = s[i + j]
  OBVIOUS
<1>3. RemoveAt(s, i) = a \o b
  BY DEF RemoveAt
<1> HIDE DEF a, b
<1>4. /\ a \o b \in Seq(S) /\ Len(a \o b) = Len(s) - 1
      /\ \A j \in 1..Len(s) - 1 : (a \o b)[j] = IF j < i THEN a[j] ELSE b[j - i + 1]
  BY <1>1, <1>2
<1>5. ASSUME NEW j \in 1..Len(s) - 1
      PROVE  (a \o b)[j] = IF j < i THEN s[j] ELSE s[j + 1]
  <2>1. CASE j < i
    BY <1>1, <1>4, <2>1
  <2>2. CASE j >= i
    <3>0. i \in 1..Len(s) /\ Len(s) \in Nat
      OBVIOUS
    <3>1. j - i + 1 \in 1..Len(s) - i /\ i + (j - i + 1) = j + 1 /\ ~(j < i)
      BY <2>2, <3>0
    <3>2. b[j - i + 1] = s[j + 1]
      BY <1>2, <3>1
    <3> QED BY <1>4, <3>1, <3>2
  <2>3. j < i \/ j >= i
    OBVIOUS
  <2> QED BY <2>1, <2>2, <2>3
<1> QED BY <1>3, <1>4, <1>5

\* Rows with indexes of their own, below the next one.
Rows(c, n) ==
  /\ c \in Seq(Int) /\ n \in start_index..MaxIndex + 1
  /\ \A j, k \in 1..Len(c) : c[j] # -1 => c[j] < n /\ (c[j] = c[k] => j = k)
ListInv ==
  /\ Rows(children, index) /\ is_modified \in BOOLEAN
  /\ ~is_modified => children \in {List!givenRows, <<List!Text>> \o List!givenRows}

LEMMA ListTells == ListInv => List!ListTypeOK /\ List!RowsTold
<1> SUFFICES ASSUME ListInv PROVE List!ListTypeOK /\ List!RowsTold
  OBVIOUS
<1>1. List!ListTypeOK
  BY DEF ListInv, Rows, List!ListTypeOK
<1>2. \A j, k \in DOMAIN children :
        children[j] # List!Text => children[j] < index /\ (children[j] = children[k] => j = k)
  BY DEF ListInv, Rows, List!Text
<1> QED BY <1>1, <1>2 DEF ListInv, List!RowsTold

\* The rows the list starts with are numbered in their order.
LEMMA ListInit == List!Init => ListInv
<1> SUFFICES ASSUME List!Init PROVE ListInv
  OBVIOUS
<1>0. Given \in Nat /\ start_index \in Nat /\ MaxIndex \in Nat /\ start_index + Given <= MaxIndex + 1
  BY PageAssumption
<1> DEFINE g == List!givenRows
<1>1. /\ g \in Seq(Int) /\ Len(g) = Given
      /\ \A i \in 1..Given : g[i] = start_index + i - 1
  BY <1>0 DEF List!givenRows
<1> HIDE DEF g
<1>2. /\ children = <<>> \o g \/ children = <<-1>> \o g
      /\ index = start_index + Given
  BY DEF List!Init, g, List!Text
<1>3. <<>> \o g = g
  BY <1>1
<1>4. is_modified \in BOOLEAN
  BY Zenon DEF List!Init
<1>5. Rows(g, index)
  BY <1>0, <1>1, <1>2 DEF Rows
<1>6. Rows(<<-1>> \o g, index)
  <2> DEFINE c == <<-1>> \o g
  <2>1. /\ c \in Seq(Int) /\ Len(c) = Given + 1 /\ c[1] = -1
        /\ \A i \in 2..Given + 1 : c[i] = start_index + i - 2
    BY <1>0, <1>1
  <2> HIDE DEF c
  <2>2. Rows(c, index)
    BY <1>0, <1>2, <2>1 DEF Rows
  <2> QED BY <2>2 DEF c
<1> QED BY <1>2, <1>3, <1>4, <1>5, <1>6 DEF ListInv, g, List!Text

\* The rows d come from the rows c, each from one of its own (at the position that f
\* gives), or from the next index n.
Comes(c, n, d, f) ==
  /\ c \in Seq(Int) /\ n \in Int /\ d \in Seq(Int)
  /\ f \in [1..Len(d) -> 0..Len(c)]
  /\ \A j, k \in 1..Len(d) : f[j] = f[k] => j = k
  /\ \A j \in 1..Len(d) : d[j] = IF f[j] = 0 THEN n ELSE c[f[j]]

LEMMA RowsFrom ==
  ASSUME NEW c, NEW n, Rows(c, n), NEW d, NEW f, Comes(c, n, d, f),
         NEW m \in start_index..MaxIndex + 1,
         m = n + 1 \/ (m = n /\ \A j \in 1..Len(d) : f[j] # 0)
  PROVE  Rows(d, m)
<1>0. d \in Seq(Int) /\ n \in Int
  BY DEF Comes
<1>1. ASSUME NEW j \in 1..Len(d), f[j] # 0
      PROVE  f[j] \in 1..Len(c) /\ d[j] = c[f[j]] /\ c[f[j]] \in Int
  <2>1. c \in Seq(Int) /\ f \in [1..Len(d) -> 0..Len(c)] /\ d[j] = c[f[j]]
    BY <1>1 DEF Comes
  <2>2. Len(c) \in Nat /\ f[j] \in 0..Len(c)
    BY <2>1
  <2>3. f[j] \in 1..Len(c)
    BY <1>1, <2>2
  <2> QED BY <2>1, <2>3
<1>2. ASSUME NEW j \in 1..Len(d), f[j] = 0 PROVE d[j] = n /\ m = n + 1
  BY <1>2 DEF Comes
<1>3. ASSUME NEW j \in 1..Len(c), NEW k \in 1..Len(c), c[j] # -1
      PROVE  c[j] < n /\ (c[j] = c[k] => j = k)
  BY <1>3 DEF Rows
<1>4. ASSUME NEW j \in 1..Len(d), NEW k \in 1..Len(d), d[j] # -1
      PROVE  d[j] < m /\ (d[j] = d[k] => j = k)
  <2>0. f[j] = f[k] => j = k
    BY DEF Comes
  <2>1. d[j] < m
    <3>1. CASE f[j] = 0
      BY <1>0, <1>2, <3>1
    <3>2. CASE f[j] # 0
      BY <1>0, <1>1, <1>3, <1>4, <3>2
    <3> QED BY <3>1, <3>2
  <2>2. CASE f[j] = 0 /\ f[k] # 0
    <3>1. d[j] = n /\ d[k] = c[f[k]] /\ f[k] \in 1..Len(c) /\ c[f[k]] \in Int
      BY <1>1, <1>2, <2>2
    <3>2. c[f[k]] = -1 \/ c[f[k]] < n
      BY <1>3, <3>1
    <3> QED BY <1>0, <1>4, <2>1, <3>1, <3>2
  <2>3. CASE f[j] # 0 /\ f[k] = 0
    <3>1. d[k] = n /\ d[j] = c[f[j]] /\ f[j] \in 1..Len(c) /\ c[f[j]] \in Int
      BY <1>1, <1>2, <2>3
    <3>2. c[f[j]] < n
      BY <1>3, <1>4, <3>1
    <3> QED BY <1>0, <2>1, <3>1, <3>2
  <2>4. CASE f[j] # 0 /\ f[k] # 0
    <3>1. d[j] = c[f[j]] /\ d[k] = c[f[k]] /\ f[j] \in 1..Len(c) /\ f[k] \in 1..Len(c)
      BY <1>1, <2>4
    <3>2. c[f[j]] = c[f[k]] => f[j] = f[k]
      BY <1>3, <1>4, <3>1
    <3> QED BY <2>0, <2>1, <3>1, <3>2
  <2> QED BY <2>0, <2>1, <2>2, <2>3, <2>4
<1> QED BY <1>0, <1>4 DEF Rows

\* A new row has an index that none has.
LEMMA RowsAdded ==
  ASSUME NEW c, NEW n, Rows(c, n), n <= MaxIndex, NEW i \in 1..Len(c) + 1
  PROVE  Rows(InsertAt(c, i, n), n + 1)
<1> DEFINE d == InsertAt(c, i, n)
           f == [j \in 1..Len(d) |-> IF j < i THEN j ELSE IF j = i THEN 0 ELSE j - 1]
<1>0. c \in Seq(Int) /\ n \in Int /\ n + 1 \in start_index..MaxIndex + 1
  BY PageAssumption DEF Rows
<1>1. /\ d \in Seq(Int) /\ Len(d) = Len(c) + 1
      /\ \A j \in 1..Len(c) + 1 : d[j] = IF j < i THEN c[j] ELSE IF j = i THEN n ELSE c[j - 1]
  <2> DEFINE S == Int
  <2>1. c \in Seq(S) /\ n \in S
    BY <1>0
  <2> HIDE DEF S
  <2>2. /\ d \in Seq(S) /\ Len(d) = Len(c) + 1
        /\ \A j \in 1..Len(c) + 1 : d[j] = IF j < i THEN c[j] ELSE IF j = i THEN n ELSE c[j - 1]
    BY <2>1, InsertedIs
  <2> QED BY <2>2 DEF S
<1> HIDE DEF d
<1>2. /\ f \in [1..Len(d) -> 0..Len(c)]
      /\ \A j, k \in 1..Len(d) : f[j] = f[k] => j = k
  BY <1>0, <1>1
<1>3. \A j \in 1..Len(d) : d[j] = IF f[j] = 0 THEN n ELSE c[f[j]]
  BY <1>0, <1>1
<1> HIDE DEF f
<1>4. Comes(c, n, d, f)
  BY <1>0, <1>1, <1>2, <1>3 DEF Comes
<1>5. Rows(d, n + 1)
  BY <1>0, <1>4, RowsFrom
<1> QED BY <1>5 DEF d

LEMMA RowsDeleted ==
  ASSUME NEW c, NEW n, Rows(c, n), NEW i \in DOMAIN c
  PROVE  Rows(RemoveAt(c, i), n)
<1> DEFINE d == RemoveAt(c, i)
           f == [j \in 1..Len(d) |-> IF j < i THEN j ELSE j + 1]
<1>0. c \in Seq(Int) /\ n \in start_index..MaxIndex + 1 /\ i \in 1..Len(c)
      /\ Len(c) \in Nat
  BY DEF Rows
<1>1. /\ d \in Seq(Int) /\ Len(d) = Len(c) - 1
      /\ \A j \in 1..Len(c) - 1 : d[j] = IF j < i THEN c[j] ELSE c[j + 1]
  BY <1>0, RemovedIs
<1> HIDE DEF d
<1>2. /\ f \in [1..Len(d) -> 0..Len(c)] /\ \A j \in 1..Len(d) : f[j] # 0
      /\ \A j, k \in 1..Len(d) : f[j] = f[k] => j = k
  <2>1. \A j \in 1..Len(d) : f[j] = IF j < i THEN j ELSE j + 1
    OBVIOUS
  <2>2. \A j \in 1..Len(d) : f[j] \in 1..Len(c)
    BY <1>0, <1>1, <2>1
  <2>3. ASSUME NEW j \in 1..Len(d), NEW k \in 1..Len(d), f[j] = f[k] PROVE j = k
    <3>1. f[j] = (IF j < i THEN j ELSE j + 1) /\ f[k] = (IF k < i THEN k ELSE k + 1)
      BY <2>1
    <3>2. j \in Int /\ k \in Int /\ i \in Int
      BY <1>0
    <3>3. (IF j < i THEN j ELSE j + 1) = (IF k < i THEN k ELSE k + 1)
      BY ONLY <2>3, <3>1
    <3> QED BY ONLY <3>2, <3>3
  <2>4. f \in [1..Len(d) -> 0..Len(c)] /\ \A j \in 1..Len(d) : f[j] # 0
    BY <1>0, <2>2
  <2> QED BY <2>3, <2>4
<1>3. \A j \in 1..Len(d) : d[j] = IF f[j] = 0 THEN n ELSE c[f[j]]
  BY <1>0, <1>1
<1> HIDE DEF f
<1>4. Comes(c, n, d, f)
  BY <1>0, <1>1, <1>2, <1>3 DEF Comes
<1>5. Rows(d, n)
  BY <1>0, <1>2, <1>4, RowsFrom
<1> QED BY <1>5 DEF d

LEMMA RowsExchanged ==
  ASSUME NEW c, NEW n, Rows(c, n), NEW i \in 1..Len(c) - 1
  PROVE  Rows([c EXCEPT ![i] = c[i + 1], ![i + 1] = c[i]], n)
<1> DEFINE d == [c EXCEPT ![i] = c[i + 1], ![i + 1] = c[i]]
           f == [j \in 1..Len(d) |-> IF j = i THEN i + 1 ELSE IF j = i + 1 THEN i ELSE j]
<1>0. c \in Seq(Int) /\ n \in start_index..MaxIndex + 1
  BY DEF Rows
<1>1. /\ d \in Seq(Int) /\ Len(d) = Len(c)
      /\ \A j \in 1..Len(c) : d[j] = IF j = i THEN c[i + 1] ELSE IF j = i + 1 THEN c[i] ELSE c[j]
  BY <1>0
<1> HIDE DEF d
<1>2. /\ f \in [1..Len(d) -> 0..Len(c)] /\ \A j \in 1..Len(d) : f[j] # 0
      /\ \A j, k \in 1..Len(d) : f[j] = f[k] => j = k
  BY <1>0, <1>1
<1>3. \A j \in 1..Len(d) : d[j] = IF f[j] = 0 THEN n ELSE c[f[j]]
  BY <1>0, <1>1
<1> HIDE DEF f
<1>4. Comes(c, n, d, f)
  BY <1>0, <1>1, <1>2, <1>3 DEF Comes
<1>5. Rows(d, n)
  BY <1>0, <1>2, <1>4, RowsFrom
<1> QED BY <1>5 DEF d

\* A list that is changed is marked.
LEMMA ListModified == ASSUME List!Modified, Rows(children', index') PROVE ListInv'
<1>1. is_modified' \in BOOLEAN /\ is_modified'
  BY Zenon DEF List!Modified
<1> QED BY <1>1 DEF ListInv

LEMMA ListAdds ==
  ASSUME ListInv, NEW i \in 1..Len(children) + 1, List!AddItem(i)
  PROVE  ListInv'
<1>1. /\ children' = InsertAt(children, i, index) /\ index' = index + 1 /\ index <= MaxIndex
      /\ List!Modified
  BY DEF List!AddItem, List!NextIndex, InsertAt, List!InsertAt
<1>2. Rows(children', index')
  BY <1>1, RowsAdded DEF ListInv
<1> QED BY <1>1, <1>2, ListModified

LEMMA ListExchanges ==
  ASSUME ListInv, NEW i \in 1..Len(children) - 1, children' = List!Exchanged(i),
         List!Modified, UNCHANGED index
  PROVE  ListInv'
<1>1. Rows(children', index')
  BY RowsExchanged DEF ListInv, List!Exchanged
<1> QED BY <1>1, ListModified

LEMMA ListStep == ListInv /\ [List!Next]_listVars => ListInv'
<1> SUFFICES ASSUME ListInv, [List!Next]_listVars PROVE ListInv'
  OBVIOUS
<1>0. children \in Seq(Int)
  BY DEF ListInv, Rows
<1>1. CASE List!Create
  BY <1>0, <1>1, ListAdds DEF List!Create
<1>2. ASSUME NEW i \in DOMAIN children, List!Add(i) PROVE ListInv'
  <2>1. i + 1 \in 1..Len(children) + 1
    BY <1>0
  <2> QED BY <1>2, <2>1, ListAdds DEF List!Add
<1>3. ASSUME NEW i \in DOMAIN children, List!Delete(i) PROVE ListInv'
  <2>1. children' = RemoveAt(children, i) /\ index' = index /\ List!Modified
    BY <1>3 DEF List!Delete, RemoveAt, List!RemoveAt
  <2>2. Rows(children', index')
    BY <2>1, RowsDeleted DEF ListInv
  <2> QED BY <2>1, <2>2, ListModified
<1>4. ASSUME NEW i \in DOMAIN children, List!Up(i) PROVE ListInv'
  <2>1. i - 1 \in 1..Len(children) - 1
    BY <1>0, <1>4 DEF List!Up
  <2> QED BY <1>4, <2>1, ListExchanges DEF List!Up
<1>5. ASSUME NEW i \in DOMAIN children, List!Down(i) PROVE ListInv'
  <2>1. i \in 1..Len(children) - 1
    BY <1>0, <1>5 DEF List!Down
  <2> QED BY <1>5, <2>1, ListExchanges DEF List!Down
<1>6. CASE UNCHANGED listVars
  BY <1>6 DEF listVars, ListInv
<1> QED BY <1>1, <1>2, <1>3, <1>4, <1>5, <1>6 DEF List!Next

-----------------------------------------------------------------------------
(* The select.                                                             *)
LEMMA SelectInit == Select!Init => Select!SelectTypeOK
BY DEF Select!Init, Select!SelectTypeOK

LEMMA SelectStep == Select!SelectTypeOK /\ [Select!Next]_selectVars => Select!SelectTypeOK'
BY DEF Select!SelectTypeOK, Select!Next, selectVars, Select!SelectAll, Select!DeselectAll,
       Select!SelectItems, Select!DeselectItems, Select!Mark, Select!Drawn, Select!Alike

-----------------------------------------------------------------------------
(* The chain of classes.                                                   *)
Less == {p \in Nat \X Nat : p[1] < p[2]}

LEMMA LessWellFounded == IsWellFoundedOn(Less, Nat)
<1>1. Less = OpToRel(<, Nat)
  BY DEF Less, OpToRel
<1> QED BY <1>1, NatLessThanWellFounded

\* A set of natural numbers has a smallest.
LEMMA MinIs ==
  ASSUME NEW T \in SUBSET Nat, T # {}
  PROVE  Kit!Min(T) \in T /\ \A y \in T : Kit!Min(T) <= y
<1>1. \E x \in T : \A y \in T : ~ (<<y, x>> \in Less)
  BY LessWellFounded, WFMin
<1>2. \A x, y \in Nat : <<y, x>> \in Less <=> y < x
  BY DEF Less
<1>3. PICK x \in T : \A y \in T : ~ (<<y, x>> \in Less)
  BY <1>1
<1>4. \A y \in T : x <= y
  <2> TAKE y \in T
  <2>1. x \in Nat /\ y \in Nat /\ ~(y < x)
    BY <1>2, <1>3
  <2> QED BY <2>1
<1> QED BY <1>4 DEF Kit!Min

\* How a second element comes and goes.
LEMMA Pairs ==
  ASSUME NEW S, NEW a \in S, NEW b \in S
  PROVE  Append(<<a>>, b) = <<a, b>> /\ SubSeq(<<a, b>>, 1, 1) = <<a>>
<1> DEFINE ab == Append(<<a>>, b)
           cd == <<a, b>>
           only == SubSeq(<<a, b>>, 1, 1)
           one == <<a>>
<1>1. ab \in Seq(S) /\ Len(ab) = 2 /\ ab[1] = a /\ ab[2] = b
  OBVIOUS
<1>2. cd \in Seq(S) /\ Len(cd) = 2 /\ cd[1] = a /\ cd[2] = b
  OBVIOUS
<1>3. only \in Seq(S) /\ Len(only) = 1 /\ only[1] = a
  OBVIOUS
<1>4. one \in Seq(S) /\ Len(one) = 1 /\ one[1] = a
  OBVIOUS
<1> HIDE DEF ab, cd, only, one
<1>5. \A i \in 1..Len(ab) : ab[i] = cd[i]
  BY <1>1, <1>2
<1>6. \A i \in 1..Len(only) : only[i] = one[i]
  BY <1>3, <1>4
<1>7. ab = cd /\ only = one
  BY <1>1, <1>2, <1>3, <1>4, <1>5, <1>6, SeqEqual
<1> QED BY <1>7 DEF ab, cd, only, one

Behaviours == {"inherits", "overrides", "extends"}
BodyOK == body \in [Kit!Classes -> Behaviours] /\ body[Depth] = "overrides"

\* A body that is found is the nearest above.
LEMMA FoundIs ==
  ASSUME BodyOK, NEW c \in Kit!Classes
  PROVE  /\ Kit!Found(c) \in Kit!Classes /\ Kit!Found(c) >= c
         /\ body[Kit!Found(c)] # "inherits"
         /\ \A d \in Kit!Classes : c <= d /\ d < Kit!Found(c) => body[d] = "inherits"
<1> DEFINE T == {d \in c..Depth : body[d] # "inherits"}
<1>0. Depth \in Nat /\ c \in 1..Depth /\ Kit!Classes = 1..Depth
  BY PageAssumption DEF Kit!Classes
<1>1. T \in SUBSET Nat /\ Depth \in T
  BY <1>0 DEF BodyOK
<1>2. Kit!Found(c) \in T /\ \A y \in T : Kit!Found(c) <= y
  BY <1>1, MinIs DEF Kit!Found
<1>3. ASSUME NEW d \in Kit!Classes, c <= d, d < Kit!Found(c) PROVE body[d] = "inherits"
  <2>1. d \in c..Depth /\ Kit!Found(c) \in Nat
    BY <1>0, <1>1, <1>2, <1>3
  <2>2. d \notin T
    BY <1>2, <1>3, <2>1
  <2> QED BY <2>1, <2>2
<1> QED BY <1>0, <1>2, <1>3

\* The two bodies that are ever called: the object's, and its parent's proxy's.
F1 == Kit!Found(1)
F2 == Kit!Found(2)

LEMMA BodiesAre ==
  ASSUME BodyOK
  PROVE  /\ F1 \in Kit!Classes /\ F2 \in Kit!Classes
         /\ body[F1] \in {"overrides", "extends"} /\ body[F2] \in {"overrides", "extends"}
         /\ body[1] # "inherits" => F1 = 1 /\ F1 < F2
         /\ body[1] = "inherits" => F1 = F2
         /\ \A c \in Kit!Classes : c # F1 /\ c < F2 => body[c] = "inherits"
<1>0. Depth \in Nat /\ Kit!Classes = 1..Depth /\ 1 \in Kit!Classes /\ 2 \in Kit!Classes
  BY PageAssumption DEF Kit!Classes
<1>1. /\ F1 \in Kit!Classes /\ F1 >= 1 /\ body[F1] # "inherits"
      /\ \A d \in Kit!Classes : 1 <= d /\ d < F1 => body[d] = "inherits"
  BY <1>0, FoundIs DEF F1
<1>2. /\ F2 \in Kit!Classes /\ F2 >= 2 /\ body[F2] # "inherits"
      /\ \A d \in Kit!Classes : 2 <= d /\ d < F2 => body[d] = "inherits"
  BY <1>0, FoundIs DEF F2
<1>3. \A c \in Kit!Classes : body[c] \in Behaviours
  BY DEF BodyOK
<1>4. body[1] # "inherits" => F1 = 1
  BY <1>0, <1>1
<1>5. body[1] = "inherits" => F1 = F2
  <2> SUFFICES ASSUME body[1] = "inherits" PROVE F1 = F2
    OBVIOUS
  <2>1. F1 \in Int /\ F2 \in Int /\ F1 >= 2
    BY <1>0, <1>1, <1>2
  <2>2. ~(F1 < F2) /\ ~(F2 < F1)
    BY <1>0, <1>1, <1>2, <2>1
  <2> QED BY <2>1, <2>2
<1>6. ASSUME NEW c \in Kit!Classes, c # F1, c < F2 PROVE body[c] = "inherits"
  <2>1. c \in Int /\ c >= 1 /\ F2 \in Int
    BY <1>0, <1>2
  <2>2. CASE c = 1
    BY <1>4, <1>6, <2>2
  <2>3. CASE c # 1
    BY <1>2, <1>6, <2>1, <2>3
  <2> QED BY <2>2, <2>3
<1>7. body[1] # "inherits" => F1 < F2
  BY <1>0, <1>2, <1>4
<1> QED BY <1>1, <1>2, <1>3, <1>4, <1>5, <1>6, <1>7 DEF Behaviours

(* If the parent's body asks a parent too, it is on the stack for ever.    *)
(* Else there are few ways in which the bodies may stand.                  *)
Bodies ==
  IF body[F2] = "extends"
    THEN body[1] # "overrides" => ran = <<>> /\ \A i \in 1..Len(stack) : body[stack[i]] = "extends"
    ELSE \/ ran = <<>> /\ (stack = <<>> \/ stack = <<F1>>)
         \/ stack = <<>> /\ ran = <<F1>> /\ body[F1] = "overrides"
         \/ /\ body[F1] = "extends"
            /\ \/ stack = <<F1, F2>> /\ ran = <<>>
               \/ stack = <<F1>> /\ ran = <<F2>>
               \/ stack = <<>> /\ ran = <<F2, F1>>
KitInv ==
  /\ BodyOK /\ Bodies
  /\ stack \in Seq(Kit!Classes) /\ Len(stack) <= MaxCalls /\ ran \in Seq(Kit!Classes)

LEMMA KitInit == Kit!Init => KitInv
<1> SUFFICES ASSUME Kit!Init PROVE KitInv
  OBVIOUS
<1>1. BodyOK
  BY DEF Kit!Init, BodyOK, Behaviours
<1>2. stack = <<>> /\ ran = <<>> /\ MaxCalls \in Nat
  BY PageAssumption DEF Kit!Init
<1> QED BY <1>1, <1>2 DEF KitInv, Bodies

LEMMA KitStep == KitInv /\ [Kit!Next]_kitVars => KitInv'
<1> SUFFICES ASSUME KitInv, [Kit!Next]_kitVars PROVE KitInv'
  OBVIOUS
<1>0. /\ MaxCalls \in Nat /\ MaxCalls >= 1
      /\ stack \in Seq(Kit!Classes) /\ Len(stack) <= MaxCalls /\ ran \in Seq(Kit!Classes)
      /\ F1 \in Kit!Classes /\ F2 \in Kit!Classes /\ BodyOK
      /\ body[F1] \in {"overrides", "extends"} /\ body[F2] \in {"overrides", "extends"}
      /\ body[1] # "inherits" => F1 = 1
      /\ body[1] = "inherits" => F1 = F2
  BY PageAssumption, BodiesAre DEF KitInv
<1>1. ASSUME body' = body PROVE BodyOK' /\ F1' = F1 /\ F2' = F2
  BY <1>0, <1>1 DEF BodyOK, F1, F2, Kit!Found
<1>2. CASE Kit!Call
  <2>1. stack' = <<F1>> /\ ran' = <<>> /\ ran = <<>> /\ body' = body
    BY <1>2 DEF Kit!Call, F1
  <2>2. Bodies'
    BY <1>0, <1>1, <2>1 DEF Bodies
  <2>3. stack' \in Seq(Kit!Classes) /\ Len(stack') <= MaxCalls /\ ran' \in Seq(Kit!Classes)
    BY <1>0, <2>1
  <2> QED BY <1>1, <2>1, <2>2, <2>3 DEF KitInv
<1>3. CASE Kit!CallParent
  <2>1. /\ stack # <<>> /\ ran = <<>> /\ ran' = <<>> /\ body' = body
        /\ Len(stack) < MaxCalls /\ body[stack[Len(stack)]] = "extends"
        /\ stack' = Append(stack, F2)
    BY <1>3 DEF Kit!CallParent, F2, Kit!Last, Kit!Proxied
  <2>2. stack' \in Seq(Kit!Classes) /\ Len(stack') <= MaxCalls /\ ran' \in Seq(Kit!Classes)
    BY <1>0, <2>1
  <2>3. CASE body[F2] = "extends"
    <3>1. \A i \in 1..Len(stack') : stack'[i] = IF i = Len(stack) + 1 THEN F2 ELSE stack[i]
      BY <1>0, <2>1
    <3>2. Len(stack') = Len(stack) + 1
      BY <1>0, <2>1
    <3>3. body[1] # "overrides" => \A i \in 1..Len(stack') : body[stack'[i]] = "extends"
      BY <1>0, <2>3, <3>1, <3>2 DEF KitInv, Bodies
    <3> QED BY <1>1, <2>1, <2>2, <2>3, <3>3 DEF KitInv, Bodies
  <2>4. CASE body[F2] = "overrides"
    <3>1. stack = <<F1>> \/ stack = <<F1, F2>>
      BY <2>1, <2>4 DEF KitInv, Bodies
    <3>2. stack = <<F1>> /\ body[F1] = "extends"
      BY <2>1, <2>4, <3>1
    <3>3. stack' = <<F1, F2>>
      BY <1>0, <2>1, <3>2, Pairs
    <3> QED BY <1>1, <2>1, <2>2, <2>4, <3>2, <3>3 DEF KitInv, Bodies
  <2> QED BY <1>0, <2>3, <2>4
<1>4. CASE Kit!Return
  <2>1. /\ stack # <<>> /\ body' = body
        /\ body[stack[Len(stack)]] = "overrides" \/ ran # <<>>
        /\ ran' = Append(ran, stack[Len(stack)])
        /\ stack' = SubSeq(stack, 1, Len(stack) - 1)
    BY <1>4 DEF Kit!Return, Kit!Last, Kit!Front
  <2>2. /\ Len(stack) >= 1 /\ stack' \in Seq(Kit!Classes) /\ Len(stack') <= MaxCalls
        /\ ran' \in Seq(Kit!Classes)
    BY <1>0, <2>1
  <2>3. CASE body[F2] = "extends"
    <3>1. body[1] = "overrides"
      BY <1>0, <2>1, <2>2, <2>3 DEF KitInv, Bodies
    <3> QED BY <1>1, <2>1, <2>2, <2>3, <3>1 DEF KitInv, Bodies
  <2>4. CASE body[F2] = "overrides"
    <3>1. CASE ran = <<>> /\ stack = <<F1>>
      <4>1. body[F1] = "overrides" /\ ran' = <<F1>> /\ stack' = <<>>
        BY <2>1, <3>1
      <4> QED BY <1>1, <2>1, <2>2, <2>4, <4>1 DEF KitInv, Bodies
    <3>2. CASE stack = <<F1, F2>> /\ ran = <<>> /\ body[F1] = "extends"
      <4>1. /\ Len(stack) = 2 /\ stack[2] = F2
        BY <3>2
      <4>2. ran' = <<F2>> /\ stack' = <<F1>>
        BY <1>0, <2>1, <3>2, <4>1, Pairs
      <4> QED BY <1>1, <2>1, <2>2, <2>4, <3>2, <4>2 DEF KitInv, Bodies
    <3>3. CASE stack = <<F1>> /\ ran = <<F2>> /\ body[F1] = "extends"
      <4>1. Len(stack) = 1 /\ stack[1] = F1 /\ stack' = <<>>
        BY <2>1, <3>3
      <4>2. ran' = <<F2, F1>>
        BY <1>0, <2>1, <3>3, <4>1, Pairs
      <4> QED BY <1>1, <2>1, <2>2, <2>4, <3>3, <4>1, <4>2 DEF KitInv, Bodies
    <3> QED BY <2>1, <2>4, <3>1, <3>2, <3>3 DEF KitInv, Bodies
  <2> QED BY <1>0, <2>3, <2>4
<1>5. CASE UNCHANGED kitVars
  <2>1. body' = body /\ stack' = stack /\ ran' = ran
    BY <1>5 DEF kitVars
  <2> QED BY <1>1, <2>1 DEF KitInv, Bodies
<1> QED BY <1>2, <1>3, <1>4, <1>5 DEF Kit!Next

\* The classes that have a say are the one found for the object and, if its body asks
\* its parent, the one found for the proxy.
LEMMA AskedAre ==
  ASSUME BodyOK, body[F2] = "overrides"
  PROVE  /\ body[F1] = "overrides" => Kit!Asked = {F1}
         /\ body[F1] = "extends" => Kit!Asked = {F1, F2} /\ F1 < F2
<1>0. /\ F1 \in Kit!Classes /\ F2 \in Kit!Classes
      /\ body[F1] \in {"overrides", "extends"}
      /\ body[1] # "inherits" => F1 = 1 /\ F1 < F2
      /\ body[1] = "inherits" => F1 = F2
      /\ \A c \in Kit!Classes : c # F1 /\ c < F2 => body[c] = "inherits"
  BY BodiesAre
<1>1. Depth \in Nat /\ Kit!Classes = 1..Depth
  BY PageAssumption DEF Kit!Classes
<1>2. F1 \in Int /\ F2 \in Int /\ F1 >= 1 /\ F2 >= 1 /\ F1 <= F2
  BY <1>0, <1>1
<1>3. F2 \in Kit!Asked <=> (body[F1] = "extends" \/ F1 = F2)
  <2>1. F2 \in Kit!Asked <=> \A d \in 1..F2 - 1 : body[d] # "overrides"
    BY <1>0 DEF Kit!Asked
  <2>2. \A d \in 1..F2 - 1 : d \in Kit!Classes /\ d < F2
    BY <1>0, <1>1
  <2>3. F1 # F2 => F1 \in 1..F2 - 1
    BY <1>2
  <2>4. ASSUME NEW d \in 1..F2 - 1 PROVE body[d] = "inherits" \/ (d = F1 /\ F1 < F2)
    BY <1>0, <2>2
  <2> QED BY <1>0, <1>2, <2>1, <2>3, <2>4
<1>4. F1 \in Kit!Asked
  <2>1. \A d \in 1..F1 - 1 : d \in Kit!Classes /\ d < F2 /\ d # F1
    BY <1>0, <1>1, <1>2
  <2> QED BY <1>0, <2>1 DEF Kit!Asked
<1>5. ASSUME NEW c \in Kit!Asked PROVE c = F1 \/ c = F2
  <2>1. c \in Kit!Classes /\ body[c] # "inherits" /\ \A d \in 1..c - 1 : body[d] # "overrides"
    BY DEF Kit!Asked
  <2>2. c > F2 => F2 \in 1..c - 1
    BY <1>1, <1>2, <2>1
  <2>3. ~(c > F2) /\ c \in Int
    BY <1>1, <2>1, <2>2
  <2> QED BY <1>0, <1>2, <2>1, <2>3
<1>6. body[F1] = "extends" => F1 # F2
  OBVIOUS
<1>7. body[F1] = "overrides" => Kit!Asked = {F1}
  BY <1>3, <1>4, <1>5
<1>8. ASSUME body[F1] = "extends" PROVE Kit!Asked = {F1, F2} /\ F1 < F2
  <2>1. F2 \in Kit!Asked /\ F1 # F2
    BY <1>3, <1>6, <1>8
  <2>2. F1 < F2
    BY <1>2, <2>1
  <2> QED BY <1>4, <1>5, <2>1, <2>2
<1> QED BY <1>7, <1>8

\* What is on the stack and what has run, in the order in which they were begun.
LEMMA Begun ==
  ASSUME NEW S, NEW a \in S, NEW b \in S
  PROVE  /\ <<>> \o Kit!Reverse(<<>>) = <<>>
         /\ <<a>> \o Kit!Reverse(<<>>) = <<a>> /\ <<>> \o Kit!Reverse(<<a>>) = <<a>>
         /\ <<a, b>> \o Kit!Reverse(<<>>) = <<a, b>>
         /\ <<a>> \o Kit!Reverse(<<b>>) = <<a, b>>
         /\ <<>> \o Kit!Reverse(<<b, a>>) = <<a, b>>
<1>1. Kit!Reverse(<<>>) = <<>>
  BY DEF Kit!Reverse
<1>2. ASSUME NEW x \in S PROVE Kit!Reverse(<<x>>) = <<x>>
  BY DEF Kit!Reverse
<1>3. Kit!Reverse(<<b, a>>) = <<a, b>>
  <2> DEFINE r == Kit!Reverse(<<b, a>>)
             t == <<a, b>>
  <2>1. r = [i \in 1..2 |-> <<b, a>>[2 - i + 1]]
    BY DEF Kit!Reverse
  <2>2. r \in Seq(S) /\ Len(r) = 2 /\ r[1] = a /\ r[2] = b
    BY <2>1
  <2>3. t \in Seq(S) /\ Len(t) = 2 /\ t[1] = a /\ t[2] = b
    OBVIOUS
  <2> HIDE DEF r, t
  <2>4. \A i \in 1..Len(r) : r[i] = t[i]
    BY <2>2, <2>3
  <2>5. r = t
    BY <2>2, <2>3, <2>4, SeqEqual
  <2> QED BY <2>5 DEF r, t
<1>4. <<a>> \o <<b>> = <<a, b>>
  <2> DEFINE r == <<a>> \o <<b>>
             t == <<a, b>>
  <2>1. r \in Seq(S) /\ Len(r) = 2 /\ r[1] = a /\ r[2] = b
    OBVIOUS
  <2>2. t \in Seq(S) /\ Len(t) = 2 /\ t[1] = a /\ t[2] = b
    OBVIOUS
  <2> HIDE DEF r, t
  <2>3. \A i \in 1..Len(r) : r[i] = t[i]
    BY <2>1, <2>2
  <2>4. r = t
    BY <2>1, <2>2, <2>3, SeqEqual
  <2> QED BY <2>4 DEF r, t
<1>5. \A s \in Seq(S) : <<>> \o s = s /\ s \o <<>> = s
  BY ConcatEmptySeq
<1>6. <<a>> \in Seq(S) /\ <<a, b>> \in Seq(S) /\ <<>> \in Seq(S)
  OBVIOUS
<1> QED BY <1>1, <1>2, <1>3, <1>4, <1>5, <1>6

LEMMA KitTells == KitInv => Kit!KitTypeOK /\ Kit!ParentsRun
<1> SUFFICES ASSUME KitInv PROVE Kit!KitTypeOK /\ Kit!ParentsRun
  OBVIOUS
<1>1. Kit!KitTypeOK
  <2>1. stack \in [1..Len(stack) -> Kit!Classes] /\ Len(stack) \in 0..MaxCalls
    BY DEF KitInv
  <2> QED BY <2>1 DEF KitInv, BodyOK, Behaviours, Kit!KitTypeOK, Kit!BoundedSeq, Kit!SeqOf
<1>0. /\ F1 \in Kit!Classes /\ F2 \in Kit!Classes /\ BodyOK
      /\ body[F1] \in {"overrides", "extends"} /\ body[F2] \in {"overrides", "extends"}
  BY BodiesAre DEF KitInv
<1>2. CASE body[F2] = "extends"
  <2>1. ran # <<>> => body[1] = "overrides"
    BY <1>2 DEF KitInv, Bodies
  <2>2. body[Kit!Found(2)] = "extends"
    BY <1>2 DEF F2
  <2> QED BY <1>1, <2>1, <2>2, Zenon DEF Kit!ParentsRun
<1>3. CASE body[F2] = "overrides"
  <2> DEFINE begun == stack \o Kit!Reverse(ran)
             Right(i) == /\ begun[i] \in Kit!Asked
                         /\ {begun[j] : j \in 1..i - 1} = {c \in Kit!Asked : c < begun[i]}
  <2>1. begun = <<>> \/ begun = <<F1>> \/ (begun = <<F1, F2>> /\ body[F1] = "extends")
    BY <1>0, <1>3, Begun DEF KitInv, Bodies
  <2>2. /\ body[F1] = "overrides" => Kit!Asked = {F1}
        /\ body[F1] = "extends" => Kit!Asked = {F1, F2} /\ F1 < F2
    BY <1>0, <1>3, AskedAre
  <2>3. F1 \in Int /\ F2 \in Int
    BY <1>0, PageAssumption DEF Kit!Classes
  <2> HIDE DEF begun
  <2>4. \A i \in DOMAIN begun : Right(i)
    <3>1. CASE begun = <<>>
      BY <3>1
    <3>2. CASE begun = <<F1>>
      <4>1. DOMAIN begun = {1} /\ begun[1] = F1 /\ 1..1 - 1 = {}
        BY <3>2
      <4>2. {c \in Kit!Asked : c < F1} = {}
        BY <1>0, <2>2, <2>3
      <4> QED BY <1>0, <2>2, <4>1, <4>2
    <3>3. CASE begun = <<F1, F2>> /\ body[F1] = "extends"
      <4>1. DOMAIN begun = {1, 2} /\ begun[1] = F1 /\ begun[2] = F2 /\ 1..1 - 1 = {} /\ 1..2 - 1 = {1}
        BY <3>3
      <4>2. {c \in Kit!Asked : c < F1} = {} /\ {c \in Kit!Asked : c < F2} = {F1}
        BY <2>2, <2>3, <3>3
      <4> QED BY <2>2, <3>3, <4>1, <4>2
    <3> QED BY <2>1, <3>1, <3>2, <3>3
  <2>5. body[Kit!Found(2)] # "extends"
    BY <1>3 DEF F2
  <2> QED BY <1>1, <2>4, <2>5, Zenon DEF Kit!ParentsRun, begun
<1> QED BY <1>0, <1>1, <1>2, <1>3

-----------------------------------------------------------------------------
(* The parts together: one of them runs, the others rest.                  *)
PagesInv ==
  /\ PanelInv /\ MenuInv /\ UploadInv /\ ModalInv /\ ListInv
  /\ Select!SelectTypeOK /\ KitInv

LEMMA PagesInit == MCInit => PagesInv
BY PanelInit, MenuInit, UploadInit, ModalInit, ListInit, SelectInit, KitInit DEF MCInit, PagesInv

\* A step of the pages is a step of one part, or of none.
LEMMA OnePartMoves ==
  [MCNext]_MCvars =>
    /\ [Next]_vars /\ [Menu!Next]_panel /\ [Upload!Next]_uploadVars /\ [Modal!Next]_modalVars
    /\ [List!Next]_listVars /\ [Select!Next]_selectVars /\ [Kit!Next]_kitVars
<1>1. MCNext =>
        /\ (part = "panel" /\ Next) \/ UNCHANGED vars
        /\ (part = "menu" /\ Menu!Next) \/ UNCHANGED panel
        /\ (part = "upload" /\ Upload!Next) \/ UNCHANGED uploadVars
        /\ (part = "modal" /\ Modal!Next) \/ UNCHANGED modalVars
        /\ (part = "list" /\ List!Next) \/ UNCHANGED listVars
        /\ (part = "select" /\ Select!Next) \/ UNCHANGED selectVars
        /\ (part = "kit" /\ Kit!Next) \/ UNCHANGED kitVars
  BY DEF MCNext, Rest
<1>2. UNCHANGED MCvars =>
        /\ UNCHANGED vars /\ UNCHANGED panel /\ UNCHANGED uploadVars /\ UNCHANGED modalVars
        /\ UNCHANGED listVars /\ UNCHANGED selectVars /\ UNCHANGED kitVars
  BY DEF MCvars
<1> QED BY <1>1, <1>2

LEMMA PagesStep == PagesInv /\ [MCNext]_MCvars => PagesInv'
BY OnePartMoves, PanelStep, MenuStep, UploadStep, ModalStep, ListStep, SelectStep, KitStep
   DEF PagesInv

LEMMA PagesAlways == MCSpec => []PagesInv
BY PagesInit, PagesStep, PTL DEF MCSpec

(* For any tabs and URLs, and a cookie of any length: of the two boxes of  *)
(* a filter only the one with the form is open; and as long as the browser *)
(* takes the cookie it says of a filter that was not moved open, or used   *)
(* in two tabs, whether it is shown, and of the sidebar what the tab shows *)
(* that turned it last (CMS.Filter, SidebarToggler and lightLimbVersion).  *)
THEOREM PanelAgreesAlways == MCSpec => []PanelAgrees
<1>1. PagesInv => PanelAgrees
  BY DEF PagesInv, PanelInv, PanelAgrees
<1> QED BY <1>1, PagesAlways, PTL

(* For any number of panels, elements, rows, options and classes: one      *)
(* panel at most is open or opening however fast they are clicked; an      *)
(* upload is told of once; a window used for one thing at a time gives     *)
(* elements back to their places; no two rows of a list have one index;    *)
(* and a method's bodies run in the order of the chain.                    *)
THEOREM WidgetsAgreeAlways == MCSpec => []WidgetsAgree
<1>1. PagesInv => WidgetsAgree
  <2> SUFFICES ASSUME PagesInv PROVE WidgetsAgree
    OBVIOUS
  <2>1. Menu!AccordionTypeOK /\ Menu!OneStaysOpen
    BY DEF PagesInv, MenuInv
  <2>2. Upload!UploadTypeOK /\ Upload!ToldOnce
    BY UploadTells DEF PagesInv
  <2>3. Modal!ModalTypeOK /\ Modal!GivesBack
    BY DEF PagesInv, ModalInv
  <2>4. List!ListTypeOK /\ List!RowsTold
    BY ListTells DEF PagesInv
  <2>5. Kit!KitTypeOK /\ Kit!ParentsRun
    BY KitTells DEF PagesInv
  <2>6. Select!SelectTypeOK
    BY DEF PagesInv
  <2> QED BY <2>1, <2>2, <2>3, <2>4, <2>5, <2>6 DEF WidgetsAgree
<1> QED BY <1>1, PagesAlways, PTL


\* d is s with e put in at i.
Inserted(d, s, i, e) ==
  /\ Len(d) = Len(s) + 1
  /\ \A j \in 1..Len(s) + 1 : d[j] = IF j < i THEN s[j] ELSE IF j = i THEN e ELSE s[j - 1]

LEMMA InsertedWell ==
  ASSUME NEW S, NEW s \in Seq(S), NEW e \in S, NEW i \in 1..Len(s) + 1
  PROVE  InsertAt(s, i, e) \in Seq(S) /\ Inserted(InsertAt(s, i, e), s, i, e)
<1> DEFINE d == InsertAt(s, i, e)
<1>1. /\ d \in Seq(S) /\ Len(d) = Len(s) + 1
      /\ \A j \in 1..Len(s) + 1 : d[j] = IF j < i THEN s[j] ELSE IF j = i THEN e ELSE s[j - 1]
  BY InsertedIs
<1> HIDE DEF d
<1>2. Inserted(d, s, i, e)
  BY <1>1 DEF Inserted
<1> QED BY <1>1, <1>2 DEF d

\* What is put into a sequence, and kept, is put among what is kept.
LEMMA KeptInserted ==
  ASSUME NEW A, NEW c \in Seq(A), NEW T, NEW e \in A, e \in T, NEW i \in 1..Len(c) + 1
  PROVE  \E q \in 1..Len(Filtered(c, T)) + 1 :
           Filtered(InsertAt(c, i, e), T) = InsertAt(Filtered(c, T), q, e)
<1> DEFINE k == Filtered(c, T)
           d == InsertAt(c, i, e)
<1>0. Len(c) \in Nat /\ i \in Int
  OBVIOUS
<1>1. PICK n, p : Picks(p, n, c, T)
  BY FilteredPicks
<1>2. /\ n \in Nat /\ p \in [1..n -> 1..Len(c)]
      /\ \A j \in 1..n : p[j] \in 1..Len(c) /\ p[j] \in Int /\ c[p[j]] \in T
      /\ \A x \in 1..Len(c) : c[x] \in T => \E j \in 1..n : p[j] = x
      /\ \A j, m \in 1..n : j < m => p[j] < p[m]
  BY <1>0, <1>1 DEF Picks
<1>3. k = [j \in 1..n |-> c[p[j]]]
  BY <1>1, FilteredOnly
<1>4. /\ k \in Seq(A) /\ Len(k) = n /\ \A j \in 1..n : k[j] = c[p[j]]
  BY <1>2, <1>3
<1>5. /\ d \in Seq(A) /\ Len(d) = Len(c) + 1
      /\ \A j \in 1..Len(c) + 1 : d[j] = IF j < i THEN c[j] ELSE IF j = i THEN e ELSE c[j - 1]
  BY InsertedIs
<1> HIDE DEF k, d
<1> DEFINE Late == {j \in 1..n : i <= p[j]} \cup {n + 1}
<1>6. PICK q \in Late : \A j \in Late : q <= j
  <2>1. Late \in SUBSET Nat /\ Late # {}
    BY <1>2
  <2> HIDE DEF Late
  <2> QED BY <2>1, MinIs
<1>7. q \in 1..n + 1 /\ q \in Int
  BY <1>2, <1>6
<1>8. \A j \in 1..n : p[j] < i <=> j < q
  <2> SUFFICES ASSUME NEW j \in 1..n PROVE p[j] < i <=> j < q
    OBVIOUS
  <2>1. CASE j < q
    <3>1. j \notin Late
      BY <1>2, <1>6, <1>7, <2>1
    <3> QED BY <1>0, <1>2, <2>1, <3>1
  <2>2. CASE q <= j
    <3>1. q \in 1..n /\ q # n + 1
      BY <1>2, <1>7, <2>2
    <3>2. i <= p[q]
      BY <1>6, <3>1
    <3>3. p[q] <= p[j]
      BY <1>2, <2>2, <3>1
    <3> QED BY <1>0, <1>2, <1>7, <2>2, <3>1, <3>2, <3>3
  <2> QED BY <1>2, <1>7, <2>1, <2>2
<1> HIDE DEF Late
<1> DEFINE pd == [j \in 1..n + 1 |-> IF j < q THEN p[j] ELSE IF j = q THEN i ELSE p[j - 1] + 1]
<1>9. \A j \in 1..n + 1 :
        /\ j < q => j \in 1..n /\ pd[j] = p[j] /\ p[j] < i
        /\ j = q => pd[j] = i
        /\ j > q => j - 1 \in 1..n /\ pd[j] = p[j - 1] + 1 /\ i <= p[j - 1]
  <2> SUFFICES ASSUME NEW j \in 1..n + 1
               PROVE  /\ j < q => j \in 1..n /\ pd[j] = p[j] /\ p[j] < i
                      /\ j = q => pd[j] = i
                      /\ j > q => j - 1 \in 1..n /\ pd[j] = p[j - 1] + 1 /\ i <= p[j - 1]
    OBVIOUS
  <2>1. CASE j < q
    BY <1>2, <1>7, <1>8, <2>1
  <2>2. CASE j = q
    BY <1>2, <1>7, <2>2
  <2>3. CASE j > q
    <3>1. j - 1 \in 1..n /\ ~ (j - 1 < q)
      BY <1>2, <1>7, <2>3
    <3>2. i <= p[j - 1]
      BY <1>0, <1>2, <1>8, <3>1
    <3> QED BY <1>2, <1>7, <2>3, <3>1, <3>2
  <2> QED BY <1>2, <1>7, <2>1, <2>2, <2>3
<1>10. pd \in [1..n + 1 -> 1..Len(d)]
  <2>1. ASSUME NEW j \in 1..n + 1 PROVE pd[j] \in 1..Len(d)
    <3>1. CASE j < q
      <4>1. j \in 1..n /\ pd[j] = p[j] /\ p[j] \in 1..Len(c)
        BY <1>2, <1>9, <3>1
      <4> QED BY <1>0, <1>5, <4>1
    <3>2. CASE j = q
      BY <1>0, <1>5, <1>9, <3>2
    <3>3. CASE j > q
      <4>1. j - 1 \in 1..n /\ pd[j] = p[j - 1] + 1
        BY <1>9, <3>3
      <4>2. p[j - 1] \in 1..Len(c)
        BY <1>2, <4>1
      <4> HIDE DEF pd
      <4> QED BY <1>0, <1>5, <4>1, <4>2
    <3>4. j \in Int
      BY <1>2
    <3> QED BY <1>7, <3>1, <3>2, <3>3, <3>4
  <2>2. pd = [j \in 1..n + 1 |-> pd[j]]
    OBVIOUS
  <2> HIDE DEF pd
  <2> QED BY <2>1, <2>2
<1> HIDE DEF pd
<1>11. \A j \in 1..n + 1 :
         /\ j < q => d[pd[j]] = c[p[j]]
         /\ j = q => d[pd[j]] = e
         /\ j > q => d[pd[j]] = c[p[j - 1]]
  <2> SUFFICES ASSUME NEW j \in 1..n + 1
               PROVE  /\ j < q => d[pd[j]] = c[p[j]]
                      /\ j = q => d[pd[j]] = e
                      /\ j > q => d[pd[j]] = c[p[j - 1]]
    OBVIOUS
  <2>1. pd[j] \in 1..Len(c) + 1 /\ pd[j] \in Int
    BY <1>0, <1>5, <1>10
  <2>2. d[pd[j]] = IF pd[j] < i THEN c[pd[j]] ELSE IF pd[j] = i THEN e ELSE c[pd[j] - 1]
    BY <1>5, <2>1
  <2>3. CASE j < q
    BY <1>7, <1>9, <2>2, <2>3
  <2>4. CASE j = q
    BY <1>0, <1>7, <1>9, <2>2, <2>4
  <2>5. CASE j > q
    <3>1. j - 1 \in 1..n /\ pd[j] = p[j - 1] + 1 /\ i <= p[j - 1]
      BY <1>9, <2>5
    <3>2. p[j - 1] \in Int
      BY <1>2, <3>1
    <3>3. ~ (pd[j] < i) /\ pd[j] # i /\ pd[j] - 1 = p[j - 1]
      BY <1>0, <3>1, <3>2
    <3>4. j \in Int
      BY <1>2
    <3> QED BY <1>7, <2>2, <2>5, <3>3, <3>4
  <2>6. j \in Int
    BY <1>2
  <2> QED BY <1>7, <2>3, <2>4, <2>5, <2>6
<1>12. ASSUME NEW j \in 1..n + 1 PROVE d[pd[j]] \in T
  <2>1. CASE j < q
    BY <1>2, <1>9, <1>11, <2>1
  <2>2. CASE j = q
    BY <1>11, <2>2
  <2>3. CASE j > q
    BY <1>2, <1>9, <1>11, <2>3
  <2>4. j \in Int
    BY <1>2
  <2> QED BY <1>7, <2>1, <2>2, <2>3, <2>4
<1>13. ASSUME NEW x \in 1..Len(d), d[x] \in T PROVE \E j \in 1..n + 1 : pd[j] = x
  <2>1. CASE x < i
    <3>1. x \in 1..Len(c) /\ c[x] \in T
      BY <1>0, <1>5, <1>13, <2>1
    <3>2. PICK j \in 1..n : p[j] = x
      BY <1>2, <3>1
    <3>3. j < q /\ j \in 1..n + 1
      BY <1>2, <1>8, <2>1, <3>2
    <3> QED BY <1>9, <3>2, <3>3
  <2>2. CASE x = i
    BY <1>7, <1>9, <2>2
  <2>3. CASE x > i
    <3>1. x - 1 \in 1..Len(c) /\ c[x - 1] \in T
      BY <1>0, <1>5, <1>13, <2>3
    <3>2. PICK j \in 1..n : p[j] = x - 1
      BY <1>2, <3>1
    <3>3. ~ (p[j] < i)
      BY <1>0, <1>5, <2>3, <3>2
    <3>4. j + 1 \in 1..n + 1 /\ j + 1 > q /\ (j + 1) - 1 = j
      BY <1>2, <1>7, <1>8, <3>3
    <3>5. pd[j + 1] = p[j] + 1
      BY <1>9, <3>4
    <3> QED BY <1>5, <3>2, <3>4, <3>5
  <2> QED BY <1>0, <1>5, <2>1, <2>2, <2>3
<1>14. ASSUME NEW j \in 1..n + 1, NEW m \in 1..n + 1, j < m PROVE pd[j] < pd[m]
  <2>0. j \in Int /\ m \in Int
    BY <1>2
  <2>1. CASE m < q
    BY <1>2, <1>7, <1>9, <1>14, <2>0, <2>1
  <2>2. CASE m = q
    BY <1>0, <1>2, <1>7, <1>9, <1>14, <2>0, <2>2
  <2>3. CASE m > q /\ j > q
    <3>1. j - 1 \in 1..n /\ m - 1 \in 1..n /\ j - 1 < m - 1
      BY <1>9, <1>14, <2>0, <2>3
    <3>2. p[j - 1] < p[m - 1] /\ p[j - 1] \in Int /\ p[m - 1] \in Int
      BY <1>2, <3>1
    <3>3. pd[j] = p[j - 1] + 1 /\ pd[m] = p[m - 1] + 1
      BY <1>9, <2>3
    <3> QED BY <3>2, <3>3
  <2>4. CASE m > q /\ j <= q
    <3>1. pd[m] = p[m - 1] + 1 /\ i <= p[m - 1] /\ p[m - 1] \in Int
      BY <1>2, <1>9, <2>4
    <3>2. pd[j] <= i /\ pd[j] \in Int
      BY <1>0, <1>2, <1>7, <1>9, <2>0, <2>4
    <3> QED BY <1>0, <3>1, <3>2
  <2> QED BY <1>7, <2>0, <2>1, <2>2, <2>3, <2>4
<1>15. Picks(pd, n + 1, d, T)
  <2>1. \A x \in 1..Len(d) : d[x] \in T <=> \E j \in 1..n + 1 : pd[j] = x
    BY <1>12, <1>13
  <2>2. n + 1 \in Nat
    BY <1>2
  <2> QED BY <1>10, <1>14, <2>1, <2>2 DEF Picks
<1>16. Filtered(d, T) = [j \in 1..n + 1 |-> d[pd[j]]]
  BY <1>5, <1>15, FilteredOnly
<1> DEFINE r == InsertAt(k, q, e)
<1>17. /\ r \in Seq(A) /\ Len(r) = n + 1
       /\ \A j \in 1..n + 1 : r[j] = IF j < q THEN k[j] ELSE IF j = q THEN e ELSE k[j - 1]
  <2>1. q \in 1..Len(k) + 1
    BY <1>4, <1>7
  <2>2. k \in Seq(A) /\ Len(k) = n
    BY <1>4
  <2> HIDE DEF r
  <2>3. InsertAt(k, q, e) \in Seq(A) /\ Inserted(InsertAt(k, q, e), k, q, e)
    BY <2>1, <2>2, InsertedWell
  <2> QED BY <2>2, <2>3 DEF Inserted, r
<1> HIDE DEF r
<1>18. ASSUME NEW j \in 1..n + 1 PROVE r[j] = d[pd[j]]
  <2>0. r[j] = IF j < q THEN k[j] ELSE IF j = q THEN e ELSE k[j - 1]
    BY <1>17
  <2>1. CASE j < q
    BY <1>4, <1>9, <1>11, <2>0, <2>1
  <2>2. CASE j = q
    BY <1>7, <1>11, <2>0, <2>2
  <2>3. CASE j > q
    <3>1. j - 1 \in 1..n /\ d[pd[j]] = c[p[j - 1]]
      BY <1>9, <1>11, <2>3
    <3>2. k[j - 1] = c[p[j - 1]]
      BY <1>4, <3>1
    <3>3. ~ (j < q) /\ j # q
      BY <1>2, <1>7, <2>3
    <3> QED BY <2>0, <3>1, <3>2, <3>3
  <2>4. j \in Int
    BY <1>2
  <2> QED BY <1>7, <2>1, <2>2, <2>3, <2>4
<1>19. r = [j \in 1..n + 1 |-> d[pd[j]]]
  <2>1. r = [j \in 1..n + 1 |-> r[j]]
    BY <1>17
  <2> QED BY <1>18, <2>1
<1>20. Filtered(d, T) = InsertAt(k, q, e)
  BY <1>16, <1>19 DEF r
<1> QED BY <1>4, <1>7, <1>20 DEF k, d

\* What is taken out of a sequence is taken out of what is kept of it.
LEMMA KeptRemoved ==
  ASSUME NEW A, NEW c \in Seq(A), NEW T, NEW i \in DOMAIN c, c[i] \in T
  PROVE  \E q \in DOMAIN Filtered(c, T) :
           Filtered(RemoveAt(c, i), T) = RemoveAt(Filtered(c, T), q)
<1> DEFINE k == Filtered(c, T)
           d == RemoveAt(c, i)
<1>0. Len(c) \in Nat /\ i \in Int /\ i \in 1..Len(c)
  OBVIOUS
<1>1. PICK n, p : Picks(p, n, c, T)
  BY FilteredPicks
<1>2. /\ n \in Nat /\ p \in [1..n -> 1..Len(c)]
      /\ \A j \in 1..n : p[j] \in 1..Len(c) /\ p[j] \in Int /\ c[p[j]] \in T
      /\ \A x \in 1..Len(c) : c[x] \in T => \E j \in 1..n : p[j] = x
      /\ \A j, m \in 1..n : j < m => p[j] < p[m]
  BY <1>0, <1>1 DEF Picks
<1>3. k = [j \in 1..n |-> c[p[j]]]
  BY <1>1, FilteredOnly
<1>4. /\ k \in Seq(A) /\ Len(k) = n /\ \A j \in 1..n : k[j] = c[p[j]]
  BY <1>2, <1>3
<1>5. /\ d \in Seq(A) /\ Len(d) = Len(c) - 1
      /\ \A j \in 1..Len(c) - 1 : d[j] = IF j < i THEN c[j] ELSE c[j + 1]
  BY RemovedIs
<1> HIDE DEF k, d
<1>6. PICK q \in 1..n : p[q] = i
  BY <1>0, <1>2
<1>7. q \in Int /\ n - 1 \in Nat /\ Len(d) \in Nat
  BY <1>0, <1>2, <1>5
<1>8. ASSUME NEW j \in 1..n
      PROVE  /\ j < q => p[j] < i
             /\ j > q => p[j] > i
  BY <1>2, <1>6
<1> DEFINE pd == [j \in 1..n - 1 |-> IF j < q THEN p[j] ELSE p[j + 1] - 1]
<1>9. ASSUME NEW j \in 1..n - 1
      PROVE  /\ j \in 1..n /\ j + 1 \in 1..n /\ j \in Int
             /\ j < q => pd[j] = p[j] /\ p[j] < i
             /\ j >= q => pd[j] = p[j + 1] - 1 /\ i < p[j + 1]
  <2>1. j \in 1..n /\ j + 1 \in 1..n /\ j \in Int
    BY <1>2
  <2>2. CASE j < q
    BY <1>7, <1>8, <2>1, <2>2
  <2>3. CASE j >= q
    <3>1. j + 1 > q /\ ~ (j < q)
      BY <1>7, <2>1, <2>3
    <3>2. p[j + 1] > i
      BY <1>8, <2>1, <3>1
    <3> QED BY <2>1, <3>1, <3>2
  <2> QED BY <1>7, <2>1, <2>2, <2>3
<1>10. ASSUME NEW j \in 1..n - 1
       PROVE  /\ pd[j] \in 1..Len(d)
              /\ d[pd[j]] = IF j < q THEN c[p[j]] ELSE c[p[j + 1]]
  <2>1. CASE j < q
    <3>1. pd[j] = p[j] /\ p[j] < i /\ p[j] \in 1..Len(c)
      BY <1>2, <1>9, <2>1
    <3> HIDE DEF pd
    <3>2. pd[j] \in 1..Len(c) - 1 /\ pd[j] < i
      BY <1>0, <3>1
    <3> QED BY <1>5, <2>1, <3>1, <3>2
  <2>2. CASE j >= q
    <3>1. pd[j] = p[j + 1] - 1 /\ i < p[j + 1] /\ p[j + 1] \in 1..Len(c)
      BY <1>2, <1>9, <2>2
    <3> HIDE DEF pd
    <3>2. pd[j] \in 1..Len(c) - 1 /\ ~ (pd[j] < i) /\ pd[j] + 1 = p[j + 1] /\ ~ (j < q)
      BY <1>0, <1>7, <1>9, <2>2, <3>1
    <3>3. d[pd[j]] = c[pd[j] + 1]
      BY <1>5, <3>2
    <3> QED BY <1>5, <3>2, <3>3
  <2> QED BY <1>7, <1>9, <2>1, <2>2
<1>11. pd \in [1..n - 1 -> 1..Len(d)]
  <2>1. pd = [j \in 1..n - 1 |-> pd[j]]
    OBVIOUS
  <2> HIDE DEF pd
  <2> QED BY <1>10, <2>1
<1> HIDE DEF pd
<1>12. ASSUME NEW j \in 1..n - 1 PROVE d[pd[j]] \in T
  <2>1. j \in 1..n /\ j + 1 \in 1..n
    BY <1>9
  <2> QED BY <1>2, <1>10, <2>1
<1>13. ASSUME NEW x \in 1..Len(d), d[x] \in T PROVE \E j \in 1..n - 1 : pd[j] = x
  <2>0. x \in 1..Len(c) - 1 /\ x \in Int
    BY <1>0, <1>5
  <2>1. CASE x < i
    <3>1. x \in 1..Len(c) /\ c[x] \in T
      BY <1>0, <1>5, <1>13, <2>0, <2>1
    <3>2. PICK j \in 1..n : p[j] = x
      BY <1>2, <3>1
    <3>3. j < q /\ j \in Int
      BY <1>0, <1>2, <1>6, <1>7, <1>8, <2>0, <2>1, <3>2
    <3>4. j \in 1..n - 1
      BY <1>2, <1>7, <3>3
    <3> QED BY <1>9, <3>2, <3>3, <3>4
  <2>2. CASE x >= i
    <3>1. x + 1 \in 1..Len(c) /\ c[x + 1] \in T
      <4>1. ~ (x < i)
        BY <1>0, <2>0, <2>2
      <4>2. d[x] = c[x + 1]
        BY <1>5, <2>0, <4>1
      <4> QED BY <1>0, <1>13, <2>0, <4>2
    <3>2. PICK j \in 1..n : p[j] = x + 1
      BY <1>2, <3>1
    <3>3. j > q /\ j \in Int
      BY <1>0, <1>2, <1>6, <1>7, <1>8, <2>0, <2>2, <3>2
    <3>4. j - 1 \in 1..n - 1 /\ j - 1 >= q /\ (j - 1) + 1 = j
      BY <1>2, <1>7, <3>3
    <3>5. pd[j - 1] = p[j] - 1
      BY <1>9, <3>4
    <3> QED BY <2>0, <3>2, <3>4, <3>5
  <2> QED BY <1>0, <2>0, <2>1, <2>2
<1>14. ASSUME NEW j \in 1..n - 1, NEW m \in 1..n - 1, j < m PROVE pd[j] < pd[m]
  <2>0. /\ j \in Int /\ m \in Int
        /\ {j, j + 1, m, m + 1} \subseteq 1..n
    BY <1>9
  <2>1. CASE m < q
    BY <1>2, <1>7, <1>9, <1>14, <2>0, <2>1
  <2>2. CASE j >= q
    <3>1. p[j + 1] < p[m + 1] /\ p[j + 1] \in Int /\ p[m + 1] \in Int
      BY <1>2, <1>14, <2>0
    <3>2. pd[j] = p[j + 1] - 1 /\ pd[m] = p[m + 1] - 1
      BY <1>7, <1>9, <1>14, <2>0, <2>2
    <3> QED BY <3>1, <3>2
  <2>3. CASE j < q /\ m >= q
    <3>1. pd[j] < i /\ pd[j] \in Int
      BY <1>2, <1>9, <2>0, <2>3
    <3>2. pd[m] = p[m + 1] - 1 /\ i < p[m + 1] /\ p[m + 1] \in Int
      BY <1>2, <1>9, <2>0, <2>3
    <3> QED BY <1>0, <3>1, <3>2
  <2> QED BY <1>7, <2>0, <2>1, <2>2, <2>3
<1>15. Picks(pd, n - 1, d, T)
  <2>1. \A x \in 1..Len(d) : d[x] \in T <=> \E j \in 1..n - 1 : pd[j] = x
    BY <1>12, <1>13
  <2> QED BY <1>7, <1>11, <1>14, <2>1 DEF Picks
<1>16. Filtered(d, T) = [j \in 1..n - 1 |-> d[pd[j]]]
  BY <1>5, <1>15, FilteredOnly
<1> DEFINE r == RemoveAt(k, q)
<1>17. /\ r \in Seq(A) /\ Len(r) = n - 1
       /\ \A j \in 1..n - 1 : r[j] = IF j < q THEN k[j] ELSE k[j + 1]
  <2>1. k \in Seq(A) /\ q \in DOMAIN k /\ Len(k) = n
    BY <1>4
  <2>2. ASSUME NEW y \in Seq(A), NEW z \in DOMAIN y
        PROVE  /\ RemoveAt(y, z) \in Seq(A) /\ Len(RemoveAt(y, z)) = Len(y) - 1
               /\ \A j \in 1..Len(y) - 1 :
                    RemoveAt(y, z)[j] = IF j < z THEN y[j] ELSE y[j + 1]
    BY ONLY RemovedIs
  <2> QED BY <2>1, <2>2
<1> HIDE DEF r
<1>18. ASSUME NEW j \in 1..n - 1 PROVE r[j] = d[pd[j]]
  <2>1. j \in 1..n /\ j + 1 \in 1..n
    BY <1>9
  <2>2. k[j] = c[p[j]] /\ k[j + 1] = c[p[j + 1]]
    BY <1>4, <2>1
  <2> QED BY <1>10, <1>17, <2>2
<1>19. r = [j \in 1..n - 1 |-> d[pd[j]]]
  <2>1. r = [j \in 1..n - 1 |-> r[j]]
    BY <1>17
  <2> QED BY <1>18, <2>1
<1>20. Filtered(d, T) = RemoveAt(k, q)
  BY <1>16, <1>19 DEF r
<1>21. q \in DOMAIN k
  BY <1>4
<1> QED BY <1>20, <1>21 DEF k, d

\* d is c with what is at a and at b, next to each other, exchanged.
Swaps(A, c, d, a, b) ==
  /\ c \in Seq(A) /\ d \in Seq(A) /\ Len(d) = Len(c)
  /\ a \in 1..Len(c) /\ b \in 1..Len(c) /\ (b = a + 1 \/ a = b + 1)
  /\ \A x \in 1..Len(c) : d[x] = IF x = a THEN c[b] ELSE IF x = b THEN c[a] ELSE c[x]

\* What is kept does not change when an element of it passes one that is not kept.
LEMMA KeptPasses ==
  ASSUME NEW A, NEW c, NEW d, NEW a, NEW b, Swaps(A, c, d, a, b), NEW T, c[a] \in T, c[b] \notin T
  PROVE  Filtered(d, T) = Filtered(c, T)
<1>0. /\ c \in Seq(A) /\ d \in Seq(A) /\ Len(d) = Len(c) /\ Len(c) \in Nat
      /\ a \in 1..Len(c) /\ b \in 1..Len(c) /\ (b = a + 1 \/ a = b + 1)
      /\ \A x \in 1..Len(c) : d[x] = IF x = a THEN c[b] ELSE IF x = b THEN c[a] ELSE c[x]
  BY DEF Swaps
<1>1. PICK n, p : Picks(p, n, c, T)
  BY <1>0, FilteredPicks
<1>2. /\ n \in Nat /\ p \in [1..n -> 1..Len(c)]
      /\ \A j \in 1..n : p[j] \in 1..Len(c) /\ p[j] \in Int /\ c[p[j]] \in T
      /\ \A x \in 1..Len(c) : c[x] \in T => \E j \in 1..n : p[j] = x
      /\ \A j, m \in 1..n : j < m => p[j] < p[m]
  BY <1>0, <1>1 DEF Picks
<1>3. PICK q \in 1..n : p[q] = a
  BY <1>0, <1>2
<1>4. q \in Int /\ a \in Int /\ b \in Int
  BY <1>0, <1>2
<1> DEFINE pd == [j \in 1..n |-> IF j = q THEN b ELSE p[j]]
<1>5. ASSUME NEW j \in 1..n, j # q
      PROVE  p[j] # a /\ p[j] # b /\ (p[j] < a <=> p[j] < b) /\ (j < q <=> p[j] < b)
  <2>1. p[j] # b
    BY <1>2
  <2>2. j \in Int /\ (j < q \/ q < j)
    BY <1>2, <1>4, <1>5
  <2>3. (j < q => p[j] < a) /\ (q < j => a < p[j])
    BY <1>2, <1>3
  <2>4. p[j] \in Int
    BY <1>2
  <2>5. p[j] # a
    BY <1>4, <2>2, <2>3, <2>4
  <2>6. p[j] < a <=> p[j] < b
    BY <1>0, <1>4, <2>1, <2>4, <2>5
  <2> QED BY <1>4, <2>1, <2>2, <2>3, <2>4, <2>5, <2>6
<1>6. ASSUME NEW j \in 1..n
      PROVE  pd[j] \in 1..Len(c) /\ d[pd[j]] = c[p[j]] /\ (j = q => pd[j] = b) /\ (j # q => pd[j] = p[j])
  <2>1. CASE j = q
    <3>1. pd[j] = b /\ b # a
      BY <1>0, <1>4, <2>1
    <3> HIDE DEF pd
    <3> QED BY <1>0, <1>3, <2>1, <3>1
  <2>2. CASE j # q
    <3>1. pd[j] = p[j] /\ p[j] \in 1..Len(c)
      BY <1>2, <2>2
    <3> HIDE DEF pd
    <3> QED BY <1>0, <1>5, <2>2, <3>1
  <2> QED BY <2>1, <2>2
<1>7. pd \in [1..n -> 1..Len(d)]
  <2>1. pd = [j \in 1..n |-> pd[j]]
    OBVIOUS
  <2> HIDE DEF pd
  <2> QED BY <1>0, <1>6, <2>1
<1> HIDE DEF pd
<1>8. ASSUME NEW x \in 1..Len(d), d[x] \in T PROVE \E j \in 1..n : pd[j] = x
  <2>1. x # a
    BY <1>0, <1>8
  <2>2. CASE x = b
    BY <1>6, <2>2
  <2>3. CASE x # b
    <3>1. d[x] = c[x] /\ x \in 1..Len(c)
      BY <1>0, <2>1, <2>3
    <3>2. PICK j \in 1..n : p[j] = x
      BY <1>2, <1>8, <3>1
    <3>3. j # q
      BY <1>3, <2>1, <3>2
    <3> QED BY <1>6, <3>2, <3>3
  <2> QED BY <2>2, <2>3
<1>9. ASSUME NEW j \in 1..n, NEW m \in 1..n, j < m PROVE pd[j] < pd[m]
  <2>0. j \in Int /\ m \in Int /\ p[j] \in Int /\ p[m] \in Int /\ p[j] < p[m]
    BY <1>2, <1>9
  <2>1. CASE j = q
    <3>1. pd[j] = b /\ pd[m] = p[m] /\ m # q
      BY <1>4, <1>6, <1>9, <2>0, <2>1
    <3>2. ~ (p[m] < b) /\ p[m] # b
      BY <1>4, <1>5, <1>9, <2>0, <2>1, <3>1
    <3> QED BY <1>4, <2>0, <3>1, <3>2
  <2>2. CASE m = q
    <3>1. pd[m] = b /\ pd[j] = p[j] /\ j # q
      BY <1>4, <1>6, <1>9, <2>0, <2>2
    <3> QED BY <1>5, <1>9, <2>2, <3>1
  <2>3. CASE j # q /\ m # q
    BY <1>6, <2>0, <2>3
  <2> QED BY <2>1, <2>2, <2>3
<1>10. Picks(pd, n, d, T)
  <2>1. \A x \in 1..Len(d) : d[x] \in T <=> \E j \in 1..n : pd[j] = x
    <3>1. \A j \in 1..n : d[pd[j]] \in T
      BY <1>2, <1>6
    <3> QED BY <1>8, <3>1
  <2> QED BY <1>2, <1>7, <1>9, <2>1 DEF Picks
<1>11. Filtered(d, T) = [j \in 1..n |-> d[pd[j]]]
  BY <1>0, <1>10, FilteredOnly
<1>12. Filtered(c, T) = [j \in 1..n |-> c[p[j]]]
  BY <1>0, <1>1, FilteredOnly
<1> QED BY <1>6, <1>11, <1>12

\* What is kept is exchanged when its elements are.
LEMMA KeptSwaps ==
  ASSUME NEW A, NEW c, NEW d, NEW a, NEW b, Swaps(A, c, d, a, b), b = a + 1,
         NEW T, c[a] \in T, c[b] \in T
  PROVE  LET k == Filtered(c, T)
         IN \E q \in 1..Len(k) - 1 : Filtered(d, T) = [k EXCEPT ![q] = k[q + 1], ![q + 1] = k[q]]
<1> DEFINE k == Filtered(c, T)
<1>0. /\ c \in Seq(A) /\ d \in Seq(A) /\ Len(d) = Len(c) /\ Len(c) \in Nat
      /\ a \in 1..Len(c) /\ b \in 1..Len(c) /\ a \in Int /\ b \in Int
      /\ \A x \in 1..Len(c) : d[x] = IF x = a THEN c[b] ELSE IF x = b THEN c[a] ELSE c[x]
  BY DEF Swaps
<1>1. PICK n, p : Picks(p, n, c, T)
  BY <1>0, FilteredPicks
<1>2. /\ n \in Nat /\ p \in [1..n -> 1..Len(c)]
      /\ \A j \in 1..n : p[j] \in 1..Len(c) /\ p[j] \in Int /\ c[p[j]] \in T
      /\ \A x \in 1..Len(c) : c[x] \in T => \E j \in 1..n : p[j] = x
      /\ \A j, m \in 1..n : j < m => p[j] < p[m]
  BY <1>0, <1>1 DEF Picks
<1>3. k = [j \in 1..n |-> c[p[j]]]
  BY <1>0, <1>1, FilteredOnly
<1>4. k \in Seq(A) /\ Len(k) = n /\ k \in [1..n -> A] /\ \A j \in 1..n : k[j] = c[p[j]]
  BY <1>0, <1>2, <1>3
<1> HIDE DEF k
<1>5. PICK q \in 1..n : p[q] = a
  BY <1>0, <1>2
<1>6. q + 1 \in 1..n /\ p[q + 1] = b /\ q \in Int
  <2>1. PICK m \in 1..n : p[m] = b
    BY <1>0, <1>2
  <2>2. q \in Int /\ m \in Int
    BY <1>2
  <2>3. q < m
    <3>1. ~ (m < q) /\ m # q
      BY <1>0, <1>2, <1>5, <2>1
    <3> QED BY <2>2, <3>1
  <2>4. q + 1 \in 1..n
    BY <1>2, <2>2, <2>3
  <2>5. ~ (q + 1 < m)
    <3>1. p[q] < p[q + 1] /\ p[q + 1] \in Int
      BY <1>2, <2>2, <2>4
    <3> QED BY <1>0, <1>2, <1>5, <2>1, <2>4, <3>1
  <2>6. q + 1 = m
    BY <2>2, <2>3, <2>5
  <2> QED BY <2>1, <2>2, <2>4, <2>6
<1>7. \A j, m \in 1..n : p[j] = p[m] => j = m
  <2> SUFFICES ASSUME NEW j \in 1..n, NEW m \in 1..n, p[j] = p[m] PROVE j = m
    OBVIOUS
  <2>1. ~ (j < m) /\ ~ (m < j)
    BY <1>2
  <2> QED BY <1>2, <2>1
<1>8. \A j \in 1..n : d[p[j]] = IF j = q THEN k[q + 1] ELSE IF j = q + 1 THEN k[q] ELSE k[j]
  BY <1>0, <1>2, <1>4, <1>5, <1>6, <1>7
<1>9. Picks(p, n, d, T)
  <2>1. \A x \in 1..Len(c) : d[x] \in T <=> c[x] \in T
    BY <1>0
  <2> QED BY <1>0, <1>1, <2>1 DEF Picks
<1>10. Filtered(d, T) = [j \in 1..n |-> d[p[j]]]
  BY <1>0, <1>9, FilteredOnly
<1> DEFINE r == [k EXCEPT ![q] = k[q + 1], ![q + 1] = k[q]]
<1>11. /\ r = [j \in 1..n |-> r[j]]
       /\ \A j \in 1..n : r[j] = IF j = q THEN k[q + 1] ELSE IF j = q + 1 THEN k[q] ELSE k[j]
  BY <1>4, <1>6
<1> HIDE DEF r
<1>12. Filtered(d, T) = r
  BY <1>8, <1>10, <1>11
<1>13. q \in 1..Len(k) - 1
  BY <1>2, <1>4, <1>6
<1> QED BY <1>12, <1>13 DEF r, k

-----------------------------------------------------------------------------
(* The buttons of a list move one row.                                     *)
LEMMA SameRows ==
  /\ \A s, T : List!Filtered(s, T) = Filtered(s, T)
  /\ \A s, T : Select!Filtered(s, T) = Filtered(s, T)
<1>1. \A s, T : List!Filtered(s, T) = Filtered(s, T)
  BY Zenon DEF List!Filtered, Filtered, List!Listed, Listed, List!Place, Place,
               List!Cardinality, Cardinality
<1>2. \A s, T : Select!Filtered(s, T) = Filtered(s, T)
  BY Zenon DEF Select!Filtered, Filtered, Select!Listed, Listed, Select!Place, Place,
               Select!Cardinality, Cardinality
<1> QED BY <1>1, <1>2

IsRow == Int \ {-1}

LEMMA RowsAre == List!rows = Filtered(children, IsRow) /\ (List!rows)' = Filtered(children', IsRow)
<1>1. IsRow = Int \ {List!Text}
  BY DEF IsRow, List!Text
<1>2. List!rows = List!Filtered(children, Int \ {List!Text})
  BY DEF List!rows
<1>3. (List!rows)' = List!Filtered(children', Int \ {List!Text})
  BY DEF List!rows
<1> QED BY <1>1, <1>2, <1>3, SameRows

MovesOneRow == List!OneMoved(List!rows, (List!rows)')

LEMMA RowAdded ==
  ASSUME ListInv, NEW i \in 1..Len(children) + 1, List!AddItem(i)
  PROVE  MovesOneRow
<1>1. children' = InsertAt(children, i, index)
  BY DEF List!AddItem, List!NextIndex, InsertAt, List!InsertAt
<1>2. children \in Seq(Int) /\ index \in Int /\ index \in IsRow
  BY PageAssumption DEF ListInv, Rows, IsRow
<1>3. PICK q \in 1..Len(Filtered(children, IsRow)) + 1 :
        Filtered(InsertAt(children, i, index), IsRow)
          = InsertAt(Filtered(children, IsRow), q, index)
  BY <1>2, KeptInserted
<1>4. q \in 1..Len(List!rows) + 1 /\ (List!rows)' = List!InsertAt(List!rows, q, index)
  BY <1>1, <1>3, RowsAre DEF InsertAt, List!InsertAt
<1> QED BY <1>4 DEF MovesOneRow, List!OneMoved

LEMMA RowDeleted ==
  ASSUME ListInv, NEW i \in DOMAIN children, List!Delete(i)
  PROVE  MovesOneRow
<1>1. children' = RemoveAt(children, i) /\ children[i] # -1
  BY DEF List!Delete, RemoveAt, List!RemoveAt, List!Text
<1>2. children \in Seq(Int) /\ children[i] \in IsRow
  BY <1>1 DEF ListInv, Rows, IsRow
<1>3. PICK q \in DOMAIN Filtered(children, IsRow) :
        Filtered(RemoveAt(children, i), IsRow) = RemoveAt(Filtered(children, IsRow), q)
  BY <1>2, KeptRemoved
<1>4. q \in DOMAIN List!rows /\ (List!rows)' = List!RemoveAt(List!rows, q)
  BY <1>1, <1>3, RowsAre DEF RemoveAt, List!RemoveAt
<1> QED BY <1>4 DEF MovesOneRow, List!OneMoved

LEMMA RowExchanged ==
  ASSUME ListInv, NEW i \in 1..Len(children) - 1, children' = List!Exchanged(i),
         children[i] # -1 \/ children[i + 1] # -1
  PROVE  MovesOneRow
<1>0. children \in Seq(Int) /\ Len(children) \in Nat /\ {i, i + 1} \subseteq 1..Len(children)
  BY DEF ListInv, Rows
<1>1. Swaps(Int, children, children', i, i + 1) /\ Swaps(Int, children, children', i + 1, i)
  <2>1. children' = [children EXCEPT ![i] = children[i + 1], ![i + 1] = children[i]]
    BY DEF List!Exchanged
  <2>2. /\ children' \in Seq(Int) /\ Len(children') = Len(children)
        /\ \A x \in 1..Len(children) :
             children'[x] = IF x = i THEN children[i + 1]
                            ELSE IF x = i + 1 THEN children[i] ELSE children[x]
    BY <1>0, <2>1
  <2> QED BY <1>0, <2>2 DEF Swaps
<1>2. children[i] \in Int /\ children[i + 1] \in Int
  BY <1>0
<1>3. CASE children[i] # -1 /\ children[i + 1] # -1
  <2>1. children[i] \in IsRow /\ children[i + 1] \in IsRow
    BY <1>2, <1>3 DEF IsRow
  <2> DEFINE k == Filtered(children, IsRow)
  <2>2. PICK q \in 1..Len(k) - 1 :
          Filtered(children', IsRow) = [k EXCEPT ![q] = k[q + 1], ![q + 1] = k[q]]
    BY <1>1, <2>1, KeptSwaps
  <2>3. k = List!rows /\ Filtered(children', IsRow) = (List!rows)'
    BY RowsAre
  <2> HIDE DEF k
  <2> QED BY <2>2, <2>3 DEF MovesOneRow, List!OneMoved
<1>4. CASE children[i] # -1 /\ children[i + 1] = -1
  <2>1. children[i] \in IsRow /\ children[i + 1] \notin IsRow
    BY <1>2, <1>4 DEF IsRow
  <2> QED BY <1>1, <2>1, KeptPasses, RowsAre DEF MovesOneRow, List!OneMoved
<1>5. CASE children[i] = -1 /\ children[i + 1] # -1
  <2>1. children[i] \notin IsRow /\ children[i + 1] \in IsRow
    BY <1>2, <1>5 DEF IsRow
  <2> QED BY <1>1, <2>1, KeptPasses, RowsAre DEF MovesOneRow, List!OneMoved
<1> QED BY <1>3, <1>4, <1>5

LEMMA ListMoves == ListInv /\ List!Next => MovesOneRow
<1> SUFFICES ASSUME ListInv, List!Next PROVE MovesOneRow
  OBVIOUS
<1>0. children \in Seq(Int)
  BY DEF ListInv, Rows
<1>1. CASE List!Create
  BY <1>0, <1>1, RowAdded DEF List!Create
<1>2. ASSUME NEW i \in DOMAIN children, List!Add(i) PROVE MovesOneRow
  <2>1. i + 1 \in 1..Len(children) + 1
    BY <1>0
  <2> QED BY <1>2, <2>1, RowAdded DEF List!Add
<1>3. ASSUME NEW i \in DOMAIN children, List!Delete(i) PROVE MovesOneRow
  BY <1>3, RowDeleted
<1>4. ASSUME NEW i \in DOMAIN children, List!Up(i) PROVE MovesOneRow
  <2>1. i - 1 \in 1..Len(children) - 1 /\ (i - 1) + 1 = i
    BY <1>0, <1>4 DEF List!Up
  <2>2. children' = List!Exchanged(i - 1) /\ children[(i - 1) + 1] # -1
    BY <1>4, <2>1 DEF List!Up, List!Text
  <2> QED BY <2>1, <2>2, RowExchanged
<1>5. ASSUME NEW i \in DOMAIN children, List!Down(i) PROVE MovesOneRow
  <2>1. i \in 1..Len(children) - 1
    BY <1>0, <1>5 DEF List!Down
  <2>2. children' = List!Exchanged(i) /\ children[i] # -1
    BY <1>5 DEF List!Down, List!Text
  <2> QED BY <2>1, <2>2, RowExchanged
<1> QED BY <1>1, <1>2, <1>3, <1>4, <1>5 DEF List!Next

-----------------------------------------------------------------------------
(* The buttons of a select move what is marked.                            *)

\* The boxes list the options of the select that are selected, and the others.
BoxesShow ==
  /\ dstSelect = Filtered([i \in Select!Items |-> i], chosen)
  /\ srcSelect = Filtered([i \in Select!Items |-> i], Select!Items \ chosen)
SelectInv == Select!SelectTypeOK /\ BoxesShow

LEMMA SelectInvInit == Select!Init => SelectInv
BY SelectInit, SameRows DEF Select!Init, SelectInv, BoxesShow

LEMMA SelectInvStep == SelectInv /\ [Select!Next]_selectVars => SelectInv'
<1> SUFFICES ASSUME SelectInv, [Select!Next]_selectVars PROVE SelectInv'
  OBVIOUS
<1>1. Select!SelectTypeOK'
  BY SelectStep DEF SelectInv
<1>2. ASSUME NEW S, Select!Drawn(S) PROVE BoxesShow'
  BY <1>2, SameRows DEF Select!Drawn, BoxesShow
<1>3. ASSUME UNCHANGED <<chosen, srcSelect, dstSelect>> PROVE BoxesShow'
  BY <1>3 DEF SelectInv, BoxesShow
<1> QED BY <1>1, <1>2, <1>3 DEF SelectInv, Select!Next, selectVars, Select!SelectAll,
          Select!DeselectAll, Select!SelectItems, Select!DeselectItems, Select!Mark

\* A box lists what it should.
LEMMA BoxIs ==
  ASSUME NEW S \in SUBSET Select!Items
  PROVE  LET box == Filtered([i \in Select!Items |-> i], S)
         IN \A i : i \in S <=> \E j \in DOMAIN box : box[j] = i
<1> DEFINE all == [i \in Select!Items |-> i]
           box == Filtered(all, S)
<1>1. Len(Options) \in Nat /\ Select!Items = 1..Len(Options)
  BY PageAssumption DEF Select!Items
<1>2. /\ all \in Seq(Int) /\ Len(all) = Len(Options)
      /\ \A i \in 1..Len(Options) : all[i] = i
  BY <1>1
<1> HIDE DEF all
<1>3. /\ box \in Seq(Int \cap S)
      /\ \A i \in 1..Len(all) : all[i] \in S => \E j \in 1..Len(box) : box[j] = all[i]
      /\ \A j \in 1..Len(box) : \E i \in 1..Len(all) : box[j] = all[i] /\ all[i] \in S
  <2>1. ASSUME NEW s \in Seq(Int)
        PROVE  /\ Filtered(s, S) \in Seq(Int \cap S)
               /\ \A i \in 1..Len(s) :
                    s[i] \in S => \E j \in 1..Len(Filtered(s, S)) : Filtered(s, S)[j] = s[i]
               /\ \A j \in 1..Len(Filtered(s, S)) :
                    \E i \in 1..Len(s) : Filtered(s, S)[j] = s[i] /\ s[i] \in S
    BY ONLY FilteredIs
  <2> QED BY <1>2, <2>1
<1> HIDE DEF box
<1>4. DOMAIN box = 1..Len(box)
  BY <1>3
<1>5. \A i : i \in S <=> \E j \in DOMAIN box : box[j] = i
  <2>1. ASSUME NEW i \in S PROVE \E j \in 1..Len(box) : box[j] = i
    <3>1. i \in 1..Len(all) /\ all[i] = i
      BY <1>1, <1>2
    <3> QED BY <1>3, <3>1
  <2>2. \A j \in 1..Len(box) : box[j] \in S
    BY <1>3
  <2> QED BY <1>4, <2>1, <2>2
<1> QED BY <1>5 DEF box, all

MovesMarked ==
  \A i \in Select!Items :
    /\ Select!SelectItems => (i \in chosen' <=>
         i \in chosen \/ \E j \in marked \ chosen : Options[i] = Options[j])
    /\ Select!DeselectItems => (i \in chosen' <=>
         i \in chosen /\ \A j \in marked \cap chosen : Options[i] # Options[j])

LEMMA SelectMoves == SelectInv => MovesMarked
<1> SUFFICES ASSUME SelectInv, NEW i \in Select!Items
             PROVE /\ Select!SelectItems => (i \in chosen' <=>
                        i \in chosen \/ \E j \in marked \ chosen : Options[i] = Options[j])
                   /\ Select!DeselectItems => (i \in chosen' <=>
                        i \in chosen /\ \A j \in marked \cap chosen : Options[i] # Options[j])
  BY DEF MovesMarked
<1>1. chosen \in SUBSET Select!Items /\ marked \subseteq Select!Items
  BY DEF SelectInv, Select!SelectTypeOK
<1>2. \A j : j \in chosen <=> \E m \in DOMAIN dstSelect : dstSelect[m] = j
  BY <1>1, BoxIs DEF SelectInv, BoxesShow
<1>3. \A j : j \in Select!Items \ chosen <=> \E m \in DOMAIN srcSelect : srcSelect[m] = j
  BY <1>1, BoxIs DEF SelectInv, BoxesShow
<1>4. i \in Select!Alike(srcSelect) <=> \E j \in marked \ chosen : Options[i] = Options[j]
  BY <1>1, <1>3 DEF Select!Alike
<1>5. i \in Select!Alike(dstSelect) <=> \E j \in marked \cap chosen : Options[i] = Options[j]
  BY <1>1, <1>2 DEF Select!Alike
<1>6. Select!SelectItems => chosen' = chosen \cup Select!Alike(srcSelect)
  BY DEF Select!SelectItems, Select!Drawn
<1>7. Select!DeselectItems => chosen' = chosen \ Select!Alike(dstSelect)
  BY DEF Select!DeselectItems, Select!Drawn
<1> QED BY <1>4, <1>5, <1>6, <1>7

-----------------------------------------------------------------------------
(* For any number of rows and options: a button of a list adds one row,    *)
(* deletes one, or moves one past one other, whatever white space is among *)
(* them, and a button of a select moves what is marked in its box, and its *)
(* likes, and nothing else.                                                *)
THEOREM OnlyAskedMovesAlways == MCSpec => OnlyAskedMoves
<1>1. MCInit => PagesInv /\ SelectInv
  BY PagesInit, SelectInvInit DEF MCInit
<1>2. PagesInv /\ SelectInv /\ [MCNext]_MCvars => (PagesInv /\ SelectInv)'
  BY PagesStep, SelectInvStep, OnePartMoves
<1>3. PagesInv /\ SelectInv /\ [MCNext]_MCvars => [MovesOneRow]_(List!vars)
  <2>1. UNCHANGED listVars => UNCHANGED List!vars
    BY DEF listVars, List!vars
  <2> QED BY <2>1, OnePartMoves, ListMoves DEF PagesInv
<1>4. PagesInv /\ SelectInv /\ [MCNext]_MCvars => [MovesMarked]_(Select!vars)
  BY SelectMoves
<1>5. [][MovesOneRow]_(List!vars) => List!OneRowMoves
  BY PTL DEF List!OneRowMoves, MovesOneRow
<1>6. [][MovesMarked]_(Select!vars) => Select!OnlyMarkedMove
  BY PTL DEF Select!OnlyMarkedMove, MovesMarked
<1> QED BY <1>1, <1>2, <1>3, <1>4, <1>5, <1>6, PTL DEF MCSpec, OnlyAskedMoves
=============================================================================
