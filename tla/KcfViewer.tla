----------------------------- MODULE KcfViewer -----------------------------
(***************************************************************************)
(* The image viewer of the KCFinder file browser.  "View" of a file starts *)
(* a viewer (a call of viewImage) that loads one image at a time; its      *)
(* dialog opens with the first image that has loaded.  The index of the    *)
(* image, the lock that is set while an image loads, and the handler of    *)
(* the keys belong to the page, not to the viewer: the loads of several    *)
(* viewers, the rows that a refresh replaces and the user's clicks         *)
(* interleave on them.                                                     *)
(***************************************************************************)
EXTENDS Naturals, Sequences, FiniteSets

CONSTANTS
  Listed,     \* the files of _.files
  images,     \* those that are images, in their order
  MaxViews    \* bound: viewers in one behaviour

VARIABLES
  dlg,        \* of every viewer: "none", "open" or "closed"
  shown,      \* image in the dialog of a viewer, 0 before
  currImg,    \* _.currImg, from 1
  lock,       \* _.lock
  loads,      \* images being loaded: viewer and image
  cached,     \* images of a viewer the browser has: complete at once
  keys,       \* handler of keydown: selectAll (0) or the arrows of a viewer
  ssImage,    \* row of the last image loaded: the pane's generation, the file
  generation, \* of the pane's rows
  timer,      \* a timer of showFiles runs
  selected,   \* file selected in the pane, 0 for none
  astray      \* (history) viewers started while another had work to do, closed
              \* while loading, or whose load failed

vars == <<dlg, shown, currImg, lock, loads, cached, keys, ssImage, generation, timer,
          selected, astray>>
rowVars == <<generation, timer, selected>>

Viewers == 1..MaxViews
Shots == Viewers \X {images[i] : i \in DOMAIN images}
ImageAt(i) == images[i]
IndexOf(f) == CHOOSE i \in DOMAIN images : images[i] = f
MaxGeneration == 2

ViewerTypeOK ==
  /\ dlg \in [Viewers -> {"none", "open", "closed"}]
  /\ shown \in [Viewers -> Listed \cup {0}]
  /\ currImg \in DOMAIN images /\ lock \in BOOLEAN
  /\ loads \subseteq Shots /\ cached \subseteq Shots
  /\ keys \in Viewers \cup {0}
  /\ ssImage \in (1..MaxGeneration) \X (Listed \cup {0})
  /\ generation \in 1..MaxGeneration /\ timer \in BOOLEAN
  /\ selected \in Listed \cup {0} /\ astray \subseteq Viewers

Init ==
  /\ dlg = [v \in Viewers |-> "none"] /\ shown = [v \in Viewers |-> 0]
  /\ currImg = 1 /\ lock = FALSE /\ loads = {} /\ cached = {} /\ keys = 0
  /\ ssImage = <<1, 0>> /\ generation = 1 /\ timer = FALSE /\ selected = 0
  /\ astray = {}

-----------------------------------------------------------------------------
Open(v) == dlg[v] = "open"
Started == {v \in Viewers : dlg[v] # "none" \/ \E f \in Listed : <<v, f>> \in loads}
(* Modal: the user reaches the dialog opened last; the pane only without. *)
Top(v) == Open(v) /\ \A w \in Viewers : Open(w) => w <= v

(* onImgLoad of the image f for viewer v.  A dialog closed meanwhile does  *)
(* not open again, but the keys are bound.                                 *)
Shown(d) == IF d = "none" THEN "open" ELSE d
Row(f) == <<generation, f>>
Loaded(v, f, L, C) ==
  /\ lock' = FALSE
  /\ loads' = L /\ cached' = C \cup {<<v, f>>}
  /\ dlg' = [dlg EXCEPT ![v] = Shown(@)]
  /\ shown' = [shown EXCEPT ![v] = f]
  /\ ssImage' = Row(f)

ShowImage(v, f) ==
  IF <<v, f>> \in cached
  THEN Loaded(v, f, loads, cached)
  ELSE /\ lock' = TRUE /\ loads' = loads \cup {<<v, f>>}
       /\ UNCHANGED <<dlg, shown, ssImage, cached>>

(* "View" of the image f; the click closes the menu, which binds the keys  *)
(* of the pane.                                                            *)
ViewImage(v, f) ==
  /\ \A w \in Viewers : ~Open(w)
  /\ v \notin Started /\ \A w \in Viewers : w < v => w \in Started
  /\ \E i \in DOMAIN images : images[i] = f
  /\ currImg' = IndexOf(f) /\ keys' = 0
  /\ astray' = astray \cup IF loads # {} THEN Started \cup {v} ELSE {}
  /\ ShowImage(v, f)
  /\ UNCHANGED rowVars

(* An image has loaded, or failed: then the pane is refreshed. *)
ImageLoaded(v, f) ==
  /\ <<v, f>> \in loads
  /\ Loaded(v, f, loads \ {<<v, f>>}, cached)
  /\ keys' = v
  /\ UNCHANGED <<currImg, rowVars, astray>>

UnlockedMutant == TRUE
Unlocked == FALSE
ImageFails(v, f) ==
  /\ <<v, f>> \in loads
  /\ loads' = loads \ {<<v, f>>} /\ lock' = Unlocked
  /\ keys' = 0 /\ timer' = TRUE /\ astray' = astray \cup {v}
  /\ UNCHANGED <<dlg, shown, currImg, cached, ssImage, generation, selected>>

(* The timer of showFiles: new rows, and the keys of the pane. *)
FilesShown ==
  /\ timer /\ generation < MaxGeneration
  /\ timer' = FALSE /\ generation' = generation + 1 /\ selected' = 0 /\ keys' = 0
  /\ UNCHANGED <<dlg, shown, currImg, lock, loads, cached, ssImage, astray>>

(* A form upload is answered: the pane is refreshed. *)
Refreshed ==
  /\ timer' = TRUE
  /\ UNCHANGED <<dlg, shown, currImg, lock, loads, cached, keys, ssImage, generation,
                 selected, astray>>

(* goTo the next or the previous image, unless one is being loaded. *)
NextFunc == IF currImg >= Len(images) THEN 1 ELSE currImg + 1
PrevFunc == IF currImg = 1 THEN Len(images) ELSE currImg - 1
MayGoMutant == TRUE
MayGo == ~lock
GoTo(v, i) ==
  IF MayGo THEN currImg' = i /\ ShowImage(v, ImageAt(i))
  ELSE UNCHANGED <<currImg, lock, loads, cached, dlg, shown, ssImage>>

(* A click in the dialog; it reaches the body as well, whose menu.hide     *)
(* binds the keys of the pane, even when the image was there at once.      *)
ClickGo(v, i) ==
  /\ Top(v) /\ GoTo(v, i) /\ keys' = 0
  /\ UNCHANGED <<rowVars, astray>>

(* An arrow key: with an image at once, its handler is bound anew. *)
PressArrow(v, i) ==
  /\ keys = v /\ GoTo(v, i)
  /\ UNCHANGED <<keys, rowVars, astray>>

(* "Close", its cross or Escape: the keys of the pane. *)
KeysAfterClose == 0
Gone(v) ==
  /\ dlg' = [dlg EXCEPT ![v] = "closed"] /\ keys' = KeysAfterClose
  /\ astray' = astray \cup IF \E f \in Listed : <<v, f>> \in loads THEN {v} ELSE {}
  /\ UNCHANGED <<shown, currImg, lock, loads, cached, ssImage, generation, timer>>

Close(v) == Top(v) /\ Gone(v) /\ UNCHANGED selected

(* "Select": the row that was in the pane when the last image loaded; one  *)
(* that a refresh has replaced takes the selection with it.                *)
Select(v) ==
  /\ Top(v) /\ Gone(v)
  /\ selected' = IF ssImage[1] = generation THEN ssImage[2] ELSE 0

Answered == \E v \in Viewers, f \in Listed : ImageLoaded(v, f) \/ ImageFails(v, f)

Next ==
  \/ Answered \/ FilesShown \/ Refreshed
  \/ \E v \in Viewers :
       \/ \E f \in Listed : ViewImage(v, f)
       \/ ClickGo(v, NextFunc) \/ ClickGo(v, PrevFunc)
       \/ PressArrow(v, NextFunc) \/ PressArrow(v, PrevFunc)
       \/ Close(v) \/ Select(v)

(* The browser answers every request for an image. *)
Spec == Init /\ [][Next]_vars /\ WF_vars(Answered)
-----------------------------------------------------------------------------
(* The viewer never locks itself: the lock is set only while an image      *)
(* loads, whatever viewers are open and whatever fails.                    *)
LockHasLoad == lock => loads # {}

(* ... so it is released again and again.                                  *)
LockIsReleased == []<>~lock

(* A viewer that had the page's index to itself shows the image the index  *)
(* is at, so "Next" and "Previous" go to its neighbours.                   *)
ShownIsCurrent ==
  \A v \in Viewers : Open(v) /\ v \notin astray /\ loads = {} =>
    shown[v] = images[currImg]

(* The arrow keys are those of an open viewer, unless a viewer was closed  *)
(* while it loaded an image: onImgLoad binds the keys all the same.        *)
KeysOfOpenViewer == keys # 0 => Open(keys) \/ keys \in astray

(* "Select" leaves the image of the viewer selected in the pane, if the    *)
(* pane was not refreshed and no other viewer interfered.                  *)
SelectsShown ==
  [][\A v \in Viewers : Select(v) /\ v \notin astray /\ loads = {} /\ generation = 1 =>
       selected' = shown[v]]_vars
=============================================================================
