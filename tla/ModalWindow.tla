---------------------------- MODULE ModalWindow ----------------------------
(***************************************************************************)
(* ModalWindow, and the links that auto_modal.js binds to it: one window   *)
(* over the page, which is filled by a request or by an element taken out  *)
(* of the page.  Opening it again empties it.  An answer comes when it     *)
(* comes, whatever is in the window by then; Escape closes the window as   *)
(* an icon does that has no element to give back.                          *)
(***************************************************************************)
EXTENDS Naturals

CONSTANTS
  Targets,   \* elements of the page that loadById is called for
  MaxLoads   \* bound: requests under way

Nothing == "nothing"
Answer == "answer"

VARIABLES
  shown, windowOverlay,
  inside,    \* the window's content: Nothing, Answer or an element
  icon,      \* what the close icon calls: "hide", "hideById", or "none" yet
  home,      \* elements in their place on the page
  target, fromHome,   \* this.target, and whether it was in its place then
  loads,     \* requests under way
  confirms,  \* the question of a confirmBlock is on the page, or was
  crossed    \* (history) Escape was pressed, or the window opened while in use

vars == <<shown, windowOverlay, inside, icon, home, target, fromHome, loads, confirms, crossed>>

ModalTypeOK ==
  /\ shown \in BOOLEAN /\ windowOverlay \in BOOLEAN /\ fromHome \in BOOLEAN
  /\ confirms \in BOOLEAN /\ crossed \in BOOLEAN
  /\ inside \in Targets \cup {Nothing, Answer} /\ target \in Targets \cup {Nothing}
  /\ icon \in {"none", "hide", "hideById"} /\ home \subseteq Targets /\ loads \in 0..MaxLoads

Init ==
  /\ shown = FALSE /\ windowOverlay = FALSE /\ inside = Nothing /\ icon = "none" /\ home = Targets
  /\ target = Nothing /\ fromHome = FALSE /\ loads = 0 /\ confirms = FALSE /\ crossed = FALSE

-----------------------------------------------------------------------------
(* _build *)
Opens == shown' = TRUE /\ windowOverlay' = TRUE /\ crossed' = (crossed \/ shown \/ loads > 0)

LoadByUrl ==
  /\ loads < MaxLoads /\ loads' = loads + 1
  /\ Opens /\ inside' = Nothing /\ icon' = "none"
  /\ UNCHANGED <<home, target, fromHome, confirms>>

(* The window's load ends: the answer replaces what is there.              *)
Loaded ==
  /\ loads > 0 /\ loads' = loads - 1
  /\ inside' = Answer /\ icon' = "hide"
  /\ UNCHANGED <<shown, windowOverlay, home, target, fromHome, confirms, crossed>>

(* An element that is neither in its place nor in the window is not found  *)
(* any more.                                                               *)
LoadById(t) ==
  /\ Opens /\ target' = t /\ fromHome' = (t \in home)
  /\ inside' = IF t \in home \/ inside = t THEN t ELSE Nothing
  /\ icon' = "hideById" /\ home' = home \ {t}
  /\ UNCHANGED <<loads, confirms>>

Hidden == shown' = FALSE /\ windowOverlay' = FALSE

ClickHide == shown /\ icon = "hide" /\ Hidden /\ UNCHANGED <<inside, icon, home, target, fromHome, loads, confirms, crossed>>

(* hideById: the element goes back behind the one it was found behind.  If *)
(* that was in the window too, it has gone.                                *)
GivenBack == inside = target /\ fromHome
ClickHideById ==
  /\ shown /\ icon = "hideById" /\ Hidden
  /\ home' = IF GivenBack THEN home \cup {target} ELSE home
  /\ inside' = IF GivenBack THEN Nothing ELSE inside
  /\ UNCHANGED <<icon, target, fromHome, loads, confirms, crossed>>

Escape ==
  /\ shown /\ Hidden /\ crossed' = TRUE
  /\ UNCHANGED <<inside, icon, home, target, fromHome, loads, confirms>>

(* confirmBlock draws the overlay; its buttons hide an element of another  *)
(* class, modalWindowOverlay, of which there is none.                      *)
ConfirmBlock ==
  /\ windowOverlay' = TRUE /\ confirms' = TRUE
  /\ UNCHANGED <<shown, inside, icon, home, target, fromHome, loads, crossed>>

Next ==
  \/ LoadByUrl \/ Loaded \/ ClickHide \/ ClickHideById \/ Escape \/ ConfirmBlock
  \/ \E t \in Targets : LoadById(t)

Spec == Init /\ [][Next]_vars /\ WF_vars(Loaded)

-----------------------------------------------------------------------------
(* Opened for one thing at a time and closed by its icons, the window      *)
(* gives every element back to its place; the overlay is over the page as  *)
(* long as the window, except for the questions, which leave it there.     *)
GivesBack ==
  /\ shown => windowOverlay
  /\ windowOverlay /\ ~shown => confirms
  /\ ~crossed => home = IF shown /\ inside \in Targets THEN Targets \ {inside} ELSE Targets

(* A window that waits for an answer can be closed by its icon some time.  *)
IconComes == shown /\ icon = "none" ~> icon # "none"
=============================================================================
