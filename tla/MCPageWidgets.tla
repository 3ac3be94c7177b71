---------------------------- MODULE MCPageWidgets ----------------------------
(***************************************************************************)
(* The scripts of limb's pages, each by itself: the control panel's pages  *)
(* (module CmsPanel) with their accordions and uploads, the modal window,  *)
(* lists and selects of forms, and the methods of limb's classes.          *)
(***************************************************************************)
EXTENDS CmsPanel, Sequences

CONSTANTS
  Tab1, Tab2, Text1, Text2,
  N,                            \* panels of the accordion
  Targets, MaxLoads,            \* of the modal window
  Given, start_index, MaxIndex, \* of the list
  Options,                      \* of the select
  Depth, MaxCalls               \* of the chain of classes

MCOptions == <<Text1, Text2, Text1, Tab1>>

\* No URL is the name of a setting; indexes of rows are not negative, and the first
\* rows fit; the options are a list; the object's class has a parent.
ASSUME PageAssumption ==
  /\ MaxNames \in Nat /\ Plain \cap Query = {}
  /\ {Away, "hiddenLimbSidebar", "lightLimbVersion"} \cap (Plain \cup Query) = {}
  /\ N \in Nat
  /\ {"nothing", "answer"} \cap Targets = {} /\ MaxLoads \in Nat
  /\ {Given, start_index, MaxIndex} \subseteq Nat /\ start_index + Given <= MaxIndex + 1
  /\ Options \in Seq({Options[i] : i \in DOMAIN Options})
  /\ {Depth, MaxCalls} \subseteq Nat \ {0} /\ Depth >= 2

VARIABLES
  part,  \* the part that runs
  panel,
  blank, sent, inFrame, timers, uploadForm, uploadTold,
  shown, windowOverlay, inside, icon, home, target, fromHome, loads, confirms, wasCrossed,
  children, index, is_modified,
  chosen, srcSelect, dstSelect, marked,
  body, stack, ran

uploadVars == <<blank, sent, inFrame, timers, uploadForm, uploadTold>>
modalVars == <<shown, windowOverlay, inside, icon, home, target, fromHome, loads, confirms, wasCrossed>>
listVars == <<children, index, is_modified>>
selectVars == <<chosen, srcSelect, dstSelect, marked>>
kitVars == <<body, stack, ran>>
MCvars == <<vars, part, panel, uploadVars, modalVars, listVars, selectVars, kitVars>>

Menu == INSTANCE Accordion
Upload == INSTANCE FormUpload WITH inside <- inFrame, form <- uploadForm, told <- uploadTold
Modal == INSTANCE ModalWindow WITH crossed <- wasCrossed
List == INSTANCE DynamicList
Select == INSTANCE DoubleSelect
Kit == INSTANCE ClassKit

(* The parts that do not run start in one way only. *)
MCInit ==
  /\ part \in {"panel", "menu", "upload", "modal", "list", "select", "kit"}
  /\ Init
  /\ Menu!Init /\ (part # "menu" => panel[1] = "opening")
  /\ Upload!Init /\ (part # "upload" => blank)
  /\ Modal!Init
  /\ List!Init /\ (part # "list" => Len(children) = Given)
  /\ Select!Init /\ (part # "select" => chosen = {})
  /\ Kit!Init /\ (part # "kit" => \A c \in 1..Depth : body[c] = "overrides")

Rest(p) ==
  /\ p # "panel" => UNCHANGED vars
  /\ p # "menu" => UNCHANGED panel
  /\ p # "upload" => UNCHANGED uploadVars
  /\ p # "modal" => UNCHANGED modalVars
  /\ p # "list" => UNCHANGED listVars
  /\ p # "select" => UNCHANGED selectVars
  /\ p # "kit" => UNCHANGED kitVars

MCNext ==
  /\ UNCHANGED part
  /\ \/ part = "panel" /\ Next
     \/ part = "menu" /\ Menu!Next
     \/ part = "upload" /\ Upload!Next
     \/ part = "modal" /\ Modal!Next
     \/ part = "list" /\ List!Next
     \/ part = "select" /\ Select!Next
     \/ part = "kit" /\ Kit!Next
  /\ Rest(part)

(* Slides, answers and timers end; the user need not do anything. *)
SlidesEnd == \A p \in 1..N : WF_panel(part = "menu" /\ Menu!SlideEnds(p) /\ Rest("menu"))
MCSpec ==
  /\ MCInit /\ [][MCNext]_MCvars
  /\ SlidesEnd
  /\ WF_uploadVars(part = "upload" /\ Upload!TimerEnds /\ Rest("upload"))
  /\ WF_modalVars(part = "modal" /\ Modal!Loaded /\ Rest("modal"))

\* The panel's pages show one filter, and show again what they were told to.
PanelAgrees == part = "panel" => PanelTypeOK /\ OneOpen /\ Remembered

\* However they are clicked, accordions keep one panel open, modal windows give back
\* what they took, and lists, selects, uploads and calls of a parent's method do each
\* thing once.
WidgetsAgree ==
  /\ part = "menu" => Menu!AccordionTypeOK /\ Menu!OneStaysOpen
  /\ part = "upload" => Upload!UploadTypeOK /\ Upload!ToldOnce
  /\ part = "modal" => Modal!ModalTypeOK /\ Modal!GivesBack
  /\ part = "list" => List!ListTypeOK /\ List!RowsTold
  /\ part = "select" => Select!SelectTypeOK
  /\ part = "kit" => Kit!KitTypeOK /\ Kit!ParentsRun

\* What the buttons of lists and selects say they move is all that moves.
OnlyAskedMoves == List!OneRowMoves /\ Select!OnlyMarkedMove

\* What was begun ends: slides, uploads that were answered, windows without an icon.
WidgetsServe == Menu!Closes /\ Upload!Ends /\ Modal!IconComes
=============================================================================
