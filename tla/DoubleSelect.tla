---------------------------- MODULE DoubleSelect ----------------------------
(***************************************************************************)
(* Limb.DoubleSelect: a multiple select that is shown as two boxes, of the *)
(* selected options and of the others, with buttons that move options from *)
(* one to the other.  The boxes are drawn again from the select after each *)
(* button; an option is found in it by its value and text, which several   *)
(* may share.                                                              *)
(***************************************************************************)
EXTENDS Ordering

CONSTANT Options  \* value and text of every option of the select

Items == DOMAIN Options

VARIABLES
  chosen,              \* options of the select that are selected
  srcSelect, dstSelect,  \* the boxes: what they list
  marked               \* options the user has marked in a box

vars == <<chosen, srcSelect, dstSelect, marked>>

SelectTypeOK == chosen \subseteq Items /\ marked \subseteq Items

(* drawOptions *)
Drawn(S) ==
  /\ chosen' = S /\ marked' = {}
  /\ dstSelect' = Filtered([i \in Items |-> i], S)
  /\ srcSelect' = Filtered([i \in Items |-> i], Items \ S)

Init ==
  /\ chosen \in SUBSET Items /\ marked = {}
  /\ dstSelect = Filtered([i \in Items |-> i], chosen)
  /\ srcSelect = Filtered([i \in Items |-> i], Items \ chosen)

Mark(i) == marked' = marked \cup {i} /\ i \notin marked /\ UNCHANGED <<chosen, srcSelect, dstSelect>>
SelectAll == Drawn(Items)
DeselectAll == Drawn({})

(* setSelection: options of the select like a marked one of the box.       *)
Alike(box) ==
  {j \in Items : \E i \in DOMAIN box : box[i] \in marked /\ Options[box[i]] = Options[j]}
SelectItems == Drawn(chosen \cup Alike(srcSelect))
DeselectItems == Drawn(chosen \ Alike(dstSelect))

Next == SelectAll \/ DeselectAll \/ SelectItems \/ DeselectItems \/ \E i \in Items : Mark(i)
Spec == Init /\ [][Next]_vars

-----------------------------------------------------------------------------
(* The buttons for the marked options move what is marked in their box,    *)
(* its likes with it, and nothing else: marks in the other box are lost.   *)
OnlyMarkedMove ==
  [][\A i \in Items :
       /\ SelectItems => (i \in chosen' <=>
            i \in chosen \/ \E j \in marked \ chosen : Options[i] = Options[j])
       /\ DeselectItems => (i \in chosen' <=>
            i \in chosen /\ \A j \in marked \cap chosen : Options[i] # Options[j])]_vars
=============================================================================
