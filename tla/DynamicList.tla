---------------------------- MODULE DynamicList ----------------------------
(***************************************************************************)
(* Limb.DynamicList: rows of a form that the user adds, deletes and moves  *)
(* with the buttons of each row.  The buttons act on the neighbours of the *)
(* row in the document, which may be the white space of the page.          *)
(***************************************************************************)
EXTENDS SequencesExt, Ordering

CONSTANTS
  Given,        \* rows the list starts with
  start_index,
  MaxIndex      \* bound: index of the last row made

Text == -1      \* white space in the container

VARIABLES
  children,     \* of the container: indexes of rows, or Text
  index,        \* of the next row; ids of its buttons end in it
  is_modified

vars == <<children, index, is_modified>>

rows == Filtered(children, Int \ {Text})
givenRows == [i \in 1..Given |-> start_index + i - 1]

ListTypeOK ==
  /\ children \in Seq(Int) /\ index \in start_index..MaxIndex + 1 /\ is_modified \in BOOLEAN

Init ==
  /\ \E space \in {<<>>, <<Text>>} : children = space \o givenRows
  /\ index = start_index + Given
  /\ is_modified = FALSE

-----------------------------------------------------------------------------
Modified == is_modified' = TRUE

(* addItem: after a row, or at the end (the button below the list).        *)
NextIndex == index
AddItem(i) ==
  /\ index <= MaxIndex
  /\ children' = InsertAt(children, i, NextIndex)
  /\ index' = index + 1
  /\ Modified
Create == AddItem(Len(children) + 1)
Add(i) == children[i] # Text /\ AddItem(i + 1)

Delete(i) == children[i] # Text /\ children' = RemoveAt(children, i) /\ Modified /\ UNCHANGED index

(* up takes the node before the row out and puts it behind the row, down   *)
(* the node behind before it.                                              *)
ExchangedMutant(i) == Append(RemoveAt(children, i), children[i])
Exchanged(i) == [children EXCEPT ![i] = children[i + 1], ![i + 1] = children[i]]
Up(i) ==
  i > 1 /\ children[i] # Text /\ children' = Exchanged(i - 1) /\ Modified /\ UNCHANGED index
Down(i) ==
  i < Len(children) /\ children[i] # Text /\ children' = Exchanged(i) /\ Modified /\ UNCHANGED index

Next == Create \/ \E i \in DOMAIN children : Add(i) \/ Delete(i) \/ Up(i) \/ Down(i)
Spec == Init /\ [][Next]_vars

-----------------------------------------------------------------------------
(* However rows are added, deleted and moved, no two have the same index,  *)
(* by which the form sends them, and a list that differs from the one the  *)
(* page was made with is marked as modified.                               *)
RowsTold ==
  /\ \A i, j \in DOMAIN children :
       children[i] # Text => children[i] < index /\ (children[i] = children[j] => i = j)
  /\ ~is_modified => children \in {givenRows, <<Text>> \o givenRows}

(* A button adds one row, deletes one, or moves one past one other: what   *)
(* the others are to each other stays.                                     *)
OneMoved(old, new) ==
  \/ new = old
  \/ \E i \in 1..Len(old) + 1 : new = InsertAt(old, i, index)
  \/ \E i \in DOMAIN old : new = RemoveAt(old, i)
  \/ \E i \in 1..Len(old) - 1 : new = [old EXCEPT ![i] = old[i + 1], ![i + 1] = old[i]]
OneRowMoves == [][OneMoved(rows, rows')]_vars
=============================================================================
