------------------------------- MODULE NSTree -------------------------------
(***************************************************************************)
(* lmbNSTree: a tree kept in a database table as nested sets.  A row of    *)
(* the table is spread over functions of its id: nodes is the set of ids   *)
(* in the table, and c_left[n], c_right[n], level[n], parent_id[n] and     *)
(* identifier[n] are the columns of row n.  The table is the only state:   *)
(* the object reads what it needs at the start of every operation.         *)
(*                                                                         *)
(* An operation of one SQL statement is one action.  createNode,           *)
(* deleteNode and initTree write with two statements; each has a second    *)
(* action, named Interrupted..., in which the second statement never takes *)
(* effect: the process dies, the connection is lost, or the statement      *)
(* raises an exception.  (An interrupted initTree is DeleteAll.)           *)
(*                                                                         *)
(* Definitions named ...Mutant are wrong on purpose: each changes the      *)
(* definition after it the way a slip in the code would, and the named     *)
(* property tells the two apart.                                           *)
(***************************************************************************)
EXTENDS Integers

CONSTANTS
  Ids,       \* ids the table may give to a row
  Names,     \* identifiers a caller may give to a node
  NoParent,  \* parent_id of the root row, 0 in the code
  NoName,    \* the empty identifier, that of the root
  MaxBound   \* bounds the model: no endpoint is numbered above it

ASSUME NSTreeConstants ==
  /\ NoParent \notin Ids
  /\ NoName \notin Names
  /\ MaxBound \in Nat

VARIABLES nodes, parent_id, c_left, c_right, level, identifier

vars == <<nodes, parent_id, c_left, c_right, level, identifier>>

\* SQL: x BETWEEN lo AND hi.
Between(x, lo, hi) == lo <= x /\ x <= hi

\* The row of a is an ancestor of the row of n, as every query tests it.
Encloses(a, n) == c_left[a] < c_left[n] /\ c_right[a] > c_right[n]

\* The row is the one getRootNode reads.
IsRoot(n) == level[n] = 0

\* p is the row getParent(n) reads.
IsParent(p, n) ==
  level[n] >= 1 /\ Encloses(p, n) /\ level[p] = level[n] - 1

\* _ensureUniqueSiblingIdentifier(name, p) does not throw.
FreeUnder(p, name) ==
  \A m \in nodes : IsParent(p, m) => identifier[m] # name

-----------------------------------------------------------------------------
Init ==
  /\ nodes = {}
  /\ parent_id = <<>> /\ c_left = <<>> /\ c_right = <<>>
  /\ level = <<>> /\ identifier = <<>>

DeleteAll ==
  /\ nodes' = {}
  /\ parent_id' = <<>> /\ c_left' = <<>> /\ c_right' = <<>>
  /\ level' = <<>> /\ identifier' = <<>>

\* initTree: DELETE of every row, then _createRootNode.  Without its INSERT it
\* is DeleteAll.
InitTree(r) ==
  /\ nodes' = {r}
  /\ parent_id' = [n \in {r} |-> NoParent]
  /\ c_left' = [n \in {r} |-> 1]
  /\ c_right' = [n \in {r} |-> 2]
  /\ level' = [n \in {r} |-> 0]
  /\ identifier' = [n \in {r} |-> NoName]

-----------------------------------------------------------------------------
\* The UPDATE of createNode makes room for two endpoints at x.
RoomLeft(n, x) == IF c_right[n] >= x /\ c_left[n] > x THEN c_left[n] + 2
                                                      ELSE c_left[n]
\* Nested: > for >= leaves the right endpoint of the parent where it was.
RoomRightMutant(n, x) == IF c_right[n] > x THEN c_right[n] + 2 ELSE c_right[n]
RoomRight(n, x) == IF c_right[n] >= x THEN c_right[n] + 2 ELSE c_right[n]

MayCreate(p, name) ==
  /\ p \in nodes
  /\ FreeUnder(p, name)
  /\ \A n \in nodes : c_right[n] + 2 <= MaxBound

CreateNode(p, id, name) ==
  LET all == nodes \union {id}
      x   == c_right[p]
  IN /\ MayCreate(p, name) /\ id \notin nodes
     /\ nodes' = all
     /\ c_left' = [n \in all |-> IF n = id THEN x ELSE RoomLeft(n, x)]
     /\ c_right' = [n \in all |-> IF n = id THEN x + 1 ELSE RoomRight(n, x)]
     /\ parent_id' = [n \in all |-> IF n = id THEN p ELSE parent_id[n]]
     /\ level' = [n \in all |-> IF n = id THEN level[p] + 1 ELSE level[n]]
     /\ identifier' = [n \in all |-> IF n = id THEN name ELSE identifier[n]]

\* createNode whose INSERT never happens: the room stays empty.
InterruptedCreateNode(p, name) ==
  LET x == c_right[p]
  IN /\ MayCreate(p, name)
     /\ c_left' = [n \in nodes |-> RoomLeft(n, x)]
     /\ c_right' = [n \in nodes |-> RoomRight(n, x)]
     /\ UNCHANGED <<nodes, parent_id, level, identifier>>

\* updateNode, as far as the identifier is concerned.
UpdateNode(n, name) ==
  /\ n \in nodes
  /\ c_left[n] = 1 => name = NoName
  /\ identifier[n] # name =>
       \A p \in nodes : IsParent(p, n) => FreeUnder(p, name)
  /\ identifier' = [identifier EXCEPT ![n] = name]
  /\ UNCHANGED <<nodes, parent_id, c_left, c_right, level>>

-----------------------------------------------------------------------------
\* ImplementsOrderedTree: only the leaves and d itself go, not the whole subtree.
KeptMutant(d) ==
  {n \in nodes : ~ (Between(c_left[n], c_left[d], c_right[d])
                    /\ (n = d \/ c_right[n] = c_left[n] + 1))}

\* The rows the DELETE of deleteNode(d) leaves.
Kept(d) == {n \in nodes : ~ Between(c_left[n], c_left[d], c_right[d])}

\* The UPDATE of deleteNode(d), over the rows right of d.
ClosedLeft(n, d) ==
  IF c_right[n] > c_right[d] /\ c_left[n] > c_left[d]
  THEN c_left[n] - (c_right[d] - c_left[d] + 1) ELSE c_left[n]
ClosedRight(n, d) ==
  IF c_right[n] > c_right[d] /\ c_right[n] > c_left[d]
  THEN c_right[n] - (c_right[d] - c_left[d] + 1) ELSE c_right[n]

RemoveRows(d) ==
  /\ d \in nodes
  /\ nodes' = Kept(d)
  /\ parent_id' = [n \in Kept(d) |-> parent_id[n]]
  /\ level' = [n \in Kept(d) |-> level[n]]
  /\ identifier' = [n \in Kept(d) |-> identifier[n]]

DeleteNode(d) ==
  /\ RemoveRows(d)
  /\ c_left' = [n \in Kept(d) |-> ClosedLeft(n, d)]
  /\ c_right' = [n \in Kept(d) |-> ClosedRight(n, d)]

\* deleteNode whose UPDATE never happens: the numbers of the subtree stay unused.
InterruptedDeleteNode(d) ==
  /\ RemoveRows(d)
  /\ c_left' = [n \in Kept(d) |-> c_left[n]]
  /\ c_right' = [n \in Kept(d) |-> c_right[n]]

-----------------------------------------------------------------------------
Width(s) == c_right[s] - c_left[s] + 1
InSubtree(n, s) == Between(c_left[n], c_left[s], c_right[s])

\* moveNode chooses one of three UPDATEs; this one when the target is an
\* ancestor of the source, higher than its parent.
Upwards(s, t) == Encloses(t, s) /\ level[t] < level[s] - 1

UpwardsLeft(n, s, t) ==
  IF ~ Between(c_left[n], c_left[t] + 1, c_right[t] - 1) THEN c_left[n]
  ELSE IF Between(c_left[n], c_right[s] + 1, c_right[t] - 1) THEN c_left[n] - Width(s)
  ELSE IF InSubtree(n, s) THEN c_left[n] + (c_right[t] - c_right[s] - 1)
  ELSE c_left[n]
UpwardsRight(n, s, t) ==
  IF ~ Between(c_left[n], c_left[t] + 1, c_right[t] - 1) THEN c_right[n]
  ELSE IF Between(c_right[n], c_right[s] + 1, c_right[t] - 1) THEN c_right[n] - Width(s)
  ELSE IF InSubtree(n, s) THEN c_right[n] + (c_right[t] - c_right[s] - 1)
  ELSE c_right[n]

\* This one when the target is otherwise left of the source.
Backwards(s, t) == ~ Upwards(s, t) /\ c_left[t] < c_left[s]
Touched(n, lo, hi) == Between(c_left[n], lo, hi) \/ Between(c_right[n], lo, hi)

BackwardsLeft(n, s, t) ==
  IF ~ Touched(n, c_left[t], c_right[s]) THEN c_left[n]
  ELSE IF Between(c_left[n], c_right[t], c_left[s] - 1) THEN c_left[n] + Width(s)
  ELSE IF InSubtree(n, s) THEN c_left[n] - (c_left[s] - c_right[t])
  ELSE c_left[n]
BackwardsRight(n, s, t) ==
  IF ~ Touched(n, c_left[t], c_right[s]) THEN c_right[n]
  ELSE IF Between(c_right[n], c_right[t], c_left[s]) THEN c_right[n] + Width(s)
  ELSE IF Between(c_right[n], c_left[s], c_right[s])
       THEN c_right[n] - (c_left[s] - c_right[t])
  ELSE c_right[n]

\* And this one when it is right of it.
ForwardsLeft(n, s, t) ==
  IF ~ Touched(n, c_left[s], c_right[t]) THEN c_left[n]
  ELSE IF Between(c_left[n], c_right[s], c_right[t]) THEN c_left[n] - Width(s)
  ELSE IF InSubtree(n, s) THEN c_left[n] + (c_right[t] - 1 - c_right[s])
  ELSE c_left[n]
\* MovesOneSubtree: the bounds of the first BETWEEN without their + 1 and - 1.
ForwardsRightMutant(n, s, t) ==
  IF ~ Touched(n, c_left[s], c_right[t]) THEN c_right[n]
  ELSE IF Between(c_right[n], c_right[s], c_right[t]) THEN c_right[n] - Width(s)
  ELSE IF Between(c_right[n], c_left[s], c_right[s])
       THEN c_right[n] + (c_right[t] - 1 - c_right[s])
  ELSE c_right[n]
ForwardsRight(n, s, t) ==
  IF ~ Touched(n, c_left[s], c_right[t]) THEN c_right[n]
  ELSE IF Between(c_right[n], c_right[s] + 1, c_right[t] - 1) THEN c_right[n] - Width(s)
  ELSE IF Between(c_right[n], c_left[s], c_right[s])
       THEN c_right[n] + (c_right[t] - 1 - c_right[s])
  ELSE c_right[n]

MovedLeft(n, s, t) == IF Upwards(s, t) THEN UpwardsLeft(n, s, t)
                      ELSE IF Backwards(s, t) THEN BackwardsLeft(n, s, t)
                      ELSE ForwardsLeft(n, s, t)
MovedRight(n, s, t) == IF Upwards(s, t) THEN UpwardsRight(n, s, t)
                       ELSE IF Backwards(s, t) THEN BackwardsRight(n, s, t)
                       ELSE ForwardsRight(n, s, t)

\* TypeOK: the query for the target inside the source is forgotten.
MayMoveMutant(s, t) ==
  /\ s \in nodes /\ t \in nodes
  /\ s # t
  /\ ~ IsRoot(s)
  /\ ~ IsParent(t, s)

MayMove(s, t) ==
  /\ s \in nodes /\ t \in nodes
  /\ s # t
  /\ ~ IsRoot(s)
  /\ ~ IsParent(t, s)
  /\ ~ Encloses(s, t)

\* ParentsAgree: the level of the source counted twice.
MovedLevelMutant(n, s, t) ==
  IF InSubtree(n, s) THEN level[n] - level[s] + level[t] ELSE level[n]
MovedLevel(n, s, t) ==
  IF InSubtree(n, s) THEN level[n] - (level[s] - 1) + level[t] ELSE level[n]

\* QueriesAgree: the UPDATE of a moved row forgets parent_id.
MovedParentMutant(n, s, t) == parent_id[n]
MovedParent(n, s, t) == IF n = s THEN t ELSE parent_id[n]

MoveNode(s, t) ==
  /\ MayMove(s, t)
  /\ parent_id' = [n \in nodes |-> MovedParent(n, s, t)]
  /\ level' = [n \in nodes |-> MovedLevel(n, s, t)]
  /\ c_left' = [n \in nodes |-> MovedLeft(n, s, t)]
  /\ c_right' = [n \in nodes |-> MovedRight(n, s, t)]
  /\ UNCHANGED <<nodes, identifier>>

-----------------------------------------------------------------------------
\* The row b that _moveNodeByStep finds next to a, on its right.
Adjacent(a, b) == c_left[b] = c_right[a] + 1 /\ level[b] = level[a]

\* a moves right by the width of b, b left by the width of a.
StepBy(n, a, b) ==
  IF ~ (c_left[n] >= c_left[a] /\ c_right[n] <= c_right[b]) THEN 0
  ELSE IF InSubtree(n, b) THEN - (c_left[b] - c_left[a])
  ELSE c_right[b] - c_right[a]

Exchange(a, b) ==
  /\ a \in nodes /\ b \in nodes
  /\ Adjacent(a, b)
  /\ c_left' = [n \in nodes |-> c_left[n] + StepBy(n, a, b)]
  /\ c_right' = [n \in nodes |-> c_right[n] + StepBy(n, a, b)]
  /\ UNCHANGED <<nodes, parent_id, level, identifier>>

MoveNodeUp(n) == \E a \in nodes : Exchange(a, n)
MoveNodeDown(n) == \E b \in nodes : Exchange(n, b)

-----------------------------------------------------------------------------
Next ==
  \/ DeleteAll
  \/ \E r \in Ids : InitTree(r)
  \/ \E p, id \in Ids, name \in Names : CreateNode(p, id, name)
  \/ \E p \in Ids, name \in Names : InterruptedCreateNode(p, name)
  \/ \E n \in Ids, name \in Names \union {NoName} : UpdateNode(n, name)
  \/ \E d \in Ids : DeleteNode(d)
  \/ \E d \in Ids : InterruptedDeleteNode(d)
  \/ \E s, t \in Ids : MoveNode(s, t)
  \/ \E n \in Ids : MoveNodeUp(n)
  \/ \E n \in Ids : MoveNodeDown(n)

Spec == Init /\ [][Next]_vars

-----------------------------------------------------------------------------
\* Type correctness: the columns of every row are set, and bounds and levels
\* are natural numbers.
TypeOK ==
  /\ nodes \in SUBSET Ids
  /\ parent_id \in [nodes -> Ids \union {NoParent}]
  /\ c_left \in [nodes -> Nat \ {0}]
  /\ c_right \in [nodes -> Nat \ {0}]
  /\ level \in [nodes -> Nat]
  /\ identifier \in [nodes -> Names \union {NoName}]

\* Two nodes own disjoint intervals, or one interval lies strictly inside the
\* other.  Every query of lmbNSTree takes enclosure for ancestry, and every
\* UPDATE renumbers by comparing endpoints, so one overlapping pair corrupts
\* all later answers.  It holds across interrupted operations too.
Nested ==
  /\ \A n \in nodes : c_left[n] < c_right[n]
  /\ \A m, n \in nodes :
       m # n => \/ c_right[m] < c_left[n]
                \/ c_right[n] < c_left[m]
                \/ Encloses(m, n)
                \/ Encloses(n, m)

\* The three encodings of ancestry agree: the node parent_id names encloses
\* the row, one level above it; only the root has no parent, it is at level 0
\* and encloses every other row.
ParentsAgree ==
  \A n \in nodes :
    \/ /\ parent_id[n] = NoParent /\ level[n] = 0
       /\ \A m \in nodes \ {n} : Encloses(n, m)
    \/ /\ parent_id[n] \in nodes
       /\ IsParent(parent_id[n], n)

\* moveNode(s, t), by whichever of its UPDATEs, hangs the whole subtree of s below
\* t: a row of the subtree keeps its ancestors inside it and gets t and those of
\* t, any other row keeps the ancestors it has.
MovesOneSubtree ==
  [][\A s, t \in Ids : MoveNode(s, t) =>
       \A m, n \in nodes : Encloses(m, n)' <=>
         \/ InSubtree(n, s) /\ InSubtree(m, s) /\ Encloses(m, n)
         \/ /\ InSubtree(n, s) /\ ~ InSubtree(m, s)
            /\ m = t \/ Encloses(m, t)
         \/ ~ InSubtree(n, s) /\ ~ InSubtree(m, s) /\ Encloses(m, n)]_vars
=============================================================================
