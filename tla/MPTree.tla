------------------------------- MODULE MPTree -------------------------------
(***************************************************************************)
(* lmbMPTree: a tree kept in a database table as materialized paths.  A    *)
(* row of the table is spread over functions of its id.  A path is a       *)
(* string such as "/1/4/"; here it is the sequence of its pieces, the ids  *)
(* and the slashes, so that concatenation, LIKE 'p%', SUBSTRING and strstr *)
(* are what they are on strings whose ids have one digit.                  *)
(*                                                                         *)
(* createNode and initTree insert the row first and give it its path with  *)
(* a second statement; moveNode writes parent_id first and the paths with  *)
(* a second statement.  Next takes both statements together;               *)
(* InterruptedNext adds the runs in which the second never takes effect.   *)
(*                                                                         *)
(* Definitions named ...Mutant are wrong on purpose: each changes the      *)
(* definition after it the way a slip in the code would, and the named     *)
(* property tells the two apart.                                           *)
(***************************************************************************)
EXTENDS Integers, Sequences

CONSTANTS
  Ids,       \* ids the table may give to a row
  Names,     \* identifiers a caller may give to a node
  NoParent,  \* parent_id of the root row, 0 in the code
  NoName,    \* the empty identifier, that of the root
  Slash,     \* the separator of a path
  MaxLength  \* bounds the model: no path becomes longer (VARCHAR(255) in the tests)

VARIABLES nodes, parent_id, level, identifier, path

vars == <<nodes, parent_id, level, identifier, path>>

\* SQL: SUBSTRING(p FROM k); from position 0 it is the empty string.
Substr(p, k) == IF k = 0 THEN <<>> ELSE SubSeq(p, k, Len(p))

\* SQL: p LIKE 'prefix%', and SUBSTRING(p FROM 1 FOR len(prefix)) = prefix.
StartsWith(p, prefix) ==
  Len(prefix) <= Len(p) /\ SubSeq(p, 1, Len(prefix)) = prefix

\* PHP: strstr(p, q) !== false; an empty q is never found.
Occurs(q, p) ==
  /\ q # <<>>
  /\ \E i \in 1..(Len(p) - Len(q) + 1) : SubSeq(p, i, i + Len(q) - 1) = q

\* MPImplementsTree: the sibling check is forgotten.
FreeUnderMutant(p, name) == TRUE

\* _ensureUniqueSiblingIdentifier(name, p) does not throw.
FreeUnder(p, name) ==
  \A m \in nodes : parent_id[m] = p => identifier[m] # name

-----------------------------------------------------------------------------
Init ==
  /\ nodes = {}
  /\ parent_id = <<>> /\ level = <<>> /\ identifier = <<>> /\ path = <<>>

DeleteAll ==
  /\ nodes' = {}
  /\ parent_id' = <<>> /\ level' = <<>> /\ identifier' = <<>> /\ path' = <<>>

\* initTree leaves the root alone in the table; p is the path it got.
RootOnly(r, p) ==
  /\ nodes' = {r}
  /\ parent_id' = [n \in {r} |-> NoParent]
  /\ level' = [n \in {r} |-> 0]
  /\ identifier' = [n \in {r} |-> NoName]
  /\ path' = [n \in {r} |-> p]

InitTree(r) == RootOnly(r, <<Slash, r, Slash>>)
InterruptedInitTree(r) == RootOnly(r, <<>>)

\* The INSERT of createNode, and then the path the row has.
InsertRow(parent, id, name, p) ==
  LET all == nodes \union {id}
  IN /\ parent \in nodes /\ id \notin nodes
     /\ FreeUnder(parent, name)
     /\ nodes' = all
     /\ parent_id' = [n \in all |-> IF n = id THEN parent ELSE parent_id[n]]
     /\ level' = [n \in all |-> IF n = id THEN level[parent] + 1 ELSE level[n]]
     /\ identifier' = [n \in all |-> IF n = id THEN name ELSE identifier[n]]
     /\ path' = [n \in all |-> IF n = id THEN p ELSE path[n]]

\* MPAgrees: the closing slash is forgotten.
ChildPathMutant(parent, id) == path[parent] \o <<id>>
ChildPath(parent, id) == path[parent] \o <<id, Slash>>

CreateNode(parent, id, name) ==
  /\ parent \in nodes /\ Len(path[parent]) + 2 <= MaxLength
  /\ InsertRow(parent, id, name, ChildPath(parent, id))

\* The row keeps the default of the column, the empty string.
InterruptedCreateNode(parent, id, name) == InsertRow(parent, id, name, <<>>)

\* updateNode, as far as the identifier is concerned.
UpdateNode(n, name) ==
  /\ n \in nodes
  /\ parent_id[n] = NoParent => name = NoName
  /\ identifier[n] # name => FreeUnder(parent_id[n], name)
  /\ identifier' = [identifier EXCEPT ![n] = name]
  /\ UNCHANGED <<nodes, parent_id, level, path>>

\* The rows the DELETE of deleteNode(d) leaves.
Kept(d) == {n \in nodes : ~ StartsWith(path[n], path[d])}

DeleteNode(d) ==
  /\ d \in nodes
  /\ nodes' = Kept(d)
  /\ parent_id' = [n \in Kept(d) |-> parent_id[n]]
  /\ level' = [n \in Kept(d) |-> level[n]]
  /\ identifier' = [n \in Kept(d) |-> identifier[n]]
  /\ path' = [n \in Kept(d) |-> path[n]]

-----------------------------------------------------------------------------
MayMove(s, t) ==
  /\ s \in nodes /\ t \in nodes
  /\ path[s] # path[t]
  /\ ~ Occurs(path[s], path[t])

\* The path the second UPDATE of moveNode(s, t) gives to row n.
MovedPath(n, s, t) ==
  IF StartsWith(path[n], path[s])
  THEN path[t] \o <<s>> \o Substr(path[n], Len(path[s])) ELSE path[n]

\* And the level the same UPDATE gives it.
MovedLevel(n, s, t) ==
  IF StartsWith(path[n], path[s]) THEN level[n] + level[t] - level[s] + 1
                                  ELSE level[n]

MoveNode(s, t) ==
  /\ MayMove(s, t)
  /\ \A n \in nodes : Len(MovedPath(n, s, t)) <= MaxLength
  /\ parent_id' = [parent_id EXCEPT ![s] = t]
  /\ path' = [n \in nodes |-> MovedPath(n, s, t)]
  /\ level' = [n \in nodes |-> MovedLevel(n, s, t)]
  /\ UNCHANGED <<nodes, identifier>>

InterruptedMoveNode(s, t) ==
  /\ MayMove(s, t)
  /\ parent_id' = [parent_id EXCEPT ![s] = t]
  /\ UNCHANGED <<nodes, level, identifier, path>>

-----------------------------------------------------------------------------
Next ==
  \/ DeleteAll
  \/ \E r \in Ids : InitTree(r)
  \/ \E p, id \in Ids, name \in Names : CreateNode(p, id, name)
  \/ \E n \in Ids, name \in Names \union {NoName} : UpdateNode(n, name)
  \/ \E d \in Ids : DeleteNode(d)
  \/ \E s, t \in Ids : MoveNode(s, t)

InterruptedNext ==
  \/ Next
  \/ \E r \in Ids : InterruptedInitTree(r)
  \/ \E p, id \in Ids, name \in Names : InterruptedCreateNode(p, id, name)
  \/ \E s, t \in Ids : InterruptedMoveNode(s, t)

Spec == Init /\ [][Next]_vars
InterruptedSpec == Init /\ [][InterruptedNext]_vars

-----------------------------------------------------------------------------
\* Type correctness: the columns of every row are set.
TypeOK ==
  /\ nodes \in SUBSET Ids
  /\ parent_id \in [nodes -> Ids \union {NoParent}]
  /\ level \in [nodes -> Nat]
  /\ identifier \in [nodes -> Names \union {NoName}]
  /\ path \in [nodes -> Seq(Ids \union {Slash})]

\* The redundant columns agree in every row: the root is "/id/" at level 0, any
\* other row extends the path of the row parent_id names and is one level below
\* it.  getParents, getChildrenAll and deleteNode go by path, getParent and
\* getChildren by parent_id, and the depth queries by level.
PathsAgree ==
  \A n \in nodes :
    \/ /\ parent_id[n] = NoParent
       /\ path[n] = <<Slash, n, Slash>> /\ level[n] = 0
    \/ /\ parent_id[n] \in nodes
       /\ path[n] = ChildPath(parent_id[n], n)
       /\ level[n] = level[parent_id[n]] + 1

Abstract == INSTANCE Tree WITH parent <- parent_id

\* Materialized paths implement a tree: deleteNode by LIKE removes exactly the
\* subtree, moveNode by SUBSTRING rewrites exactly the subtree, and the strstr
\* guard refuses exactly the moves of a node under itself.
MPImplementsTree == Abstract!Spec

\* The rows getParents reads, ancestors by path, are the ancestors by parent_id.
GetParents(n) == {a \in nodes : StartsWith(path[n], path[a]) /\ level[a] < level[n]}
QueriesAgree == \A n \in nodes : GetParents(n) = Abstract!Ancestors[n]

\* Path, level and parent_id of every row say the same, and so do the queries by path.
MPAgrees == TypeOK /\ PathsAgree /\ QueriesAgree

\* deleteNode leaves every node but the one it is given and the nodes below it:
\* testDeleteNode counts the others afterwards.
DeleteKeepsOthers ==
  [][\A d \in nodes : DeleteNode(d) =>
       \A n \in nodes \ nodes' : n = d \/ d \in Abstract!Ancestors[n]]_vars
=============================================================================
