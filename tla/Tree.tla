-------------------------------- MODULE Tree --------------------------------
(***************************************************************************)
(* What interface lmbTree promises its callers, whatever table holds the   *)
(* nodes: a forest of at most one tree of identified nodes.  parent maps   *)
(* the id of every node to the id of its parent, identifier to its name.   *)
(* lmbNSTree and lmbMPTree are shown to implement this module.             *)
(***************************************************************************)
CONSTANTS
  Ids,       \* ids the table may give to a row
  Names,     \* identifiers a caller may give to a node
  NoParent,  \* parent_id of the root row, 0 in the code
  NoName     \* the empty identifier, that of the root

VARIABLES parent, identifier

treeVars == <<parent, identifier>>

nodes == DOMAIN parent

\* Ancestors[n] is the set of the ids above n.
Ancestors[n \in nodes] ==
  IF parent[n] = NoParent THEN {} ELSE {parent[n]} \union Ancestors[parent[n]]

Subtree(n) == {m \in nodes : m = n \/ n \in Ancestors[m]}

\* No node under p, other than n itself, is called name.
FreeUnder(p, n, name) ==
  \A m \in nodes \ {n} : parent[m] = p => identifier[m] # name

Init == parent = <<>> /\ identifier = <<>>

InitTree(r) ==
  /\ parent' = [n \in {r} |-> NoParent]
  /\ identifier' = [n \in {r} |-> NoName]

DeleteAll == parent' = <<>> /\ identifier' = <<>>

CreateNode(p, n, name) ==
  /\ p \in nodes /\ n \notin nodes
  /\ FreeUnder(p, n, name)
  /\ parent' = [m \in nodes \union {n} |-> IF m = n THEN p ELSE parent[m]]
  /\ identifier' = [m \in nodes \union {n} |-> IF m = n THEN name ELSE identifier[m]]

UpdateNode(n, name) ==
  /\ n \in nodes
  /\ IF parent[n] = NoParent THEN name = NoName ELSE FreeUnder(parent[n], n, name)
  /\ identifier' = [identifier EXCEPT ![n] = name]
  /\ UNCHANGED parent

DeleteNode(n) ==
  /\ n \in nodes
  /\ parent' = [m \in nodes \ Subtree(n) |-> parent[m]]
  /\ identifier' = [m \in nodes \ Subtree(n) |-> identifier[m]]

\* A node keeps its identifier when it moves, whatever its new siblings are called.
MoveNode(s, t) ==
  /\ s \in nodes /\ t \in nodes \ Subtree(s)
  /\ parent' = [parent EXCEPT ![s] = t]
  /\ UNCHANGED identifier

Next ==
  \/ DeleteAll
  \/ \E n \in Ids : InitTree(n) \/ DeleteNode(n)
  \/ \E p, n \in Ids, name \in Names : CreateNode(p, n, name)
  \/ \E n \in Ids, name \in Names \union {NoName} : UpdateNode(n, name)
  \/ \E s, t \in Ids : MoveNode(s, t)

Spec == Init /\ [][Next]_treeVars
=============================================================================
