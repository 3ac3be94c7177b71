-------------------------- MODULE NSTreeImplements --------------------------
(***************************************************************************)
(* The queries of lmbNSTree over the nested sets of NSTree, and the        *)
(* refinement mappings under which NSTree implements OrderedTree and Tree. *)
(***************************************************************************)
EXTENDS NSTree, SequencesExt, Ordering

LeftOrder == {p \in nodes \X nodes : c_left[p[1]] < c_left[p[2]]}

\* getParents(n): the enclosing rows ordered by c_left.
GetParents(n) == Listed({a \in nodes : Encloses(a, n)}, LeftOrder)

\* getChildren(n, depth): enclosed rows down to a depth, ordered by c_left.
GetChildren(n, depth) ==
  Listed({m \in nodes : Encloses(n, m) /\ level[m] <= level[n] + depth},
         LeftOrder)

\* getPathToNode(n), as the sequence of the identifiers below the root.
GetPathToNode(n) ==
  LET up == GetParents(n)
  IN IF IsRoot(n) THEN <<>>
     ELSE [i \in 1..(Len(up) - 1) |-> identifier[up[i + 1]]] \o <<identifier[n]>>

\* getNodeByPath(path): the rows the join over t0, t1, ... may return.
GetNodeByPath(path) ==
  {m \in nodes :
     \E t \in [0..Len(path) -> nodes] :
       /\ IsRoot(t[0]) /\ t[Len(path)] = m
       /\ \A i \in 1..Len(path) :
            /\ identifier[t[i]] = path[i]
            /\ Between(c_left[t[i]], c_left[t[i - 1]] + 1, c_right[t[i - 1]])
            /\ level[t[i]] = level[t[i - 1]] + 1}

-----------------------------------------------------------------------------
childrenOf ==
  [p \in nodes \union {NoParent} |->
     Listed({n \in nodes : parent_id[n] = p}, LeftOrder)]

Ordered == INSTANCE OrderedTree WITH children <- childrenOf
Abstract == INSTANCE Tree WITH parent <- parent_id

\* Renumbering implements an ordered tree: a created or moved node becomes the
\* last child of its parent with its whole subtree in order, moveNodeUp and
\* moveNodeDown exchange neighbours, deleteNode removes exactly a subtree, and
\* an operation cut between its two statements has either happened or not.
ImplementsOrderedTree == Ordered!Spec

\* The same, without the order: what lmbTree promises of any driver.
ImplementsTree == Abstract!Spec

\* The queries by bounds (getChildren, getParents) return what the parent_id
\* column says, in the same order.
QueriesAgree ==
  \A n \in nodes :
    /\ GetChildren(n, 1) = childrenOf[n]
    /\ ToSet(GetParents(n)) = Abstract!Ancestors[n]

\* getNodeByPath(getPathToNode(n)) is n wherever the identifiers on the way can
\* tell nodes apart.
PathFindsNode ==
  (\A m, n \in nodes : /\ ~ IsRoot(n) => identifier[n] # NoName
                       /\ m # n /\ parent_id[m] = parent_id[n]
                            => identifier[m] # identifier[n])
  => \A n \in nodes : GetNodeByPath(GetPathToNode(n)) = {n}
=============================================================================
