----------------------------- MODULE TreeProofs -----------------------------
(***************************************************************************)
(* Theorems about NSTree and MPTree, for every set of ids and identifiers. *)
(*                                                                         *)
(* Nested sets: the columns keep their types, the intervals stay nested,   *)
(* the parent_id, level and interval encodings of ancestry always agree,   *)
(* and the driver implements Tree.  The argument for the invariant is      *)
(* pairwise: every UPDATE moves the endpoints of two rows so that two      *)
(* disjoint or nested intervals stay so.  LevelsGrow is needed on the way: *)
(* it tells moveNode's second branch (target left of the source, intervals *)
(* disjoint) from a target that is the parent, which its guard refuses.    *)
(*                                                                         *)
(* Materialized paths, of MCTrees' instance MP: the path, level and        *)
(* parent_id of a row always name the same ancestors, the queries by path  *)
(* find them, and the driver implements Tree.  A path has two pieces more  *)
(* than that of the parent, so that no path is cut inside an id: that      *)
(* parity is why LIKE and SUBSTRING take whole subtrees.                   *)
(*                                                                         *)
(* That the rows around or above a row are its ancestors in Tree, whose    *)
(* definition recurses, is proved by the smallest level at which they      *)
(* would differ.                                                           *)
(***************************************************************************)
EXTENDS MCTrees, OrderingProofs, SequenceTheorems, WellFoundedInduction, TLAPS

\* A row inside another is deeper.
LevelsGrow ==
  \A m, n \in nodes : Encloses(m, n) => level[m] < level[n]

\* The inductive invariant.
IInv == TypeOK /\ Nested /\ LevelsGrow /\ ParentsAgree

\* Intervals lm..rm and ln..rn are disjoint or one is strictly inside the other.
Apart(lm, rm, ln, rn) ==
  \/ rm < ln
  \/ rn < lm
  \/ lm < ln /\ rm > rn
  \/ ln < lm /\ rn > rm

-----------------------------------------------------------------------------
\* What IInv says of the numbers of one row.
LEMMA RowFacts ==
  ASSUME IInv, NEW n \in nodes
  PROVE  /\ c_left[n] \in Int /\ c_right[n] \in Int /\ level[n] \in Int
         /\ 1 <= c_left[n] /\ c_left[n] < c_right[n] /\ 0 <= level[n]
BY DEF IInv, TypeOK, Nested

\* What IInv says of two rows.
LEMMA PairFacts ==
  ASSUME IInv, NEW m \in nodes, NEW n \in nodes
  PROVE  /\ m = n \/ Apart(c_left[m], c_right[m], c_left[n], c_right[n])
         /\ c_left[m] < c_left[n] /\ c_right[m] > c_right[n] => level[m] < level[n]
BY DEF IInv, Nested, LevelsGrow, Encloses, Apart

\* What ParentsAgree says of one row.
LEMMA ParentFacts ==
  ASSUME IInv, NEW n \in nodes
  PROVE  \/ /\ parent_id[n] = NoParent /\ level[n] = 0
            /\ \A m \in nodes \ {n} : c_left[n] < c_left[m] /\ c_right[n] > c_right[m]
         \/ /\ parent_id[n] \in nodes /\ level[n] >= 1
            /\ level[parent_id[n]] = level[n] - 1
            /\ c_left[parent_id[n]] < c_left[n] /\ c_right[parent_id[n]] > c_right[n]
BY DEF IInv, ParentsAgree, IsParent, Encloses

-----------------------------------------------------------------------------
\* The invariant holds of the empty table.
LEMMA InitIInv == Init => IInv
BY DEF Init, IInv, TypeOK, Nested, LevelsGrow, ParentsAgree

\* deleteAll empties the table again.
LEMMA DeleteAllIInv == DeleteAll => IInv'
BY DEF DeleteAll, IInv, TypeOK, Nested, LevelsGrow, ParentsAgree

\* initTree makes a root with the smallest interval.
LEMMA InitTreeIInv == ASSUME NEW r \in Ids, InitTree(r) PROVE IInv'
BY DEF InitTree, IInv, TypeOK, Nested, LevelsGrow, ParentsAgree, Encloses

\* updateNode leaves the numbers alone.
LEMMA UpdateNodeIInv ==
  ASSUME IInv, NEW n \in Ids, NEW name \in Names \union {NoName}, UpdateNode(n, name)
  PROVE  IInv'
BY DEF UpdateNode, IInv, TypeOK, Nested, LevelsGrow, ParentsAgree, IsParent, Encloses

-----------------------------------------------------------------------------
\* createNode gives the new row the two numbers its UPDATE made room for.
LEMMA CreateNodeIInv ==
  ASSUME IInv, NEW p \in Ids, NEW id \in Ids, NEW name \in Names,
         CreateNode(p, id, name)
  PROVE  IInv'
<1> DEFINE x == c_right[p]
<1>p. p \in nodes /\ id \notin nodes /\ nodes' = nodes \union {id}
  BY DEF CreateNode, MayCreate
<1>x. x \in Int /\ x > 1
  BY <1>p, RowFacts
<1>n. /\ c_left'[id] = x /\ c_right'[id] = x + 1 /\ level'[id] = level[p] + 1
      /\ parent_id'[id] = p
  BY <1>p DEF CreateNode
<1>o. ASSUME NEW n \in nodes
      PROVE  /\ n \in nodes' /\ n # id
             /\ c_left'[n] = IF c_right[n] >= x /\ c_left[n] > x
                             THEN c_left[n] + 2 ELSE c_left[n]
             /\ c_right'[n] = IF c_right[n] >= x THEN c_right[n] + 2 ELSE c_right[n]
             /\ level'[n] = level[n] /\ parent_id'[n] = parent_id[n]
  BY <1>p DEF CreateNode, RoomLeft, RoomRight
<1>1. TypeOK'
  <2>1. ASSUME NEW n \in nodes' PROVE c_left'[n] \in Nat \ {0} /\ c_right'[n] \in Nat \ {0}
    BY <1>n, <1>o, <1>p, <1>x, RowFacts
  <2>2. c_left' \in [nodes' -> Nat \ {0}] /\ c_right' \in [nodes' -> Nat \ {0}]
    BY <2>1 DEF CreateNode
  <2>3. nodes' \in SUBSET Ids /\ level' \in [nodes' -> Nat]
    BY <1>p, RowFacts DEF CreateNode, IInv, TypeOK
  <2>4. /\ parent_id' \in [nodes' -> Ids \union {NoParent}]
        /\ identifier' \in [nodes' -> Names \union {NoName}]
    BY <1>p DEF CreateNode, IInv, TypeOK
  <2> QED
    BY <2>2, <2>3, <2>4 DEF TypeOK
<1>2. Nested'
  <2>1. ASSUME NEW n \in nodes' PROVE c_left'[n] < c_right'[n]
    BY <1>n, <1>o, <1>p, <1>x, RowFacts
  <2>2. ASSUME NEW m \in nodes, NEW n \in nodes, m # n
        PROVE  Apart(c_left'[m], c_right'[m], c_left'[n], c_right'[n])
    BY <2>2, <1>o, <1>x, RowFacts, PairFacts DEF Apart
  <2>3. ASSUME NEW m \in nodes
        PROVE  /\ Apart(c_left'[m], c_right'[m], c_left'[id], c_right'[id])
               /\ Apart(c_left'[id], c_right'[id], c_left'[m], c_right'[m])
    BY <1>o, <1>n, <1>x, <1>p, RowFacts, PairFacts DEF Apart
  <2> QED
    BY <2>1, <2>2, <2>3, <1>p DEF Nested, Apart, Encloses
<1>3. LevelsGrow'
  <2>1. ASSUME NEW m \in nodes, NEW n \in nodes, Encloses(m, n)'
        PROVE  level'[m] < level'[n]
    BY <2>1, <1>o, <1>x, RowFacts, PairFacts DEF Encloses, Apart
  <2>2. ASSUME NEW m \in nodes
        PROVE  (Encloses(m, id)' => level'[m] < level'[id]) /\ ~ Encloses(id, m)'
    BY <1>o, <1>n, <1>x, <1>p, RowFacts, PairFacts DEF Encloses, Apart
  <2>3. ~ Encloses(id, id)'
    BY <1>n, <1>x DEF Encloses
  <2> QED
    BY <2>1, <2>2, <2>3, <1>p DEF LevelsGrow
<1>4. ParentsAgree'
  <2>1. IsParent(p, id)'
    BY <1>n, <1>o, <1>p, <1>x, RowFacts DEF IsParent, Encloses
  <2>2. ASSUME NEW n \in nodes, parent_id[n] \in nodes
        PROVE  IsParent(parent_id[n], n)'
    <3>1. level[n] >= 1 /\ level[parent_id[n]] = level[n] - 1
          /\ c_left[parent_id[n]] < c_left[n] /\ c_right[parent_id[n]] > c_right[n]
      BY <2>2, ParentFacts, NSTreeConstants DEF IInv, TypeOK
    <3> QED
      BY <3>1, <2>2, <1>o, <1>x, RowFacts DEF IsParent, Encloses
  <2>3. ASSUME NEW n \in nodes, NEW m \in nodes, m # n,
               c_left[n] < c_left[m], c_right[n] > c_right[m]
        PROVE  Encloses(n, m)'
    BY <2>3, <1>o, <1>x, RowFacts DEF Encloses
  <2>4. ASSUME NEW n \in nodes, \A m \in nodes \ {n} : Encloses(n, m)
        PROVE  Encloses(n, id)'
    BY <2>4, <1>o, <1>n, <1>p, <1>x, RowFacts DEF Encloses
  <2> QED
    BY <2>1, <2>2, <2>3, <2>4, <1>n, <1>o, <1>p, ParentFacts DEF ParentsAgree, Encloses
<1> QED
  BY <1>1, <1>2, <1>3, <1>4 DEF IInv
-----------------------------------------------------------------------------
\* An interrupted createNode renumbers as createNode does.
LEMMA InterruptedCreateNodeIInv ==
  ASSUME IInv, NEW p \in Ids, NEW name \in Names, InterruptedCreateNode(p, name)
  PROVE  IInv'
<1> DEFINE x == c_right[p]
<1>p. p \in nodes /\ nodes' = nodes
  BY DEF InterruptedCreateNode, MayCreate
<1>x. x \in Int /\ x > 1
  BY <1>p, RowFacts
<1>o. ASSUME NEW n \in nodes
      PROVE  /\ c_left'[n] = IF c_right[n] >= x /\ c_left[n] > x
                             THEN c_left[n] + 2 ELSE c_left[n]
             /\ c_right'[n] = IF c_right[n] >= x THEN c_right[n] + 2 ELSE c_right[n]
             /\ level'[n] = level[n] /\ parent_id'[n] = parent_id[n]
  BY <1>p DEF InterruptedCreateNode, RoomLeft, RoomRight
<1>1. TypeOK'
  <2>1. ASSUME NEW n \in nodes PROVE c_left'[n] \in Nat \ {0} /\ c_right'[n] \in Nat \ {0}
    BY <1>o, <1>x, RowFacts
  <2>2. c_left' \in [nodes' -> Nat \ {0}] /\ c_right' \in [nodes' -> Nat \ {0}]
    BY <2>1, <1>p DEF InterruptedCreateNode
  <2> QED
    BY <2>2 DEF InterruptedCreateNode, IInv, TypeOK
<1>2. Nested'
  <2>1. ASSUME NEW n \in nodes PROVE c_left'[n] < c_right'[n]
    BY <1>o, <1>x, RowFacts
  <2>2. ASSUME NEW m \in nodes, NEW n \in nodes, m # n
        PROVE  Apart(c_left'[m], c_right'[m], c_left'[n], c_right'[n])
    BY <2>2, <1>o, <1>x, RowFacts, PairFacts DEF Apart
  <2> QED
    BY <2>1, <2>2, <1>p DEF Nested, Apart, Encloses
<1>3. \A m, n \in nodes : Encloses(m, n)' <=> Encloses(m, n)
  BY <1>o, <1>x, RowFacts, PairFacts DEF Encloses, Apart
<1>4. LevelsGrow' /\ ParentsAgree'
  BY <1>3, <1>o, <1>p, RowFacts, NSTreeConstants
     DEF IInv, LevelsGrow, ParentsAgree, IsParent
<1> QED
  BY <1>1, <1>2, <1>4 DEF IInv
-----------------------------------------------------------------------------
\* What the DELETE of deleteNode does, whether or not the gap is closed.
LEMMA RemoveRowsFacts ==
  ASSUME IInv, NEW d \in Ids, RemoveRows(d)
  PROVE  /\ d \in nodes /\ nodes' \subseteq nodes
         /\ \A n \in nodes' :
              /\ parent_id'[n] = parent_id[n] /\ level'[n] = level[n]
              /\ c_left[n] < c_left[d] \/ c_left[n] > c_right[d]
              /\ parent_id[n] # NoParent => parent_id[n] \in nodes'
         /\ nodes' \in SUBSET Ids
         /\ parent_id' \in [nodes' -> Ids \union {NoParent}]
         /\ level' \in [nodes' -> Nat]
         /\ identifier' \in [nodes' -> Names \union {NoName}]
<1>1. d \in nodes /\ nodes' = Kept(d) /\ nodes' \subseteq nodes
  BY DEF RemoveRows, Kept
<1>2. ASSUME NEW n \in nodes'
      PROVE  /\ parent_id'[n] = parent_id[n] /\ level'[n] = level[n]
             /\ c_left[n] < c_left[d] \/ c_left[n] > c_right[d]
             /\ parent_id[n] # NoParent => parent_id[n] \in nodes'
  <2>1. c_left[n] < c_left[d] \/ c_left[n] > c_right[d]
    BY <1>1, RowFacts DEF Kept, Between
  <2>2. ASSUME parent_id[n] # NoParent PROVE parent_id[n] \in nodes'
    <3>1. /\ parent_id[n] \in nodes
          /\ c_left[parent_id[n]] < c_left[n] /\ c_right[parent_id[n]] > c_right[n]
      BY <2>2, <1>1, ParentFacts
    <3> QED
      BY <3>1, <2>1, <1>1, RowFacts, PairFacts DEF Kept, Between, Apart
  <2> QED
    BY <2>1, <2>2, <1>1 DEF RemoveRows
<1>3. /\ nodes' \in SUBSET Ids
      /\ parent_id' \in [nodes' -> Ids \union {NoParent}]
      /\ level' \in [nodes' -> Nat]
      /\ identifier' \in [nodes' -> Names \union {NoName}]
  BY <1>1 DEF RemoveRows, IInv, TypeOK
<1> QED
  BY <1>1, <1>2, <1>3

\* A gap between endpoints disturbs no comparison.
LEMMA InterruptedDeleteNodeIInv ==
  ASSUME IInv, NEW d \in Ids, InterruptedDeleteNode(d)
  PROVE  IInv'
<1>1. RemoveRows(d)
  BY DEF InterruptedDeleteNode
<1>2. /\ nodes' \subseteq nodes
      /\ \A n \in nodes' :
           /\ c_left'[n] = c_left[n] /\ c_right'[n] = c_right[n]
           /\ parent_id'[n] = parent_id[n] /\ level'[n] = level[n]
           /\ parent_id[n] # NoParent => parent_id[n] \in nodes'
  BY <1>1, RemoveRowsFacts DEF InterruptedDeleteNode, RemoveRows
<1>3. TypeOK'
  BY <1>1, RemoveRowsFacts DEF InterruptedDeleteNode, RemoveRows, IInv, TypeOK
<1>4. Nested' /\ LevelsGrow'
  BY <1>2 DEF IInv, Nested, LevelsGrow, Encloses
<1>5. ParentsAgree'
  BY <1>2, NSTreeConstants DEF IInv, TypeOK, ParentsAgree, IsParent, Encloses
<1> QED
  BY <1>3, <1>4, <1>5 DEF IInv

\* Closing the gap keeps the order of the endpoints that are left.
LEMMA DeleteNodeIInv ==
  ASSUME IInv, NEW d \in Ids, DeleteNode(d)
  PROVE  IInv'
<1> DEFINE w == c_right[d] - c_left[d] + 1
<1>1. RemoveRows(d)
  BY DEF DeleteNode
<1>2. /\ d \in nodes /\ nodes' \subseteq nodes
      /\ \A n \in nodes' :
           /\ parent_id'[n] = parent_id[n] /\ level'[n] = level[n]
           /\ c_left[n] < c_left[d] \/ c_left[n] > c_right[d]
           /\ parent_id[n] # NoParent => parent_id[n] \in nodes'
  BY <1>1, RemoveRowsFacts
<1>3. ASSUME NEW n \in nodes'
      PROVE  /\ c_left'[n] = IF c_right[n] > c_right[d] /\ c_left[n] > c_left[d]
                             THEN c_left[n] - w ELSE c_left[n]
             /\ c_right'[n] = IF c_right[n] > c_right[d] THEN c_right[n] - w ELSE c_right[n]
  BY <1>1, <1>2, RowFacts DEF DeleteNode, RemoveRows, ClosedLeft, ClosedRight
<1>4. TypeOK'
  <2>1. ASSUME NEW n \in nodes' PROVE c_left'[n] \in Nat \ {0} /\ c_right'[n] \in Nat \ {0}
    BY <1>2, <1>3, RowFacts, PairFacts DEF Apart
  <2>2. c_left' \in [nodes' -> Nat \ {0}] /\ c_right' \in [nodes' -> Nat \ {0}]
    BY <2>1, <1>1 DEF DeleteNode, RemoveRows
  <2> QED
    BY <2>2, <1>1, RemoveRowsFacts DEF TypeOK
<1>5. Nested'
  <2>1. ASSUME NEW n \in nodes' PROVE c_left'[n] < c_right'[n]
    BY <1>2, <1>3, RowFacts, PairFacts DEF Apart
  <2>2. ASSUME NEW m \in nodes', NEW n \in nodes', m # n
        PROVE  Apart(c_left'[m], c_right'[m], c_left'[n], c_right'[n])
    BY <2>2, <1>2, <1>3, RowFacts, PairFacts DEF Apart
  <2> QED
    BY <2>1, <2>2 DEF Nested, Apart, Encloses
<1>6. \A m, n \in nodes' : Encloses(m, n)' <=> Encloses(m, n)
  <2>1. ASSUME NEW m \in nodes', NEW n \in nodes'
        PROVE  Encloses(m, n)' <=> Encloses(m, n)
    BY <1>2, <1>3, RowFacts, PairFacts DEF Encloses, Apart
  <2> QED
    BY <2>1
<1>7. LevelsGrow'
  BY <1>2, <1>6 DEF IInv, LevelsGrow
<1>8. ParentsAgree'
  BY <1>2, <1>6, NSTreeConstants DEF IInv, TypeOK, ParentsAgree, IsParent
<1> QED
  BY <1>4, <1>5, <1>7, <1>8 DEF IInv
-----------------------------------------------------------------------------
\* moveNodeUp and moveNodeDown exchange the subtrees of a and of the row b right
\* of it; the rows of no other subtree are touched.
LEMMA ExchangeIInv ==
  ASSUME IInv, NEW a, NEW b, Exchange(a, b)
  PROVE  IInv'
<1>1. /\ a \in nodes /\ b \in nodes /\ nodes' = nodes
      /\ c_left[b] = c_right[a] + 1 /\ level[b] = level[a]
      /\ parent_id' = parent_id /\ level' = level
  BY DEF Exchange, Adjacent
<1>2. ASSUME NEW n \in nodes
      PROVE  /\ StepBy(n, a, b) =
                  IF ~ (c_left[n] >= c_left[a] /\ c_right[n] <= c_right[b]) THEN 0
                  ELSE IF c_left[b] <= c_left[n] /\ c_left[n] <= c_right[b]
                       THEN - (c_left[b] - c_left[a])
                  ELSE c_right[b] - c_right[a]
             /\ c_left'[n] = c_left[n] + StepBy(n, a, b)
             /\ c_right'[n] = c_right[n] + StepBy(n, a, b)
             /\ StepBy(n, a, b) \in Int
  BY <1>1, RowFacts DEF Exchange, StepBy, InSubtree, Between
<1>3. TypeOK'
  <2>1. ASSUME NEW n \in nodes PROVE c_left'[n] \in Nat \ {0} /\ c_right'[n] \in Nat \ {0}
    BY <1>1, <1>2, RowFacts
  <2>2. c_left' \in [nodes' -> Nat \ {0}] /\ c_right' \in [nodes' -> Nat \ {0}]
    BY <2>1, <1>1 DEF Exchange
  <2> QED
    BY <2>2 DEF Exchange, IInv, TypeOK
<1>4. Nested'
  <2>1. ASSUME NEW n \in nodes PROVE c_left'[n] < c_right'[n]
    BY <1>2, RowFacts
  <2>2. ASSUME NEW m \in nodes, NEW n \in nodes, m # n
        PROVE  Apart(c_left'[m], c_right'[m], c_left'[n], c_right'[n])
    BY <2>2, <1>1, <1>2, RowFacts, PairFacts DEF Apart
  <2> QED
    BY <2>1, <2>2, <1>1 DEF Nested, Apart, Encloses
<1>5. \A m, n \in nodes : Encloses(m, n)' <=> Encloses(m, n)
  <2>1. ASSUME NEW m \in nodes, NEW n \in nodes
        PROVE  Encloses(m, n)' <=> Encloses(m, n)
    BY <1>1, <1>2, RowFacts, PairFacts DEF Encloses, Apart
  <2> QED
    BY <2>1
<1>6. LevelsGrow' /\ ParentsAgree'
  BY <1>1, <1>5 DEF IInv, LevelsGrow, ParentsAgree, IsParent
<1> QED
  BY <1>3, <1>4, <1>6 DEF IInv
-----------------------------------------------------------------------------
\* Ancestry among the numbers moveNode(s, t) writes.
EnclosesMoved(m, n, s, t) ==
  MovedLeft(m, s, t) < MovedLeft(n, s, t) /\ MovedRight(m, s, t) > MovedRight(n, s, t)

\* moveNode(s, t) renumbers well: the intervals stay nested, and the ancestors of
\* a row of the subtree of s become those it has inside the subtree, t, and the
\* ancestors of t, while no other row gains or loses an ancestor.
MovesWell(s, t) ==
  /\ \A n \in nodes : /\ MovedLeft(n, s, t) \in Int /\ MovedRight(n, s, t) \in Int
                      /\ 1 <= MovedLeft(n, s, t)
                      /\ MovedLeft(n, s, t) < MovedRight(n, s, t)
  /\ \A m, n \in nodes :
       m # n => Apart(MovedLeft(m, s, t), MovedRight(m, s, t),
                      MovedLeft(n, s, t), MovedRight(n, s, t))
  /\ \A m, n \in nodes :
       EnclosesMoved(m, n, s, t) <=>
         \/ InSubtree(n, s) /\ InSubtree(m, s) /\ Encloses(m, n)
         \/ InSubtree(n, s) /\ ~ InSubtree(m, s) /\ (m = t \/ Encloses(m, t))
         \/ ~ InSubtree(n, s) /\ ~ InSubtree(m, s) /\ Encloses(m, n)

\* The target is above the parent of the source.
LEMMA UpwardsMovesWell ==
  ASSUME IInv, NEW s \in nodes, NEW t \in nodes, MayMove(s, t), Upwards(s, t)
  PROVE  MovesWell(s, t)
<1>1. c_left[t] < c_left[s] /\ c_right[s] < c_right[t]
  BY DEF Upwards, Encloses
<1>2. ASSUME NEW n \in nodes
      PROVE  /\ MovedLeft(n, s, t) = UpwardsLeft(n, s, t)
             /\ MovedRight(n, s, t) = UpwardsRight(n, s, t)
  BY DEF MovedLeft, MovedRight
<1> USE DEF UpwardsLeft, UpwardsRight, Between, InSubtree, Width, Apart
<1>3. ASSUME NEW n \in nodes
      PROVE  /\ MovedLeft(n, s, t) \in Int /\ MovedRight(n, s, t) \in Int
             /\ 1 <= MovedLeft(n, s, t)
             /\ MovedLeft(n, s, t) < MovedRight(n, s, t)
  BY <1>1, <1>2, RowFacts, PairFacts
<1>4. ASSUME NEW m \in nodes, NEW n \in nodes, m # n
      PROVE  Apart(MovedLeft(m, s, t), MovedRight(m, s, t),
                   MovedLeft(n, s, t), MovedRight(n, s, t))
  BY <1>1, <1>2, <1>4, RowFacts, PairFacts
<1>5. ASSUME NEW m \in nodes, NEW n \in nodes
      PROVE  EnclosesMoved(m, n, s, t) <=>
               \/ InSubtree(n, s) /\ InSubtree(m, s) /\ Encloses(m, n)
               \/ InSubtree(n, s) /\ ~ InSubtree(m, s) /\ (m = t \/ Encloses(m, t))
               \/ ~ InSubtree(n, s) /\ ~ InSubtree(m, s) /\ Encloses(m, n)
  BY <1>1, <1>2, RowFacts, PairFacts DEF EnclosesMoved, Encloses
<1> QED
  BY <1>3, <1>4, <1>5 DEF MovesWell

\* The target is left of the source: not above it, as it is not its parent.
LEMMA BackwardsMovesWell ==
  ASSUME IInv, NEW s \in nodes, NEW t \in nodes, MayMove(s, t), Backwards(s, t)
  PROVE  MovesWell(s, t)
<1>1. c_right[t] < c_left[s]
  <2>1. ASSUME Encloses(t, s) PROVE FALSE
    <3>1. level[t] < level[s] /\ ~ (level[t] < level[s] - 1)
      BY <2>1, PairFacts DEF Backwards, Upwards, Encloses
    <3>2. IsParent(t, s)
      BY <2>1, <3>1, RowFacts DEF IsParent
    <3> QED
      BY <3>2 DEF MayMove
  <2> QED
    BY <2>1, RowFacts, PairFacts DEF Backwards, MayMove, Encloses, Apart
<1>2. ASSUME NEW n \in nodes
      PROVE  /\ MovedLeft(n, s, t) = BackwardsLeft(n, s, t)
             /\ MovedRight(n, s, t) = BackwardsRight(n, s, t)
  BY DEF MovedLeft, MovedRight, Backwards
<1> USE DEF BackwardsLeft, BackwardsRight, Touched, Between, InSubtree, Width, Apart
<1>3. ASSUME NEW n \in nodes
      PROVE  /\ MovedLeft(n, s, t) \in Int /\ MovedRight(n, s, t) \in Int
             /\ 1 <= MovedLeft(n, s, t)
             /\ MovedLeft(n, s, t) < MovedRight(n, s, t)
  BY <1>1, <1>2, RowFacts, PairFacts
<1>4. ASSUME NEW m \in nodes, NEW n \in nodes, m # n
      PROVE  Apart(MovedLeft(m, s, t), MovedRight(m, s, t),
                   MovedLeft(n, s, t), MovedRight(n, s, t))
  BY <1>1, <1>2, <1>4, RowFacts, PairFacts
<1>5. ASSUME NEW m \in nodes, NEW n \in nodes
      PROVE  EnclosesMoved(m, n, s, t) <=>
               \/ InSubtree(n, s) /\ InSubtree(m, s) /\ Encloses(m, n)
               \/ InSubtree(n, s) /\ ~ InSubtree(m, s) /\ (m = t \/ Encloses(m, t))
               \/ ~ InSubtree(n, s) /\ ~ InSubtree(m, s) /\ Encloses(m, n)
  BY <1>1, <1>2, RowFacts, PairFacts DEF EnclosesMoved, Encloses
<1> QED
  BY <1>3, <1>4, <1>5 DEF MovesWell

\* The target is right of the source: not inside it, which the guard refuses.
LEMMA ForwardsMovesWell ==
  ASSUME IInv, NEW s \in nodes, NEW t \in nodes, MayMove(s, t),
         ~ Upwards(s, t), ~ Backwards(s, t)
  PROVE  MovesWell(s, t)
<1>1. c_right[s] < c_left[t]
  BY RowFacts, PairFacts DEF MayMove, Upwards, Backwards, Encloses, Apart
<1>2. ASSUME NEW n \in nodes
      PROVE  /\ MovedLeft(n, s, t) = ForwardsLeft(n, s, t)
             /\ MovedRight(n, s, t) = ForwardsRight(n, s, t)
  BY DEF MovedLeft, MovedRight
<1> USE DEF ForwardsLeft, ForwardsRight, Touched, Between, InSubtree, Width, Apart
<1>3. ASSUME NEW n \in nodes
      PROVE  /\ MovedLeft(n, s, t) \in Int /\ MovedRight(n, s, t) \in Int
             /\ 1 <= MovedLeft(n, s, t)
             /\ MovedLeft(n, s, t) < MovedRight(n, s, t)
  BY <1>1, <1>2, RowFacts, PairFacts
<1>4. ASSUME NEW m \in nodes, NEW n \in nodes, m # n
      PROVE  Apart(MovedLeft(m, s, t), MovedRight(m, s, t),
                   MovedLeft(n, s, t), MovedRight(n, s, t))
  BY <1>1, <1>2, <1>4, RowFacts, PairFacts
<1>5. ASSUME NEW m \in nodes, NEW n \in nodes
      PROVE  EnclosesMoved(m, n, s, t) <=>
               \/ InSubtree(n, s) /\ InSubtree(m, s) /\ Encloses(m, n)
               \/ InSubtree(n, s) /\ ~ InSubtree(m, s) /\ (m = t \/ Encloses(m, t))
               \/ ~ InSubtree(n, s) /\ ~ InSubtree(m, s) /\ Encloses(m, n)
  BY <1>1, <1>2, RowFacts, PairFacts DEF EnclosesMoved, Encloses
<1> QED
  BY <1>3, <1>4, <1>5 DEF MovesWell
-----------------------------------------------------------------------------
\* What moveNode(s, t) does to ancestry.
LEMMA MoveNodeAncestry ==
  ASSUME IInv, NEW s \in Ids, NEW t \in Ids, MoveNode(s, t),
         NEW m \in nodes, NEW n \in nodes
  PROVE  Encloses(m, n)' <=>
           \/ InSubtree(n, s) /\ InSubtree(m, s) /\ Encloses(m, n)
           \/ InSubtree(n, s) /\ ~ InSubtree(m, s) /\ (m = t \/ Encloses(m, t))
           \/ ~ InSubtree(n, s) /\ ~ InSubtree(m, s) /\ Encloses(m, n)
<1>1. s \in nodes /\ t \in nodes /\ MayMove(s, t)
  BY DEF MoveNode, MayMove
<1>2. MovesWell(s, t)
  BY <1>1, UpwardsMovesWell, BackwardsMovesWell, ForwardsMovesWell
<1>3. /\ c_left'[m] = MovedLeft(m, s, t) /\ c_right'[m] = MovedRight(m, s, t)
      /\ c_left'[n] = MovedLeft(n, s, t) /\ c_right'[n] = MovedRight(n, s, t)
  BY DEF MoveNode
<1> QED
  BY <1>2, <1>3 DEF MovesWell, EnclosesMoved, Encloses

\* moveNode keeps the invariant: ancestry moves with the subtree, as shown above,
\* and the levels of the subtree move with it.
LEMMA MoveNodeIInv ==
  ASSUME IInv, NEW s \in Ids, NEW t \in Ids, MoveNode(s, t)
  PROVE  IInv'
<1>1. s \in nodes /\ t \in nodes /\ nodes' = nodes /\ MayMove(s, t)
  BY DEF MoveNode, MayMove
<1>2. MovesWell(s, t)
  BY <1>1, UpwardsMovesWell, BackwardsMovesWell, ForwardsMovesWell
<1>3. ASSUME NEW n \in nodes
      PROVE  /\ c_left'[n] = MovedLeft(n, s, t) /\ c_right'[n] = MovedRight(n, s, t)
             /\ parent_id'[n] = IF n = s THEN t ELSE parent_id[n]
             /\ level'[n] = IF InSubtree(n, s)
                            THEN level[n] - (level[s] - 1) + level[t] ELSE level[n]
  BY <1>1 DEF MoveNode, MovedParent, MovedLevel
<1>4. ASSUME NEW n \in nodes
      PROVE  /\ InSubtree(n, s) <=> n = s \/ Encloses(s, n)
             /\ InSubtree(n, s) => level[n] >= level[s]
  BY <1>1, RowFacts, PairFacts DEF InSubtree, Between, Encloses, Apart
<1>5. ~ InSubtree(t, s)
  BY <1>1, <1>4 DEF MayMove
<1>6. ASSUME NEW m \in nodes, NEW n \in nodes
      PROVE  Encloses(m, n)' <=>
               \/ InSubtree(n, s) /\ InSubtree(m, s) /\ Encloses(m, n)
               \/ InSubtree(n, s) /\ ~ InSubtree(m, s) /\ (m = t \/ Encloses(m, t))
               \/ ~ InSubtree(n, s) /\ ~ InSubtree(m, s) /\ Encloses(m, n)
  BY MoveNodeAncestry
<1>7. TypeOK'
  <2>1. ASSUME NEW n \in nodes PROVE c_left'[n] \in Nat \ {0} /\ c_right'[n] \in Nat \ {0}
    BY <1>2, <1>3 DEF MovesWell
  <2>2. c_left' \in [nodes' -> Nat \ {0}] /\ c_right' \in [nodes' -> Nat \ {0}]
    BY <2>1, <1>1 DEF MoveNode
  <2>3. ASSUME NEW n \in nodes PROVE level'[n] \in Nat
    BY <1>1, <1>3, <1>4, RowFacts
  <2>4. level' \in [nodes' -> Nat]
    BY <2>3, <1>1 DEF MoveNode
  <2>5. /\ nodes' \in SUBSET Ids
        /\ parent_id' \in [nodes' -> Ids \union {NoParent}]
        /\ identifier' \in [nodes' -> Names \union {NoName}]
    BY <1>1 DEF MoveNode, MovedParent, IInv, TypeOK
  <2> QED
    BY <2>2, <2>4, <2>5 DEF TypeOK
<1>8. Nested'
  BY <1>1, <1>2, <1>3 DEF MovesWell, Nested, Apart, Encloses
<1>9. LevelsGrow'
  <2>1. ASSUME NEW m \in nodes, NEW n \in nodes, Encloses(m, n)'
        PROVE  level'[m] < level'[n]
    <3>1. CASE InSubtree(n, s) /\ InSubtree(m, s)
      BY <3>1, <2>1, <1>1, <1>3, <1>6, RowFacts, PairFacts DEF Encloses
    <3>2. CASE InSubtree(n, s) /\ ~ InSubtree(m, s)
      <4>1. level[m] <= level[t]
        BY <3>2, <2>1, <1>1, <1>6, RowFacts, PairFacts DEF Encloses
      <4> QED
        BY <4>1, <3>2, <1>1, <1>3, <1>4, RowFacts
    <3>3. CASE ~ InSubtree(n, s)
      BY <3>3, <2>1, <1>3, <1>6, PairFacts DEF Encloses
    <3> QED
      BY <3>1, <3>2, <3>3
  <2> QED
    BY <2>1, <1>1 DEF LevelsGrow
<1>10. ParentsAgree'
  <2>1. parent_id'[s] = t /\ IsParent(t, s)'
    <3>1. parent_id'[s] = t /\ InSubtree(s, s)
      BY <1>1, <1>3, <1>4
    <3>2. level'[s] = level[t] + 1 /\ level'[t] = level[t]
      BY <3>1, <1>1, <1>3, <1>5, RowFacts
    <3>3. Encloses(t, s)'
      BY <3>1, <1>1, <1>5, <1>6
    <3> QED
      BY <3>1, <3>2, <3>3, <1>1, RowFacts DEF IsParent, Encloses
  <2>2. ASSUME NEW n \in nodes, n # s, NEW p \in nodes, parent_id[n] = p
        PROVE  parent_id'[n] = p /\ IsParent(p, n)'
    <3>1. level[n] >= 1 /\ level[p] = level[n] - 1 /\ Encloses(p, n)
      BY <2>2, ParentFacts, NSTreeConstants DEF IInv, TypeOK, Encloses
    <3>2. InSubtree(p, s) <=> InSubtree(n, s)
      <4>1. InSubtree(p, s) => InSubtree(n, s)
        BY <3>1, <1>1, <1>4, RowFacts DEF Encloses
      <4>2. ASSUME InSubtree(n, s), ~ InSubtree(p, s) PROVE FALSE
        <5>1. Encloses(s, n)
          BY <4>2, <2>2, <1>4
        <5>2. Encloses(p, s)
          BY <5>1, <4>2, <3>1, <1>1, <1>4, RowFacts, PairFacts DEF Encloses, Apart
        <5> QED
          BY <5>1, <5>2, <3>1, <1>1, RowFacts, PairFacts DEF Encloses
      <4> QED
        BY <4>1, <4>2
    <3>3. Encloses(p, n)'
      BY <3>1, <3>2, <1>6
    <3>4. parent_id'[n] = p
      BY <2>2, <1>3
    <3>5. level'[n] >= 1 /\ level'[p] = level'[n] - 1
      BY <3>1, <3>2, <1>1, <1>3, <1>4, RowFacts
    <3> QED
      BY <3>1, <3>3, <3>4, <3>5 DEF IsParent, Encloses
  <2>3. ASSUME NEW n \in nodes, parent_id[n] = NoParent
        PROVE  /\ parent_id'[n] = NoParent /\ level'[n] = 0
               /\ \A m \in nodes \ {n} : Encloses(n, m)'
    <3>1. level[n] = 0 /\ \A m \in nodes \ {n} : Encloses(n, m)
      BY <2>3, ParentFacts, NSTreeConstants DEF IInv, TypeOK, Encloses
    <3>2. ~ InSubtree(n, s)
      <4>1. n # s
        BY <3>1, <1>1 DEF MayMove, IsRoot
      <4> QED
        BY <3>1, <4>1, <1>1, <1>4, RowFacts DEF Encloses
    <3>3. ASSUME NEW m \in nodes \ {n} PROVE Encloses(n, m)'
      BY <3>1, <3>2, <1>1, <1>6
    <3> QED
      BY <3>1, <3>2, <3>3, <2>3, <1>1, <1>3, <1>4
  <2>4. ASSUME NEW n \in nodes PROVE parent_id[n] = NoParent \/ parent_id[n] \in nodes
    BY ParentFacts
  <2>5. ASSUME NEW n \in nodes
        PROVE  \/ /\ parent_id'[n] = NoParent /\ level'[n] = 0
                  /\ \A m \in nodes \ {n} : Encloses(n, m)'
               \/ \E p \in nodes : parent_id'[n] = p /\ IsParent(p, n)'
    BY <2>1, <2>2, <2>3, <2>4, <1>1
  <2> QED
    BY <2>5, <1>1 DEF ParentsAgree, IsParent, Encloses
<1> QED
  BY <1>7, <1>8, <1>9, <1>10 DEF IInv

-----------------------------------------------------------------------------
\* Every operation keeps the invariant.
LEMMA NextIInv == IInv /\ [Next]_vars => IInv'
<1> SUFFICES ASSUME IInv, [Next]_vars PROVE IInv'
  OBVIOUS
<1>1. CASE DeleteAll
  BY <1>1, DeleteAllIInv
<1>2. ASSUME NEW r \in Ids, InitTree(r) PROVE IInv'
  BY <1>2, InitTreeIInv
<1>3. ASSUME NEW p \in Ids, NEW id \in Ids, NEW name \in Names, CreateNode(p, id, name)
      PROVE  IInv'
  BY <1>3, CreateNodeIInv
<1>4. ASSUME NEW p \in Ids, NEW name \in Names, InterruptedCreateNode(p, name)
      PROVE  IInv'
  BY <1>4, InterruptedCreateNodeIInv
<1>5. ASSUME NEW n \in Ids, NEW name \in Names \union {NoName}, UpdateNode(n, name)
      PROVE  IInv'
  BY <1>5, UpdateNodeIInv
<1>6. ASSUME NEW d \in Ids, DeleteNode(d) PROVE IInv'
  BY <1>6, DeleteNodeIInv
<1>7. ASSUME NEW d \in Ids, InterruptedDeleteNode(d) PROVE IInv'
  BY <1>7, InterruptedDeleteNodeIInv
<1>8. ASSUME NEW s \in Ids, NEW t \in Ids, MoveNode(s, t) PROVE IInv'
  BY <1>8, MoveNodeIInv
<1>9. ASSUME NEW n \in Ids, MoveNodeUp(n) \/ MoveNodeDown(n) PROVE IInv'
  BY <1>9, ExchangeIInv DEF MoveNodeUp, MoveNodeDown
<1>10. CASE UNCHANGED vars
  BY <1>10 DEF vars, IInv, TypeOK, Nested, LevelsGrow, ParentsAgree, IsParent, Encloses
<1> QED
  BY <1>1, <1>2, <1>3, <1>4, <1>5, <1>6, <1>7, <1>8, <1>9, <1>10 DEF Next

\* The inductive invariant holds in every state, whatever was interrupted.
THEOREM Invariance == Spec => []IInv
BY InitIInv, NextIInv, PTL DEF Spec

-----------------------------------------------------------------------------
\* The root has the smallest left endpoint, by which updateNode knows it.
RootFirst == \A n \in nodes : parent_id[n] = NoParent => c_left[n] = 1

LEMMA MoveNodeRootFirst ==
  ASSUME IInv, RootFirst, NEW s \in Ids, NEW t \in Ids, MoveNode(s, t)
  PROVE  RootFirst'
<1>1. s \in nodes /\ t \in nodes /\ nodes' = nodes /\ MayMove(s, t)
  BY DEF MoveNode, MayMove
<1>2. ASSUME NEW n \in nodes, parent_id'[n] = NoParent PROVE c_left'[n] = 1
  <2>1. n # s /\ parent_id[n] = NoParent
    BY <1>1, <1>2, NSTreeConstants DEF MoveNode, MovedParent, IInv, TypeOK
  <2>2. /\ c_left[n] = 1 /\ c_left[s] > 1 /\ c_right[t] > 1 /\ c_right[s] > 1 /\ c_left[t] >= 1
        /\ c_left[s] \in Int /\ c_left[t] \in Int /\ c_right[s] \in Int /\ c_right[t] \in Int
    <3>1. c_left[n] = 1 /\ c_left[n] < c_left[s]
      BY <1>1, <2>1, ParentFacts, NSTreeConstants DEF RootFirst, IInv, TypeOK
    <3> QED BY <1>1, <3>1, RowFacts
  <2>3. MovedLeft(n, s, t) = 1
    BY <2>2 DEF MovedLeft, UpwardsLeft, BackwardsLeft, ForwardsLeft, InSubtree, Between
  <2> QED BY <1>1, <2>3 DEF MoveNode
<1> QED BY <1>1, <1>2 DEF RootFirst

LEMMA ExchangeRootFirst ==
  ASSUME IInv, RootFirst, NEW a, NEW b, Exchange(a, b)
  PROVE  RootFirst'
<1>1. /\ a \in nodes /\ b \in nodes /\ nodes' = nodes /\ parent_id' = parent_id
      /\ c_left[b] = c_right[a] + 1 /\ c_left' = [n \in nodes |-> c_left[n] + StepBy(n, a, b)]
  BY DEF Exchange, Adjacent
<1>2. ASSUME NEW n \in nodes, parent_id[n] = NoParent PROVE c_left'[n] = 1
  <2>1. c_left[n] = 1 /\ \A m \in nodes \ {n} : c_left[n] < c_left[m] /\ c_right[n] > c_right[m]
    BY <1>2, ParentFacts, NSTreeConstants DEF RootFirst, IInv, TypeOK
  <2>2. /\ c_left[a] \in Int /\ c_right[a] \in Int /\ c_left[b] \in Int /\ c_right[b] \in Int
        /\ c_left[a] < c_right[a] /\ c_left[b] < c_right[b]
    BY <1>1, RowFacts
  <2>3. a # n
    BY <1>1, <2>1, <2>2
  <2>4. StepBy(n, a, b) = 0
    BY <1>1, <2>1, <2>2, <2>3 DEF StepBy
  <2> QED BY <1>1, <2>1, <2>4
<1> QED BY <1>1, <1>2 DEF RootFirst

LEMMA NextRootFirst == ASSUME IInv, RootFirst, [Next]_vars PROVE RootFirst'
<1>1. CASE DeleteAll \/ UNCHANGED vars
  BY <1>1 DEF DeleteAll, vars, RootFirst
<1>2. ASSUME NEW r \in Ids, InitTree(r) PROVE RootFirst'
  BY <1>2 DEF InitTree, RootFirst
<1>3. ASSUME NEW p \in Ids, NEW id \in Ids, NEW name \in Names, CreateNode(p, id, name)
      PROVE  RootFirst'
  <2>1. /\ p \in nodes /\ id \notin nodes /\ nodes' = nodes \union {id} /\ p # NoParent
        /\ c_right[p] > 1 /\ c_right[p] \in Int
    BY <1>3, RowFacts, NSTreeConstants DEF CreateNode, MayCreate
  <2>2. \A n \in nodes : parent_id'[n] = parent_id[n] /\ c_left'[n] = RoomLeft(n, c_right[p])
    BY <1>3, <2>1 DEF CreateNode
  <2>3. parent_id'[id] = p
    BY <1>3, <2>1 DEF CreateNode
  <2> QED BY <2>1, <2>2, <2>3 DEF RootFirst, RoomLeft
<1>4. ASSUME NEW p \in Ids, NEW name \in Names, InterruptedCreateNode(p, name)
      PROVE  RootFirst'
  <2>1. p \in nodes /\ c_right[p] > 1 /\ c_right[p] \in Int
    BY <1>4, RowFacts DEF InterruptedCreateNode, MayCreate
  <2> QED BY <1>4, <2>1 DEF InterruptedCreateNode, RootFirst, RoomLeft
<1>5. ASSUME NEW n \in Ids, NEW name \in Names \union {NoName}, UpdateNode(n, name)
      PROVE  RootFirst'
  BY <1>5 DEF UpdateNode, RootFirst
<1>6. ASSUME NEW d \in Ids, DeleteNode(d) \/ InterruptedDeleteNode(d) PROVE RootFirst'
  <2>1. /\ d \in nodes /\ nodes' = Kept(d) /\ Kept(d) \subseteq nodes
        /\ parent_id' = [n \in Kept(d) |-> parent_id[n]]
    BY <1>6 DEF DeleteNode, InterruptedDeleteNode, RemoveRows, Kept
  <2>2. c_left[d] >= 1 /\ c_left[d] \in Int
    BY <2>1, RowFacts
  <2>3. \A n \in Kept(d) : c_left'[n] = ClosedLeft(n, d) \/ c_left'[n] = c_left[n]
    BY <1>6 DEF DeleteNode, InterruptedDeleteNode
  <2> QED BY <2>1, <2>2, <2>3 DEF RootFirst, ClosedLeft
<1> QED
  BY <1>1, <1>2, <1>3, <1>4, <1>5, <1>6, MoveNodeRootFirst, ExchangeRootFirst
     DEF Next, MoveNodeUp, MoveNodeDown

-----------------------------------------------------------------------------
\* A non-empty set of natural numbers has a smallest member.  With it, what holds of
\* all levels is proved by the smallest level at which it does not.
Less == {p \in Nat \X Nat : p[1] < p[2]}

LEMMA LessWellFounded == IsWellFoundedOn(Less, Nat)
<1>1. Less = OpToRel(<, Nat)
  BY DEF Less, OpToRel
<1> QED BY <1>1, NatLessThanWellFounded

LEMMA Smallest ==
  ASSUME NEW T \in SUBSET Nat, T # {}
  PROVE  \E x \in T : \A y \in T : x <= y
<1>1. \E x \in T : \A y \in T : ~ (<<y, x>> \in Less)
  BY LessWellFounded, WFMin
<1>2. \A x, y \in Nat : <<y, x>> \in Less <=> y < x
  BY DEF Less
<1>3. PICK x \in T : \A y \in T : ~ (<<y, x>> \in Less)
  BY <1>1
<1>4. \A y \in T : ~ (y < x)
  BY <1>2, <1>3
<1>5. \A y \in T : x \in Nat /\ y \in Nat
  OBVIOUS
<1>6. \A y \in T : x <= y
  BY <1>4, <1>5
<1> QED BY <1>6

\* The rows around n.
Around(n) == {a \in nodes : Encloses(a, n)}

\* They are the parent and the rows around the parent.
LEMMA AroundStep ==
  ASSUME IInv, NEW n \in nodes
  PROVE  Around(n) = IF parent_id[n] = NoParent THEN {}
                     ELSE {parent_id[n]} \union Around(parent_id[n])
<1>1. CASE parent_id[n] = NoParent
  <2>1. \A m \in nodes \ {n} : c_left[n] < c_left[m]
    BY <1>1, ParentFacts, NSTreeConstants DEF IInv, TypeOK
  <2>2. \A a \in nodes : ~ Encloses(a, n)
    BY <2>1, RowFacts DEF Encloses
  <2> QED BY <1>1, <2>2 DEF Around
<1>2. CASE parent_id[n] # NoParent
  <2> DEFINE p == parent_id[n]
  <2>1. /\ p \in nodes /\ level[p] = level[n] - 1
        /\ c_left[p] < c_left[n] /\ c_right[p] > c_right[n]
    BY <1>2, ParentFacts
  <2> HIDE DEF p
  <2>2. ASSUME NEW a \in nodes PROVE Encloses(a, n) <=> a = p \/ Encloses(a, p)
    BY <2>1, RowFacts, PairFacts DEF Encloses, Apart
  <2>3. Around(n) = {p} \union Around(p)
    BY <2>1, <2>2 DEF Around
  <2> QED BY <1>2, <2>3 DEF p
<1> QED BY <1>1, <1>2

\* Tree's recursion has a solution, so that its Ancestors is one.
LEMMA AncestorsSolve ==
  ASSUME NEW g,
         g = [m \in DOMAIN parent_id |-> IF parent_id[m] = NoParent THEN {}
                                         ELSE {parent_id[m]} \union g[parent_id[m]]]
  PROVE  Abstract!Ancestors
           = [m \in DOMAIN parent_id |->
                IF parent_id[m] = NoParent THEN {}
                ELSE {parent_id[m]} \union Abstract!Ancestors[parent_id[m]]]
BY DEF Abstract!Ancestors, Abstract!nodes

\* The recursion of Tree has one solution: two would differ at some smallest level.
LEMMA AncestorsEnclose ==
  ASSUME IInv, NEW n \in nodes
  PROVE  Abstract!Ancestors[n] = Around(n)
<1> DEFINE Solves(g) ==
             g = [m \in nodes |-> IF parent_id[m] = NoParent THEN {}
                                  ELSE {parent_id[m]} \union g[parent_id[m]]]
           A == Abstract!Ancestors
           G == [m \in nodes |-> Around(m)]
<1>1. DOMAIN parent_id = nodes
  BY DEF IInv, TypeOK
<1>2. Solves(G)
  <2>1. \A m \in nodes : parent_id[m] # NoParent => parent_id[m] \in nodes
    BY ParentFacts
  <2>2. \A m \in nodes : G[m] = IF parent_id[m] = NoParent THEN {}
                                ELSE {parent_id[m]} \union G[parent_id[m]]
    BY <2>1, AroundStep
  <2> QED BY <2>2
<1>3. Solves(A)
  <2> HIDE DEF G
  <2> QED BY <1>1, <1>2, AncestorsSolve
<1>4. \A m \in nodes : A[m] = G[m]
  <2> DEFINE Bad == {m \in nodes : A[m] # G[m]}
             T == {level[m] : m \in Bad}
  <2> SUFFICES ASSUME Bad # {} PROVE FALSE
    OBVIOUS
  <2>0. Bad \subseteq nodes /\ \A m \in nodes : A[m] # G[m] => m \in Bad
    OBVIOUS
  <2> HIDE DEF Bad, A, G
  <2>1. T \in SUBSET Nat /\ T # {}
    BY <2>0, RowFacts
  <2> HIDE DEF T
  <2>2. PICK x \in T : \A y \in T : x <= y
    BY <2>1, Smallest
  <2>3. PICK m \in Bad : level[m] = x
    BY <2>2 DEF T
  <2>4. m \in nodes /\ level[m] \in Int
    BY <2>0, <2>3, RowFacts
  <2>5. parent_id[m] # NoParent => /\ parent_id[m] \in nodes
                                   /\ level[parent_id[m]] = level[m] - 1
    BY <2>4, ParentFacts
  <2>6. parent_id[m] # NoParent => parent_id[m] \notin Bad
    BY <2>2, <2>3, <2>4, <2>5 DEF T
  <2>7. parent_id[m] # NoParent => A[parent_id[m]] = G[parent_id[m]]
    BY <2>0, <2>5, <2>6
  <2>8. /\ A[m] = IF parent_id[m] = NoParent THEN {}
                  ELSE {parent_id[m]} \union A[parent_id[m]]
        /\ G[m] = IF parent_id[m] = NoParent THEN {}
                  ELSE {parent_id[m]} \union G[parent_id[m]]
    BY <1>2, <1>3, <2>4
  <2> QED BY <2>3, <2>7, <2>8 DEF Bad
<1> QED BY <1>4

\* The row getParent reads is the one parent_id names.
LEMMA IsParentIsParent ==
  ASSUME IInv, NEW p \in nodes, NEW m \in nodes
  PROVE  IsParent(p, m) <=> parent_id[m] = p
<1>1. CASE parent_id[m] = NoParent
  BY <1>1, ParentFacts, RowFacts, NSTreeConstants DEF IsParent, IInv, TypeOK
<1>2. CASE parent_id[m] # NoParent
  <2> DEFINE q == parent_id[m]
  <2>1. /\ q \in nodes /\ level[m] >= 1 /\ level[q] = level[m] - 1
        /\ c_left[q] < c_left[m] /\ c_right[q] > c_right[m]
    BY <1>2, ParentFacts
  <2> HIDE DEF q
  <2>2. IsParent(q, m)
    BY <2>1 DEF IsParent, Encloses
  <2>3. ASSUME IsParent(p, m) PROVE q = p
    <3>1. /\ level[p] = level[q]
          /\ c_left[p] < c_left[m] /\ c_right[p] > c_right[m]
      BY <2>1, <2>3 DEF IsParent, Encloses
    <3>2. /\ p = q \/ Apart(c_left[p], c_right[p], c_left[q], c_right[q])
          /\ c_left[p] < c_left[q] /\ c_right[p] > c_right[q] => level[p] < level[q]
          /\ c_left[q] < c_left[p] /\ c_right[q] > c_right[p] => level[q] < level[p]
      BY <2>1, PairFacts
    <3> QED BY <2>1, <3>1, <3>2, RowFacts DEF Apart
  <2> QED BY <2>2, <2>3 DEF q
<1> QED BY <1>1, <1>2

\* Tree's subtree of a row is what the bounds of the row enclose.
LEMMA SubtreeIsInside ==
  ASSUME IInv, NEW d \in nodes
  PROVE  Abstract!Subtree(d) = {n \in nodes : InSubtree(n, d)}
<1>1. DOMAIN parent_id = nodes
  BY DEF IInv, TypeOK
<1>2. ASSUME NEW n \in nodes
      PROVE  (n = d \/ d \in Abstract!Ancestors[n]) <=> InSubtree(n, d)
  <2>1. Abstract!Ancestors[n] = Around(n)
    BY AncestorsEnclose
  <2>2. d \in Around(n) <=> c_left[d] < c_left[n] /\ c_right[d] > c_right[n]
    BY DEF Around, Encloses
  <2>3. InSubtree(n, d) <=> c_left[d] <= c_left[n] /\ c_left[n] <= c_right[d]
    BY DEF InSubtree, Between
  <2>4. n = d \/ Apart(c_left[n], c_right[n], c_left[d], c_right[d])
    BY PairFacts
  <2> QED BY <2>1, <2>2, <2>3, <2>4, RowFacts DEF Apart
<1> QED BY <1>1, <1>2 DEF Abstract!Subtree, Abstract!nodes

\* No sibling is called name, by the query and by parent_id.
LEMMA FreeUnderAgrees ==
  ASSUME IInv, NEW p \in nodes, NEW name, FreeUnder(p, name)
  PROVE  \A m \in nodes : parent_id[m] = p => identifier[m] # name
BY IsParentIsParent DEF FreeUnder

-----------------------------------------------------------------------------
\* Each operation is the operation of Tree, or changes nothing Tree sees.
LEMMA CreateNodeImplements ==
  ASSUME IInv, NEW p \in Ids, NEW id \in Ids, NEW name \in Names, CreateNode(p, id, name)
  PROVE  Abstract!CreateNode(p, id, name)
<1>1. DOMAIN parent_id = nodes
  BY DEF IInv, TypeOK
<1>2. p \in nodes /\ id \notin nodes /\ FreeUnder(p, name)
  BY DEF CreateNode, MayCreate
<1>3. \A m \in nodes : parent_id[m] = p => identifier[m] # name
  BY <1>2, FreeUnderAgrees
<1>4. /\ parent_id' = [n \in nodes \union {id} |-> IF n = id THEN p ELSE parent_id[n]]
      /\ identifier' = [n \in nodes \union {id} |-> IF n = id THEN name ELSE identifier[n]]
  BY DEF CreateNode
<1> QED BY <1>1, <1>2, <1>3, <1>4
        DEF Abstract!CreateNode, Abstract!FreeUnder, Abstract!nodes

LEMMA UpdateNodeImplements ==
  ASSUME IInv, RootFirst, NEW n \in Ids, NEW name \in Names \union {NoName},
         UpdateNode(n, name)
  PROVE  Abstract!UpdateNode(n, name) \/ UNCHANGED <<parent_id, identifier>>
<1>1. DOMAIN parent_id = nodes /\ identifier \in [nodes -> Names \union {NoName}]
  BY DEF IInv, TypeOK
<1>2. /\ n \in nodes /\ parent_id' = parent_id
      /\ identifier' = [identifier EXCEPT ![n] = name]
  BY DEF UpdateNode
<1>3. CASE parent_id[n] = NoParent
  <2>1. name = NoName
    BY <1>2, <1>3 DEF UpdateNode, RootFirst
  <2> QED BY <1>1, <1>2, <1>3, <2>1 DEF Abstract!UpdateNode, Abstract!nodes
<1>4. CASE parent_id[n] # NoParent /\ identifier[n] = name
  BY <1>1, <1>2, <1>4
<1>5. CASE parent_id[n] # NoParent /\ identifier[n] # name
  <2> DEFINE p == parent_id[n]
  <2>1. p \in nodes
    BY <1>2, <1>5, ParentFacts
  <2>2. IsParent(p, n)
    BY <1>2, <2>1, IsParentIsParent
  <2>3. FreeUnder(p, name)
    BY <1>5, <2>1, <2>2 DEF UpdateNode
  <2>4. \A m \in nodes : parent_id[m] = p => identifier[m] # name
    BY <2>1, <2>3, FreeUnderAgrees
  <2> QED BY <1>1, <1>2, <1>5, <2>4
          DEF Abstract!UpdateNode, Abstract!FreeUnder, Abstract!nodes
<1> QED BY <1>3, <1>4, <1>5

LEMMA RemoveRowsImplements ==
  ASSUME IInv, NEW d \in Ids, RemoveRows(d)
  PROVE  Abstract!DeleteNode(d)
<1>1. DOMAIN parent_id = nodes
  BY DEF IInv, TypeOK
<1>2. /\ d \in nodes
      /\ parent_id' = [n \in Kept(d) |-> parent_id[n]]
      /\ identifier' = [n \in Kept(d) |-> identifier[n]]
  BY DEF RemoveRows
<1>3. Kept(d) = nodes \ Abstract!Subtree(d)
  BY <1>2, SubtreeIsInside DEF Kept, InSubtree
<1> QED BY <1>1, <1>2, <1>3 DEF Abstract!DeleteNode, Abstract!nodes

LEMMA MoveNodeImplements ==
  ASSUME IInv, NEW s \in Ids, NEW t \in Ids, MoveNode(s, t)
  PROVE  Abstract!MoveNode(s, t)
<1>1. DOMAIN parent_id = nodes
  BY DEF IInv, TypeOK
<1>2. /\ s \in nodes /\ t \in nodes /\ s # t /\ ~ Encloses(s, t)
      /\ parent_id' = [n \in nodes |-> MovedParent(n, s, t)]
      /\ identifier' = identifier
  BY DEF MoveNode, MayMove
<1>3. t \notin Abstract!Subtree(s)
  <2>1. ~ InSubtree(t, s)
    <3>1. Apart(c_left[s], c_right[s], c_left[t], c_right[t])
      BY <1>2, PairFacts
    <3> QED BY <1>2, <3>1, RowFacts DEF Apart, InSubtree, Between, Encloses
  <2> QED BY <1>2, <2>1, SubtreeIsInside
<1>4. parent_id' = [parent_id EXCEPT ![s] = t]
  BY <1>1, <1>2 DEF MovedParent, IInv, TypeOK
<1> QED BY <1>1, <1>2, <1>3, <1>4 DEF Abstract!MoveNode, Abstract!nodes

LEMMA StepImplements ==
  ASSUME IInv, RootFirst, [Next]_vars
  PROVE  [Abstract!Next]_Abstract!treeVars
<1> USE DEF Abstract!treeVars
<1>1. CASE DeleteAll
  BY <1>1 DEF DeleteAll, Abstract!Next, Abstract!DeleteAll
<1>2. ASSUME NEW r \in Ids, InitTree(r) PROVE Abstract!Next
  <2>1. Abstract!InitTree(r)
    BY <1>2 DEF InitTree, Abstract!InitTree
  <2> QED BY <2>1 DEF Abstract!Next
<1>3. ASSUME NEW p \in Ids, NEW id \in Ids, NEW name \in Names, CreateNode(p, id, name)
      PROVE  Abstract!Next
  <2>1. Abstract!CreateNode(p, id, name)
    BY <1>3, CreateNodeImplements
  <2> QED BY <2>1 DEF Abstract!Next
<1>4. ASSUME NEW p \in Ids, NEW name \in Names, InterruptedCreateNode(p, name)
      PROVE  UNCHANGED <<parent_id, identifier>>
  BY <1>4 DEF InterruptedCreateNode
<1>5. ASSUME NEW n \in Ids, NEW name \in Names \union {NoName}, UpdateNode(n, name)
      PROVE  [Abstract!Next]_<<parent_id, identifier>>
  <2>1. Abstract!UpdateNode(n, name) \/ UNCHANGED <<parent_id, identifier>>
    BY <1>5, UpdateNodeImplements
  <2> QED BY <2>1 DEF Abstract!Next
<1>6. ASSUME NEW d \in Ids, DeleteNode(d) \/ InterruptedDeleteNode(d)
      PROVE  Abstract!Next
  <2>1. RemoveRows(d)
    BY <1>6 DEF DeleteNode, InterruptedDeleteNode
  <2>2. Abstract!DeleteNode(d)
    BY <2>1, RemoveRowsImplements
  <2> QED BY <2>2 DEF Abstract!Next
<1>7. ASSUME NEW s \in Ids, NEW t \in Ids, MoveNode(s, t) PROVE Abstract!Next
  <2>1. Abstract!MoveNode(s, t)
    BY <1>7, MoveNodeImplements
  <2> QED BY <2>1 DEF Abstract!Next
<1>8. ASSUME NEW n \in Ids, MoveNodeUp(n) \/ MoveNodeDown(n)
      PROVE  UNCHANGED <<parent_id, identifier>>
  BY <1>8 DEF MoveNodeUp, MoveNodeDown, Exchange
<1>9. CASE UNCHANGED vars
  BY <1>9 DEF vars
<1> QED BY <1>1, <1>2, <1>3, <1>4, <1>5, <1>6, <1>7, <1>8, <1>9 DEF Next

-----------------------------------------------------------------------------
\* The columns of every row are set, with endpoints from 1 and levels from 0.
THEOREM TypeCorrect == Spec => []TypeOK
<1>1. IInv => TypeOK
  BY DEF IInv
<1> QED
  BY <1>1, Invariance, PTL

\* However many nodes there are and whatever was interrupted, the interval of a
\* node never overlaps that of another.
THEOREM NestedAlways == Spec => []Nested
<1>1. IInv => Nested
  BY DEF IInv
<1> QED
  BY <1>1, Invariance, PTL

\* parent_id, level and the intervals always name the same parent, and all rows
\* are below one root.
THEOREM ParentsAlwaysAgree == Spec => []ParentsAgree
<1>1. IInv => ParentsAgree
  BY DEF IInv
<1> QED
  BY <1>1, Invariance, PTL

\* Whichever UPDATE moveNode chooses, it moves the subtree of its source, whole,
\* and disturbs the ancestry of no other row.
THEOREM MovesOneSubtreeAlways == Spec => MovesOneSubtree
<1> DEFINE Moves == \A s, t \in Ids : MoveNode(s, t) =>
                     \A m, n \in nodes : Encloses(m, n)' <=>
                       \/ InSubtree(n, s) /\ InSubtree(m, s) /\ Encloses(m, n)
                       \/ /\ InSubtree(n, s) /\ ~ InSubtree(m, s)
                          /\ m = t \/ Encloses(m, t)
                       \/ ~ InSubtree(n, s) /\ ~ InSubtree(m, s) /\ Encloses(m, n)
<1>1. IInv => Moves
  BY MoveNodeAncestry
<1>2. IInv /\ [Next]_vars => [Moves]_vars
  BY <1>1
<1> QED
  BY <1>2, Invariance, PTL DEF Spec, MovesOneSubtree

\* lmbNSTree implements what lmbTree promises of any driver: whatever UPDATE
\* renumbers the table and wherever an operation is cut, the parents and
\* identifiers of the rows change as in a tree without numbers, or not at all.
THEOREM NSImplementsTreeAlways == Spec => ImplementsTree
<1>1. Init => Abstract!Init
  BY DEF Init, Abstract!Init
<1>2. Init => RootFirst
  BY DEF Init, RootFirst
<1>3. IInv /\ RootFirst /\ [Next]_vars => RootFirst'
  BY NextRootFirst
<1>4. IInv /\ RootFirst /\ [Next]_vars => [Abstract!Next]_Abstract!treeVars
  BY StepImplements
<1>5. Spec => []IInv
  BY Invariance
<1> QED BY <1>1, <1>2, <1>3, <1>4, <1>5, PTL DEF Spec, ImplementsTree, Abstract!Spec

\* The rows getChildren selects by bounds are the children.
LEMMA RowsInside ==
  ASSUME IInv, NEW n \in nodes
  PROVE  {m \in nodes : Encloses(n, m) /\ level[m] <= level[n] + 1}
           = {m \in nodes : parent_id[m] = n}
<1>1. ASSUME NEW m \in nodes
      PROVE  Encloses(n, m) /\ level[m] <= level[n] + 1 <=> parent_id[m] = n
  <2>1. /\ level[n] \in Int /\ level[m] \in Int /\ 0 <= level[n]
        /\ c_left[n] < c_left[m] /\ c_right[n] > c_right[m] => level[n] < level[m]
    BY RowFacts, PairFacts
  <2>2. (Encloses(n, m) /\ level[m] <= level[n] + 1) <=> IsParent(n, m)
    BY <2>1 DEF IsParent, Encloses
  <2> QED BY <2>2, IsParentIsParent
<1> QED BY <1>1

\* The rows the queries of getParents and getChildren select by bounds.
RowsByBounds ==
  \A n \in nodes :
    /\ {a \in nodes : Encloses(a, n)} = Abstract!Ancestors[n]
    /\ {m \in nodes : Encloses(n, m) /\ level[m] <= level[n] + 1}
         = {m \in nodes : parent_id[m] = n}

\* They are the ancestors and the children by the parent_id column, however deep the
\* tree and whatever was interrupted.
THEOREM RowsByBoundsAlways == Spec => []RowsByBounds
<1>1. IInv => RowsByBounds
  BY RowsInside, AncestorsEnclose DEF RowsByBounds, Around
<1> QED BY <1>1, Invariance, PTL

-----------------------------------------------------------------------------
(* Materialized paths.                                                     *)

\* The parent_id of the root and the slash are no ids of rows.
MPTreeConstants == NoParent \notin Ids /\ Slash \notin Ids

Pieces == Ids \union {Slash}

\* A path is the root's three pieces and two for every level, and ends in the id
\* of its row and a slash.
PathsEnd ==
  \A n \in mpNodes : /\ Len(path[n]) = mpLevel[n] + mpLevel[n] + 3
                   /\ path[n][Len(path[n]) - 1] = n
                   /\ path[n][Len(path[n])] = Slash

\* The inductive invariant.
PathInv == MP!TypeOK /\ MP!PathsAgree /\ PathsEnd

-----------------------------------------------------------------------------
\* What LIKE 'q%' asks, piece by piece.
LEMMA StartsWithPieces ==
  ASSUME NEW p \in Seq(Pieces), NEW q \in Seq(Pieces)
  PROVE  MP!StartsWith(p, q) <=> /\ Len(q) <= Len(p)
                              /\ \A i \in 1..Len(q) : p[i] = q[i]
<1>1. CASE ~ (Len(q) <= Len(p))
  BY <1>1 DEF MP!StartsWith
<1>2. CASE Len(q) <= Len(p)
  <2> DEFINE r == SubSeq(p, 1, Len(q))
  <2>1. Len(q) \in Nat /\ Len(p) \in Nat
    BY LenProperties
  <2>2. \A i \in 1..Len(q) : p[i] \in Pieces
    BY <1>2, <2>1, ElementOfSeq
  <2>3. /\ r \in Seq(Pieces)
        /\ Len(r) = IF 1 <= Len(q) THEN Len(q) - 1 + 1 ELSE 0
        /\ \A i \in 1..(Len(q) - 1 + 1) : r[i] = p[1 + i - 1]
    BY <2>1, <2>2, SubSeqProperties
  <2> HIDE DEF r
  <2>4. Len(r) = Len(q) /\ \A i \in 1..Len(q) : r[i] = p[i]
    BY <2>1, <2>3
  <2>5. (\A i \in 1..Len(q) : r[i] = q[i]) => r = q
    BY <2>3, <2>4, SeqEqual
  <2>6. r = q <=> \A i \in 1..Len(q) : p[i] = q[i]
    BY <2>4, <2>5
  <2> QED BY <1>2, <2>6 DEF MP!StartsWith, r
<1> QED BY <1>1, <1>2

\* A path lengthened by two pieces.
LEMMA LongerPath ==
  ASSUME NEW p \in Seq(Pieces), NEW n \in Pieces
  PROVE  /\ p \o <<n, Slash>> \in Seq(Pieces)
         /\ Len(p \o <<n, Slash>>) = Len(p) + 2
         /\ \A i \in 1..Len(p) : (p \o <<n, Slash>>)[i] = p[i]
         /\ (p \o <<n, Slash>>)[Len(p) + 1] = n
         /\ (p \o <<n, Slash>>)[Len(p) + 2] = Slash
<1>1. /\ <<n, Slash>> \in Seq(Pieces) /\ Len(<<n, Slash>>) = 2
      /\ <<n, Slash>>[1] = n /\ <<n, Slash>>[2] = Slash
  BY DEF Pieces
<1>2. Len(p) \in Nat
  BY LenProperties
<1> DEFINE q == <<n, Slash>>
<1> HIDE DEF q
<1>3. /\ p \o q \in Seq(Pieces)
      /\ Len(p \o q) = Len(p) + Len(q)
      /\ \A i \in 1..(Len(p) + Len(q)) : (p \o q)[i] = IF i <= Len(p) THEN p[i] ELSE q[i - Len(p)]
  BY <1>1, ConcatProperties DEF q
<1>4. Len(q) = 2 /\ q[1] = n /\ q[2] = Slash
  BY <1>1 DEF q
<1>5. /\ Len(p \o q) = Len(p) + 2
      /\ \A i \in 1..Len(p) : (p \o q)[i] = p[i]
  BY <1>2, <1>3, <1>4
<1>6. (p \o q)[Len(p) + 1] = q[Len(p) + 1 - Len(p)] /\ (p \o q)[Len(p) + 2] = q[Len(p) + 2 - Len(p)]
  BY <1>2, <1>3, <1>4
<1>7. (p \o q)[Len(p) + 1] = n /\ (p \o q)[Len(p) + 2] = Slash
  BY <1>2, <1>4, <1>6
<1> QED BY <1>3, <1>5, <1>7 DEF q

\* What PathInv says of one row: its path, and its parent.
LEMMA PathFacts ==
  ASSUME MPTreeConstants, PathInv, NEW n \in mpNodes
  PROVE  /\ n \in Ids /\ n \in Pieces /\ n # Slash /\ mpLevel[n] \in Nat
         /\ path[n] \in Seq(Pieces)
         /\ Len(path[n]) = mpLevel[n] + mpLevel[n] + 3
         /\ path[n][mpLevel[n] + mpLevel[n] + 2] = n
         /\ path[n][mpLevel[n] + mpLevel[n] + 3] = Slash
<1>1. n \in Ids /\ n # Slash /\ mpLevel[n] \in Nat /\ path[n] \in Seq(Pieces) /\ n \in Pieces
  BY DEF MPTreeConstants, PathInv, MP!TypeOK, Pieces
<1>2. /\ Len(path[n]) = mpLevel[n] + mpLevel[n] + 3
      /\ path[n][Len(path[n]) - 1] = n /\ path[n][Len(path[n])] = Slash
  BY DEF PathInv, PathsEnd
<1>3. mpLevel[n] + mpLevel[n] + 3 - 1 = mpLevel[n] + mpLevel[n] + 2
  BY <1>1
<1>4. path[n][mpLevel[n] + mpLevel[n] + 2] = n /\ path[n][mpLevel[n] + mpLevel[n] + 3] = Slash
  BY <1>1, <1>2, <1>3
<1> QED BY <1>1, <1>2, <1>4

LEMMA RowParent ==
  ASSUME MPTreeConstants, PathInv, NEW n \in mpNodes
  PROVE  \/ mpParent[n] \notin mpNodes /\ mpParent[n] = NoParent /\ mpLevel[n] = 0
         \/ /\ mpParent[n] # NoParent /\ mpParent[n] \in mpNodes
            /\ mpLevel[n] = mpLevel[mpParent[n]] + 1
            /\ path[n] = path[mpParent[n]] \o <<n, Slash>>
BY DEF MPTreeConstants, PathInv, MP!TypeOK, MP!PathsAgree, MP!ChildPath

-----------------------------------------------------------------------------
\* A row whose path starts with that of a is a, or its parent's path does.
LEMMA PrefixStep ==
  ASSUME MPTreeConstants, PathInv, NEW n \in mpNodes, NEW a \in mpNodes
  PROVE  MP!StartsWith(path[n], path[a]) <=>
           \/ a = n
           \/ /\ mpParent[n] \in mpNodes
              /\ MP!StartsWith(path[mpParent[n]], path[a])
<1> DEFINE p == path[n]
           q == path[a]
<1>1. /\ p \in Seq(Pieces) /\ q \in Seq(Pieces)
      /\ mpLevel[n] \in Nat /\ mpLevel[a] \in Nat
      /\ Len(p) = mpLevel[n] + mpLevel[n] + 3 /\ Len(q) = mpLevel[a] + mpLevel[a] + 3
      /\ p[mpLevel[n] + mpLevel[n] + 2] = n /\ q[mpLevel[a] + mpLevel[a] + 2] = a
  BY PathFacts
<1>2. MP!StartsWith(p, q) <=> Len(q) <= Len(p) /\ \A i \in 1..Len(q) : p[i] = q[i]
  BY <1>1, StartsWithPieces
<1>3. a = n => MP!StartsWith(p, q)
  BY <1>1, <1>2
<1>4. MP!StartsWith(p, q) /\ mpLevel[a] = mpLevel[n] => a = n
  <2> HIDE DEF p, q
  <2>1. mpLevel[a] = mpLevel[n] => mpLevel[n] + mpLevel[n] + 2 \in 1..Len(q)
    BY <1>1
  <2> QED BY <1>1, <1>2, <2>1
<1>5. MP!StartsWith(p, q) => mpLevel[a] <= mpLevel[n]
  <2> HIDE DEF p, q
  <2> QED BY <1>1, <1>2
<1>6. CASE mpParent[n] \notin mpNodes
  <2>1. mpLevel[n] = 0
    BY <1>6, RowParent
  <2> QED BY <1>1, <1>3, <1>4, <1>5, <1>6, <2>1
<1>7. CASE mpParent[n] \in mpNodes
  <2> DEFINE m == mpParent[n]
             r == path[m]
  <2>1. mpLevel[n] = mpLevel[m] + 1
    BY <1>7, RowParent
  <2>2. p = r \o <<n, Slash>>
    BY <1>7, RowParent
  <2>3. /\ r \in Seq(Pieces) /\ Len(r) = mpLevel[m] + mpLevel[m] + 3
        /\ mpLevel[m] \in Nat /\ n \in Pieces
    BY <1>7, PathFacts
  <2>4. \A i \in 1..Len(r) : p[i] = r[i]
    BY <2>2, <2>3, LongerPath
  <2>5. MP!StartsWith(r, q) <=> Len(q) <= Len(r) /\ \A i \in 1..Len(q) : r[i] = q[i]
    BY <1>1, <2>3, StartsWithPieces
  <2> HIDE DEF p, q, r, m
  <2>6. Len(p) \in Nat /\ Len(q) \in Nat /\ Len(r) \in Nat /\ Len(r) <= Len(p)
    <3>1. Len(p) \in Nat /\ Len(q) \in Nat /\ Len(r) \in Nat
      BY <1>1, <2>3, LenProperties
    <3>2. Len(p) = Len(r) + 2
      BY <2>2, <2>3, LongerPath
    <3> QED BY <3>1, <3>2
  <2>7. Len(q) <= Len(r) => (MP!StartsWith(p, q) <=> MP!StartsWith(r, q))
    <3>1. Len(q) <= Len(r) => Len(q) <= Len(p) /\ \A i \in 1..Len(q) : i \in 1..Len(r)
      BY <2>6
    <3> QED BY <1>2, <2>4, <2>5, <3>1
  <2>8. ~ (Len(q) <= Len(r)) => mpLevel[a] > mpLevel[m]
    BY <1>1, <2>3
  <2>9. ~ (Len(q) <= Len(r)) /\ MP!StartsWith(p, q) => a = n
    BY <1>1, <1>4, <1>5, <2>1, <2>3, <2>8
  <2> QED BY <1>3, <1>7, <2>5, <2>7, <2>9 DEF p, q, r, m
<1> QED BY <1>6, <1>7

-----------------------------------------------------------------------------
\* The invariant holds of the empty table, and of one that only has a root.
LEMMA PathInit == MP!Init => PathInv
BY DEF MP!Init, PathInv, MP!TypeOK, MP!PathsAgree, PathsEnd

LEMMA PathDeleteAll == MP!DeleteAll => PathInv'
BY DEF MP!DeleteAll, PathInv, MP!TypeOK, MP!PathsAgree, PathsEnd

LEMMA PathInitTree ==
  ASSUME NEW r \in Ids, MP!InitTree(r)
  PROVE  PathInv'
<1>1. /\ mpNodes' = {r} /\ mpParent' = [n \in {r} |-> NoParent]
      /\ mpLevel' = [n \in {r} |-> 0] /\ mpIdentifier' = [n \in {r} |-> NoName]
      /\ path' = [n \in {r} |-> <<Slash, r, Slash>>]
  BY DEF MP!InitTree, MP!RootOnly
<1>2. /\ <<Slash, r, Slash>> \in Seq(Ids \union {Slash}) /\ Len(<<Slash, r, Slash>>) = 3
      /\ <<Slash, r, Slash>>[2] = r /\ <<Slash, r, Slash>>[3] = Slash
  OBVIOUS
<1>3. MP!TypeOK'
  <2>1. /\ mpNodes' \in SUBSET Ids /\ mpParent' \in [mpNodes' -> Ids \union {NoParent}]
        /\ mpLevel' \in [mpNodes' -> Nat] /\ mpIdentifier' \in [mpNodes' -> Names \union {NoName}]
    BY <1>1
  <2>2. path' \in [mpNodes' -> Seq(Ids \union {Slash})]
    BY <1>1, <1>2
  <2> QED BY <2>1, <2>2 DEF MP!TypeOK
<1>4. MP!PathsAgree'
  BY <1>1 DEF MP!PathsAgree
<1>5. PathsEnd'
  <2> SUFFICES ASSUME NEW n \in mpNodes'
               PROVE  /\ Len(path'[n]) = mpLevel'[n] + mpLevel'[n] + 3
                      /\ path'[n][Len(path'[n]) - 1] = n
                      /\ path'[n][Len(path'[n])] = Slash
    BY DEF PathsEnd
  <2>1. n = r /\ path'[n] = <<Slash, r, Slash>> /\ mpLevel'[n] = 0
    BY <1>1
  <2> QED BY <1>2, <2>1
<1> QED BY <1>3, <1>4, <1>5 DEF PathInv

LEMMA PathUpdateNode ==
  ASSUME PathInv, NEW n \in Ids, NEW name \in Names \union {NoName}, MP!UpdateNode(n, name)
  PROVE  PathInv'
BY DEF MP!UpdateNode, PathInv, MP!TypeOK, MP!PathsAgree, PathsEnd, MP!ChildPath

\* The new row extends the path of its parent; no other row changes.
LEMMA PathCreateNode ==
  ASSUME MPTreeConstants, PathInv,
         NEW p \in Ids, NEW id \in Ids, NEW name \in Names, MP!CreateNode(p, id, name)
  PROVE  PathInv'
<1> DEFINE all == mpNodes \union {id}
           new == path[p] \o <<id, Slash>>
<1>1. /\ p \in mpNodes /\ id \notin mpNodes /\ mpNodes' = all
      /\ mpParent' = [n \in all |-> IF n = id THEN p ELSE mpParent[n]]
      /\ mpLevel' = [n \in all |-> IF n = id THEN mpLevel[p] + 1 ELSE mpLevel[n]]
      /\ mpIdentifier' = [n \in all |-> IF n = id THEN name ELSE mpIdentifier[n]]
      /\ path' = [n \in all |-> IF n = id THEN new ELSE path[n]]
  BY DEF MP!CreateNode, MP!InsertRow, MP!ChildPath
<1>2. mpLevel[p] \in Nat /\ path[p] \in Seq(Pieces) /\ Len(path[p]) = mpLevel[p] + mpLevel[p] + 3
  BY <1>1, PathFacts
<1>3. /\ new \in Seq(Pieces) /\ Len(new) = Len(path[p]) + 2
      /\ new[Len(path[p]) + 1] = id /\ new[Len(path[p]) + 2] = Slash
  BY <1>2, LongerPath DEF Pieces
<1> HIDE DEF new
<1>4. MP!TypeOK'
  <2>1. /\ mpNodes' \in SUBSET Ids /\ mpParent' \in [mpNodes' -> Ids \union {NoParent}]
        /\ mpIdentifier' \in [mpNodes' -> Names \union {NoName}]
    BY <1>1 DEF PathInv, MP!TypeOK
  <2>2. mpLevel' \in [mpNodes' -> Nat]
    BY <1>1, <1>2 DEF PathInv, MP!TypeOK
  <2>3. path' \in [mpNodes' -> Seq(Ids \union {Slash})]
    BY <1>1, <1>3 DEF PathInv, MP!TypeOK, Pieces
  <2> QED BY <2>1, <2>2, <2>3 DEF MP!TypeOK
<1>5. ASSUME NEW n \in mpNodes
      PROVE  /\ n \in mpNodes' /\ n # id
             /\ mpParent'[n] = mpParent[n] /\ mpLevel'[n] = mpLevel[n] /\ path'[n] = path[n]
  BY <1>1
<1>6. mpParent'[id] = p /\ mpLevel'[id] = mpLevel[p] + 1 /\ path'[id] = new
  BY <1>1
<1>7. MP!PathsAgree'
  <2> SUFFICES ASSUME NEW n \in mpNodes'
               PROVE  \/ /\ mpParent'[n] = NoParent
                         /\ path'[n] = <<Slash, n, Slash>> /\ mpLevel'[n] = 0
                      \/ /\ mpParent'[n] \in mpNodes'
                         /\ path'[n] = path'[mpParent'[n]] \o <<n, Slash>>
                         /\ mpLevel'[n] = mpLevel'[mpParent'[n]] + 1
    BY DEF MP!PathsAgree, MP!ChildPath
  <2>1. CASE n = id
    <3>1. path'[p] = path[p] /\ mpLevel'[p] = mpLevel[p] /\ p \in mpNodes'
      BY <1>1, <1>5
    <3> QED BY <1>6, <2>1, <3>1 DEF new
  <2>2. CASE n \in mpNodes
    <3>1. \/ /\ mpParent[n] = NoParent
             /\ path[n] = <<Slash, n, Slash>> /\ mpLevel[n] = 0
          \/ /\ mpParent[n] \in mpNodes
             /\ path[n] = path[mpParent[n]] \o <<n, Slash>>
             /\ mpLevel[n] = mpLevel[mpParent[n]] + 1
      BY <2>2 DEF PathInv, MP!PathsAgree, MP!ChildPath
    <3> QED BY <1>5, <2>2, <3>1
  <2> QED BY <1>1, <2>1, <2>2
<1>8. PathsEnd'
  <2> SUFFICES ASSUME NEW n \in mpNodes'
               PROVE  /\ Len(path'[n]) = mpLevel'[n] + mpLevel'[n] + 3
                      /\ path'[n][Len(path'[n]) - 1] = n
                      /\ path'[n][Len(path'[n])] = Slash
    BY DEF PathsEnd
  <2>1. CASE n = id
    <3>1. Len(new) = mpLevel'[id] + mpLevel'[id] + 3
      <4>1. Len(new) = (mpLevel[p] + 1) + (mpLevel[p] + 1) + 3
        BY <1>2, <1>3
      <4> QED BY <1>6, <4>1
    <3>2. Len(new) - 1 = Len(path[p]) + 1 /\ Len(new) = Len(path[p]) + 2
      BY <1>2, <1>3
    <3>3. new[Len(new) - 1] = id /\ new[Len(new)] = Slash
      BY <1>3, <3>2
    <3> QED BY <1>6, <2>1, <3>1, <3>3
  <2>2. CASE n \in mpNodes
    BY <1>5, <2>2 DEF PathInv, PathsEnd
  <2> QED BY <1>1, <2>1, <2>2
<1> QED BY <1>4, <1>7, <1>8 DEF PathInv

\* The parent of a row that stays stays.
LEMMA PathDeleteNode ==
  ASSUME MPTreeConstants, PathInv, NEW d \in Ids, MP!DeleteNode(d)
  PROVE  PathInv'
<1>1. /\ d \in mpNodes /\ mpNodes' = MP!Kept(d) /\ MP!Kept(d) \subseteq mpNodes
      /\ mpParent' = [n \in MP!Kept(d) |-> mpParent[n]]
      /\ mpLevel' = [n \in MP!Kept(d) |-> mpLevel[n]]
      /\ mpIdentifier' = [n \in MP!Kept(d) |-> mpIdentifier[n]]
      /\ path' = [n \in MP!Kept(d) |-> path[n]]
  BY DEF MP!DeleteNode, MP!Kept
<1>2. \A n \in MP!Kept(d) : mpParent[n] \in mpNodes => mpParent[n] \in MP!Kept(d)
  BY <1>1, PrefixStep DEF MP!Kept
<1> HIDE DEF MP!Kept
<1>3. MP!TypeOK'
  BY <1>1 DEF PathInv, MP!TypeOK
<1>4. MP!PathsAgree'
  <2> SUFFICES ASSUME NEW n \in MP!Kept(d)
               PROVE  \/ /\ mpParent'[n] = NoParent
                         /\ path'[n] = <<Slash, n, Slash>> /\ mpLevel'[n] = 0
                      \/ /\ mpParent'[n] \in MP!Kept(d)
                         /\ path'[n] = path'[mpParent'[n]] \o <<n, Slash>>
                         /\ mpLevel'[n] = mpLevel'[mpParent'[n]] + 1
    BY <1>1 DEF MP!PathsAgree, MP!ChildPath
  <2>1. \/ /\ mpParent[n] = NoParent
           /\ path[n] = <<Slash, n, Slash>> /\ mpLevel[n] = 0
        \/ /\ mpParent[n] \in mpNodes
           /\ path[n] = path[mpParent[n]] \o <<n, Slash>>
           /\ mpLevel[n] = mpLevel[mpParent[n]] + 1
    BY <1>1 DEF PathInv, MP!PathsAgree, MP!ChildPath
  <2> QED BY <1>1, <1>2, <2>1
<1>5. PathsEnd'
  BY <1>1 DEF PathInv, PathsEnd
<1> QED BY <1>3, <1>4, <1>5 DEF PathInv

-----------------------------------------------------------------------------
\* A move the guard allows has its target outside the subtree of its source:
\* strstr finds a path in every path that starts with it.
LEMMA MayMoveOutside ==
  ASSUME MPTreeConstants, PathInv, NEW s \in mpNodes, NEW t \in mpNodes, MP!MayMove(s, t)
  PROVE  ~ MP!StartsWith(path[t], path[s])
<1> DEFINE p == path[t]
           q == path[s]
<1>1. /\ q \in Seq(Pieces) /\ Len(q) = mpLevel[s] + mpLevel[s] + 3 /\ mpLevel[s] \in Nat
      /\ p \in Seq(Pieces) /\ Len(p) = mpLevel[t] + mpLevel[t] + 3 /\ mpLevel[t] \in Nat
  BY PathFacts
<1> HIDE DEF p, q
<1>2. q # <<>>
  BY <1>1, EmptySeq
<1>3. ~ \E i \in 1..(Len(p) - Len(q) + 1) : SubSeq(p, i, i + Len(q) - 1) = q
  BY <1>2 DEF MP!MayMove, MP!Occurs, p, q
<1>4. Len(q) <= Len(p) => 1 \in 1..(Len(p) - Len(q) + 1)
  BY <1>1
<1>5. 1 + Len(q) - 1 = Len(q)
  BY <1>1
<1> QED BY <1>3, <1>4, <1>5 DEF MP!StartsWith, p, q

\* Path p, cut at its k-th piece and hung below s and the path q.
Movable(p, q, s, k) ==
  p \in Seq(Pieces) /\ q \in Seq(Pieces) /\ s \in Pieces /\ k \in 1..Len(p)
Moved(p, q, s, k) == q \o <<s>> \o MP!Substr(p, k)

\* That path, piece by piece.
LEMMA MovedPathPieces ==
  ASSUME NEW p, NEW q, NEW s, NEW k, Movable(p, q, s, k)
  PROVE  /\ Moved(p, q, s, k) \in Seq(Pieces)
         /\ Len(Moved(p, q, s, k)) = Len(q) + 1 + (Len(p) - k + 1)
         /\ \A i \in 1..Len(q) : Moved(p, q, s, k)[i] = q[i]
         /\ Moved(p, q, s, k)[Len(q) + 1] = s
         /\ \A i \in k..Len(p) : Moved(p, q, s, k)[Len(q) + 1 + (i - k + 1)] = p[i]
<1> DEFINE u == MP!Substr(p, k)
           v == q \o <<s>>
           r == v \o u
<1>0. p \in Seq(Pieces) /\ q \in Seq(Pieces) /\ s \in Pieces
  BY DEF Movable
<1>1. Len(p) \in Nat /\ Len(q) \in Nat /\ k \in Nat /\ 1 <= k /\ k <= Len(p)
  BY LenProperties DEF Movable
<1>2. \A i \in k..Len(p) : p[i] \in Pieces
  BY <1>0, <1>1, ElementOfSeq
<1>3. u = SubSeq(p, k, Len(p))
  BY <1>1 DEF MP!Substr
<1>4. /\ u \in Seq(Pieces)
      /\ Len(u) = Len(p) - k + 1
      /\ \A i \in 1..(Len(p) - k + 1) : u[i] = p[k + i - 1]
  <2> HIDE DEF u
  <2>1. /\ SubSeq(p, k, Len(p)) \in Seq(Pieces)
        /\ Len(SubSeq(p, k, Len(p))) = IF k <= Len(p) THEN Len(p) - k + 1 ELSE 0
        /\ \A i \in 1..(Len(p) - k + 1) : SubSeq(p, k, Len(p))[i] = p[k + i - 1]
    BY <1>1, <1>2, SubSeqProperties
  <2> QED BY <1>1, <1>3, <2>1
<1> HIDE DEF u
<1>5. <<s>> \in Seq(Pieces) /\ Len(<<s>>) = 1 /\ <<s>>[1] = s
  BY <1>0
<1>6. /\ v \in Seq(Pieces) /\ Len(v) = Len(q) + 1
      /\ \A i \in 1..Len(q) : v[i] = q[i]
      /\ v[Len(q) + 1] = s
  <2> DEFINE w == <<s>>
  <2>0. w \in Seq(Pieces) /\ Len(w) = 1 /\ w[1] = s
    BY <1>5
  <2> HIDE DEF w
  <2>1. /\ q \o w \in Seq(Pieces) /\ Len(q \o w) = Len(q) + Len(w)
        /\ \A i \in 1..(Len(q) + Len(w)) : (q \o w)[i] = IF i <= Len(q) THEN q[i] ELSE w[i - Len(q)]
    BY <1>0, <2>0, ConcatProperties
  <2>2. /\ Len(q \o w) = Len(q) + 1
        /\ \A i \in 1..Len(q) : (q \o w)[i] = q[i]
        /\ (q \o w)[Len(q) + 1] = w[Len(q) + 1 - Len(q)]
    BY <1>1, <2>0, <2>1
  <2>3. Len(q) + 1 - Len(q) = 1
    BY <1>1
  <2> QED BY <2>0, <2>1, <2>2, <2>3 DEF w
<1> HIDE DEF v
<1>7. /\ r \in Seq(Pieces) /\ Len(r) = Len(v) + Len(u)
      /\ \A i \in 1..(Len(v) + Len(u)) : r[i] = IF i <= Len(v) THEN v[i] ELSE u[i - Len(v)]
  BY <1>4, <1>6, ConcatProperties
<1> HIDE DEF r
<1>8. Len(r) = Len(q) + 1 + (Len(p) - k + 1)
  BY <1>4, <1>6, <1>7
<1>9. /\ \A i \in 1..Len(q) : r[i] = q[i]
      /\ r[Len(q) + 1] = s
  <2>1. \A i \in 1..(Len(q) + 1) : i \in 1..(Len(v) + Len(u)) /\ i <= Len(v)
    BY <1>1, <1>4, <1>6
  <2>2. \A i \in 1..(Len(q) + 1) : r[i] = v[i]
    BY <1>7, <2>1
  <2> QED BY <1>1, <1>6, <2>2
<1>10. ASSUME NEW i \in k..Len(p)
       PROVE  r[Len(q) + 1 + (i - k + 1)] = p[i]
  <2> DEFINE j == Len(q) + 1 + (i - k + 1)
  <2>1. j \in 1..(Len(v) + Len(u)) /\ ~ (j <= Len(v)) /\ j - Len(v) = i - k + 1
    BY <1>1, <1>4, <1>6
  <2>2. r[j] = u[i - k + 1]
    BY <1>7, <2>1
  <2>3. i - k + 1 \in 1..(Len(p) - k + 1) /\ k + (i - k + 1) - 1 = i
    BY <1>1
  <2>4. u[i - k + 1] = p[k + (i - k + 1) - 1]
    BY <1>4, <2>3
  <2> QED BY <2>2, <2>3, <2>4
<1> QED BY <1>7, <1>8, <1>9, <1>10 DEF Moved, r, v, u

\* A child's path moves as the path of its parent does.
LEMMA MovedPathExtends ==
  ASSUME NEW p, NEW q, NEW s, NEW k, Movable(p, q, s, k), NEW n \in Pieces
  PROVE  Moved(p \o <<n, Slash>>, q, s, k) = Moved(p, q, s, k) \o <<n, Slash>>
<1> DEFINE pp == p \o <<n, Slash>>
           a == Moved(pp, q, s, k)
           b == Moved(p, q, s, k)
           bb == b \o <<n, Slash>>
<1>0. p \in Seq(Pieces) /\ q \in Seq(Pieces) /\ s \in Pieces
  BY DEF Movable
<1>1. Len(p) \in Nat /\ Len(q) \in Nat /\ k \in Nat /\ 1 <= k /\ k <= Len(p)
  BY LenProperties DEF Movable
<1>2. /\ pp \in Seq(Pieces) /\ Len(pp) = Len(p) + 2
      /\ \A i \in 1..Len(p) : pp[i] = p[i]
      /\ pp[Len(p) + 1] = n /\ pp[Len(p) + 2] = Slash
  BY <1>0, LongerPath
<1> HIDE DEF pp
<1>3. Movable(pp, q, s, k)
  BY <1>0, <1>1, <1>2 DEF Movable
<1>4. /\ a \in Seq(Pieces) /\ Len(a) = Len(q) + 1 + (Len(pp) - k + 1)
      /\ \A i \in 1..Len(q) : a[i] = q[i]
      /\ a[Len(q) + 1] = s
      /\ \A i \in k..Len(pp) : a[Len(q) + 1 + (i - k + 1)] = pp[i]
  BY <1>2, <1>3, MovedPathPieces
<1>5. /\ b \in Seq(Pieces) /\ Len(b) = Len(q) + 1 + (Len(p) - k + 1)
      /\ \A i \in 1..Len(q) : b[i] = q[i]
      /\ b[Len(q) + 1] = s
      /\ \A i \in k..Len(p) : b[Len(q) + 1 + (i - k + 1)] = p[i]
  BY MovedPathPieces
<1> HIDE DEF a, b
<1>6. /\ bb \in Seq(Pieces) /\ Len(bb) = Len(b) + 2
      /\ \A i \in 1..Len(b) : bb[i] = b[i]
      /\ bb[Len(b) + 1] = n /\ bb[Len(b) + 2] = Slash
  BY <1>5, LongerPath
<1> HIDE DEF bb
<1>7. Len(a) = Len(bb)
  BY <1>1, <1>2, <1>4, <1>5, <1>6
<1>8. ASSUME NEW i \in 1..Len(a) PROVE a[i] = bb[i]
  <2>0. i \in Int /\ 1 <= i /\ i <= Len(q) + 1 + (Len(p) + 2 - k + 1)
    BY <1>1, <1>2, <1>4
  <2>1. CASE i <= Len(q)
    <3>1. i \in 1..Len(q) /\ i \in 1..Len(b)
      BY <1>1, <1>5, <2>0, <2>1
    <3> QED BY <1>4, <1>5, <1>6, <3>1
  <2>2. CASE i = Len(q) + 1
    <3>1. i \in 1..Len(b)
      BY <1>1, <1>5, <2>2
    <3> QED BY <1>4, <1>5, <1>6, <2>2, <3>1
  <2>3. CASE i > Len(q) + 1
    <3> DEFINE j == i - (Len(q) + 1) + k - 1
    <3>1. /\ j \in k..Len(pp) /\ Len(q) + 1 + (j - k + 1) = i
          /\ j \in Int /\ k <= j /\ j <= Len(p) + 2
      BY <1>1, <1>2, <2>0, <2>3
    <3> HIDE DEF j
    <3>2. a[i] = pp[j]
      <4>1. a[Len(q) + 1 + (j - k + 1)] = pp[j]
        BY <1>4, <3>1
      <4> QED BY <3>1, <4>1
    <3>3. CASE j <= Len(p)
      <4>1. j \in k..Len(p) /\ j \in 1..Len(p) /\ i \in 1..Len(b)
        BY <1>1, <1>2, <1>5, <2>0, <3>1, <3>3
      <4>2. b[Len(q) + 1 + (j - k + 1)] = p[j]
        BY <1>5, <4>1
      <4> QED BY <1>2, <1>6, <3>1, <3>2, <4>1, <4>2
    <3>4. CASE j = Len(p) + 1
      <4>1. i = Len(b) + 1
        BY <1>1, <1>5, <3>1, <3>4
      <4> QED BY <1>2, <1>6, <3>2, <3>4, <4>1
    <3>5. CASE j = Len(p) + 2
      <4>1. i = Len(b) + 2
        BY <1>1, <1>5, <3>1, <3>5
      <4> QED BY <1>2, <1>6, <3>2, <3>5, <4>1
    <3>6. j <= Len(p) \/ j = Len(p) + 1 \/ j = Len(p) + 2
      BY <1>1, <1>2, <2>0, <3>1
    <3> QED BY <3>3, <3>4, <3>5, <3>6
  <2> QED BY <1>1, <2>0, <2>1, <2>2, <2>3
<1> QED BY <1>4, <1>6, <1>7, <1>8, SeqEqual DEF a, b, bb, pp

\* Of the path of the source only its last slash is kept.
LEMMA MovedPathOfSource ==
  ASSUME NEW p \in Seq(Pieces), NEW q \in Seq(Pieces), NEW s \in Pieces,
         Len(p) >= 1, p[Len(p)] = Slash
  PROVE  Moved(p, q, s, Len(p)) = q \o <<s, Slash>>
<1> DEFINE k == Len(p)
           a == Moved(p, q, s, k)
           b == q \o <<s, Slash>>
<1>1. Len(p) \in Nat /\ Len(q) \in Nat /\ k = Len(p) /\ Movable(p, q, s, k)
  BY LenProperties DEF Movable
<1> HIDE DEF k
<1>2. /\ a \in Seq(Pieces) /\ Len(a) = Len(q) + 1 + (Len(p) - k + 1)
      /\ \A i \in 1..Len(q) : a[i] = q[i]
      /\ a[Len(q) + 1] = s
      /\ \A i \in k..Len(p) : a[Len(q) + 1 + (i - k + 1)] = p[i]
  BY ONLY <1>1, MovedPathPieces
<1>3. /\ b \in Seq(Pieces) /\ Len(b) = Len(q) + 2
      /\ \A i \in 1..Len(q) : b[i] = q[i]
      /\ b[Len(q) + 1] = s /\ b[Len(q) + 2] = Slash
  BY LongerPath
<1> HIDE DEF a, b
<1>4. Len(a) = Len(b)
  BY <1>1, <1>2, <1>3
<1>5. Len(p) \in k..Len(p) /\ Len(q) + 1 + (Len(p) - k + 1) = Len(q) + 2
  BY <1>1
<1>6. a[Len(q) + 2] = Slash
  BY <1>1, <1>2, <1>5
<1>7. \A i \in 1..Len(a) : i \in 1..Len(q) \/ i = Len(q) + 1 \/ i = Len(q) + 2
  BY <1>1, <1>2, <1>5
<1>8. \A i \in 1..Len(a) : a[i] = b[i]
  BY <1>2, <1>3, <1>6, <1>7
<1> QED BY <1>2, <1>3, <1>4, <1>8, SeqEqual DEF a, b, k

\* What moveNode(s, t) does to each row: a row whose path starts with that of s gets
\* a path below t, any other row keeps its own.
LEMMA MoveNodeRows ==
  ASSUME MPTreeConstants, PathInv, NEW s \in mpNodes, NEW t \in mpNodes, MP!MoveNode(s, t),
         NEW n \in mpNodes
  PROVE  /\ MP!StartsWith(path[n], path[s]) =>
              /\ Movable(path[n], path[t], s, Len(path[s]))
              /\ path'[n] = Moved(path[n], path[t], s, Len(path[s]))
              /\ mpLevel'[n] = mpLevel[n] + mpLevel[t] - mpLevel[s] + 1
              /\ mpLevel[s] <= mpLevel[n]
         /\ ~ MP!StartsWith(path[n], path[s]) => path'[n] = path[n] /\ mpLevel'[n] = mpLevel[n]
<1>1. path' = [m \in mpNodes |-> MP!MovedPath(m, s, t)] /\ mpLevel' = [m \in mpNodes |-> MP!MovedLevel(m, s, t)]
  BY DEF MP!MoveNode
<1>2. path'[n] = MP!MovedPath(n, s, t) /\ mpLevel'[n] = MP!MovedLevel(n, s, t)
  BY <1>1
<1>3. /\ path[n] \in Seq(Pieces) /\ path[s] \in Seq(Pieces) /\ path[t] \in Seq(Pieces)
      /\ Len(path[n]) = mpLevel[n] + mpLevel[n] + 3 /\ Len(path[s]) = mpLevel[s] + mpLevel[s] + 3
      /\ mpLevel[n] \in Nat /\ mpLevel[s] \in Nat /\ s \in Pieces
  BY PathFacts
<1>4. ASSUME MP!StartsWith(path[n], path[s])
      PROVE  Movable(path[n], path[t], s, Len(path[s])) /\ mpLevel[s] <= mpLevel[n]
  <2>1. Len(path[s]) <= Len(path[n])
    BY <1>4 DEF MP!StartsWith
  <2>2. Len(path[s]) \in 1..Len(path[n]) /\ mpLevel[s] <= mpLevel[n]
    BY <1>3, <2>1
  <2> QED BY <1>3, <2>2 DEF Movable
<1> QED BY <1>2, <1>4 DEF MP!MovedPath, MP!MovedLevel, Moved

LEMMA PathMoveNode ==
  ASSUME MPTreeConstants, PathInv, NEW s \in Ids, NEW t \in Ids, MP!MoveNode(s, t)
  PROVE  PathInv'
<1>1. /\ s \in mpNodes /\ t \in mpNodes /\ mpNodes' = mpNodes /\ mpIdentifier' = mpIdentifier
      /\ mpParent' = [mpParent EXCEPT ![s] = t]
      /\ MP!MayMove(s, t)
  BY DEF MP!MoveNode, MP!MayMove
<1>2. ~ MP!StartsWith(path[t], path[s])
  BY <1>1, MayMoveOutside
<1> DEFINE Under(n) == MP!StartsWith(path[n], path[s])
           k == Len(path[s])
<1>3. ASSUME NEW n \in mpNodes, Under(n)
      PROVE  /\ Movable(path[n], path[t], s, k)
             /\ path'[n] = Moved(path[n], path[t], s, k)
             /\ mpLevel'[n] = mpLevel[n] + mpLevel[t] - mpLevel[s] + 1
             /\ mpLevel[s] <= mpLevel[n]
  BY <1>1, <1>3, MoveNodeRows
<1>4. ASSUME NEW n \in mpNodes, ~ Under(n)
      PROVE  path'[n] = path[n] /\ mpLevel'[n] = mpLevel[n]
  BY <1>1, <1>4, MoveNodeRows
<1>5. path' = [n \in mpNodes |-> path'[n]] /\ mpLevel' = [n \in mpNodes |-> mpLevel'[n]]
  BY DEF MP!MoveNode
<1>6. /\ mpLevel[s] \in Nat /\ mpLevel[t] \in Nat /\ s \in Pieces
      /\ path[s] \in Seq(Pieces) /\ path[t] \in Seq(Pieces)
      /\ k = mpLevel[s] + mpLevel[s] + 3 /\ Len(path[t]) = mpLevel[t] + mpLevel[t] + 3
      /\ path[s][k] = Slash
  BY <1>1, PathFacts
<1>7. ASSUME NEW n \in mpNodes
      PROVE  mpLevel'[n] \in Nat /\ path'[n] \in Seq(Pieces)
  <2>1. CASE Under(n)
    <3>1. mpLevel[n] \in Nat
      BY PathFacts
    <3>2. Moved(path[n], path[t], s, k) \in Seq(Pieces)
      BY <1>3, <2>1, MovedPathPieces
    <3>3. mpLevel'[n] \in Nat
      BY <1>3, <1>6, <2>1, <3>1
    <3> QED BY <1>3, <2>1, <3>2, <3>3
  <2>2. CASE ~ Under(n)
    BY <1>4, <2>2, PathFacts
  <2> QED BY <2>1, <2>2
<1>8. MP!TypeOK'
  <2>1. mpParent' \in [mpNodes -> Ids \union {NoParent}]
    BY <1>1 DEF PathInv, MP!TypeOK
  <2>2. path' \in [mpNodes -> Seq(Ids \union {Slash})] /\ mpLevel' \in [mpNodes -> Nat]
    BY <1>5, <1>7 DEF Pieces
  <2> QED BY <1>1, <2>1, <2>2 DEF PathInv, MP!TypeOK
<1>9. MP!PathsAgree'
  <2> SUFFICES ASSUME NEW n \in mpNodes
               PROVE  \/ /\ mpParent'[n] = NoParent
                         /\ path'[n] = <<Slash, n, Slash>> /\ mpLevel'[n] = 0
                      \/ /\ mpParent'[n] \in mpNodes
                         /\ path'[n] = path'[mpParent'[n]] \o <<n, Slash>>
                         /\ mpLevel'[n] = mpLevel'[mpParent'[n]] + 1
    BY <1>1 DEF MP!PathsAgree, MP!ChildPath
  <2>1. CASE n = s
    <3>1. mpParent'[s] = t
      BY <1>1 DEF PathInv, MP!TypeOK
    <3>2. path'[t] = path[t] /\ mpLevel'[t] = mpLevel[t]
      BY <1>1, <1>2, <1>4
    <3>3. Under(s)
      BY <1>1, PrefixStep
    <3>4. Moved(path[s], path[t], s, k) = path[t] \o <<s, Slash>>
      <4>1. Len(path[s]) >= 1
        BY <1>6
      <4> QED BY <1>6, <4>1, MovedPathOfSource
    <3>5. mpLevel'[s] = mpLevel[t] + 1
      BY <1>1, <1>3, <1>6, <3>3
    <3> QED BY <1>1, <1>3, <2>1, <3>1, <3>2, <3>3, <3>4, <3>5
  <2>2. CASE n # s
    <3> DEFINE p == mpParent[n]
    <3>1. mpParent'[n] = p
      BY <1>1, <2>2 DEF PathInv, MP!TypeOK
    <3>2. CASE p \notin mpNodes
      <4>1. /\ mpParent[n] = NoParent
            /\ path[n] = <<Slash, n, Slash>> /\ mpLevel[n] = 0
        BY <3>2 DEF PathInv, MP!PathsAgree
      <4>2. ~ Under(n)
        BY <1>1, <2>2, <3>2, PrefixStep
      <4> QED BY <1>4, <3>1, <4>1, <4>2
    <3>3. CASE p \in mpNodes
      <4>1. mpLevel[n] = mpLevel[p] + 1 /\ path[n] = path[p] \o <<n, Slash>>
        BY <3>3, RowParent
      <4>2. Under(n) <=> Under(p)
        BY <1>1, <2>2, <3>3, PrefixStep
      <4>3. CASE ~ Under(n)
        <5>1. path'[n] = path[n] /\ mpLevel'[n] = mpLevel[n] /\ path'[p] = path[p] /\ mpLevel'[p] = mpLevel[p]
          BY <1>4, <3>3, <4>2, <4>3
        <5> QED BY <3>1, <3>3, <4>1, <5>1
      <4>4. CASE Under(n)
        <5>1. /\ path'[n] = Moved(path[n], path[t], s, k)
              /\ mpLevel'[n] = mpLevel[n] + mpLevel[t] - mpLevel[s] + 1
          BY <1>3, <4>4
        <5>2. /\ Movable(path[p], path[t], s, k)
              /\ path'[p] = Moved(path[p], path[t], s, k)
              /\ mpLevel'[p] = mpLevel[p] + mpLevel[t] - mpLevel[s] + 1
          BY <1>3, <3>3, <4>2, <4>4
        <5>3. n \in Pieces
          BY PathFacts
        <5>4. path'[n] = path'[p] \o <<n, Slash>>
          <6> HIDE DEF k, p
          <6>1. Moved(path[p] \o <<n, Slash>>, path[t], s, k)
                  = Moved(path[p], path[t], s, k) \o <<n, Slash>>
            BY <5>2, <5>3, MovedPathExtends
          <6> QED BY <4>1, <5>1, <5>2, <6>1
        <5>5. mpLevel'[n] = mpLevel'[p] + 1
          <6>1. mpLevel[p] \in Nat
            BY <3>3, PathFacts
          <6> HIDE DEF p
          <6> QED BY <1>6, <4>1, <5>1, <5>2, <6>1
        <5> QED BY <3>1, <3>3, <5>4, <5>5
      <4> QED BY <4>3, <4>4
    <3> QED BY <3>2, <3>3
  <2> QED BY <2>1, <2>2
<1>10. PathsEnd'
  <2> SUFFICES ASSUME NEW n \in mpNodes
               PROVE  /\ Len(path'[n]) = mpLevel'[n] + mpLevel'[n] + 3
                      /\ path'[n][Len(path'[n]) - 1] = n
                      /\ path'[n][Len(path'[n])] = Slash
    BY <1>1 DEF PathsEnd
  <2>1. CASE ~ Under(n)
    BY <1>4, <2>1 DEF PathInv, PathsEnd
  <2>2. CASE Under(n)
    <3> DEFINE p == path[n]
               q == path[t]
               r == Moved(p, q, s, k)
    <3>1. /\ mpLevel[n] \in Nat /\ Len(p) = mpLevel[n] + mpLevel[n] + 3
          /\ p[mpLevel[n] + mpLevel[n] + 2] = n /\ p[mpLevel[n] + mpLevel[n] + 3] = Slash
      BY PathFacts
    <3>2. /\ Movable(p, q, s, k) /\ path'[n] = r
          /\ mpLevel'[n] = mpLevel[n] + mpLevel[t] - mpLevel[s] + 1 /\ mpLevel[s] <= mpLevel[n]
      BY <1>3, <2>2
    <3>3. k = mpLevel[s] + mpLevel[s] + 3 /\ Len(q) = mpLevel[t] + mpLevel[t] + 3
      BY <1>6
    <3>4. mpLevel[n] = mpLevel[s] => n = s
      <4>1. n # s => mpParent[n] \in mpNodes /\ MP!StartsWith(path[mpParent[n]], path[s])
        BY <1>1, <2>2, PrefixStep
      <4>2. n # s => mpLevel[s] <= mpLevel[mpParent[n]]
        BY <1>3, <4>1
      <4>3. n # s => mpLevel[mpParent[n]] \in Nat /\ mpLevel[n] = mpLevel[mpParent[n]] + 1
        BY <4>1, PathFacts, RowParent
      <4> QED BY <1>6, <3>1, <4>2, <4>3
    <3> HIDE DEF p, q, k
    <3>5. /\ Len(r) = Len(q) + 1 + (Len(p) - k + 1)
          /\ r[Len(q) + 1] = s
          /\ \A i \in k..Len(p) : r[Len(q) + 1 + (i - k + 1)] = p[i]
      BY <3>2, MovedPathPieces
    <3> HIDE DEF r
    <3> DEFINE a == mpLevel[n]
               b == mpLevel[s]
               c == mpLevel[t]
    <3>6. /\ a \in Nat /\ b \in Nat /\ c \in Nat /\ b <= a
          /\ Len(p) = a + a + 3 /\ k = b + b + 3 /\ Len(q) = c + c + 3
          /\ mpLevel'[n] = a + c - b + 1
      BY <1>6, <3>1, <3>2, <3>3
    <3> HIDE DEF a, b, c
    <3>7. Len(r) = Len(q) + 1 + (Len(p) - k + 1)
      BY <3>5
    <3>8. Len(r) = mpLevel'[n] + mpLevel'[n] + 3
      BY <3>6, <3>7
    <3>9. r[Len(r)] = Slash
      <4>1. Len(p) \in k..Len(p) /\ Len(q) + 1 + (Len(p) - k + 1) = Len(r)
        BY <3>6, <3>7
      <4>2. p[Len(p)] = Slash
        BY <3>1
      <4> QED BY <3>5, <4>1, <4>2
    <3>10. r[Len(r) - 1] = n
      <4>1. CASE a = b
        <5>1. Len(r) - 1 = Len(q) + 1
          BY <3>6, <3>7, <4>1
        <5>2. n = s
          BY <3>4, <4>1 DEF a, b
        <5> QED BY <3>5, <5>1, <5>2
      <4>2. CASE a # b
        <5> DEFINE i == a + a + 2
        <5>1. i \in k..Len(p) /\ Len(q) + 1 + (i - k + 1) = Len(r) - 1
          BY <3>6, <3>7, <4>2
        <5>2. p[i] = n
          BY <3>1 DEF a
        <5> HIDE DEF i
        <5>3. r[Len(q) + 1 + (i - k + 1)] = p[i]
          BY <3>5, <5>1
        <5> QED BY <5>1, <5>2, <5>3
      <4> QED BY <4>1, <4>2
    <3> QED BY <3>2, <3>8, <3>9, <3>10
  <2> QED BY <2>1, <2>2
<1> QED BY <1>8, <1>9, <1>10 DEF PathInv

-----------------------------------------------------------------------------
\* Every operation keeps the invariant.
LEMMA PathNext == MPTreeConstants /\ PathInv /\ [MP!Next]_(MP!vars) => PathInv'
<1> SUFFICES ASSUME MPTreeConstants, PathInv, [MP!Next]_(MP!vars) PROVE PathInv'
  OBVIOUS
<1>1. CASE MP!DeleteAll
  BY <1>1, PathDeleteAll
<1>2. ASSUME NEW r \in Ids, MP!InitTree(r) PROVE PathInv'
  BY <1>2, PathInitTree
<1>3. ASSUME NEW p \in Ids, NEW id \in Ids, NEW name \in Names, MP!CreateNode(p, id, name)
      PROVE  PathInv'
  BY <1>3, PathCreateNode
<1>4. ASSUME NEW n \in Ids, NEW name \in Names \union {NoName}, MP!UpdateNode(n, name)
      PROVE  PathInv'
  BY <1>4, PathUpdateNode
<1>5. ASSUME NEW d \in Ids, MP!DeleteNode(d) PROVE PathInv'
  BY <1>5, PathDeleteNode
<1>6. ASSUME NEW s \in Ids, NEW t \in Ids, MP!MoveNode(s, t) PROVE PathInv'
  BY <1>6, PathMoveNode
<1>7. CASE UNCHANGED MP!vars
  BY <1>7 DEF MP!vars, PathInv, MP!TypeOK, MP!PathsAgree, PathsEnd, MP!ChildPath
<1> QED BY <1>1, <1>2, <1>3, <1>4, <1>5, <1>6, <1>7 DEF MP!Next

\* The rows of MPTree move as MPTree says.
LEMMA StepOfMP == [MCNext]_<<vars, mpVars, part>> => [MP!Next]_(MP!vars)
BY DEF MCNext, mpVars, MP!vars

(* The rows agree on their ancestors in every state of the specification. *)
THEOREM PathInvariance ==
  ASSUME MPTreeConstants
  PROVE  MCSpec => []PathInv
<1>1. MCInit => MP!Init
  BY DEF MCInit
<1> QED BY PathInit, PathNext, StepOfMP, <1>1, PTL DEF MCSpec

-----------------------------------------------------------------------------
\* The rows above n by path.
Above(n) == {a \in mpNodes : a # n /\ MP!StartsWith(path[n], path[a])}

\* They are the parent and the rows above the parent.
LEMMA AboveStep ==
  ASSUME MPTreeConstants, PathInv, NEW n \in mpNodes
  PROVE  Above(n) = IF mpParent[n] = NoParent THEN {}
                    ELSE {mpParent[n]} \union Above(mpParent[n])
<1>1. CASE mpParent[n] \notin mpNodes
  BY <1>1, RowParent, PrefixStep DEF Above
<1>2. CASE mpParent[n] \in mpNodes
  <2> DEFINE p == mpParent[n]
  <2>1. p \in mpNodes /\ p # NoParent /\ mpLevel[n] = mpLevel[p] + 1 /\ mpLevel[p] \in Nat
    BY <1>2, RowParent, PathFacts
  <2>2. ~ MP!StartsWith(path[p], path[n])
    <3>1. /\ Len(path[n]) = mpLevel[n] + mpLevel[n] + 3
          /\ Len(path[p]) = mpLevel[p] + mpLevel[p] + 3
      BY <2>1, PathFacts
    <3>2. ~ (Len(path[n]) <= Len(path[p]))
      <4> HIDE DEF p
      <4> QED BY <2>1, <3>1
    <3> QED BY <3>2 DEF MP!StartsWith
  <2>3. MP!StartsWith(path[p], path[p])
    BY <2>1, PrefixStep
  <2>4. \A a \in mpNodes : MP!StartsWith(path[n], path[a]) <=> a = n \/ MP!StartsWith(path[p], path[a])
    BY <2>1, PrefixStep
  <2> HIDE DEF p
  <2>5. Above(n) = {p} \union Above(p)
    BY <2>1, <2>2, <2>3, <2>4 DEF Above
  <2> QED BY <2>1, <2>5 DEF p
<1> QED BY <1>1, <1>2

\* Tree's recursion has a solution, so that its Ancestors is one.
LEMMA PathAncestorsSolve ==
  ASSUME NEW g,
         g = [m \in DOMAIN mpParent |-> IF mpParent[m] = NoParent THEN {}
                                         ELSE {mpParent[m]} \union g[mpParent[m]]]
  PROVE  MP!Abstract!Ancestors
           = [m \in DOMAIN mpParent |->
                IF mpParent[m] = NoParent THEN {}
                ELSE {mpParent[m]} \union MP!Abstract!Ancestors[mpParent[m]]]
BY DEF MP!Abstract!Ancestors, MP!Abstract!nodes

\* The recursion of Tree has one solution: two would differ at some smallest level.
LEMMA AncestorsAbove ==
  ASSUME MPTreeConstants, PathInv, NEW n \in mpNodes
  PROVE  MP!Abstract!Ancestors[n] = Above(n)
<1> DEFINE Solves(g) ==
             g = [m \in mpNodes |-> IF mpParent[m] = NoParent THEN {}
                                  ELSE {mpParent[m]} \union g[mpParent[m]]]
           A == MP!Abstract!Ancestors
           G == [m \in mpNodes |-> Above(m)]
<1>1. DOMAIN mpParent = mpNodes
  BY DEF PathInv, MP!TypeOK
<1>2. Solves(G)
  <2>1. \A m \in mpNodes : mpParent[m] # NoParent => mpParent[m] \in mpNodes
    BY RowParent
  <2>2. \A m \in mpNodes : G[m] = IF mpParent[m] = NoParent THEN {}
                                ELSE {mpParent[m]} \union G[mpParent[m]]
    BY <2>1, AboveStep
  <2> QED BY <2>2
<1>3. Solves(A)
  <2> HIDE DEF G
  <2> QED BY <1>1, <1>2, PathAncestorsSolve
<1>4. \A m \in mpNodes : A[m] = G[m]
  <2> DEFINE Bad == {m \in mpNodes : A[m] # G[m]}
             T == {mpLevel[m] : m \in Bad}
  <2> SUFFICES ASSUME Bad # {} PROVE FALSE
    OBVIOUS
  <2>0. Bad \subseteq mpNodes /\ \A m \in mpNodes : A[m] # G[m] => m \in Bad
    OBVIOUS
  <2> HIDE DEF Bad, A, G
  <2>1. T \in SUBSET Nat /\ T # {}
    BY <2>0, PathFacts
  <2> HIDE DEF T
  <2>2. PICK x \in T : \A y \in T : x <= y
    BY <2>1, Smallest
  <2>3. PICK m \in Bad : mpLevel[m] = x
    BY <2>2 DEF T
  <2>4. m \in mpNodes /\ mpLevel[m] \in Int
    BY <2>0, <2>3, PathFacts
  <2>5. mpParent[m] # NoParent => /\ mpParent[m] \in mpNodes /\ mpLevel[mpParent[m]] \in Int
                                   /\ mpLevel[m] = mpLevel[mpParent[m]] + 1
    <3>1. mpParent[m] # NoParent => /\ mpParent[m] \in mpNodes
                                     /\ mpLevel[m] = mpLevel[mpParent[m]] + 1
      BY <2>4, RowParent
    <3>2. mpParent[m] \in mpNodes => mpLevel[mpParent[m]] \in Int
      BY PathFacts
    <3> QED BY <3>1, <3>2
  <2>6. mpParent[m] # NoParent => mpParent[m] \notin Bad
    <3> SUFFICES ASSUME mpParent[m] # NoParent, mpParent[m] \in Bad PROVE FALSE
      OBVIOUS
    <3>1. mpLevel[mpParent[m]] \in T
      BY DEF T
    <3>2. x <= mpLevel[mpParent[m]]
      BY <2>2, <3>1
    <3> QED BY <2>3, <2>4, <2>5, <3>2
  <2>7. mpParent[m] # NoParent => A[mpParent[m]] = G[mpParent[m]]
    BY <2>0, <2>5, <2>6
  <2>8. /\ A[m] = IF mpParent[m] = NoParent THEN {}
                  ELSE {mpParent[m]} \union A[mpParent[m]]
        /\ G[m] = IF mpParent[m] = NoParent THEN {}
                  ELSE {mpParent[m]} \union G[mpParent[m]]
    BY <1>2, <1>3, <2>4
  <2> QED BY <2>3, <2>7, <2>8 DEF Bad
<1> QED BY <1>4

LEMMA QueriesAgreeOf == MPTreeConstants /\ PathInv => MP!QueriesAgree
<1> SUFFICES ASSUME MPTreeConstants, PathInv, NEW n \in mpNodes
             PROVE  MP!GetParents(n) = MP!Abstract!Ancestors[n]
  BY DEF MP!QueriesAgree
<1>1. ASSUME NEW a \in mpNodes, MP!StartsWith(path[n], path[a])
      PROVE  a # n <=> mpLevel[a] < mpLevel[n]
  <2>1. /\ Len(path[n]) = mpLevel[n] + mpLevel[n] + 3 /\ Len(path[a]) = mpLevel[a] + mpLevel[a] + 3
        /\ mpLevel[n] \in Nat /\ mpLevel[a] \in Nat
    BY PathFacts
  <2>2. mpLevel[a] <= mpLevel[n]
    <3>1. Len(path[a]) <= Len(path[n])
      BY <1>1 DEF MP!StartsWith
    <3> QED BY <2>1, <3>1
  <2>3. mpLevel[a] = mpLevel[n] => a = n
    <3>1. a # n => mpParent[n] \in mpNodes /\ MP!StartsWith(path[mpParent[n]], path[a])
      BY <1>1, PrefixStep
    <3>2. a # n => Len(path[a]) <= Len(path[mpParent[n]])
      BY <3>1 DEF MP!StartsWith
    <3>3. a # n => /\ Len(path[mpParent[n]]) = mpLevel[mpParent[n]] + mpLevel[mpParent[n]] + 3
                   /\ mpLevel[mpParent[n]] \in Nat /\ mpLevel[n] = mpLevel[mpParent[n]] + 1
      BY <3>1, PathFacts, RowParent
    <3> QED BY <2>1, <3>2, <3>3
  <2> QED BY <2>1, <2>2, <2>3
<1>2. MP!GetParents(n) = Above(n)
  BY <1>1 DEF MP!GetParents, Above
<1> QED BY <1>2, AncestorsAbove

\* The rows a LIKE takes are the subtree.
LEMMA SubtreeByPath ==
  ASSUME MPTreeConstants, PathInv, NEW d \in mpNodes
  PROVE  MP!Abstract!Subtree(d) = {n \in mpNodes : MP!StartsWith(path[n], path[d])}
<1>1. DOMAIN mpParent = mpNodes
  BY DEF PathInv, MP!TypeOK
<1>2. ASSUME NEW n \in mpNodes
      PROVE  (n = d \/ d \in MP!Abstract!Ancestors[n]) <=> MP!StartsWith(path[n], path[d])
  <2>1. MP!Abstract!Ancestors[n] = Above(n)
    BY AncestorsAbove
  <2>2. MP!StartsWith(path[d], path[d])
    BY PrefixStep
  <2> QED BY <2>1, <2>2 DEF Above
<1> QED BY <1>1, <1>2 DEF MP!Abstract!Subtree, MP!Abstract!nodes

-----------------------------------------------------------------------------
\* Each operation is the operation of Tree.
LEMMA PathStepImplements ==
  ASSUME MPTreeConstants, PathInv, [MP!Next]_(MP!vars)
  PROVE  [MP!Abstract!Next]_(MP!Abstract!treeVars)
<1> USE DEF MP!Abstract!treeVars
<1>0. /\ DOMAIN mpParent = mpNodes
      /\ mpParent \in [mpNodes -> Ids \union {NoParent}]
      /\ mpIdentifier \in [mpNodes -> Names \union {NoName}]
  BY DEF PathInv, MP!TypeOK
<1>1. CASE MP!DeleteAll
  BY <1>1 DEF MP!DeleteAll, MP!Abstract!Next, MP!Abstract!DeleteAll
<1>2. ASSUME NEW r \in Ids, MP!InitTree(r) PROVE MP!Abstract!Next
  <2>1. MP!Abstract!InitTree(r)
    BY <1>2 DEF MP!InitTree, MP!RootOnly, MP!Abstract!InitTree
  <2> QED BY <2>1 DEF MP!Abstract!Next
<1>3. ASSUME NEW p \in Ids, NEW id \in Ids, NEW name \in Names, MP!CreateNode(p, id, name)
      PROVE  MP!Abstract!Next
  <2>1. /\ p \in mpNodes /\ id \notin mpNodes /\ MP!FreeUnder(p, name)
        /\ mpParent' = [n \in mpNodes \union {id} |-> IF n = id THEN p ELSE mpParent[n]]
        /\ mpIdentifier' = [n \in mpNodes \union {id} |-> IF n = id THEN name ELSE mpIdentifier[n]]
    BY <1>3 DEF MP!CreateNode, MP!InsertRow
  <2>2. MP!Abstract!CreateNode(p, id, name)
    BY <1>0, <2>1 DEF MP!FreeUnder, MP!Abstract!CreateNode, MP!Abstract!FreeUnder, MP!Abstract!nodes
  <2> QED BY <2>2 DEF MP!Abstract!Next
<1>4. ASSUME NEW n \in Ids, NEW name \in Names \union {NoName}, MP!UpdateNode(n, name)
      PROVE  [MP!Abstract!Next]_<<mpParent, mpIdentifier>>
  <2>1. CASE mpIdentifier[n] = name /\ mpParent[n] # NoParent
    BY <1>0, <1>4, <2>1 DEF MP!UpdateNode
  <2>2. CASE mpIdentifier[n] # name \/ mpParent[n] = NoParent
    <3>1. MP!Abstract!UpdateNode(n, name)
      BY <1>0, <1>4, <2>2
         DEF MP!UpdateNode, MP!FreeUnder, MP!Abstract!UpdateNode, MP!Abstract!FreeUnder, MP!Abstract!nodes
    <3> QED BY <3>1 DEF MP!Abstract!Next
  <2> QED BY <2>1, <2>2
<1>5. ASSUME NEW d \in Ids, MP!DeleteNode(d) PROVE MP!Abstract!Next
  <2>1. /\ d \in mpNodes
        /\ mpParent' = [n \in MP!Kept(d) |-> mpParent[n]]
        /\ mpIdentifier' = [n \in MP!Kept(d) |-> mpIdentifier[n]]
    BY <1>5 DEF MP!DeleteNode
  <2>2. MP!Kept(d) = mpNodes \ MP!Abstract!Subtree(d)
    BY <2>1, SubtreeByPath DEF MP!Kept
  <2>3. MP!Abstract!DeleteNode(d)
    BY <1>0, <2>1, <2>2 DEF MP!Abstract!DeleteNode, MP!Abstract!nodes
  <2> QED BY <2>3 DEF MP!Abstract!Next
<1>6. ASSUME NEW s \in Ids, NEW t \in Ids, MP!MoveNode(s, t) PROVE MP!Abstract!Next
  <2>1. /\ s \in mpNodes /\ t \in mpNodes /\ MP!MayMove(s, t)
        /\ mpParent' = [mpParent EXCEPT ![s] = t] /\ mpIdentifier' = mpIdentifier
    BY <1>6 DEF MP!MoveNode, MP!MayMove
  <2>2. t \notin MP!Abstract!Subtree(s)
    BY <2>1, MayMoveOutside, SubtreeByPath
  <2>3. MP!Abstract!MoveNode(s, t)
    BY <1>0, <2>1, <2>2 DEF MP!Abstract!MoveNode, MP!Abstract!nodes
  <2> QED BY <2>3 DEF MP!Abstract!Next
<1>7. CASE UNCHANGED MP!vars
  BY <1>7 DEF MP!vars
<1> QED BY <1>1, <1>2, <1>3, <1>4, <1>5, <1>6, <1>7 DEF MP!Next

\* However many nodes there are, path, level and parent_id of every row name the same
\* ancestors, and getParents, which goes by path, finds them.
THEOREM MPAgreesAlways ==
  ASSUME MPTreeConstants
  PROVE  MCSpec => []MPAgrees
<1>1. PathInv => MPAgrees
  BY QueriesAgreeOf DEF PathInv, MPAgrees, MP!MPAgrees
<1> QED BY <1>1, PathInvariance, PTL

\* lmbMPTree implements what lmbTree promises of any driver: deleteNode by LIKE takes
\* exactly the subtree, moveNode by SUBSTRING hangs exactly the subtree elsewhere, and
\* strstr refuses to move a node below itself.
THEOREM MPImplementsTreeAlways ==
  ASSUME MPTreeConstants
  PROVE  MCSpec => MPImplementsTree
<1>1. MCInit => MP!Abstract!Init
  BY DEF MCInit, MP!Init, MP!Abstract!Init
<1>2. PathInv /\ [MP!Next]_(MP!vars) => [MP!Abstract!Next]_(MP!Abstract!treeVars)
  BY PathStepImplements
<1> QED BY <1>1, <1>2, PathInvariance, StepOfMP, PTL
        DEF MCSpec, MPImplementsTree, MP!MPImplementsTree, MP!Abstract!Spec

\* deleteNode of a whole table takes nothing but the node and the nodes below it.
THEOREM DeleteKeepsOthersAlways ==
  ASSUME MPTreeConstants
  PROVE  MCSpec => MP!DeleteKeepsOthers
<1> DEFINE Keeps == \A d \in mpNodes : MP!DeleteNode(d) =>
                      \A n \in mpNodes \ mpNodes' : n = d \/ d \in MP!Abstract!Ancestors[n]
<1>1. PathInv => Keeps
  <2> SUFFICES ASSUME PathInv, NEW d \in mpNodes, MP!DeleteNode(d), NEW n \in mpNodes \ mpNodes'
               PROVE  n = d \/ d \in MP!Abstract!Ancestors[n]
    OBVIOUS
  <2>1. MP!StartsWith(path[n], path[d])
    BY DEF MP!DeleteNode, MP!Kept
  <2>2. DOMAIN mpParent = mpNodes
    BY DEF PathInv, MP!TypeOK
  <2> QED BY <2>1, <2>2, SubtreeByPath DEF MP!Abstract!Subtree, MP!Abstract!nodes
<1> HIDE DEF Keeps
<1>2. PathInv /\ [MP!Next]_(MP!vars) => [Keeps]_(MP!vars)
  BY <1>1
<1> QED BY <1>2, PathInvariance, StepOfMP, PTL DEF MCSpec, MP!DeleteKeepsOthers, Keeps

-----------------------------------------------------------------------------
(* The answers of the queries, which read rows ordered by c_left.          *)

\* The rows around n are finitely many, for they begin left of it one by one; there are
\* as many as n's level says.
LEMMA AroundFinite ==
  ASSUME IInv, NEW n \in nodes
  PROVE  IsFiniteSet(Around(n)) /\ Around(n) \subseteq nodes
<1> DEFINE f == [a \in Around(n) |-> c_left[a]]
<1>1. c_left[n] \in Int
  BY RowFacts
<1>0. IsFiniteSet(1..c_left[n])
  BY <1>1, FS_Interval
<1>2. \A a \in Around(n) : a \in nodes /\ c_left[a] \in 1..c_left[n]
  BY <1>1, RowFacts DEF Around, Encloses
<1>3. \A a, b \in Around(n) : c_left[a] = c_left[b] => a = b
  BY <1>2, RowFacts, PairFacts DEF Apart
<1>4. f \in Injection(Around(n), 1..c_left[n])
  BY <1>2, <1>3 DEF Injection, IsInjective
<1> HIDE DEF f
<1>5. IsFiniteSet(Around(n))
  BY <1>0, <1>4, FS_Injection
<1> QED BY <1>2, <1>5

LEMMA AroundCounted ==
  ASSUME IInv, NEW n \in nodes
  PROVE  Cardinality(Around(n)) = level[n]
<1> DEFINE Bad == {m \in nodes : Cardinality(Around(m)) # level[m]}
           T == {level[m] : m \in Bad}
<1> SUFFICES ASSUME Bad # {} PROVE FALSE
  OBVIOUS
<1>1. Bad \subseteq nodes
  OBVIOUS
<1>2. \A m \in nodes : Cardinality(Around(m)) # level[m] <=> m \in Bad
  OBVIOUS
<1> HIDE DEF Bad
<1>3. T \in SUBSET Nat /\ T # {}
  BY <1>1, RowFacts
<1> HIDE DEF T
<1>4. PICK x \in T : \A y \in T : x <= y
  BY <1>3, Smallest
<1>5. PICK m \in Bad : level[m] = x
  BY <1>4 DEF T
<1>6. m \in nodes /\ level[m] \in Int
  BY <1>1, <1>5, RowFacts
<1>7. CASE parent_id[m] = NoParent
  <2>1. Around(m) = {} /\ level[m] = 0
    BY <1>6, <1>7, AroundStep, ParentFacts, NSTreeConstants DEF IInv, TypeOK
  <2>2. Cardinality({}) = 0
    BY FS_EmptySet
  <2>3. Cardinality(Around(m)) = level[m]
    BY <2>1, <2>2
  <2> QED BY <1>2, <1>5, <1>6, <2>3
<1>8. CASE parent_id[m] # NoParent
  <2> DEFINE p == parent_id[m]
  <2>1. p \in nodes /\ level[p] = level[m] - 1 /\ level[p] \in Int
    BY <1>6, <1>8, ParentFacts, RowFacts
  <2>2. Around(m) = Around(p) \cup {p}
    BY <1>6, <1>8, AroundStep
  <2> HIDE DEF p
  <2>3. p \notin Around(p)
    BY <2>1, RowFacts DEF Around, Encloses
  <2>4. p \notin Bad
    BY <1>4, <1>5, <1>6, <2>1 DEF T
  <2>5. Cardinality(Around(p)) = level[p]
    BY <1>2, <2>1, <2>4
  <2>6. IsFiniteSet(Around(p))
    BY <2>1, AroundFinite
  <2>7. Cardinality(Around(p) \cup {p}) = Cardinality(Around(p)) + 1
    BY <2>3, <2>6, FS_AddElement
  <2>8. Cardinality(Around(m)) = level[m]
    BY <1>6, <2>1, <2>2, <2>5, <2>7
  <2> QED BY <1>2, <1>5, <1>6, <2>8
<1> QED BY <1>7, <1>8

\* The parents of a row, in their order: one of each level, each around the next.
LEMMA ParentsInOrder ==
  ASSUME IInv, NEW n \in nodes
  PROVE  LET up == GetParents(n)
         IN /\ up \in Seq(nodes) /\ Len(up) = level[n] /\ level[n] \in Nat
            /\ ToSet(up) = Around(n)
            /\ \A i \in 1..level[n] : up[i] \in Around(n) /\ level[up[i]] = i - 1
<1> DEFINE S == Around(n)
           R == LeftOrder
           up == GetParents(n)
<1>1. IsFiniteSet(S) /\ S \subseteq nodes
  BY AroundFinite
<1>2. \A a, b : <<a, b>> \in R <=> a \in nodes /\ b \in nodes /\ c_left[a] < c_left[b]
  BY DEF LeftOrder
<1>3. up = Listed(S, R)
  BY DEF GetParents, Around
<1>4. Orders(R, S)
  <2>1. \A a, b \in S : a = b \/ c_left[a] < c_left[b] \/ c_left[b] < c_left[a]
    BY <1>1, RowFacts, PairFacts DEF Apart
  <2>2. \A a \in S : a \in nodes /\ c_left[a] \in Int
    BY <1>1, RowFacts
  <2> HIDE DEF S, R
  <2> QED BY <1>2, <2>1, <2>2 DEF Orders
<1>5. Cardinality(S) = level[n] /\ level[n] \in Nat
  BY AroundCounted DEF IInv, TypeOK
<1>6. \A a \in S : Place(a, S, R) = level[a] + 1
  <2> SUFFICES ASSUME NEW a \in S PROVE Place(a, S, R) = level[a] + 1
    OBVIOUS
  <2>1. a \in nodes /\ Encloses(a, n)
    BY DEF Around
  <2>2. ASSUME NEW b \in nodes
        PROVE  b \in S /\ <<b, a>> \in R <=> b \in Around(a)
    BY <1>2, <2>1, RowFacts, PairFacts DEF Around, Encloses, Apart
  <2>3. {b \in S : <<b, a>> \in R} = Around(a)
    BY <1>1, <2>2 DEF Around
  <2> QED BY <2>1, <2>3, AroundCounted DEF Place
<1> HIDE DEF S, R, up
<1>7. /\ up \in Seq(S) /\ Len(up) = level[n]
      /\ \A a \in S : up[level[a] + 1] = a /\ level[a] + 1 \in 1..level[n]
      /\ \A i, j \in 1..level[n] : i < j => <<up[i], up[j]>> \in R
  BY <1>1, <1>3, <1>4, <1>5, <1>6, ListedIs
<1>8. \A i \in 1..level[n] : up[i] \in S
  BY <1>5, <1>7
<1>9. ASSUME NEW i \in 1..level[n] PROVE level[up[i]] = i - 1
  <2> DEFINE k == level[up[i]] + 1
  <2>1. up[k] = up[i] /\ k \in 1..level[n]
    BY <1>7, <1>8
  <2>2. up[i] \in nodes /\ c_left[up[i]] \in Int /\ level[up[i]] \in Int
    BY <1>1, <1>8, RowFacts
  <2>3. ~ (<<up[k], up[i]>> \in R) /\ ~ (<<up[i], up[k]>> \in R)
    BY <1>2, <2>1, <2>2
  <2>4. ~ (k < i) /\ ~ (i < k)
    BY <1>7, <2>1, <2>3
  <2> QED BY <2>1, <2>2, <2>4
<1>10. ToSet(up) = S
  BY <1>5, <1>7, <1>8 DEF ToSet
<1>11. up \in [1..level[n] -> nodes]
  <2>1. up = [i \in 1..Len(up) |-> up[i]]
    BY <1>7
  <2> QED BY <1>1, <1>7, <1>8, <2>1
<1>12. up \in Seq(nodes)
  BY <1>5, <1>11, SeqDef
<1> QED BY <1>5, <1>7, <1>8, <1>9, <1>10, <1>12 DEF S, up

\* The rows the join goes through on the way to n.
Way(n) == [i \in 0..level[n] |-> IF i = level[n] THEN n ELSE GetParents(n)[i + 1]]

LEMMA WayFacts ==
  ASSUME IInv, NEW n \in nodes
  PROVE  LET t == Way(n)
         IN /\ t \in [0..level[n] -> nodes] /\ level[n] \in Nat
            /\ IsRoot(t[0]) /\ t[level[n]] = n
            /\ \A i \in 1..level[n] : IsParent(t[i - 1], t[i])
<1> DEFINE t == Way(n)
           up == GetParents(n)
<1>1. /\ up \in Seq(nodes) /\ Len(up) = level[n] /\ level[n] \in Nat
      /\ \A i \in 1..level[n] : up[i] \in Around(n) /\ level[up[i]] = i - 1
  BY ParentsInOrder
<1>2. t = [i \in 0..level[n] |-> IF i = level[n] THEN n ELSE up[i + 1]]
  BY DEF Way
<1> HIDE DEF t, up
<1>3. ASSUME NEW i \in 0..level[n]
      PROVE  /\ t[i] \in nodes /\ level[t[i]] = i /\ (t[i] = n \/ Encloses(t[i], n))
             /\ (i = level[n] => t[i] = n)
  <2>1. CASE i = level[n]
    BY <1>1, <1>2, <2>1
  <2>2. CASE i # level[n]
    <3>1. i + 1 \in 1..level[n] /\ i \in Int
      BY <1>1, <2>2
    <3>2. t[i] = up[i + 1]
      BY <1>2, <2>2
    <3> QED BY <1>1, <2>2, <3>1, <3>2 DEF Around
  <2> QED BY <2>1, <2>2
<1>4. t \in [0..level[n] -> nodes]
  BY <1>2, <1>3
<1>5. IsRoot(t[0]) /\ t[level[n]] = n
  BY <1>1, <1>3 DEF IsRoot
<1>6. ASSUME NEW i \in 1..level[n] PROVE IsParent(t[i - 1], t[i])
  <2> DEFINE p == t[i - 1]
             m == t[i]
  <2>1. i \in 0..level[n] /\ i - 1 \in 0..level[n] /\ i - 1 # level[n] /\ i >= 1 /\ i \in Int
    BY <1>1
  <2>2. /\ p \in nodes /\ level[p] = i - 1 /\ (p = n \/ Encloses(p, n))
        /\ m \in nodes /\ level[m] = i /\ (m = n \/ Encloses(m, n))
    BY <1>3, <2>1
  <2> HIDE DEF p, m
  <2>3. p # n
    BY <1>1, <2>1, <2>2
  <2>4. Encloses(p, m)
    BY <2>1, <2>2, <2>3, RowFacts, PairFacts DEF Encloses, Apart
  <2> QED BY <2>1, <2>2, <2>4 DEF IsParent, p, m
<1> QED BY <1>1, <1>4, <1>5, <1>6 DEF t

\* A row inside another, one level below it, as the join tests it, is a child.
LEMMA JoinedIsChild ==
  ASSUME IInv, NEW m \in nodes, NEW p \in nodes
  PROVE  (/\ Between(c_left[m], c_left[p] + 1, c_right[p]) /\ level[m] = level[p] + 1)
           <=> IsParent(p, m)
<1>1. (c_left[p] + 1 <= c_left[m] /\ c_left[m] <= c_right[p]) <=>
        (c_left[p] < c_left[m] /\ c_right[p] > c_right[m])
  BY RowFacts, PairFacts DEF Apart
<1> QED BY <1>1, RowFacts DEF Between, IsParent, Encloses

\* The path names the rows of the way below the root.
LEMMA PathOfWay ==
  ASSUME IInv, NEW n \in nodes
  PROVE  LET names == GetPathToNode(n)
         IN /\ Len(names) = level[n]
            /\ \A i \in 1..level[n] : names[i] = identifier[Way(n)[i]]
<1> DEFINE up == GetParents(n)
           names == GetPathToNode(n)
           above == [i \in 1..(Len(up) - 1) |-> identifier[up[i + 1]]]
<1>1. /\ up \in Seq(nodes) /\ Len(up) = level[n] /\ level[n] \in Nat
      /\ \A i \in 1..level[n] : up[i] \in nodes
  BY ParentsInOrder DEF Around
<1>2. Way(n) = [i \in 0..level[n] |-> IF i = level[n] THEN n ELSE up[i + 1]]
  BY DEF Way
<1>3. names = IF IsRoot(n) THEN <<>> ELSE above \o <<identifier[n]>>
  BY DEF GetPathToNode
<1>4. identifier \in [nodes -> Names \union {NoName}]
  BY DEF IInv, TypeOK
<1> HIDE DEF up, names
<1>5. CASE IsRoot(n)
  <2>1. level[n] = 0 /\ names = <<>>
    BY <1>3, <1>5 DEF IsRoot
  <2>2. 1..level[n] = {} /\ Len(<<>>) = 0
    BY <2>1
  <2> QED BY <2>1, <2>2 DEF names
<1>6. CASE ~ IsRoot(n)
  <2> DEFINE A == Names \union {NoName}
  <2>1. level[n] - 1 \in Nat
    BY <1>1, <1>6 DEF IsRoot
  <2>2. above \in [1..(level[n] - 1) -> A]
    <3>1. \A i \in 1..(level[n] - 1) : i + 1 \in 1..level[n]
      BY <1>1
    <3>2. \A i \in 1..(level[n] - 1) : identifier[up[i + 1]] \in A
      BY <1>1, <1>4, <3>1
    <3>3. above = [i \in 1..(level[n] - 1) |-> identifier[up[i + 1]]]
      BY <1>1
    <3> HIDE DEF above, A
    <3> QED BY <3>2, <3>3
  <2>4. \A i \in 1..(level[n] - 1) : above[i] = identifier[up[i + 1]]
    BY <1>1
  <2>5. identifier[n] \in A
    BY <1>4
  <2> HIDE DEF above, A
  <2>3. above \in Seq(A) /\ Len(above) = level[n] - 1
    BY <2>1, <2>2
  <2>6. /\ Len(names) = level[n] /\ names[level[n]] = identifier[n]
        /\ \A i \in 1..(level[n] - 1) : names[i] = above[i]
    BY <1>1, <1>3, <1>6, <2>1, <2>3, <2>5
  <2>7. ASSUME NEW i \in 1..level[n] PROVE names[i] = identifier[Way(n)[i]]
    <3>1. CASE i = level[n]
      BY <1>1, <1>2, <2>6, <3>1
    <3>2. CASE i # level[n]
      <4>1. i \in 1..(level[n] - 1) /\ i \in 0..level[n]
        BY <1>1, <3>2
      <4>2. Way(n)[i] = up[i + 1]
        BY <1>2, <3>2, <4>1
      <4>3. names[i] = identifier[up[i + 1]]
        BY <2>4, <2>6, <4>1
      <4> QED BY <4>2, <4>3
    <3> QED BY <3>1, <3>2
  <2>8. \A i \in 1..level[n] : names[i] = identifier[Way(n)[i]]
    BY <2>7
  <2> QED BY <2>6, <2>8 DEF names
<1> QED BY <1>5, <1>6 DEF names

\* Nobody's children have one name.
Distinguished ==
  \A m, n \in nodes : m # n /\ parent_id[m] = parent_id[n] => identifier[m] # identifier[n]

\* The join finds the row a names was made for, and no other.
LEMMA PathFinds ==
  ASSUME IInv, Distinguished, NEW n \in nodes
  PROVE  GetNodeByPath(GetPathToNode(n)) = {n}
<1> DEFINE names == GetPathToNode(n)
           w == Way(n)
           k == level[n]
<1>1. /\ Len(names) = k /\ k \in Nat /\ \A i \in 1..k : names[i] = identifier[w[i]]
      /\ w \in [0..k -> nodes] /\ IsRoot(w[0]) /\ w[k] = n
      /\ \A i \in 1..k : IsParent(w[i - 1], w[i])
  BY WayFacts, PathOfWay
<1> HIDE DEF names, w, k
<1>2. \A i \in 1..k : i \in 0..k /\ i - 1 \in 0..k
  BY <1>1
<1>3. n \in GetNodeByPath(names)
  <2>1. ASSUME NEW i \in 1..k
        PROVE  /\ identifier[w[i]] = names[i]
               /\ Between(c_left[w[i]], c_left[w[i - 1]] + 1, c_right[w[i - 1]])
               /\ level[w[i]] = level[w[i - 1]] + 1
    <3>1. w[i] \in nodes /\ w[i - 1] \in nodes
      BY <1>1, <1>2
    <3> QED BY <1>1, <3>1, JoinedIsChild
  <2> QED BY <1>1, <2>1 DEF GetNodeByPath
<1>4. ASSUME NEW m \in GetNodeByPath(names) PROVE m = n
  <2>1. PICK t \in [0..k -> nodes] :
          /\ IsRoot(t[0]) /\ t[k] = m
          /\ \A i \in 1..k :
               /\ identifier[t[i]] = names[i]
               /\ Between(c_left[t[i]], c_left[t[i - 1]] + 1, c_right[t[i - 1]])
               /\ level[t[i]] = level[t[i - 1]] + 1
    BY <1>1, <1>4 DEF GetNodeByPath
  <2>2. \A i \in 1..k : t[i] \in nodes /\ t[i - 1] \in nodes /\ IsParent(t[i - 1], t[i])
    BY <1>2, <2>1, JoinedIsChild
  <2> DEFINE Bad == {i \in 0..k : t[i] # w[i]}
  <2>3. Bad = {}
    <3> SUFFICES ASSUME Bad # {} PROVE FALSE
      OBVIOUS
    <3>1. Bad \in SUBSET Nat /\ Bad \subseteq 0..k
      BY <1>1
    <3>2. \A i \in 0..k : t[i] # w[i] <=> i \in Bad
      OBVIOUS
    <3> HIDE DEF Bad
    <3>3. PICK x \in Bad : \A y \in Bad : x <= y
      BY <3>1, Smallest
    <3>4. t[0] = w[0]
      <4>1. \A a, b \in nodes : IsRoot(a) /\ IsRoot(b) => a = b
        BY ParentFacts, RowFacts DEF IsRoot
      <4>2. t[0] \in nodes /\ w[0] \in nodes
        BY <1>1, <2>1
      <4> QED BY <1>1, <2>1, <4>1, <4>2
    <3>5. x \in 1..k /\ x - 1 \in 0..k /\ ~ (x <= x - 1)
      BY <1>1, <3>1, <3>2, <3>4
    <3>6. t[x - 1] = w[x - 1]
      BY <3>2, <3>3, <3>5
    <3>7. /\ t[x] \in nodes /\ w[x] \in nodes /\ w[x - 1] \in nodes
          /\ IsParent(w[x - 1], t[x]) /\ IsParent(w[x - 1], w[x])
      BY <1>1, <1>2, <2>2, <3>5, <3>6
    <3>8. parent_id[t[x]] = w[x - 1] /\ parent_id[w[x]] = w[x - 1]
      BY <3>7, IsParentIsParent
    <3>9. identifier[t[x]] = identifier[w[x]]
      BY <1>1, <2>1, <3>5
    <3>10. t[x] = w[x]
      BY <3>7, <3>8, <3>9 DEF Distinguished
    <3> QED BY <1>2, <3>2, <3>3, <3>5, <3>10
  <2>4. k \in 0..k
    BY <1>1
  <2> QED BY <1>1, <2>1, <2>3, <2>4
<1>5. GetNodeByPath(names) = {n}
  BY <1>3, <1>4
<1> QED BY <1>5 DEF names

\* The queries by bounds give the rows the parent_id column names, in the order of the
\* bounds, and a row is found by its names, however deep the tree and whatever was
\* interrupted.
THEOREM AnswersAgreeAlways == Spec => []AnswersAgree
<1>1. ASSUME IInv PROVE QueriesAgree
  <2> SUFFICES ASSUME NEW n \in nodes
               PROVE  /\ GetChildren(n, 1) = childrenOf[n]
                      /\ ToSet(GetParents(n)) = Abstract!Ancestors[n]
    BY DEF QueriesAgree
  <2>1. {m \in nodes : Encloses(n, m) /\ level[m] <= level[n] + 1}
          = {m \in nodes : parent_id[m] = n}
    BY <1>1, RowsInside
  <2>2. childrenOf[n] = Listed({m \in nodes : parent_id[m] = n}, LeftOrder)
    BY DEF childrenOf
  <2>3. GetChildren(n, 1)
          = Listed({m \in nodes : Encloses(n, m) /\ level[m] <= level[n] + 1}, LeftOrder)
    BY DEF GetChildren
  <2> QED BY <1>1, <2>1, <2>2, <2>3, ParentsInOrder, AncestorsEnclose
<1>2. ASSUME IInv PROVE PathFindsNode
  BY <1>2, PathFinds DEF PathFindsNode, Distinguished
<1>3. IInv => AnswersAgree
  BY <1>1, <1>2 DEF AnswersAgree
<1> QED BY <1>3, Invariance, PTL
=============================================================================
