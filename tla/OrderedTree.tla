----------------------------- MODULE OrderedTree ----------------------------
(***************************************************************************)
(* The tree lmbNSTree promises: one whose siblings are in an order.  A new *)
(* or a moved node comes last among its siblings, and moveNodeUp and       *)
(* moveNodeDown exchange a node with the sibling next to it.  The state is *)
(* the sequence of children of every node; children[NoParent] holds the    *)
(* root.                                                                   *)
(***************************************************************************)
EXTENDS Naturals, Sequences, SequencesExt

CONSTANTS Ids, Names, NoParent, NoName

VARIABLES children, identifier

orderedVars == <<children, identifier>>

nodes == DOMAIN children \ {NoParent}

\* Below[n] is the set of the ids in the subtree of n, n included.
Below[n \in DOMAIN children] ==
  {n} \union UNION {Below[m] : m \in ToSet(children[n])}

parentOf == [n \in nodes |->
               CHOOSE p \in DOMAIN children : n \in ToSet(children[p])]

FreeUnder(p, n, name) ==
  \A m \in ToSet(children[p]) \ {n} : identifier[m] # name

Exchanged(s, i) == [s EXCEPT ![i] = s[i + 1], ![i + 1] = s[i]]

Init == /\ children = [p \in {NoParent} |-> <<>>]
        /\ identifier = <<>>

InitTree(r) ==
  /\ children' = [p \in {NoParent, r} |-> IF p = r THEN <<>> ELSE <<r>>]
  /\ identifier' = [n \in {r} |-> NoName]

DeleteAll ==
  /\ children' = [p \in {NoParent} |-> <<>>]
  /\ identifier' = <<>>

CreateNode(p, n, name) ==
  /\ p \in nodes /\ n \notin nodes
  /\ FreeUnder(p, n, name)
  /\ children' = [q \in DOMAIN children \union {n} |->
                    IF q = n THEN <<>>
                    ELSE IF q = p THEN Append(children[p], n) ELSE children[q]]
  /\ identifier' = [m \in nodes \union {n} |-> IF m = n THEN name ELSE identifier[m]]

UpdateNode(n, name) ==
  /\ n \in nodes
  /\ IF parentOf[n] = NoParent THEN name = NoName
                               ELSE FreeUnder(parentOf[n], n, name)
  /\ identifier' = [identifier EXCEPT ![n] = name]
  /\ UNCHANGED children

DeleteNode(n) ==
  /\ n \in nodes
  /\ children' = [q \in DOMAIN children \ Below[n] |-> Remove(children[q], n)]
  /\ identifier' = [m \in nodes \ Below[n] |-> identifier[m]]

MoveNode(s, t) ==
  /\ s \in nodes /\ t \in nodes \ Below[s]
  /\ parentOf[s] # t
  /\ children' = [children EXCEPT ![parentOf[s]] = Remove(@, s),
                                  ![t] = Append(@, s)]
  /\ UNCHANGED identifier

\* moveNodeDown of the i-th child of p, or moveNodeUp of the one after it.
ExchangeSiblings(p, i) ==
  /\ children' = [children EXCEPT ![p] = Exchanged(@, i)]
  /\ UNCHANGED identifier

Next ==
  \/ DeleteAll
  \/ \E n \in Ids : InitTree(n) \/ DeleteNode(n)
  \/ \E p, n \in Ids, name \in Names : CreateNode(p, n, name)
  \/ \E n \in Ids, name \in Names \union {NoName} : UpdateNode(n, name)
  \/ \E s, t \in Ids : MoveNode(s, t)
  \/ \E p \in nodes : \E i \in 1..(Len(children[p]) - 1) : ExchangeSiblings(p, i)

Spec == Init /\ [][Next]_orderedVars
=============================================================================
