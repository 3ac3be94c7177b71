-------------------------- MODULE KcfBrowserProofs --------------------------
(***************************************************************************)
(* The tree of folders keeps to the folder that is open, for any folders   *)
(* on the disk and any number of changes and animations.                   *)
(***************************************************************************)
EXTENDS MCKcfBrowser, OrderingProofs, SequenceTheorems, TLAPS

-----------------------------------------------------------------------------
(* Paths.                                                                  *)

(* A path is a short sequence of names, and never None. *)
LEMMA PathSeq ==
  ASSUME NEW p \in Paths
  PROVE  /\ p \in Seq(Names) /\ Len(p) \in Nat /\ Len(p) <= 2
         /\ \A i \in 1..Len(p) : p[i] \in Names
         /\ p # None /\ p = [i \in 1..Len(p) |-> p[i]]
         /\ (Len(p) = 0 <=> p = Root)
<1>1. PICK n \in 0..2 : p \in [1..n -> Names]
  BY DEF Paths
<1>2. p \in Seq(Names) /\ Len(p) = n
  BY <1>1
<1>3. p # None
  <2>1. None = <<"none">> /\ Len(None) = 1 /\ None[1] = "none"
    BY DEF None
  <2>2. "none" \notin Names
    BY DEF Names
  <2> QED BY <2>1, <2>2, <1>1, <1>2
<1> QED BY <1>1, <1>2, <1>3 DEF Root

(* A short sequence of names is a path. *)
LEMMA SeqPath ==
  ASSUME NEW s \in Seq(Names), Len(s) <= 2
  PROVE  s \in Paths
<1>1. Len(s) \in Nat /\ s \in [1..Len(s) -> Names]
  BY LenProperties
<1>2. Len(s) \in 0..2
  BY <1>1
<1> QED BY <1>1, <1>2 DEF Paths

(* Paths are equal when their names are. *)
LEMMA PathEqual ==
  ASSUME NEW p \in Paths, NEW q \in Paths, Len(p) = Len(q),
         \A i \in 1..Len(p) : p[i] = q[i]
  PROVE  p = q
BY PathSeq, SeqEqual

(* The folder above a path is a path. *)
LEMMA FrontOfPath ==
  ASSUME NEW p \in Paths, p # Root
  PROVE  /\ Front(p) \in Paths /\ Len(Front(p)) = Len(p) - 1 /\ Len(p) > 0
         /\ \A i \in 1..Len(p) - 1 : Front(p)[i] = p[i]
         /\ Last(p) \in Names /\ Last(p) = p[Len(p)]
<1>1. p \in Seq(Names) /\ Len(p) \in Nat /\ Len(p) > 0 /\ Len(p) <= 2
  BY PathSeq DEF Root
<1>2. Front(p) \in Seq(Names) /\ Len(Front(p)) = Len(p) - 1
      /\ \A i \in 1..Len(p) - 1 : Front(p)[i] = p[i]
  <2>1. 1 \in Int /\ Len(p) - 1 \in Int /\ Len(p) - 1 <= Len(p)
        /\ \A i \in 1..Len(p) - 1 : p[i] \in Names
    BY <1>1, PathSeq
  <2>2. Front(p) = [i \in 1..Len(p) - 1 |-> p[i]]
    BY <1>1 DEF Front
  <2> QED BY <1>1, <2>1, <2>2
<1>3. Front(p) \in Paths
  BY <1>1, <1>2, SeqPath
<1> QED BY <1>1, <1>2, <1>3 DEF Last

(* A folder in a folder of the top level has a path. *)
LEMMA ChildOfPath ==
  ASSUME NEW p \in Paths, NEW n \in Names, Len(p) < 2
  PROVE  /\ p \o <<n>> \in Paths /\ p \o <<n>> # Root /\ Len(p \o <<n>>) = Len(p) + 1
         /\ Front(p \o <<n>>) = p /\ Last(p \o <<n>>) = n
<1>1. p \in Seq(Names) /\ Len(p) \in Nat
  BY PathSeq
<1> DEFINE c == p \o <<n>>
<1>2. c \in Seq(Names) /\ Len(c) = Len(p) + 1 /\ c[Len(p) + 1] = n
      /\ \A i \in 1..Len(p) : c[i] = p[i]
  BY <1>1
<1>3. c \in Paths
  <2>1. Len(c) <= 2
    BY <1>1, <1>2
  <2> QED BY <1>2, <2>1, SeqPath
<1> HIDE DEF c
<1>4. c # Root
  BY <1>1, <1>2 DEF Root
<1>5. Front(c) = p
  BY <1>1, <1>2, <1>3, <1>4, FrontOfPath, PathEqual
<1>6. Last(c) = n
  BY <1>1, <1>2 DEF Last
<1> QED BY <1>2, <1>3, <1>4, <1>5, <1>6 DEF c

(* One path is a prefix of another when its names begin the other. *)
LEMMA PrefixOfPath ==
  ASSUME NEW p \in Paths, NEW q \in Paths
  PROVE  IsPrefix(p, q) <=> Len(p) <= Len(q) /\ \A i \in 1..Len(p) : p[i] = q[i]
<1>1. p \in Seq(Names) /\ q \in Seq(Names) /\ Len(p) \in Nat /\ Len(q) \in Nat
  BY PathSeq
<1>2. CASE Len(p) <= Len(q)
  <2> DEFINE s == SubSeq(p, 1, Len(p))
             t == SubSeq(q, 1, Len(p))
  <2>1. s \in Seq(Names) /\ Len(s) = Len(p) /\ \A i \in 1..Len(p) : s[i] = p[i]
    BY <1>1
  <2>2. t \in Seq(Names) /\ Len(t) = Len(p) /\ \A i \in 1..Len(p) : t[i] = q[i]
    BY <1>1, <1>2
  <2>3. IsPrefix(p, q) <=> s = t
    BY <1>2 DEF IsPrefix
  <2> HIDE DEF s, t
  <2>4. ASSUME \A i \in 1..Len(p) : p[i] = q[i] PROVE s = t
    BY <1>1, <2>1, <2>2, <2>4, SeqEqual
  <2>5. ASSUME s = t PROVE \A i \in 1..Len(p) : p[i] = q[i]
    BY <1>1, <2>1, <2>2, <2>5
  <2> QED BY <1>2, <2>3, <2>4, <2>5
<1>3. CASE ~ (Len(p) <= Len(q))
  BY <1>3 DEF IsPrefix
<1> QED BY <1>2, <1>3

(* What the tree needs of prefixes. *)
LEMMA PrefixFacts ==
  ASSUME NEW p \in Paths, NEW q \in Paths
  PROVE  /\ IsPrefix(p, p) /\ IsPrefix(Root, q)
         /\ IsPrefix(p, q) => Len(p) <= Len(q)
         /\ IsPrefix(p, q) /\ p # q => Len(p) < Len(q) /\ q # Root
         /\ q # Root /\ IsPrefix(p, Front(q)) => IsPrefix(p, q) /\ p # q
         /\ IsPrefix(p, q) /\ p # q => IsPrefix(p, Front(q))
         /\ q # Root => IsPrefix(Front(q), q) /\ Front(q) # q
<1>1. Len(p) \in Nat /\ Len(q) \in Nat /\ (Len(q) = 0 <=> q = Root) /\ Root \in Paths
      /\ Len(Root) = 0
  <2>1. Root \in Seq(Names) /\ Len(Root) = 0 /\ Len(Root) <= 2
    BY DEF Root
  <2>2. Root \in Paths
    BY <2>1, SeqPath, Zenon
  <2>3. \A x \in Paths : Len(x) \in Nat /\ (Len(x) = 0 <=> x = Root)
    BY PathSeq
  <2> QED BY <2>1, <2>2, <2>3
<1>2. IsPrefix(p, p) /\ IsPrefix(Root, q)
  BY <1>1, PrefixOfPath
<1>3. IsPrefix(p, q) /\ p # q => Len(p) < Len(q) /\ q # Root
  BY <1>1, PrefixOfPath, PathEqual
<1>4. ASSUME q # Root
      PROVE  /\ Front(q) \in Paths /\ Len(Front(q)) = Len(q) - 1
             /\ \A i \in 1..Len(q) - 1 : Front(q)[i] = q[i]
  BY <1>4, FrontOfPath
<1>5. q # Root => IsPrefix(Front(q), q) /\ Front(q) # q
  BY <1>1, <1>4, PrefixOfPath
<1>6. ASSUME q # Root, IsPrefix(p, Front(q)) PROVE IsPrefix(p, q) /\ p # q
  <2>1. Len(p) <= Len(q) - 1 /\ \A i \in 1..Len(p) : p[i] = Front(q)[i]
    BY <1>4, <1>6, PrefixOfPath
  <2>2. Len(p) <= Len(q) /\ \A i \in 1..Len(p) : p[i] = q[i]
    BY <1>1, <1>4, <1>6, <2>1
  <2> QED BY <1>1, <2>1, <2>2, PrefixOfPath
<1>7. ASSUME IsPrefix(p, q), p # q PROVE IsPrefix(p, Front(q))
  BY <1>1, <1>3, <1>4, <1>7, PrefixOfPath
<1> QED BY <1>1, <1>2, <1>3, <1>5, <1>6, <1>7, PrefixOfPath

(* Prefixes of prefixes. *)
LEMMA PrefixTransitive ==
  ASSUME NEW p \in Paths, NEW q \in Paths, NEW r \in Paths, IsPrefix(p, q), IsPrefix(q, r)
  PROVE  IsPrefix(p, r)
<1>1. Len(p) \in Nat /\ Len(q) \in Nat /\ Len(r) \in Nat
  BY PathSeq
<1> QED BY <1>1, PrefixOfPath

(* A path in whose string that of p begins is below the folders p is below. *)
LEMMA StringPrefixFacts ==
  ASSUME NEW p \in Paths, NEW q \in Paths
  PROVE  /\ IsPrefix(p, q) => StringPrefix(p, q)
         /\ StringPrefix(p, q) => \A r \in Paths : IsPrefix(r, p) /\ r # p =>
                                    IsPrefix(r, q) /\ r # q
<1>1. ASSUME IsPrefix(p, q), p # Root PROVE StringPrefix(p, q)
  <2>1. Len(p) <= Len(q) /\ Len(p) > 0 /\ Len(p) \in Nat /\ Last(p) = q[Len(p)]
    BY <1>1, PathSeq, FrontOfPath, PrefixOfPath
  <2>2. IsPrefix(Front(p), q)
    BY <1>1, FrontOfPath, PrefixFacts, PrefixTransitive
  <2> QED BY <2>1, <2>2 DEF StringPrefix, StartsWith
<1>2. ASSUME StringPrefix(p, q), NEW r \in Paths, IsPrefix(r, p), r # p
      PROVE  IsPrefix(r, q) /\ r # q
  <2>1. p # Root /\ IsPrefix(r, Front(p)) /\ Len(r) < Len(p)
    BY <1>2, PrefixFacts
  <2>2. Len(p) <= Len(q) /\ IsPrefix(Front(p), q) /\ Front(p) \in Paths
    BY <1>2, <2>1, FrontOfPath DEF StringPrefix
  <2>3. IsPrefix(r, q)
    BY <2>1, <2>2, PrefixTransitive
  <2> QED BY <2>1, <2>2, <2>3, PathSeq
<1> QED BY <1>1, <1>2 DEF StringPrefix

(* A set with the parents of its paths has all the folders above them. *)
LEMMA AboveIn ==
  ASSUME NEW N \in SUBSET Paths, \A p \in N : p # Root => Front(p) \in N,
         NEW p \in Paths, NEW q \in N, IsPrefix(p, q)
  PROVE  p \in N
<1>1. CASE p = q
  BY <1>1
<1>2. CASE p # q
  <2> DEFINE f == Front(q)
  <2>1. q # Root /\ f \in N /\ IsPrefix(p, f) /\ Len(f) = Len(q) - 1 /\ Len(q) <= 2
        /\ Len(q) \in Nat
    BY <1>2, PrefixFacts, FrontOfPath, PathSeq
  <2> HIDE DEF f
  <2>2. CASE p = f
    BY <2>1, <2>2
  <2>3. CASE p # f
    <3>1. f # Root /\ Front(f) \in N /\ IsPrefix(p, Front(f)) /\ Len(Front(f)) = Len(f) - 1
      BY <2>1, <2>3, PrefixFacts, FrontOfPath
    <3>2. Len(Front(f)) = 0 /\ Len(p) <= Len(Front(f))
      BY <2>1, <3>1, PrefixFacts, PathSeq
    <3>3. Front(f) \in Paths /\ Len(p) \in Nat
      BY <3>1, PathSeq
    <3>4. Len(p) = 0
      BY <3>2, <3>3
    <3>5. Front(f) = Root /\ p = Root
      BY <3>2, <3>3, <3>4, PathSeq
    <3> QED BY <3>1, <3>5
  <2> QED BY <2>2, <2>3
<1> QED BY <1>1, <1>2

(* Within N, which has the parents of its paths, a folder above another has a child. *)
LEMMA ChildAbove ==
  ASSUME NEW N \in SUBSET Paths, \A p \in N : p # Root => Front(p) \in N,
         NEW p \in N, NEW q \in N, IsPrefix(p, q), p # q
  PROVE  Children(N, p) # {}
<1>1. q # Root /\ Front(q) \in N /\ IsPrefix(p, Front(q)) /\ Len(p) < Len(q)
      /\ Len(Front(q)) = Len(q) - 1 /\ Len(q) <= 2 /\ Len(p) \in Nat /\ Len(q) \in Nat
  BY PrefixFacts, FrontOfPath, PathSeq
<1>2. CASE p = Front(q)
  BY <1>1, <1>2 DEF Children
<1>3. CASE p # Front(q)
  <2> DEFINE f == Front(q)
  <2>1. f # Root /\ Front(f) \in N /\ IsPrefix(p, Front(f)) /\ Len(Front(f)) = Len(f) - 1
    BY <1>1, <1>3, PrefixFacts, FrontOfPath
  <2>2. Len(Front(f)) = 0 /\ Len(p) <= Len(Front(f))
    BY <1>1, <2>1, PrefixFacts, PathSeq
  <2>3. Front(f) = p
    BY <1>1, <2>1, <2>2, PathSeq
  <2> QED BY <1>1, <2>1, <2>3 DEF Children
<1> QED BY <1>2, <1>3

(* A path whose string begins that of q is beside a folder that q is in, or is. *)
LEMMA BesideAbove ==
  ASSUME NEW N \in SUBSET Paths, \A x \in N : x # Root => Front(x) \in N,
         NEW p \in Paths, NEW q \in Paths, p # Root, StringPrefix(p, q),
         q # Root => Children(N, Front(q)) # {}
  PROVE  Children(N, Front(p)) # {}
<1> DEFINE f == Front(p)
           g == Front(q)
<1>1. f \in Paths /\ IsPrefix(f, q) /\ f # q /\ q # Root /\ Len(f) = Len(p) - 1
  <2>1. f \in Paths /\ IsPrefix(f, p) /\ f # p /\ Len(f) = Len(p) - 1
    BY FrontOfPath, PrefixFacts
  <2>2. IsPrefix(f, q) /\ f # q
    BY <2>1, StringPrefixFacts
  <2> QED BY <2>1, <2>2, PrefixFacts
<1>2. PICK c \in N : c # Root /\ Front(c) = g
  BY <1>1 DEF Children
<1>3. g \in N /\ g \in Paths /\ IsPrefix(f, g)
  BY <1>1, <1>2, PrefixFacts
<1> HIDE DEF f, g
<1>4. CASE f = g
  BY <1>2, <1>4 DEF Children, f
<1>5. CASE f # g
  <2>1. f \in N
    BY <1>1, <1>3, <1>5, AboveIn
  <2> QED BY <1>3, <1>5, <2>1, ChildAbove DEF f
<1> QED BY <1>4, <1>5

-----------------------------------------------------------------------------
(* The inductive invariant.  The tree has the parents of its nodes, and a  *)
(* node without a brace has no children; an animation, the indicator and   *)
(* an open menu are about what they began with; the open folder is one of  *)
(* those the tree had, and above it every folder is open or being hidden,  *)
(* which will open that one.                                               *)

TreeOK ==
  /\ nodes \subseteq Paths /\ tree \in [nodes -> Node] /\ Root \in nodes
  /\ \A p \in nodes :
       /\ Len(tree[p].path) = Len(p)
       /\ p # Root => Front(p) \in nodes
       /\ tree[p].brace = "none" => Children(nodes, p) = {}

Anim(N) == [kind : {"collapse", "rmdir"}, node : N, path : Paths]
Strays == [kind : {"stray"}, path : Paths, to : Paths]
AnimOK(a, N, own) ==
  /\ a \in Anim(N) \cup Strays
  /\ a.kind = "rmdir" => a.node # Root
  /\ own => IF a.kind = "stray" THEN a.to = a.path ELSE a.path = a.node
AnimsOK == \A a \in anims : AnimOK(a, nodes, renamed = "none")

LoadingOK ==
  /\ loading \in [node : nodes \cup {None}, phase : {"show", "hide", "none"}, path : Paths]
  /\ loading.phase = "show" =>
       /\ loading.node # None /\ Children(nodes, loading.node) = {}
       /\ Len(loading.path) = Len(loading.node)

PaneOK ==
  /\ dir \in Paths /\ files = dir /\ timer \in BOOLEAN
  /\ pane \in Paths \cup {None} /\ (pane # None => pane = dir)
  /\ failed \in {"never", "last", "earlier"} /\ strayed \in BOOLEAN

MarkOK == mark \in nodes \cup {None} /\ MarkIsDir

MenuOK ==
  /\ acting \in [from : Paths \cup {None}, phase : {"menu", "confirm", "none"}]
  /\ acting.from # None => anims = {} /\ acting.from = dir

NamesOK ==
  /\ renamed \in {"none", "some", "twins"}
  /\ renamed # "twins" => ~ Twins(tree)
  /\ renamed = "none" => OwnPaths(tree)

SightOK ==
  renamed = "none" /\ failed = "never" =>
    /\ mark = None => strayed
    /\ dir # Root => Children(nodes, Front(dir)) # {}
    /\ \A p \in nodes : IsPrefix(p, dir) /\ p # dir =>
                         tree[p].brace = "opened" \/ Collapsing(p)

DiskOK == disk \subseteq Paths /\ changes \in 0..MaxChanges

FInv ==
  /\ TreeOK /\ AnimsOK /\ LoadingOK /\ PaneOK /\ MarkOK /\ MenuOK /\ NamesOK /\ SightOK
  /\ DiskOK

(* The invariant says what the three properties say. *)
LEMMA FInvSuffices ==
  ASSUME FInv
  PROVE  FolderShown /\ OpenFolderInSight /\ FileActionsStay
<1>1. FoldersTypeOK
  <2>1. anims \subseteq [kind : {"collapse", "rmdir"}, node : nodes, path : Paths]
                      \cup [kind : {"stray"}, path : Paths, to : Paths]
    BY DEF FInv, AnimsOK, AnimOK, Anim, Strays
  <2> QED BY <2>1 DEF FInv, TreeOK, LoadingOK, PaneOK, MarkOK, MenuOK, NamesOK, DiskOK, FoldersTypeOK
<1>2. PaneShowsDir /\ MarkIsDir
  BY DEF FInv, PaneOK, MarkOK, PaneShowsDir
<1>3. OpenFolderInSight
  BY DEF FInv, SightOK, OpenFolderInSight, Collapsing
<1>4. FileActionsStay
  BY DEF FInv, MenuOK, FileActionsStay
<1> QED BY <1>1, <1>2, <1>3, <1>4 DEF FolderShown

-----------------------------------------------------------------------------
(* The history of names.                                                   *)

NamesSeen ==
  renamed' = IF renamed = "twins" \/ Twins(tree') THEN "twins"
             ELSE IF renamed = "none" /\ OwnPaths(tree') THEN "none" ELSE "some"

(* The history never forgets a rename, nor twins. *)
LEMMA NamesSeenFacts ==
  ASSUME FInv, NamesSeen
  PROVE  /\ NamesOK'
         /\ renamed' = "none" => renamed = "none"
         /\ renamed' # "twins" => renamed # "twins"
         /\ UNCHANGED tree => renamed' = renamed
<1> DEFINE T == Twins(tree)
           O == OwnPaths(tree)
<1>1. renamed \in {"none", "some", "twins"} /\ (renamed # "twins" => ~ T) /\ (renamed = "none" => O)
  BY DEF FInv, NamesOK
<1>2. renamed' = IF renamed = "twins" \/ T' THEN "twins"
                 ELSE IF renamed = "none" /\ O' THEN "none" ELSE "some"
  BY DEF NamesSeen
<1>3. UNCHANGED tree => (T' <=> T) /\ (O' <=> O)
  OBVIOUS
<1>4. NamesOK' <=> /\ renamed' \in {"none", "some", "twins"}
                   /\ (renamed' # "twins" => ~ T') /\ (renamed' = "none" => O')
  BY DEF NamesOK
<1> HIDE DEF T, O
<1> QED BY <1>1, <1>2, <1>3, <1>4

-----------------------------------------------------------------------------
(* The pane and the mark.                                                  *)

(* What a change of the folder to that of h does, or a test that leaves it. *)
Follows(h, N) ==
  /\ PaneOK' /\ mark' \in N \cup {None}
  /\ failed' = "never" => failed = "never"
  /\ failed' # "last" /\ mark' # None =>
       \/ mark' = mark /\ dir' = dir /\ failed' = failed
       \/ mark' = h /\ dir' = tree[h].path

(* The request succeeds, and the pane follows, or it fails. *)
LEMMA OpenFolderFacts ==
  ASSUME PaneOK, NEW p \in Paths, NEW ok \in BOOLEAN, OpenFolder(p, ok)
  PROVE  /\ dir' \in Paths /\ files' = dir' /\ timer' \in BOOLEAN /\ pane' = None
         /\ failed' \in {"never", "last", "earlier"}
         /\ failed' = "never" => failed = "never"
         /\ failed' # "last" => dir' = p
BY DEF OpenFolder, PaneOK, PaneWhileLoading

(* changeDir to a node: the pane follows it, or it is open already. *)
LEMMA ChangeToFacts ==
  ASSUME TreeOK, PaneOK, MarkOK, NEW h \in nodes, NEW N \in SUBSET nodes, NEW ok \in BOOLEAN,
         ChangeTo(h, N, ok)
  PROVE  Follows(h, N) /\ mark' = Marked(h, N)
<1>1. tree[h].path \in Paths /\ h \in Paths /\ h # None
  BY PathSeq DEF TreeOK, Node
<1>2. CASE h = mark
  BY <1>1, <1>2 DEF ChangeTo, PaneOK, Follows, Marked
<1>3. CASE h # mark
  <2>1. strayed' = FALSE /\ OpenFolder(tree[h].path, ok) /\ mark' = Marked(h, N)
    BY <1>3 DEF ChangeTo
  <2>2. /\ dir' \in Paths /\ files' = dir' /\ timer' \in BOOLEAN /\ pane' = None
        /\ failed' \in {"never", "last", "earlier"}
        /\ (failed' = "never" => failed = "never") /\ (failed' # "last" => dir' = tree[h].path)
    BY <1>1, <2>1, OpenFolderFacts
  <2>3. PaneOK'
    BY <2>1, <2>2 DEF PaneOK
  <2> QED BY <1>1, <2>1, <2>2, <2>3 DEF Follows, Marked, Marked
<1> QED BY <1>2, <1>3

(* The same, done only when the open folder is below p. *)
LEMMA ChangeIfInFacts ==
  ASSUME TreeOK, PaneOK, MarkOK, NEW h \in nodes, NEW N \in SUBSET nodes, NEW ok \in BOOLEAN,
         NEW p, ChangeIfIn(p, h, N, ok)
  PROVE  /\ Follows(h, N)
         /\ mark' = IF StringPrefix(p, dir) THEN Marked(h, N) ELSE Marked(mark, N)
<1>1. CASE StringPrefix(p, dir)
  BY <1>1, ChangeToFacts DEF ChangeIfIn
<1>2. CASE ~ StringPrefix(p, dir)
  BY <1>2 DEF ChangeIfIn, Follows, PaneOK, Marked
<1> QED BY <1>1, <1>2

(* A refresh of the pane leaves the mark. *)
LEMMA RefreshPaneFacts ==
  ASSUME PaneOK, NEW ok \in BOOLEAN, RefreshPane(ok)
  PROVE  PaneOK' /\ UNCHANGED <<mark, dir, failed, strayed>>
BY DEF PaneOK, RefreshPane

(* Where the mark and _.dir go when a folder below h may be the open one. *)
LEMMA ChangeSight ==
  ASSUME TreeOK, PaneOK, MarkOK, NEW h \in nodes, NEW N \in SUBSET nodes, NEW ok \in BOOLEAN,
         ChangeIfIn(h, h, N, ok), h \in N, tree[h].path = h, failed' = "never",
         mark # None => mark = dir, mark = None => strayed,
         mark \in nodes => mark \in N \/ IsPrefix(h, mark)
  PROVE  /\ mark' = None => strayed'
         /\ dir' = h \/ (dir' = dir /\ ~ IsPrefix(h, dir))
         /\ \A r \in Paths : IsPrefix(r, dir') /\ r # dir' =>
                              IsPrefix(r, dir) /\ r # dir /\ r # h
<1>1. h \in Paths /\ dir \in Paths /\ h # None /\ mark \in nodes \cup {None}
  BY PathSeq DEF TreeOK, PaneOK, MarkOK
<1>2. CASE StringPrefix(h, dir)
  <2>1. ChangeTo(h, N, ok)
    BY <1>2 DEF ChangeIfIn
  <2>2. mark' = h
    BY <2>1 DEF ChangeTo, Marked
  <2>3. dir' = h
    <3>1. CASE h = mark
      BY <1>1, <2>1, <3>1 DEF ChangeTo
    <3>2. CASE h # mark
      BY <2>1, <3>2 DEF ChangeTo, OpenFolder
    <3> QED BY <3>1, <3>2
  <2>4. \A r \in Paths : IsPrefix(r, h) /\ r # h => IsPrefix(r, dir) /\ r # dir
    BY <1>1, <1>2, StringPrefixFacts
  <2> QED BY <1>1, <2>2, <2>3, <2>4
<1>3. CASE ~ StringPrefix(h, dir)
  <2>1. ~ IsPrefix(h, dir)
    BY <1>1, <1>3, StringPrefixFacts
  <2>2. mark' = Marked(mark, N) /\ UNCHANGED <<dir, strayed>>
    BY <1>3 DEF ChangeIfIn
  <2>3. mark' = None => strayed
    BY <1>1, <2>1, <2>2 DEF Marked
  <2> QED BY <2>1, <2>2, <2>3
<1> QED BY <1>2, <1>3

(* The mark stays at the open folder when it follows a node. *)
LEMMA MarkStep ==
  ASSUME FInv, NamesSeen, NEW h \in nodes, NEW N \in SUBSET nodes, Follows(h, N),
         N = nodes', \A p \in N : tree'[p].path = tree[p].path
  PROVE  MarkOK'
<1>1. mark' \in nodes' \cup {None}
  BY DEF Follows
<1>2. ASSUME failed' # "last", renamed' # "twins", mark' # None
      PROVE  tree'[mark'].path = dir'
  <2>1. renamed # "twins" /\ mark' \in N /\ tree'[mark'].path = tree[mark'].path
    BY <1>1, <1>2, NamesSeenFacts
  <2>2. mark \in nodes \cup {None}
        /\ (failed # "last" /\ mark # None => tree[mark].path = dir)
    BY <2>1 DEF FInv, MarkOK, MarkIsDir
  <2> QED BY <1>2, <2>1, <2>2 DEF Follows
<1> QED BY <1>1, <1>2 DEF MarkOK, MarkIsDir

(* The same, when nothing of it changes. *)
LEMMA MarkStays ==
  ASSUME FInv, NamesSeen, UNCHANGED <<mark, dir, failed>>, nodes \subseteq nodes',
         \A p \in nodes : tree'[p].path = tree[p].path
  PROVE  MarkOK'
<1>1. mark \in nodes \cup {None} /\ mark' \in nodes' \cup {None}
  BY DEF FInv, MarkOK
<1>2. ASSUME failed' # "last", renamed' # "twins", mark' # None
      PROVE  tree'[mark'].path = dir'
  BY <1>1, <1>2, NamesSeenFacts DEF FInv, MarkOK, MarkIsDir
<1> QED BY <1>1, <1>2 DEF MarkOK, MarkIsDir

-----------------------------------------------------------------------------
(* The tree and what belongs to its nodes.                                 *)

(* Nodes go, with those below them, or only their braces change. *)
LEMMA TreeStep ==
  ASSUME TreeOK, nodes' \subseteq nodes, tree' \in [nodes' -> Node], Root \in nodes',
         \A p \in nodes' :
           /\ tree'[p].path = tree[p].path
           /\ p # Root => Front(p) \in nodes'
           /\ tree'[p].brace = "none" =>
                tree[p].brace = "none" \/ Children(nodes', p) = {}
  PROVE  TreeOK'
<1>1. \A p \in nodes' : Children(nodes', p) \subseteq Children(nodes, p)
  BY DEF Children
<1>2. ASSUME NEW p \in nodes'
      PROVE  /\ Len(tree'[p].path) = Len(p)
             /\ p # Root => Front(p) \in nodes'
             /\ tree'[p].brace = "none" => Children(nodes', p) = {}
  BY <1>1, <1>2 DEF TreeOK
<1>3. nodes' \subseteq Paths
  BY DEF TreeOK
<1>4. TreeOK' <=> /\ nodes' \subseteq Paths /\ tree' \in [nodes' -> Node] /\ Root \in nodes'
                  /\ \A p \in nodes' :
                       /\ Len(tree'[p].path) = Len(p)
                       /\ p # Root => Front(p) \in nodes'
                       /\ tree'[p].brace = "none" => Children(nodes', p) = {}
  BY DEF TreeOK, Children
<1> QED BY <1>2, <1>3, <1>4

(* What a step that leaves the tree alone keeps. *)
LEMMA TreeStays ==
  ASSUME UNCHANGED tree
  PROVE  /\ nodes' = nodes /\ (TreeOK => TreeOK')
         /\ \A p : Children(nodes', p) = Children(nodes, p)
BY DEF TreeOK, Children, nodes

(* The brace of a node changes, and nothing else of the tree. *)
LEMMA BraceStep ==
  ASSUME TreeOK, NEW h \in nodes, NEW b \in {"opened", "closed"},
         tree' = [tree EXCEPT ![h].brace = b]
  PROVE  /\ TreeOK' /\ nodes' = nodes
         /\ \A p \in nodes : /\ tree'[p].path = tree[p].path
                             /\ tree'[p].brace = IF p = h THEN b ELSE tree[p].brace
<1>1. nodes' = nodes /\ tree \in [nodes -> Node]
  BY DEF TreeOK, nodes
<1>2. tree' \in [nodes -> Node]
  BY <1>1 DEF Node
<1>3. \A p \in nodes : /\ tree'[p].path = tree[p].path
                       /\ tree'[p].brace = IF p = h THEN b ELSE tree[p].brace
  BY <1>1 DEF Node
<1>4. TreeOK'
  <2>1. Root \in nodes /\ \A p \in nodes : p # Root => Front(p) \in nodes
    BY DEF TreeOK
  <2>2. \A p \in nodes : tree'[p].brace = "none" => tree[p].brace = "none"
    BY <1>3
  <2> QED BY <1>1, <1>2, <1>3, <2>1, <2>2, TreeStep
<1> QED BY <1>1, <1>3, <1>4

(* What is left when the nodes within h, or those below it, go. *)
LEMMA WithinFacts ==
  ASSUME TreeOK, NEW h \in nodes, NEW D \in SUBSET nodes,
         \/ D = Within(nodes, h) /\ h # Root
         \/ D = Within(nodes, h) \ {h}
  PROVE  /\ Root \in nodes \ D
         /\ \A p \in nodes \ D : p # Root => Front(p) \in nodes \ D
         /\ D = Within(nodes, h) => Front(h) \in nodes \ D
         /\ h \notin D => Children(nodes \ D, h) = {}
         /\ \A p \in D : IsPrefix(h, p)
<1>1. nodes \subseteq Paths /\ Root \in nodes /\ \A p \in nodes : p # Root => Front(p) \in nodes
  BY DEF TreeOK
<1>2. \A p \in nodes : p \in D <=> IsPrefix(h, p) /\ (h \in D \/ p # h)
  BY <1>1, PrefixFacts DEF Within
<1>3. Root \notin D
  <2>1. ASSUME Root \in D PROVE FALSE
    <3>1. IsPrefix(h, Root) /\ (h # Root \/ (h \notin D /\ Root # h))
      BY <1>1, <1>2, <2>1
    <3> QED BY <1>1, <3>1, PrefixFacts
  <2> QED BY <2>1
<1>4. ASSUME NEW p \in nodes \ D, p # Root PROVE Front(p) \in nodes \ D
  <2>1. Front(p) \in nodes /\ Front(p) \in Paths /\ p \in Paths /\ h \in Paths
    BY <1>1, <1>4
  <2>2. ASSUME Front(p) \in D PROVE FALSE
    <3>1. IsPrefix(h, p) /\ h # p
      BY <1>2, <1>4, <2>1, <2>2, PrefixFacts
    <3> QED BY <1>2, <1>4, <3>1
  <2> QED BY <2>1, <2>2
<1>5. ASSUME D = Within(nodes, h) PROVE Front(h) \in nodes \ D
  <2>1. h \in D /\ h # Root
    BY <1>1, <1>3, <1>5, PrefixFacts DEF Within
  <2>2. Front(h) \in nodes /\ ~ IsPrefix(h, Front(h))
    BY <1>1, <2>1, PrefixFacts
  <2> QED BY <1>2, <2>2
<1>6. ASSUME h \notin D, NEW q \in Children(nodes \ D, h) PROVE FALSE
  <2>1. q \in nodes /\ q \notin D /\ q # Root /\ Front(q) = h
    BY <1>6 DEF Children
  <2>2. IsPrefix(h, q) /\ q # h
    BY <1>1, <2>1, PrefixFacts
  <2> QED BY <1>2, <2>1, <2>2
<1> QED BY <1>1, <1>2, <1>3, <1>4, <1>5, <1>6

(* The animations go on, those of nodes that went without them. *)
LEMMA AnimsWithoutFacts ==
  ASSUME TreeOK, NEW A, NEW D \in SUBSET nodes, NEW own \in BOOLEAN, NEW own2 \in BOOLEAN,
         own2 => own, \A a \in A : AnimOK(a, nodes, own), own => OwnPaths(tree)
  PROVE  /\ \A a \in AnimsWithout(A, D) : AnimOK(a, nodes \ D, own2)
         /\ \A a \in A : a.kind # "stray" /\ a.node \notin D => a \in AnimsWithout(A, D)
<1>1. \A h \in nodes : tree[h].path \in Paths /\ (own => tree[h].path = h)
  BY DEF TreeOK, Node, OwnPaths, nodes
<1>2. ASSUME NEW a \in A, a.kind # "stray", a.node \in D, Target(a) \in D
      PROVE  AnimOK(Stray(a), nodes \ D, own2)
  <2> DEFINE b == Stray(a)
  <2>1. a \in Anim(nodes) /\ (own => a.path = a.node)
    BY <1>2 DEF AnimOK, Strays
  <2>2. b = [kind |-> "stray", to |-> tree[Target(a)].path,
             path |-> IF a.kind = "collapse" THEN a.path ELSE tree[Target(a)].path]
    BY DEF Stray
  <2>3. Target(a) \in nodes /\ a.path \in Paths
    BY <1>2, <2>1 DEF Anim
  <2>4. a.kind = "collapse" => Target(a) = a.node
    BY DEF Target
  <2> HIDE DEF b
  <2>5. b \in Strays /\ b.kind = "stray"
    BY <1>1, <2>2, <2>3 DEF Strays
  <2>6. own => b.to = b.path
    BY <1>1, <2>1, <2>2, <2>3, <2>4
  <2> QED BY <2>5, <2>6 DEF b, AnimOK
<1>3. ASSUME NEW a \in A, a.kind = "stray" \/ a.node \notin D
      PROVE  AnimOK(a, nodes \ D, own2)
  <2>1. /\ a \in Anim(nodes) \cup Strays /\ (a.kind = "rmdir" => a.node # Root)
        /\ own => IF a.kind = "stray" THEN a.to = a.path ELSE a.path = a.node
    BY DEF AnimOK
  <2>2. a \in Anim(nodes \ D) \cup Strays
    BY <1>3, <2>1 DEF Anim, Strays
  <2> QED BY <2>1, <2>2 DEF AnimOK
<1> QED BY <1>2, <1>3 DEF AnimsWithout

(* Animations stay sound when none starts and no node goes. *)
LEMMA AnimsStay ==
  ASSUME FInv, NamesSeen, anims' \subseteq anims, nodes \subseteq nodes'
  PROVE  AnimsOK'
<1>1. \A a \in anims' : AnimOK(a, nodes', renamed' = "none")
  <2>1. renamed' = "none" => renamed = "none"
    BY NamesSeenFacts
  <2> QED BY <2>1 DEF FInv, AnimsOK, AnimOK, Anim, Strays
<1> QED BY <1>1 DEF AnimsOK

-----------------------------------------------------------------------------
(* The actions that leave the tree and the mark alone.                     *)

(* A step that leaves the tree and the mark alone. *)
LEMMA QuietStep ==
  ASSUME FInv, NamesSeen, UNCHANGED <<tree, mark, dir, failed, strayed>>,
         PaneOK', LoadingOK', AnimsOK', MenuOK', DiskOK',
         \A p \in nodes : Collapsing(p) => Collapsing(p)'
  PROVE  FInv'
<1>1. nodes' = nodes /\ TreeOK' /\ NamesOK'
  BY TreeStays, NamesSeenFacts DEF FInv
<1>2. MarkOK'
  BY <1>1, MarkStays
<1>3. SightOK'
  BY <1>1, NamesSeenFacts DEF FInv, SightOK
<1> QED BY <1>1, <1>2, <1>3 DEF FInv

(* A step that leaves the pane alone. *)
LEMMA PaneStays ==
  ASSUME FInv, UNCHANGED <<dir, pane, files, timer, failed, strayed>>
  PROVE  PaneOK'
BY DEF FInv, PaneOK

(* A step that leaves the request of folders alone. *)
LEMMA LoadingStays ==
  ASSUME FInv, UNCHANGED <<tree, loading>>
  PROVE  LoadingOK'
BY TreeStays DEF FInv, LoadingOK

(* Without a menu there is nothing to say of one. *)
LEMMA NoMenuOK ==
  ASSUME acting' = NoMenu
  PROVE  MenuOK'
BY DEF NoMenu, MenuOK

(* A step that leaves the menu and its folder alone. *)
LEMMA MenuStays ==
  ASSUME FInv, UNCHANGED <<acting, dir>>, anims' \subseteq anims
  PROVE  MenuOK'
BY DEF FInv, MenuOK

(* A step that leaves the disk alone. *)
LEMMA DiskStays ==
  ASSUME FInv, UNCHANGED <<disk, changes>>
  PROVE  DiskOK'
BY DEF FInv, DiskOK

(* An animation of a node begins. *)
LEMMA AnimsBegin ==
  ASSUME FInv, NamesSeen, NEW h \in nodes, NEW k \in {"collapse", "rmdir"},
         k = "rmdir" => h # Root, nodes' = nodes,
         anims' = anims \cup {[kind |-> k, node |-> h, path |-> tree[h].path]}
  PROVE  /\ AnimsOK'
         /\ \A p : Collapsing(p) => Collapsing(p)'
         /\ k = "collapse" => Collapsing(h)'
<1> DEFINE n == [kind |-> k, node |-> h, path |-> tree[h].path]
<1>1. n \in anims' /\ n.kind = k /\ n.node = h /\ n.path = tree[h].path
  OBVIOUS
<1>2. AnimOK(n, nodes, renamed = "none")
  <2>1. n \in Anim(nodes)
    BY DEF FInv, TreeOK, Node, Anim
  <2>2. renamed = "none" => n.path = n.node
    BY <1>1 DEF FInv, NamesOK, OwnPaths, nodes
  <2>3. n.kind # "stray"
    BY <1>1
  <2> QED BY <1>1, <2>1, <2>2, <2>3 DEF AnimOK
<1>3. \A a \in anims' : AnimOK(a, nodes', renamed' = "none")
  <2>1. \A a \in anims : AnimOK(a, nodes, renamed = "none")
    BY DEF FInv, AnimsOK
  <2>2. renamed' = "none" => renamed = "none"
    BY NamesSeenFacts
  <2> QED BY <1>2, <2>1, <2>2 DEF AnimOK
<1> QED BY <1>1, <1>3 DEF AnimsOK, Collapsing

(* A click on the brace of a folder. *)
LEMMA ExpandDirFInv ==
  ASSUME FInv, NamesSeen, NEW h \in nodes, ExpandDir(h)
  PROVE  FInv'
<1>1. PaneOK' /\ MenuOK' /\ DiskOK' /\ UNCHANGED <<mark, dir, failed, strayed>>
  BY PaneStays, NoMenuOK, DiskStays DEF ExpandDir, paneVars, Clicked
<1>2. h \in Paths /\ h # None /\ nodes \subseteq Paths
  BY PathSeq DEF FInv, TreeOK
<1>3. ASSUME NEW b \in {"opened", "closed"}, tree' = [tree EXCEPT ![h].brace = b],
             UNCHANGED loading, AnimsOK', b = "closed" => Collapsing(h)',
             \A p \in nodes : Collapsing(p) => Collapsing(p)'
      PROVE  FInv'
  <2>1. /\ TreeOK' /\ nodes' = nodes
        /\ \A p \in nodes : /\ tree'[p].path = tree[p].path
                            /\ tree'[p].brace = IF p = h THEN b ELSE tree[p].brace
    BY <1>3, BraceStep DEF FInv
  <2>2. LoadingOK'
    BY <1>3, <2>1 DEF FInv, LoadingOK, Children
  <2>3. MarkOK' /\ NamesOK'
    BY <1>1, <2>1, MarkStays, NamesSeenFacts
  <2>4. SightOK'
    BY <1>1, <1>3, <2>1, NamesSeenFacts DEF FInv, SightOK
  <2> QED BY <1>1, <1>3, <2>1, <2>2, <2>3, <2>4 DEF FInv
<1>4. CASE /\ anims' = anims \cup {[kind |-> "collapse", node |-> h, path |-> tree[h].path]}
           /\ tree' = [tree EXCEPT ![h].brace = "closed"] /\ UNCHANGED loading
  <2>1. nodes' = nodes
    BY <1>4, BraceStep DEF FInv
  <2> QED BY <1>3, <1>4, <2>1, AnimsBegin
<1>5. CASE tree' = [tree EXCEPT ![h].brace = "opened"] /\ UNCHANGED <<anims, loading>>
  <2>1. nodes' = nodes
    BY <1>5, BraceStep DEF FInv
  <2>2. AnimsOK'
    BY <1>5, <2>1, AnimsStay
  <2> QED BY <1>3, <1>5, <2>2 DEF Collapsing
<1>6. CASE /\ Children(nodes, h) = {} /\ loading' = [node |-> h, phase |-> "show", path |-> tree[h].path]
           /\ UNCHANGED <<anims, tree>>
  <2>1. LoadingOK'
    <3>1. tree[h].path \in Paths /\ Len(tree[h].path) = Len(h)
      BY DEF FInv, TreeOK, Node
    <3> QED BY <1>2, <1>6, <3>1, TreeStays DEF LoadingOK
  <2>2. AnimsOK'
    BY <1>6, TreeStays, AnimsStay
  <2> QED BY <1>1, <1>6, <2>1, <2>2, QuietStep DEF Collapsing
<1> QED BY <1>4, <1>5, <1>6 DEF ExpandDir

(* No request for folders. *)
LEMMA IdleOK ==
  /\ Idle.phase = "none"
  /\ \A N : Idle \in [node : N \cup {None}, phase : {"show", "hide", "none"}, path : Paths]
<1>1. Root \in Paths
  BY FoldersAssumption
<1> QED BY <1>1 DEF Idle

LEMMA LoadingGoneFInv ==
  ASSUME FInv, NamesSeen, LoadingGone
  PROVE  FInv'
<1>1. loading' = Idle /\ UNCHANGED <<disk, tree, mark, dir, pane, files, timer, failed, strayed,
                                     anims, acting, changes>>
  BY DEF LoadingGone, paneVars
<1>2. LoadingOK'
  BY <1>1, IdleOK DEF LoadingOK
<1> QED BY <1>1, <1>2, PaneStays, MenuStays, DiskStays, TreeStays, AnimsStay, QuietStep
        DEF Collapsing

LEMMA FilesShownFInv ==
  ASSUME FInv, NamesSeen, FilesShown
  PROVE  FInv'
<1>1. UNCHANGED <<disk, tree, mark, dir, files, failed, strayed, anims, loading, acting, changes>>
      /\ pane' = files /\ timer' = FALSE
  BY DEF FilesShown
<1>2. PaneOK'
  BY <1>1 DEF FInv, PaneOK
<1> QED BY <1>1, <1>2, LoadingStays, MenuStays, DiskStays, TreeStays, AnimsStay, QuietStep
        DEF Collapsing

LEMMA RefreshFInv ==
  ASSUME FInv, NamesSeen, NEW ok \in BOOLEAN, Refresh(ok)
  PROVE  FInv'
<1>1. /\ UNCHANGED <<disk, tree, anims, loading, changes>> /\ acting' = NoMenu
      /\ RefreshPane(ok)
  BY DEF Refresh, Clicked
<1>2. PaneOK' /\ UNCHANGED <<mark, dir, failed, strayed>>
  BY <1>1, RefreshPaneFacts DEF FInv
<1> QED BY <1>1, <1>2, LoadingStays, NoMenuOK, DiskStays, TreeStays, AnimsStay, QuietStep
        DEF Collapsing

LEMMA DeleteDirFInv ==
  ASSUME FInv, NamesSeen, NEW h \in nodes, DeleteDir(h)
  PROVE  FInv'
<1>1. /\ UNCHANGED <<tree, mark, dir, pane, files, timer, failed, strayed, loading>> /\ acting' = NoMenu
      /\ anims' = anims \cup {[kind |-> "rmdir", node |-> h, path |-> tree[h].path]}
      /\ h # Root
  BY DEF DeleteDir, Clicked, paneVars
<1>2. DiskOK'
  BY FoldersAssumption DEF DeleteDir, Changed, FInv, DiskOK
<1>3. AnimsOK' /\ \A p : Collapsing(p) => Collapsing(p)'
  BY <1>1, AnimsBegin, TreeStays
<1> QED BY <1>1, <1>2, <1>3, PaneStays, LoadingStays, NoMenuOK, TreeStays, QuietStep

LEMMA OrphanEndFInv ==
  ASSUME FInv, NamesSeen, NEW a \in anims, NEW ok \in BOOLEAN, OrphanEnd(a, ok)
  PROVE  FInv'
<1>1. /\ UNCHANGED <<disk, tree, loading, acting, changes>> /\ anims' \subseteq anims
      /\ \A b \in anims : b \notin anims' => b = a
      /\ a.kind = "stray"
  BY DEF OrphanEnd
<1>2. \A p \in nodes : Collapsing(p) => Collapsing(p)'
  BY <1>1 DEF Collapsing
<1>3. /\ nodes' = nodes /\ TreeOK' /\ NamesOK' /\ LoadingOK' /\ DiskOK' /\ AnimsOK'
      /\ (renamed' = "none" => renamed = "none")
  BY <1>1, TreeStays, NamesSeenFacts, LoadingStays, DiskStays, AnimsStay DEF FInv
<1>4. MenuOK'
  BY <1>1 DEF FInv, MenuOK
<1>5. a.path \in Paths /\ a.to \in Paths /\ (renamed = "none" => a.to = a.path)
  BY <1>1 DEF FInv, AnimsOK, AnimOK, Anim, Strays
<1>6. CASE StringPrefix(a.path, dir)
  <2>1. mark' = None /\ strayed' = TRUE /\ OpenFolder(a.to, ok)
    BY <1>6 DEF OrphanEnd
  <2>2. /\ dir' \in Paths /\ files' = dir' /\ timer' \in BOOLEAN /\ pane' = None
        /\ failed' \in {"never", "last", "earlier"}
        /\ (failed' = "never" => failed = "never") /\ (failed' # "last" => dir' = a.to)
    BY <1>5, <2>1, OpenFolderFacts DEF FInv
  <2>3. PaneOK'
    BY <2>1, <2>2 DEF PaneOK
  <2>4. MarkOK'
    BY <2>1 DEF MarkOK, MarkIsDir
  <2>5. SightOK'
    <3>1. SUFFICES ASSUME renamed' = "none", failed' = "never"
                   PROVE  /\ dir' # Root => Children(nodes, Front(dir')) # {}
                          /\ \A p \in nodes : IsPrefix(p, dir') /\ p # dir' =>
                               tree[p].brace = "opened" \/ Collapsing(p)
      BY <1>1, <1>2, <1>3, <2>1 DEF SightOK
    <3>2. /\ dir' = a.path /\ dir \in Paths /\ nodes \subseteq Paths
          /\ dir # Root => Children(nodes, Front(dir)) # {}
          /\ \A p \in nodes : IsPrefix(p, dir) /\ p # dir =>
                               tree[p].brace = "opened" \/ Collapsing(p)
          /\ \A p \in nodes : p # Root => Front(p) \in nodes
      BY <1>3, <1>5, <2>2, <3>1 DEF FInv, PaneOK, SightOK, TreeOK
    <3>3. \A p \in Paths : IsPrefix(p, a.path) /\ p # a.path => IsPrefix(p, dir) /\ p # dir
      BY <1>5, <1>6, <3>2, StringPrefixFacts
    <3>4. ASSUME a.path # Root PROVE Children(nodes, Front(a.path)) # {}
      BY <1>5, <1>6, <3>2, <3>4, BesideAbove DEF FInv, TreeOK
    <3> QED BY <3>2, <3>3, <3>4
  <2> QED BY <1>3, <1>4, <2>3, <2>4, <2>5 DEF FInv
<1>7. CASE ~ StringPrefix(a.path, dir)
  <2>1. UNCHANGED <<mark, dir, pane, files, timer, failed, strayed>>
    BY <1>7 DEF OrphanEnd, paneVars
  <2> QED BY <1>1, <1>2, <1>3, <1>4, <2>1, PaneStays, QuietStep
<1> QED BY <1>6, <1>7

LEMMA MenuFInv ==
  ASSUME FInv, NamesSeen, FileMenu \/ Ask
  PROVE  FInv'
<1>1. UNCHANGED <<disk, tree, mark, dir, pane, files, timer, failed, strayed, anims, loading, changes>>
  BY DEF FileMenu, Ask, paneVars
<1>2. MenuOK'
  <2>1. CASE FileMenu
    BY <1>1, <2>1 DEF FileMenu, FInv, MenuOK, PaneOK
  <2>2. CASE Ask
    BY <1>1, <2>2 DEF Ask, FInv, MenuOK
  <2> QED BY <2>1, <2>2
<1> QED BY <1>1, <1>2, PaneStays, LoadingStays, DiskStays, TreeStays, AnimsStay, QuietStep
        DEF Collapsing

LEMMA AnswerFInv ==
  ASSUME FInv, NamesSeen, NEW yes \in BOOLEAN, NEW ok \in BOOLEAN, Answer(yes, ok)
  PROVE  FInv'
<1>1. /\ UNCHANGED <<disk, tree, anims, loading, changes>> /\ acting' = NoMenu
      /\ RefreshPane(ok) \/ UNCHANGED <<mark, dir, pane, files, timer, failed, strayed>>
  BY DEF Answer, paneVars
<1>2. PaneOK' /\ UNCHANGED <<mark, dir, failed, strayed>>
  BY <1>1, RefreshPaneFacts, PaneStays DEF FInv
<1> QED BY <1>1, <1>2, LoadingStays, NoMenuOK, DiskStays, TreeStays, AnimsStay, QuietStep
        DEF Collapsing

-----------------------------------------------------------------------------
(* The actions that may change the folder.                                 *)

(* While nodes have their own paths, a node is its path. *)
LEMMA OwnFacts ==
  ASSUME FInv, renamed = "none"
  PROVE  \A h \in nodes : tree[h].path = h
BY DEF FInv, NamesOK, OwnPaths, nodes

(* The open folder stays in sight when a change moves the mark to h. *)
LEMMA MovedSight ==
  ASSUME FInv, NamesSeen, NEW h \in nodes, NEW N \in SUBSET nodes, N = nodes', h \in N,
         NEW ok \in BOOLEAN, NEW p, ChangeIfIn(p, h, N, ok), renamed = "none" => p = h,
         \A c \in N : c # Root => Front(c) \in N,
         \A c \in nodes \ N : c # Root /\ IsPrefix(h, Front(c)),
         \A r \in N : r # h =>
           /\ tree[r].brace = "opened" => tree'[r].brace = "opened"
           /\ Collapsing(r) => Collapsing(r)'
  PROVE  SightOK'
<1>1. SUFFICES ASSUME renamed' = "none", failed' = "never"
               PROVE  /\ mark' = None => strayed'
                      /\ dir' # Root => Children(nodes', Front(dir')) # {}
                      /\ \A r \in nodes' : IsPrefix(r, dir') /\ r # dir' =>
                           tree'[r].brace = "opened" \/ Collapsing(r)'
  BY DEF SightOK
<1>2. renamed = "none" /\ failed = "never"
  <2>1. Follows(h, N)
    BY ChangeIfInFacts DEF FInv
  <2> QED BY <1>1, <2>1, NamesSeenFacts DEF Follows
<1>3. /\ nodes \subseteq Paths /\ dir \in Paths /\ tree[h].path = h /\ p = h
      /\ (mark = None => strayed) /\ (mark # None => mark \in nodes /\ mark = dir)
      /\ dir # Root => Children(nodes, Front(dir)) # {}
      /\ \A r \in nodes : IsPrefix(r, dir) /\ r # dir =>
                            tree[r].brace = "opened" \/ Collapsing(r)
  BY <1>2, OwnFacts DEF FInv, TreeOK, PaneOK, MarkOK, MarkIsDir, SightOK
<1>4. mark \in nodes => mark \in N \/ IsPrefix(h, mark)
  BY <1>3, PrefixFacts
<1>5. /\ mark' = None => strayed'
      /\ dir' = h \/ (dir' = dir /\ ~ IsPrefix(h, dir))
      /\ \A r \in Paths : IsPrefix(r, dir') /\ r # dir' =>
                            IsPrefix(r, dir) /\ r # dir /\ r # h
  BY <1>1, <1>3, <1>4, ChangeSight DEF FInv
<1>6. ASSUME dir' # Root PROVE Children(nodes', Front(dir')) # {}
  <2>1. CASE dir' = h
    BY <1>6, <2>1 DEF Children
  <2>2. CASE dir' = dir /\ ~ IsPrefix(h, dir)
    <3>1. PICK c \in nodes : c # Root /\ Front(c) = Front(dir)
      BY <1>3, <1>6, <2>2 DEF Children
    <3>2. ~ IsPrefix(h, Front(c))
      BY <1>3, <1>6, <2>2, <3>1, PrefixFacts
    <3> QED BY <2>2, <3>1, <3>2 DEF Children
  <2> QED BY <1>5, <2>1, <2>2
<1>7. ASSUME NEW r \in nodes', IsPrefix(r, dir'), r # dir'
      PROVE  tree'[r].brace = "opened" \/ Collapsing(r)'
  BY <1>3, <1>5, <1>7
<1> QED BY <1>5, <1>6, <1>7

LEMMA CollapseEndFInv ==
  ASSUME FInv, NamesSeen, NEW a \in anims, NEW ok \in BOOLEAN, CollapseEnd(a, ok)
  PROVE  FInv'
<1>1. /\ UNCHANGED <<disk, tree, loading, acting, changes>> /\ anims' = anims \ {a}
      /\ ChangeIfIn(a.path, a.node, nodes, ok) /\ a.kind = "collapse"
  BY DEF CollapseEnd
<1>2. a.node \in nodes /\ (renamed = "none" => a.path = a.node)
  BY <1>1 DEF FInv, AnimsOK, AnimOK, Anim, Strays
<1>3. nodes' = nodes /\ TreeOK' /\ NamesOK'
  BY <1>1, TreeStays, NamesSeenFacts DEF FInv
<1>4. Follows(a.node, nodes)
  BY <1>1, <1>2, ChangeIfInFacts DEF FInv
<1>5. MarkOK' /\ PaneOK'
  BY <1>1, <1>2, <1>3, <1>4, MarkStep DEF Follows
<1>6. SightOK'
  <2>1. \A r \in nodes : r # a.node => (Collapsing(r) => Collapsing(r)')
    BY <1>1 DEF Collapsing
  <2>2. \A c \in nodes : c # Root => Front(c) \in nodes
    BY DEF FInv, TreeOK
  <2> QED BY <1>1, <1>2, <1>3, <2>1, <2>2, MovedSight
<1>7. MenuOK'
  BY <1>1 DEF FInv, MenuOK
<1> QED BY <1>1, <1>3, <1>5, <1>6, <1>7, LoadingStays, DiskStays, AnimsStay DEF FInv

LEMMA ChangeDirFInv ==
  ASSUME FInv, NamesSeen, NEW h \in nodes, NEW ok \in BOOLEAN, ChangeDir(h, ok)
  PROVE  FInv'
<1>1. /\ UNCHANGED <<disk, tree, anims, loading, changes>> /\ acting' = NoMenu
      /\ ChangeTo(h, nodes, ok) /\ Visible(h) /\ h # mark
  BY DEF ChangeDir, Clicked
<1>2. nodes' = nodes /\ TreeOK' /\ NamesOK'
  BY <1>1, TreeStays, NamesSeenFacts DEF FInv
<1>3. Follows(h, nodes) /\ mark' = h
  BY <1>1, ChangeToFacts DEF FInv, Marked
<1>4. MarkOK' /\ PaneOK'
  BY <1>1, <1>2, <1>3, MarkStep DEF Follows
<1>5. SightOK'
  <2>1. h \in Paths /\ nodes \subseteq Paths /\ h # None
    BY PathSeq DEF FInv, TreeOK
  <2>2. ASSUME NEW r \in nodes, IsPrefix(r, h), r # h
        PROVE  tree[r].brace = "opened" \/ Collapsing(r)
    <3>1. Children(nodes, r) # {}
      BY <2>1, <2>2, ChildAbove DEF FInv, TreeOK
    <3>2. tree[r].brace # "none" /\ tree[r].brace \in {"opened", "closed", "none"}
      BY <3>1 DEF FInv, TreeOK, Node
    <3> QED BY <1>1, <2>2, <3>2 DEF Visible
  <2>3. ASSUME renamed' = "none", failed' = "never" PROVE dir' = h
    <3>1. OpenFolder(tree[h].path, ok) /\ tree[h].path = h
      BY <1>1, <2>3, NamesSeenFacts, OwnFacts DEF ChangeTo
    <3> QED BY <2>3, <3>1 DEF OpenFolder
  <2>4. h # Root => h \in Children(nodes, Front(h))
    BY DEF Children
  <2> QED BY <1>1, <1>2, <1>3, <2>1, <2>2, <2>3, <2>4 DEF SightOK, Collapsing
<1> QED BY <1>1, <1>2, <1>4, <1>5, NoMenuOK, LoadingStays, DiskStays, AnimsStay DEF FInv

(* A request whose node is gone from the tree is forgotten. *)
LEMMA LoadingWithoutOK ==
  ASSUME FInv, NEW D \in SUBSET nodes, nodes' = nodes \ D, loading' = LoadingWithout(D)
  PROVE  LoadingOK'
<1>1. CASE loading' = Idle
  BY <1>1, IdleOK DEF LoadingOK
<1>2. CASE loading' # Idle
  <2>1. loading' = loading /\ loading.node \notin D
    BY <1>2 DEF LoadingWithout
  <2>2. LoadingOK
    BY DEF FInv
  <2> QED BY <2>1, <2>2 DEF LoadingOK, Children
<1> QED BY <1>1, <1>2

(* refreshDir: what is below h goes, and is asked for. *)
LEMMA RefreshNodeOK ==
  ASSUME FInv, NamesSeen, NEW h \in nodes, NEW n \in Node, NEW ok \in BOOLEAN,
         n.path = tree[h].path, RefreshNode(h, n, ok)
  PROVE  TreeOK' /\ AnimsOK' /\ LoadingOK' /\ PaneOK' /\ MarkOK' /\ NamesOK' /\ SightOK'
<1> DEFINE gone == Within(nodes, h) \ {h}
           N == nodes \ gone
<1>1. /\ tree' = [Restrict(tree, N) EXCEPT ![h] = n]
      /\ anims' = AnimsWithout(anims, gone)
      /\ loading' = IF LoadingWithout(gone) = Idle
                    THEN [node |-> h, phase |-> "show", path |-> tree[h].path]
                    ELSE loading
      /\ ChangeIfIn(tree[h].path, h, N, ok)
  BY DEF RefreshNode
<1>2. gone \subseteq nodes /\ N \subseteq nodes /\ h \in N
  BY DEF Within
<1>3. /\ Root \in N /\ \A p \in N : p # Root => Front(p) \in N
      /\ Children(N, h) = {} /\ \A p \in gone : IsPrefix(h, p)
  BY <1>2, WithinFacts DEF FInv
<1> HIDE DEF gone, N
<1>4. /\ nodes' = N /\ tree' \in [N -> Node]
      /\ tree'[h] = n /\ \A r \in N : r # h => tree'[r] = tree[r]
  BY <1>1, <1>2 DEF FInv, TreeOK, Restrict, nodes
<1>5. TreeOK'
  BY <1>2, <1>3, <1>4, TreeStep DEF FInv
<1>6. AnimsOK' /\ \A r \in N : Collapsing(r) => Collapsing(r)'
  <2>1. nodes' = nodes \ gone /\ \A a \in anims : AnimOK(a, nodes, renamed = "none")
    BY <1>4 DEF FInv, AnimsOK, N
  <2>2. (renamed' = "none" => renamed = "none") /\ (renamed = "none" => OwnPaths(tree))
    BY NamesSeenFacts DEF FInv, NamesOK
  <2>3. /\ \A a \in anims' : AnimOK(a, nodes', renamed' = "none")
        /\ \A a \in anims : a.kind # "stray" /\ a.node \notin gone => a \in anims'
    BY <1>1, <1>2, <2>1, <2>2, AnimsWithoutFacts DEF FInv
  <2>4. \A r \in N : r \notin gone
    BY DEF N
  <2> QED BY <2>3, <2>4 DEF AnimsOK, Collapsing
<1>7. LoadingOK'
  <2>1. CASE LoadingWithout(gone) = Idle
    <3>1. h \in Paths /\ tree[h].path \in Paths /\ Len(tree[h].path) = Len(h) /\ h # None
      BY PathSeq DEF FInv, TreeOK, Node
    <3> QED BY <1>1, <1>2, <1>3, <1>4, <2>1, <3>1 DEF LoadingOK
  <2>2. CASE LoadingWithout(gone) # Idle
    <3>1. loading' = LoadingWithout(gone) /\ nodes' = nodes \ gone
      BY <1>1, <1>4, <2>2 DEF LoadingWithout, N
    <3> QED BY <1>2, <3>1, LoadingWithoutOK
  <2> QED BY <2>1, <2>2
<1>8. Follows(h, N)
  BY <1>1, <1>2, ChangeIfInFacts DEF FInv
<1>9. PaneOK' /\ MarkOK' /\ NamesOK'
  <2>1. \A r \in N : tree'[r].path = tree[r].path
    BY <1>4
  <2> QED BY <1>2, <1>4, <1>8, <2>1, MarkStep, NamesSeenFacts DEF Follows
<1>10. SightOK'
  <2>1. ASSUME NEW c \in nodes \ N PROVE c # Root /\ IsPrefix(h, Front(c))
    <3>1. c \in Paths /\ h \in Paths /\ IsPrefix(h, c) /\ c # h
      BY <1>2, <1>3, <2>1 DEF N, FInv, TreeOK
    <3> QED BY <3>1, PrefixFacts
  <2>2. renamed = "none" => tree[h].path = h
    BY OwnFacts
  <2> QED BY <1>1, <1>2, <1>3, <1>4, <1>6, <2>1, <2>2, MovedSight
<1> QED BY <1>5, <1>6, <1>7, <1>9, <1>10

LEMMA RefreshDirFInv ==
  ASSUME FInv, NamesSeen, NEW h \in nodes, NEW ok \in BOOLEAN, RefreshDir(h, ok)
  PROVE  FInv'
<1>1. RefreshNode(h, Closed(tree[h]), ok) /\ UNCHANGED <<disk, changes>> /\ acting' = NoMenu
  BY DEF RefreshDir, Clicked
<1>2. Closed(tree[h]) \in Node /\ Closed(tree[h]).path = tree[h].path
  BY DEF FInv, TreeOK, Node, Closed
<1> QED BY <1>1, <1>2, RefreshNodeOK, NoMenuOK, DiskStays DEF FInv

LEMMA NewDirFInv ==
  ASSUME FInv, NamesSeen, NEW h \in nodes, NEW k \in Names, NEW ok \in BOOLEAN, NewDir(h, k, ok)
  PROVE  FInv'
<1> DEFINE n == IF tree[h].hasDirs THEN Closed(tree[h])
                ELSE [tree[h] EXCEPT !.brace = "closed", !.hasDirs = TRUE]
           p == tree[h].path
<1>1. /\ RefreshNode(h, n, ok) /\ acting' = NoMenu /\ Changed
      /\ Len(p) < 2 /\ disk' = disk \cup {p \o <<k>>}
  BY DEF NewDir, Clicked
<1>2. n \in Node /\ n.path = tree[h].path /\ p \in Paths
  BY DEF FInv, TreeOK, Node, Closed
<1>3. DiskOK'
  <2>1. p \o <<k>> \in Paths
    BY <1>1, <1>2, ChildOfPath
  <2>2. changes' \in 0..MaxChanges
    BY <1>1, FoldersAssumption DEF FInv, DiskOK, Changed
  <2> HIDE DEF p
  <2> QED BY <1>1, <2>1, <2>2 DEF FInv, DiskOK
<1> HIDE DEF n, p
<1> QED BY <1>1, <1>2, <1>3, RefreshNodeOK, NoMenuOK DEF FInv

LEMMA DeleteDirEndFInv ==
  ASSUME FInv, NamesSeen, NEW a \in anims, NEW ok \in BOOLEAN, DeleteDirEnd(a, ok)
  PROVE  FInv'
<1> DEFINE h == a.node
           f == Front(h)
           gone == Within(nodes, h)
           N == nodes \ gone
           kept == Restrict(tree, N)
<1>1. /\ tree' = IF Children(nodes, f) # {h} THEN kept
                 ELSE [kept EXCEPT ![f].brace = "none", ![f].hasDirs = FALSE]
      /\ anims' = AnimsWithout(anims \ {a}, gone)
      /\ loading' = LoadingWithout(gone)
      /\ ChangeIfIn(tree[f].path, f, N, ok)
      /\ UNCHANGED <<disk, acting, changes>>
      /\ a.kind = "rmdir"
  BY DEF DeleteDirEnd
<1>2. h \in nodes /\ h # Root /\ h \in Paths /\ nodes \subseteq Paths /\ f \in nodes
  BY <1>1 DEF FInv, AnimsOK, AnimOK, Anim, Strays, TreeOK
<1>3. gone \subseteq nodes /\ N \subseteq nodes
  BY DEF Within
<1>4. /\ Root \in N /\ f \in N /\ \A p \in N : p # Root => Front(p) \in N
      /\ \A p \in gone : IsPrefix(h, p)
  BY <1>2, <1>3, WithinFacts DEF FInv
<1>5. h \in gone
  BY <1>2, PrefixFacts DEF Within
<1> HIDE DEF h, f, gone, N
<1>6. /\ nodes' = N /\ tree' \in [N -> Node]
      /\ \A r \in N : /\ tree'[r].path = tree[r].path
                      /\ r # f => tree'[r] = tree[r]
                      /\ tree'[r].brace = "none" =>
                           tree[r].brace = "none" \/ (r = f /\ Children(nodes, f) = {h})
  <2>1. kept \in [N -> Node] /\ \A r \in N : kept[r] = tree[r]
    BY <1>3 DEF FInv, TreeOK, Restrict
  <2> HIDE DEF kept
  <2>2. tree' = kept \/ /\ tree' = [kept EXCEPT ![f].brace = "none", ![f].hasDirs = FALSE]
                        /\ Children(nodes, f) = {h}
    BY <1>1
  <2> QED BY <1>4, <2>1, <2>2 DEF Node, nodes
<1>7. TreeOK'
  <2>1. Children(nodes, f) = {h} => Children(N, f) = {}
    BY <1>5 DEF Children, N
  <2> QED BY <1>3, <1>4, <1>6, <2>1, TreeStep DEF FInv
<1>8. AnimsOK' /\ \A r \in N : Collapsing(r) => Collapsing(r)'
  <2>1. nodes' = nodes \ gone /\ \A b \in anims \ {a} : AnimOK(b, nodes, renamed = "none")
    BY <1>6 DEF FInv, AnimsOK, N
  <2>2. (renamed' = "none" => renamed = "none") /\ (renamed = "none" => OwnPaths(tree))
    BY NamesSeenFacts DEF FInv, NamesOK
  <2>3. /\ \A b \in anims' : AnimOK(b, nodes', renamed' = "none")
        /\ \A b \in anims \ {a} : b.kind # "stray" /\ b.node \notin gone => b \in anims'
    BY <1>1, <1>3, <2>1, <2>2, AnimsWithoutFacts DEF FInv
  <2>4. \A r \in N : r \notin gone
    BY DEF N
  <2> QED BY <1>1, <2>3, <2>4 DEF AnimsOK, Collapsing
<1>9. LoadingOK'
  BY <1>1, <1>3, <1>6, LoadingWithoutOK DEF N
<1>10. Follows(f, N)
  BY <1>1, <1>2, <1>3, ChangeIfInFacts DEF FInv
<1>11. PaneOK' /\ MarkOK' /\ NamesOK'
  BY <1>2, <1>3, <1>6, <1>10, MarkStep, NamesSeenFacts DEF Follows
<1>12. SightOK'
  <2>1. ASSUME NEW c \in nodes \ N PROVE c # Root /\ IsPrefix(f, Front(c))
    <3>1. c \in Paths /\ f \in Paths /\ IsPrefix(h, c) /\ IsPrefix(f, h) /\ f # h
      BY <1>2, <1>4, <2>1, PrefixFacts DEF f, N
    <3>2. IsPrefix(f, c) /\ f # c
      <4>1. IsPrefix(f, c) /\ Len(f) < Len(h) /\ Len(h) <= Len(c)
        BY <1>2, <3>1, PrefixFacts, PrefixTransitive
      <4> QED BY <1>2, <3>1, <4>1, PathSeq
    <3> QED BY <3>1, <3>2, PrefixFacts
  <2>2. renamed = "none" => tree[f].path = f
    BY <1>2, OwnFacts
  <2> QED BY <1>1, <1>2, <1>3, <1>4, <1>6, <1>8, <2>1, <2>2, MovedSight
<1>13. MenuOK'
  BY <1>1, <1>8 DEF FInv, MenuOK
<1> QED BY <1>1, <1>7, <1>8, <1>9, <1>11, <1>12, <1>13, DiskStays DEF FInv

(* The indicator: the subfolders come. *)
LEMMA LoadDirsFInv ==
  ASSUME FInv, NamesSeen, NEW ok \in BOOLEAN, LoadDirs(ok)
  PROVE  FInv'
<1> DEFINE h == loading.node
           p == loading.path
           new == {h \o <<Last(q)>> : q \in Children(disk, p)}
<1>1. /\ loading.phase = "show"
      /\ loading' = IF ok THEN [loading EXCEPT !.phase = "hide"] ELSE Idle
      /\ \/ UNCHANGED tree
         \/ tree' = [q \in nodes \cup new |->
                        IF q \in new THEN NodeFor(p \o <<Last(q)>>)
                        ELSE IF q = h
                        THEN [tree[h] EXCEPT !.brace = IF new = {} THEN "none" ELSE "opened"]
                        ELSE tree[q]]
      /\ UNCHANGED <<disk, mark, dir, pane, files, timer, failed, strayed, anims, acting, changes>>
  BY DEF LoadDirs, paneVars
<1>2. /\ h \in nodes /\ Children(nodes, h) = {} /\ nodes \subseteq Paths /\ h \in Paths
      /\ p \in Paths /\ Len(p) = Len(h) /\ disk \subseteq Paths
  BY <1>1 DEF FInv, LoadingOK, TreeOK, DiskOK, Node
<1>3. ASSUME NEW q \in Children(disk, p)
      PROVE  /\ Last(q) \in Names /\ Len(p) < 2
             /\ h \o <<Last(q)>> \in Paths /\ h \o <<Last(q)>> # Root
             /\ Front(h \o <<Last(q)>>) = h /\ Last(h \o <<Last(q)>>) = Last(q)
             /\ Len(h \o <<Last(q)>>) = Len(h) + 1
             /\ p \o <<Last(q)>> \in Paths /\ Len(p \o <<Last(q)>>) = Len(p) + 1
  <2>1. q \in Paths /\ q # Root /\ Front(q) = p
    BY <1>2, <1>3 DEF Children
  <2>2. Last(q) \in Names /\ Len(p) < 2
    BY <1>2, <2>1, FrontOfPath, PathSeq
  <2> QED BY <1>2, <2>2, ChildOfPath
<1>4. ASSUME NEW c \in new
      PROVE  /\ c \in Paths /\ c # Root /\ Front(c) = h /\ Len(c) = Len(h) + 1 /\ c \notin nodes
             /\ p \o <<Last(c)>> \in Paths /\ Len(p \o <<Last(c)>>) = Len(p) + 1
  <2>1. PICK q \in Children(disk, p) : c = h \o <<Last(q)>>
    OBVIOUS
  <2>2. c \in Paths /\ c # Root /\ Front(c) = h /\ Len(c) = Len(h) + 1 /\ Last(c) = Last(q)
    BY <1>3, <2>1
  <2>3. c \notin nodes
    BY <1>2, <2>2 DEF Children
  <2> QED BY <1>3, <2>1, <2>2, <2>3
<1> HIDE DEF h, p, new
<1>5. LoadingOK'
  <2>1. nodes \subseteq nodes'
    BY <1>1 DEF nodes
  <2> QED BY <1>1, <2>1, IdleOK DEF FInv, LoadingOK
<1>6. CASE UNCHANGED tree
  BY <1>1, <1>5, <1>6, PaneStays, MenuStays, DiskStays, TreeStays, AnimsStay, QuietStep
     DEF Collapsing
<1>7. CASE tree' = [q \in nodes \cup new |->
                        IF q \in new THEN NodeFor(p \o <<Last(q)>>)
                        ELSE IF q = h
                        THEN [tree[h] EXCEPT !.brace = IF new = {} THEN "none" ELSE "opened"]
                        ELSE tree[q]]
  <2>1. /\ nodes' = nodes \cup new /\ nodes \subseteq nodes' /\ tree' \in [nodes' -> Node]
        /\ \A r \in nodes : tree'[r].path = tree[r].path
        /\ \A r \in nodes : r # h => tree'[r] = tree[r]
        /\ tree'[h].brace = "none" => new = {}
        /\ \A c \in new : tree'[c].path = p \o <<Last(c)>>
    <3>1. \A x \in Paths : NodeFor(x) \in Node /\ NodeFor(x).path = x
      BY DEF NodeFor, Node
    <3>2. tree \in [nodes -> Node] /\ h \in nodes /\ \A c \in new : c \notin nodes
      BY <1>2, <1>4 DEF FInv, TreeOK
    <3>3. nodes' = nodes \cup new
      BY <1>7 DEF nodes
    <3>4. [tree[h] EXCEPT !.brace = IF new = {} THEN "none" ELSE "opened"] \in Node
      BY <3>2 DEF Node
    <3>5. tree' \in [nodes' -> Node]
      BY <1>4, <1>7, <3>1, <3>2, <3>3, <3>4
    <3>6. \A c \in new : tree'[c].path = p \o <<Last(c)>>
      BY <1>4, <1>7, <3>1
    <3>7. tree'[h] = [tree[h] EXCEPT !.brace = IF new = {} THEN "none" ELSE "opened"]
      BY <1>7, <3>2
    <3>8. tree'[h].path = tree[h].path /\ (tree'[h].brace = "none" => new = {})
      BY <3>2, <3>7 DEF Node
    <3>9. \A r \in nodes : r # h => tree'[r] = tree[r]
      BY <1>7, <3>2
    <3> QED BY <3>3, <3>5, <3>6, <3>8, <3>9
  <2>2. TreeOK'
    <3>1. nodes' \subseteq Paths /\ Root \in nodes'
      BY <1>2, <1>4, <2>1 DEF FInv, TreeOK
    <3>2. ASSUME NEW r \in nodes'
          PROVE  /\ Len(tree'[r].path) = Len(r)
                 /\ r # Root => Front(r) \in nodes'
                 /\ tree'[r].brace = "none" => Children(nodes', r) = {}
      <4>1. CASE r \in new
        <5>1. Len(tree'[r].path) = Len(r) /\ Front(r) \in nodes'
          BY <1>2, <1>4, <2>1, <4>1
        <5>2. ASSUME NEW q \in Children(nodes', r) PROVE FALSE
          <6>1. q \in nodes \cup new /\ q # Root /\ Front(q) = r
            BY <2>1, <5>2 DEF Children
          <6>2. q \in nodes => r \in nodes
            BY <6>1 DEF FInv, TreeOK
          <6> QED BY <1>2, <1>4, <4>1, <6>1, <6>2
        <5> QED BY <5>1, <5>2
      <4>2. CASE r \in nodes
        <5>1. Len(tree'[r].path) = Len(r) /\ (r # Root => Front(r) \in nodes')
          BY <2>1, <4>2 DEF FInv, TreeOK
        <5>2. r # h => Children(nodes', r) = Children(nodes, r)
          BY <1>4, <2>1 DEF Children
        <5>3. new = {} => Children(nodes', r) = Children(nodes, r)
          BY <2>1 DEF Children
        <5>4. CASE r = h
          BY <1>2, <2>1, <5>1, <5>3, <5>4
        <5>5. CASE r # h
          BY <2>1, <4>2, <5>1, <5>2, <5>5 DEF FInv, TreeOK
        <5> QED BY <5>4, <5>5
      <4> QED BY <2>1, <4>1, <4>2
    <3>3. TreeOK' <=> /\ nodes' \subseteq Paths /\ tree' \in [nodes' -> Node] /\ Root \in nodes'
                      /\ \A r \in nodes' :
                           /\ Len(tree'[r].path) = Len(r)
                           /\ r # Root => Front(r) \in nodes'
                           /\ tree'[r].brace = "none" => Children(nodes', r) = {}
      BY DEF TreeOK, Children
    <3> QED BY <2>1, <3>1, <3>2, <3>3
  <2>3. PaneOK' /\ MenuOK' /\ DiskOK' /\ AnimsOK' /\ MarkOK' /\ NamesOK'
    BY <1>1, <2>1, PaneStays, MenuStays, DiskStays, AnimsStay, MarkStays, NamesSeenFacts
  <2>4. SightOK'
    <3>1. SUFFICES ASSUME renamed' = "none", failed' = "never"
                   PROVE  /\ mark' = None => strayed'
                          /\ dir' # Root => Children(nodes', Front(dir')) # {}
                          /\ \A r \in nodes' : IsPrefix(r, dir') /\ r # dir' =>
                               tree'[r].brace = "opened" \/ Collapsing(r)'
      BY DEF SightOK
    <3>2. /\ (mark = None => strayed) /\ dir \in Paths
          /\ dir # Root => Children(nodes, Front(dir)) # {}
          /\ \A r \in nodes : IsPrefix(r, dir) /\ r # dir =>
                                tree[r].brace = "opened" \/ Collapsing(r)
      BY <1>1, <3>1, NamesSeenFacts DEF FInv, PaneOK, SightOK
    <3>3. ASSUME NEW r \in nodes', IsPrefix(r, dir), r # dir
          PROVE  r \in nodes /\ r # h
      <4>1. r \in Paths /\ dir # Root /\ IsPrefix(r, Front(dir))
        BY <1>2, <1>4, <2>1, <3>2, <3>3, PrefixFacts
      <4>2. PICK c \in nodes : c # Root /\ Front(c) = Front(dir)
        BY <3>2, <4>1 DEF Children
      <4>3. c \in Paths /\ IsPrefix(r, c) /\ r # c
        BY <1>2, <4>1, <4>2, PrefixFacts
      <4>4. r \in nodes
        BY <1>2, <4>1, <4>3, AboveIn DEF FInv, TreeOK
      <4>5. Children(nodes, r) # {}
        BY <1>2, <4>3, <4>4, ChildAbove DEF FInv, TreeOK
      <4> QED BY <1>2, <4>4, <4>5
    <3>4. Children(nodes, Front(dir)) \subseteq Children(nodes', Front(dir))
      BY <2>1 DEF Children
    <3> QED BY <1>1, <2>1, <3>2, <3>3, <3>4 DEF Collapsing
  <2> QED BY <1>5, <2>2, <2>3, <2>4 DEF FInv
<1> QED BY <1>1, <1>6, <1>7

(* The node of a renamed folder keeps its place, whatever its path. *)
LEMMA RenameDirFInv ==
  ASSUME FInv, NamesSeen, NEW h \in nodes, NEW n \in Names, RenameDir(h, n)
  PROVE  FInv'
<1> DEFINE old == tree[h].path
           new == Front(old) \o <<n>>
           Moved(q) == IF IsPrefix(old, q) THEN new \o SubSeq(q, Len(old) + 1, Len(q)) ELSE q
<1>1. /\ acting' = NoMenu /\ Changed /\ h # Root /\ old \in disk /\ new \notin disk
      /\ disk' = {Moved(q) : q \in disk}
      /\ tree' = [tree EXCEPT ![h].path = new]
      /\ dir' = Renamed(dir, old, new) /\ pane' = Renamed(pane, old, new)
      /\ files' = Renamed(files, old, new)
      /\ UNCHANGED <<mark, timer, failed, strayed, anims, loading>>
  BY DEF RenameDir, Clicked
<1>2. /\ old \in Paths /\ Len(old) = Len(h) /\ h \in Paths /\ old # Root /\ disk \subseteq Paths
      /\ nodes \subseteq Paths
  <2>1. h \in Paths /\ old \in Paths /\ Len(old) = Len(h) /\ disk \subseteq Paths
    BY DEF FInv, TreeOK, Node, DiskOK
  <2> QED BY <1>1, <2>1, PathSeq DEF FInv, TreeOK
<1>3. new \in Paths /\ Len(new) = Len(old) /\ new # old
  <2>1. Front(old) \in Paths /\ Len(Front(old)) = Len(old) - 1 /\ Len(old) <= 2 /\ Len(old) \in Nat
    BY <1>2, FrontOfPath, PathSeq
  <2>2. Len(Front(old)) < 2 /\ Len(Front(old)) + 1 = Len(old)
    BY <2>1
  <2> HIDE DEF old
  <2>3. new \in Paths /\ Len(new) = Len(Front(old)) + 1
    BY <2>1, <2>2, ChildOfPath
  <2> QED BY <1>1, <2>2, <2>3
<1>4. ASSUME NEW q \in Paths PROVE Moved(q) \in Paths
  <2>1. CASE IsPrefix(old, q)
    <3> DEFINE rest == SubSeq(q, Len(old) + 1, Len(q))
    <3>1. Len(old) <= Len(q) /\ Len(old) \in Nat /\ Len(q) \in Nat /\ Len(q) <= 2
          /\ q \in Seq(Names) /\ new \in Seq(Names)
      BY <1>2, <1>3, <2>1, PrefixFacts, PathSeq
    <3>2. rest \in Seq(Names) /\ Len(rest) = Len(q) - Len(old)
      <4> DEFINE i == Len(old) + 1
                 j == Len(q)
      <4>1. i \in Int /\ j \in Int /\ \A k \in i..j : q[k] \in Names
        BY <3>1
      <4>2. j - i + 1 = Len(q) - Len(old) /\ (~ (i <= j) => Len(q) - Len(old) = 0)
        BY <3>1
      <4> HIDE DEF i, j
      <4>3. SubSeq(q, i, j) \in Seq(Names)
            /\ Len(SubSeq(q, i, j)) = IF i <= j THEN j - i + 1 ELSE 0
        BY <3>1, <4>1, SubSeqProperties
      <4> QED BY <4>2, <4>3 DEF i, j
    <3> HIDE DEF rest, new
    <3>3. new \o rest \in Seq(Names) /\ Len(new \o rest) = Len(new) + Len(rest)
      BY <3>1, <3>2, ConcatProperties
    <3>4. Len(new \o rest) <= 2
      BY <1>3, <3>1, <3>2, <3>3
    <3>5. new \o rest \in Paths
      BY <3>3, <3>4, SeqPath
    <3> QED BY <2>1, <3>5 DEF rest
  <2>2. CASE ~ IsPrefix(old, q)
    BY <2>2
  <2> QED BY <2>1, <2>2
<1>5. DiskOK'
  <2>1. disk' \subseteq Paths
    BY <1>1, <1>2, <1>4
  <2>2. changes' \in 0..MaxChanges
    BY <1>1, FoldersAssumption DEF FInv, DiskOK, Changed
  <2> QED BY <2>1, <2>2 DEF DiskOK
<1> HIDE DEF Moved, new
<1>6. /\ nodes' = nodes /\ tree' \in [nodes -> Node] /\ tree'[h].path = new
      /\ \A r \in nodes : /\ r # h => tree'[r] = tree[r]
                          /\ tree'[r].brace = tree[r].brace
  BY <1>1, <1>3 DEF FInv, TreeOK, Node, nodes
<1>7. TreeOK'
  <2>1. TreeOK' <=> /\ nodes' \subseteq Paths /\ tree' \in [nodes' -> Node] /\ Root \in nodes'
                    /\ \A r \in nodes' :
                         /\ Len(tree'[r].path) = Len(r)
                         /\ r # Root => Front(r) \in nodes'
                         /\ tree'[r].brace = "none" => Children(nodes', r) = {}
    BY DEF TreeOK, Children
  <2>2. ASSUME NEW r \in nodes
        PROVE  /\ Len(tree'[r].path) = Len(r) /\ (r # Root => Front(r) \in nodes)
               /\ tree'[r].brace = "none" => Children(nodes, r) = {}
    BY <1>2, <1>3, <1>6, <2>2 DEF FInv, TreeOK
  <2>3. nodes \subseteq Paths /\ Root \in nodes
    BY DEF FInv, TreeOK
  <2> QED BY <1>6, <2>1, <2>2, <2>3
<1>8. PaneOK'
  <2>1. None # old /\ PaneOK
    BY <1>2, PathSeq DEF FInv
  <2> QED BY <1>1, <1>3, <2>1 DEF PaneOK, Renamed
<1>9. MarkOK'
  <2>1. ASSUME failed' # "last", renamed' # "twins", mark' # None
        PROVE  tree'[mark].path = dir'
    <3>1. mark \in nodes /\ tree[mark].path = dir /\ ~ Twins(tree)
      BY <1>1, <2>1, NamesSeenFacts DEF FInv, MarkOK, MarkIsDir, NamesOK
    <3>2. mark # h => dir # old
      BY <3>1 DEF Twins, nodes
    <3> QED BY <1>1, <1>6, <3>1, <3>2 DEF Renamed
  <2> QED BY <1>1, <1>6, <2>1 DEF FInv, MarkOK, MarkIsDir
<1>10. NamesOK' /\ renamed' # "none"
  <2>1. ASSUME renamed' = "none" PROVE FALSE
    <3>1. OwnPaths(tree') /\ old = h
      BY <2>1, NamesSeenFacts, OwnFacts DEF NamesOK
    <3>2. h \in DOMAIN tree'
      BY <1>6 DEF nodes
    <3> QED BY <1>3, <1>6, <3>1, <3>2 DEF OwnPaths
  <2> QED BY <2>1, NamesSeenFacts
<1>11. SightOK'
  BY <1>10 DEF SightOK
<1>12. AnimsOK' /\ LoadingOK'
  <2>1. LoadingOK'
    BY <1>1, <1>6 DEF FInv, LoadingOK, Children
  <2> QED BY <1>1, <1>6, <2>1, AnimsStay
<1> QED BY <1>1, <1>5, <1>7, <1>8, <1>9, <1>10, <1>11, <1>12, NoMenuOK DEF FInv

-----------------------------------------------------------------------------
(* The page as it loads. *)
LEMMA InitFInv ==
  ASSUME Init
  PROVE  FInv
<1> DEFINE N == {Root} \cup Children(Initial, Root)
<1>1. Initial \subseteq Paths /\ Root \in Initial /\ MaxChanges \in Nat
  BY FoldersAssumption
<1>2. /\ disk = Initial
      /\ tree = [p \in N |-> IF p = Root THEN [NodeFor(p) EXCEPT !.brace = "opened"]
                             ELSE NodeFor(p)]
      /\ mark = Root /\ dir = Root /\ pane = None /\ files = Root /\ timer = TRUE
      /\ anims = {} /\ loading = Idle /\ acting = NoMenu
      /\ failed = "never" /\ strayed = FALSE /\ renamed = "none" /\ changes = 0
  BY DEF Init
<1>3. N \subseteq Paths /\ Root \in N /\ \A p \in N : p # Root => Front(p) = Root
  BY <1>1 DEF Children
<1> HIDE DEF N
<1>4. \A x \in Paths : NodeFor(x) \in Node /\ NodeFor(x).path = x
  BY DEF NodeFor, Node
<1>5. /\ nodes = N /\ tree \in [N -> Node] /\ \A p \in N : tree[p].path = p
      /\ tree[Root].brace = "opened"
  <2>1. [NodeFor(Root) EXCEPT !.brace = "opened"] \in Node
        /\ [NodeFor(Root) EXCEPT !.brace = "opened"].path = Root
        /\ [NodeFor(Root) EXCEPT !.brace = "opened"].brace = "opened"
    BY <1>3, <1>4 DEF Node
  <2> QED BY <1>2, <1>3, <1>4, <2>1 DEF nodes
<1>6. TreeOK
  <2>1. ASSUME NEW p \in N, tree[p].brace = "none", NEW q \in Children(N, p) PROVE FALSE
    <3>1. q \in N /\ q # Root /\ Front(q) = p /\ p # Root
      BY <1>5, <2>1 DEF Children
    <3> QED BY <1>3, <3>1
  <2> QED BY <1>3, <1>5, <2>1 DEF TreeOK
<1>7. NamesOK /\ SightOK
  <2>1. OwnPaths(tree) /\ ~ Twins(tree)
    BY <1>5 DEF OwnPaths, Twins, nodes
  <2>2. \A p \in nodes : IsPrefix(p, Root) => p = Root
    BY <1>3, <1>5, PrefixFacts
  <2>3. Root # None
    BY <1>3, PathSeq
  <2> QED BY <1>2, <2>1, <2>2, <2>3 DEF NamesOK, SightOK
<1>8. AnimsOK /\ LoadingOK /\ PaneOK /\ MarkOK /\ MenuOK /\ DiskOK
  <2>1. MarkOK
    BY <1>2, <1>3, <1>5 DEF MarkOK, MarkIsDir
  <2>2. PaneOK
    BY <1>1, <1>2 DEF PaneOK
  <2> QED BY <1>1, <1>2, <2>1, <2>2, IdleOK
          DEF AnimsOK, LoadingOK, MenuOK, NoMenu, DiskOK
<1> QED BY <1>6, <1>7, <1>8 DEF FInv

(* Every step keeps the invariant. *)
LEMMA FInvStep ==
  ASSUME FInv, [MCNext]_<<vars, filesVars, part>>
  PROVE  FInv'
<1>1. CASE Next
  <2>1. NamesSeen
    BY <1>1 DEF Next, NamesSeen
  <2>2. Outcomes \subseteq BOOLEAN
    BY DEF Outcomes
  <2>3. CASE AnimEnd
    BY <2>1, <2>2, <2>3, OrphanEndFInv, CollapseEndFInv, DeleteDirEndFInv DEF AnimEnd
  <2>4. CASE LoadingGone \/ FilesShown \/ FileMenu \/ Ask
    BY <2>1, <2>4, LoadingGoneFInv, FilesShownFInv, MenuFInv
  <2>5. CASE \E h \in nodes : ExpandDir(h) \/ DeleteDir(h) \/ \E n \in Names : RenameDir(h, n)
    BY <2>1, <2>5, ExpandDirFInv, DeleteDirFInv, RenameDirFInv
  <2>6. CASE \E h \in nodes, ok \in Outcomes :
               ChangeDir(h, ok) \/ RefreshDir(h, ok) \/ \E n \in Names : NewDir(h, n, ok)
    BY <2>1, <2>2, <2>6, ChangeDirFInv, RefreshDirFInv, NewDirFInv
  <2>7. CASE \/ \E ok \in Outcomes : Refresh(ok) \/ LoadDirs(ok)
             \/ \E yes \in BOOLEAN, ok \in Outcomes : Answer(yes, ok)
    BY <2>1, <2>2, <2>7, RefreshFInv, LoadDirsFInv, AnswerFInv
  <2> QED BY <1>1, <2>3, <2>4, <2>5, <2>6, <2>7 DEF Next, Step
<1>2. CASE UNCHANGED vars
  <2>1. /\ UNCHANGED <<disk, tree, mark, dir, pane, files, timer, anims, loading>>
        /\ UNCHANGED <<acting, failed, strayed, renamed, changes>>
    BY <1>2 DEF vars
  <2>2. nodes' = nodes /\ TreeOK' /\ PaneOK' /\ MenuOK' /\ DiskOK' /\ LoadingOK'
    BY <2>1, TreeStays, PaneStays, MenuStays, DiskStays, LoadingStays DEF FInv
  <2>3. AnimsOK' /\ MarkOK' /\ NamesOK' /\ SightOK'
    BY <2>1, <2>2 DEF FInv, AnimsOK, MarkOK, MarkIsDir, NamesOK, SightOK, Collapsing
  <2> QED BY <2>2, <2>3 DEF FInv
<1> QED BY <1>1, <1>2 DEF MCNext

(* So it always holds. *)
LEMMA FInvAlways == MCSpec => []FInv
<1>1. MCInit => FInv
  BY InitFInv DEF MCInit
<1>2. FInv /\ [MCNext]_<<vars, filesVars, part>> => FInv'
  BY FInvStep
<1> QED BY <1>1, <1>2, PTL DEF MCSpec

\* The pane lists the files of the open folder and the mark is on it, for any folders
\* and any number of changes, animations and requests that fail.
THEOREM FolderShownAlways == MCSpec => []FolderShown
BY FInvAlways, FInvSuffices, PTL

\* No folder above the open one is left collapsed, however long what hides it takes, and
\* it is marked unless the animation of a node that was replaced opened it.
THEOREM OpenFolderInSightAlways == MCSpec => []OpenFolderInSight
BY FInvAlways, FInvSuffices, PTL

\* The "Delete" of a file's menu acts in the folder the menu was opened in.
THEOREM FileActionsStayAlways == MCSpec => []FileActionsStay
BY FInvAlways, FInvSuffices, PTL

-----------------------------------------------------------------------------
(* The names of files, and what sorting and filtering them returns.        *)

(* A name is a number, and there are finitely many.                        *)
LEMMA FileNames ==
  /\ \A n \in Files!Names : n \in Int /\ Size[n] \in Int
  /\ \A S \in SUBSET Files!Names : IsFiniteSet(S)
  /\ \A n \in Files!Names : n # 0
<1>1. Len(Size) \in Nat /\ Files!Names = 1..Len(Size) /\ \A n \in 1..Len(Size) : Size[n] \in Nat
  BY FilesAssumption DEF Files!Names
<1>2. IsFiniteSet(1..Len(Size))
  BY <1>1, FS_Interval
<1>3. \A S \in SUBSET Files!Names : IsFiniteSet(S)
  BY <1>1, <1>2, FS_Subset
<1> QED BY <1>1, <1>3

(* The operators are those of module Ordering. *)
LEMMA SameCardinality == \A S : Files!Cardinality(S) = Cardinality(S)
BY Zenon DEF Files!Cardinality, Cardinality

LEMMA SameListed == \A S, R : Files!Listed(S, R) = Listed(S, R)
BY Zenon DEF Files!Listed, Listed, Files!Place, Place, Files!Cardinality, Cardinality

LEMMA SameFiltered == \A s, T : Files!Filtered(s, T) = Filtered(s, T)
BY Zenon DEF Files!Filtered, Filtered, Files!Listed, Listed, Files!Place, Place,
   Files!Cardinality, Cardinality

LEMMA ToSetIs ==
  ASSUME NEW A, NEW s \in Seq(A)
  PROVE  Files!ToSet(s) = {s[i] : i \in 1..Len(s)} /\ Files!ToSet(s) \subseteq A
BY DEF Files!ToSet

LEMMA SeqOfMore ==
  ASSUME NEW A, NEW S \in SUBSET A, NEW s \in Seq(S)
  PROVE  s \in Seq(A)
<1>1. Len(s) \in Nat /\ s \in [1..Len(s) -> S]
  BY LenProperties
<1>2. s \in [1..Len(s) -> A]
  BY <1>1
<1> QED BY <1>1, <1>2, SeqDef

LEMMA FilteredThere ==
  ASSUME NEW A, NEW s \in Seq(A), NEW T
  PROVE  LET k == Files!Filtered(s, T)
         IN /\ k \in Seq(A \cap T) /\ k \in Seq(A)
            /\ \A i \in 1..Len(k) : k[i] \in Files!ToSet(s) /\ k[i] \in T
            /\ Once(s) => Once(k)
<1>1. Files!Filtered(s, T) = Filtered(s, T)
  BY SameFiltered
<1> DEFINE k == Filtered(s, T)
<1>2. /\ k \in Seq(A \cap T)
      /\ \A j \in 1..Len(k) : \E i \in 1..Len(s) : k[j] = s[i] /\ s[i] \in T
      /\ Once(s) => Once(k)
  BY FilteredIs
<1> HIDE DEF k
<1>3. k \in Seq(A)
  BY <1>2, SeqOfMore
<1>4. \A i \in 1..Len(k) : k[i] \in Files!ToSet(s) /\ k[i] \in T
  BY <1>2, ToSetIs
<1> QED BY <1>1, <1>2, <1>3, <1>4 DEF k

(* orderFiles' order is a total order of the names. *)
LEMMA BeforeOrders ==
  ASSUME NEW S \in SUBSET Files!Names, NEW o \in {"name", "size"}, NEW d \in BOOLEAN
  PROVE  Orders({p \in S \X S : Files!Before(p[1], p[2], o, d)}, S)
<1> DEFINE R == {p \in S \X S : Files!Before(p[1], p[2], o, d)}
<1>1. \A m, n : <<m, n>> \in R <=> m \in S /\ n \in S /\ Files!Before(m, n, o, d)
  OBVIOUS
<1>2. \A n \in S : n \in Int /\ Size[n] \in Int
  BY FileNames
<1> HIDE DEF R
<1>3. CASE o = "size"
  <2>1. ASSUME NEW m, NEW n
        PROVE  Files!Before(m, n, o, d) <=>
                 IF Size[m] = Size[n] THEN m < n
                 ELSE IF d THEN Size[m] > Size[n] ELSE Size[m] < Size[n]
    BY <1>3 DEF Files!Before, Files!Tie
  <2> QED BY <1>1, <1>2, <2>1 DEF Orders
<1>4. CASE o = "name"
  <2>1. ASSUME NEW m, NEW n
        PROVE  Files!Before(m, n, o, d) <=>
                 IF m = n THEN m < n ELSE IF d THEN m > n ELSE m < n
    BY <1>4 DEF Files!Before, Files!Tie
  <2> QED BY <1>1, <1>2, <2>1 DEF Orders
<1> QED BY <1>3, <1>4 DEF R

LEMMA SortedIs ==
  ASSUME NEW S \in SUBSET Files!Names, NEW o \in {"name", "size"}, NEW d \in BOOLEAN
  PROVE  LET s == Files!Sorted(S, o, d)
         IN /\ s \in Seq(S) /\ s \in Seq(Files!Names) /\ Once(s) /\ Files!ToSet(s) = S
            /\ \A i, j \in 1..Len(s) : i < j => Files!Before(s[i], s[j], o, d)
<1> DEFINE R == {p \in S \X S : Files!Before(p[1], p[2], o, d)}
           s == Files!Sorted(S, o, d)
<1>1. Orders(R, S) /\ IsFiniteSet(S)
  BY BeforeOrders, FileNames
<1>2. \A m, n : <<m, n>> \in R => Files!Before(m, n, o, d) /\ m # n
  BY <1>1 DEF Orders
<1>3. s = Listed(S, R)
  BY SameListed DEF Files!Sorted
<1> HIDE DEF R, s
<1>4. /\ s \in Seq(S) /\ Cardinality(S) \in Nat /\ Len(s) = Cardinality(S)
      /\ \A x \in S : \E i \in 1..Cardinality(S) : s[i] = x
      /\ \A i, j \in 1..Cardinality(S) : i < j => <<s[i], s[j]>> \in R
  BY <1>1, <1>3, ListedIs
<1>5. s \in Seq(Files!Names)
  BY <1>4, SeqOfMore
<1>6. Once(s)
  <2>1. ASSUME NEW i \in 1..Len(s), NEW j \in 1..Len(s), i < j PROVE s[i] # s[j]
    BY <1>2, <1>4, <2>1
  <2>2. \A i, j \in 1..Len(s) : i = j \/ i < j \/ j < i
    BY <1>4
  <2> SUFFICES ASSUME NEW i \in 1..Len(s), NEW j \in 1..Len(s), s[i] = s[j] PROVE i = j
    BY DEF Once
  <2> QED BY <2>1, <2>2
<1>7. Files!ToSet(s) = S
  <2>1. Files!ToSet(s) = {s[i] : i \in 1..Len(s)} /\ Files!ToSet(s) \subseteq S
    BY <1>4, ToSetIs
  <2> QED BY <1>4, <2>1
<1> QED BY <1>2, <1>4, <1>5, <1>6, <1>7 DEF s

-----------------------------------------------------------------------------
(* The inductive invariant.  The list is the server's, in the order asked   *)
(* for; it, the rows made of it and what a menu captured of the rows name   *)
(* every file once.  The entries that are the rows' own data objects, or    *)
(* that of an open menu, say the open folder, unless it has changed.        *)

\* Files of the folders F, and of no other.
Folders(F) == {D \in [Dirs -> SUBSET Files!Names] : \A d \in Dirs \ F : D[d] = {}}
Settled == ~broken /\ ~adrift

ListOK ==
  /\ disk2 \in Folders(folders2) /\ folders2 \subseteq Dirs /\ slides \in 0..MaxSlides
  /\ dir2 \in Dirs /\ broken \in BOOLEAN /\ adrift \in BOOLEAN
  /\ order \in {"name", "size"} /\ desc \in BOOLEAN
  /\ files2 \in Seq(Files!Names) /\ Once(files2)
  /\ Settled => dir2 \in folders2 /\ files2 = Files!Sorted(disk2[dir2], order, desc)

RowsOK ==
  /\ pane2 = Files!Message \/ (pane2 \in Seq(Files!Names) /\ Once(pane2))
  /\ faded \in BOOLEAN /\ selected \subseteq Files!rows /\ info \subseteq Files!Names
  /\ timers \in Seq(SUBSET Files!Names)
  /\ timers = <<>> /\ Settled => pane2 = files2 /\ ~faded
  /\ Files!InfoNamesSelection

Kinds == {"none", "file", "old", "files", "gone", "confirm", "confirmAll", "rename"}
Menus == [kind : Kinds, of : Seq(Files!Names), held : SUBSET Files!File]
OpenOK ==
  /\ opening \in BOOLEAN /\ acts \in 0..MaxActs
  /\ menu = Files!MenuOf("clip", clipboard) \/ (menu \in Menus /\ Once(menu.of))

\* Files, as opposed to entries without a name.
Named == {f \in Files!File : f.name \in Files!Names}
There(f) == f.name \in disk2[f.dir]
ClipOK ==
  /\ clipboard \in Seq(Files!File) /\ stale \subseteq Files!ToSet(clipboard)
  /\ upload = {} \/ \E f \in Named : upload = {f}
  /\ ~broken => \A f \in Files!ToSet(clipboard) \ stale : There(f)

\* Equal entries have a name of S.
OnceBut(s, S) == \A i, j \in 1..Len(s) : s[i] = s[j] => i = j \/ s[i].name \in S

\* The objects that a menu has kept of a row that is gone.
KeptBy(m) == IF m.kind = "old" THEN m.held ELSE {}
AliasOK ==
  /\ moved \subseteq Files!Names /\ shared \subseteq Files!ToSet(clipboard)
  /\ OnceBut(clipboard, moved)
  /\ \A f \in shared \cup KeptBy(menu) :
       f.name \in Files!Names /\ (f.name \in moved \/ f.dir = dir2)
  /\ menu.kind = "old" => shared = {}

FilesInv == ListOK /\ RowsOK /\ OpenOK /\ ClipOK /\ AliasOK

LEMMA FilesInvSuffices == FilesInv => FileListAgrees /\ ClipboardAgrees
<1> SUFFICES ASSUME FilesInv PROVE FileListAgrees /\ ClipboardAgrees
  OBVIOUS
<1>1. Files!FilesTypeOK
  <2>1. pane2 \in Seq(Files!Names) \cup {Files!Message}
    BY DEF FilesInv, RowsOK
  <2>2. /\ menu.kind \in {"none", "file", "old", "files", "gone", "confirm", "confirmAll", "clip",
                          "rename"}
        /\ menu.held \subseteq Files!File
        /\ IF menu.kind = "clip" THEN menu.of \in Seq(Files!File)
                                ELSE menu.of \in Seq(Files!Names)
    <3>1. CASE menu = Files!MenuOf("clip", clipboard)
      BY <3>1 DEF FilesInv, ClipOK, Files!MenuOf
    <3>2. CASE menu \in Menus
      BY <3>2 DEF Menus, Kinds
    <3> QED BY <3>1, <3>2 DEF FilesInv, OpenOK
  <2>3. upload \subseteq Files!File /\ Files!Cardinality(upload) \in 0..1
    <3>1. \A f : Cardinality({f}) = 1
      BY FS_Singleton
    <3>2. Cardinality({}) = 0
      BY FS_EmptySet
    <3>3. upload = {} \/ \E f \in Named : upload = {f}
      BY DEF FilesInv, ClipOK
    <3>4. Files!Cardinality(upload) \in {0, 1}
      BY <3>1, <3>2, <3>3, SameCardinality
    <3> QED BY <3>3, <3>4 DEF Named
  <2>4. /\ opening \in BOOLEAN /\ acts \in 0..MaxActs /\ clipboard \in Seq(Files!File)
        /\ stale \subseteq Files!ToSet(clipboard)
        /\ moved \subseteq Files!Names /\ shared \subseteq Files!ToSet(clipboard)
    BY DEF FilesInv, OpenOK, ClipOK, AliasOK
  <2> QED BY <2>1, <2>2, <2>3, <2>4 DEF FilesInv, ListOK, RowsOK, Folders, Files!FilesTypeOK
<1>2. Files!PaneFresh
  <2> SUFFICES ASSUME timers = <<>>, ~broken, ~adrift
               PROVE  /\ dir2 \in folders2 /\ pane2 = files2 /\ ~faded
                      /\ Files!ToSet(pane2) = disk2[dir2]
                      /\ \A i \in DOMAIN pane2 : \A j \in (i + 1)..Len(pane2) :
                           /\ order = "name" => (pane2[i] > pane2[j]) = desc
                           /\ order = "size" =>
                                \/ (Size[pane2[i]] > Size[pane2[j]]) = desc
                                   /\ Size[pane2[i]] # Size[pane2[j]]
                                \/ Size[pane2[i]] = Size[pane2[j]] /\ pane2[i] < pane2[j]
    BY DEF Files!PaneFresh
  <2>1. pane2 = files2 /\ ~faded
    BY DEF FilesInv, RowsOK, Settled
  <2>2. /\ disk2[dir2] \in SUBSET Files!Names /\ dir2 \in folders2
        /\ pane2 = Files!Sorted(disk2[dir2], order, desc)
        /\ order \in {"name", "size"} /\ desc \in BOOLEAN
    BY <2>1 DEF FilesInv, ListOK, Folders, Settled
  <2>3. /\ pane2 \in Seq(Files!Names) /\ Once(pane2) /\ Files!ToSet(pane2) = disk2[dir2]
        /\ \A i, j \in 1..Len(pane2) : i < j => Files!Before(pane2[i], pane2[j], order, desc)
    BY <2>2, SortedIs
  <2>4. ASSUME NEW i \in DOMAIN pane2, NEW j \in (i + 1)..Len(pane2)
        PROVE  /\ order = "name" => (pane2[i] > pane2[j]) = desc
               /\ order = "size" =>
                    \/ (Size[pane2[i]] > Size[pane2[j]]) = desc
                       /\ Size[pane2[i]] # Size[pane2[j]]
                    \/ Size[pane2[i]] = Size[pane2[j]] /\ pane2[i] < pane2[j]
    <3>1. i \in 1..Len(pane2) /\ j \in 1..Len(pane2) /\ i < j
      BY <2>3
    <3>2. /\ Files!Before(pane2[i], pane2[j], order, desc) /\ pane2[i] # pane2[j]
          /\ pane2[i] \in Files!Names /\ pane2[j] \in Files!Names
      BY <2>3, <3>1 DEF Once
    <3>3. /\ pane2[i] \in Int /\ pane2[j] \in Int
          /\ Size[pane2[i]] \in Int /\ Size[pane2[j]] \in Int
      BY <3>2, FileNames
    <3> QED BY <2>2, <3>2, <3>3 DEF Files!Before, Files!Tie
  <2> QED BY <2>1, <2>2, <2>3, <2>4
<1>3. Files!InfoNamesSelection
  BY DEF FilesInv, RowsOK
<1>4. Files!IndexIsEntry
  <2>1. CASE menu \in Menus
    BY <2>1 DEF Menus, Kinds, Files!IndexIsEntry
  <2>2. CASE menu = Files!MenuOf("clip", clipboard)
    BY <2>2 DEF Files!MenuOf, Files!IndexIsEntry
  <2> QED BY <2>1, <2>2 DEF FilesInv, OpenOK
<1>5. Files!EntriesOnce
  <2>1. DOMAIN clipboard = 1..Len(clipboard) /\ OnceBut(clipboard, moved)
    BY DEF FilesInv, ClipOK, AliasOK
  <2> QED BY <2>1 DEF OnceBut, Files!EntriesOnce
<1>6. Files!ClipboardExists
  BY DEF FilesInv, ClipOK, There, Files!ClipboardExists, Files!OnDisk, Files!Clip
<1> QED BY <1>1, <1>2, <1>3, <1>4, <1>5, <1>6 DEF FileListAgrees, ClipboardAgrees

-----------------------------------------------------------------------------
(* What the steps do to the list and the rows.                             *)

\* The list is not read again: its folder has the files it had, or there is no telling.
ListKept ==
  /\ disk2' \in Folders(folders2') /\ folders2' \subseteq Dirs /\ slides' \in 0..MaxSlides /\ dir2' \in Dirs
  /\ UNCHANGED <<files2, order, desc>>
  /\ (broken' = broken \/ broken' = TRUE) /\ (adrift' = adrift \/ adrift' = TRUE)
  /\ Settled /\ Settled' => dir2' \in folders2' /\ disk2'[dir2'] = disk2[dir2]

LEMMA Unsettled ==
  ASSUME FilesInv, broken' = broken \/ broken' = TRUE, adrift' = adrift \/ adrift' = TRUE
  PROVE  /\ broken' \in BOOLEAN /\ adrift' \in BOOLEAN /\ (Settled' => Settled)
         /\ (broken' = TRUE \/ adrift' = TRUE => ~Settled')
<1>1. broken \in BOOLEAN /\ adrift \in BOOLEAN
  BY DEF FilesInv, ListOK
<1>2. (~broken' => ~broken) /\ (~adrift' => ~adrift)
  <2>1. ~broken' => ~broken
    OBVIOUS
  <2>2. ~adrift' => ~adrift
    OBVIOUS
  <2> QED BY <2>1, <2>2
<1>3. Settled' <=> ~broken' /\ ~adrift'
  BY DEF Settled
<1>4. Settled' => Settled
  BY <1>2, <1>3 DEF Settled
<1>5. broken' = TRUE \/ adrift' = TRUE => ~Settled'
  BY <1>3
<1>6. broken' \in BOOLEAN
  BY <1>1
<1>7. adrift' \in BOOLEAN
  BY <1>1
<1> QED BY <1>4, <1>5, <1>6, <1>7

LEMMA ListKeptOK ==
  ASSUME FilesInv, ListKept
  PROVE  ListOK'
<1>1. Once(files2') /\ files2' \in Seq(Files!Names)
  BY DEF FilesInv, ListKept, ListOK, Once
<1>2. broken' \in BOOLEAN /\ adrift' \in BOOLEAN /\ (Settled' => Settled)
  BY Unsettled DEF ListKept
<1>3. Settled' => dir2' \in folders2' /\ files2' = Files!Sorted(disk2'[dir2'], order', desc')
  BY <1>2 DEF FilesInv, ListKept, ListOK
<1> QED BY <1>1, <1>2, <1>3 DEF FilesInv, ListKept, ListOK

\* Nothing is done to the folders and the list.
ListStays ==
  UNCHANGED <<disk2, folders2, slides, dir2, files2, order, desc, broken, adrift>>

LEMMA ListStaysOK ==
  ASSUME FilesInv, ListStays
  PROVE  ListOK' /\ (Settled' <=> Settled)
BY DEF FilesInv, ListOK, ListStays, Once, Settled, Folders

\* The rows stay, though they may lose their grey.
RowsKept ==
  UNCHANGED <<files2, pane2, selected, info, timers>> /\ (faded' = faded \/ faded' = FALSE)

LEMMA RowsKeptOK ==
  ASSUME FilesInv, RowsKept, Settled' => Settled
  PROVE  RowsOK'
<1>1. Files!rows' = Files!rows /\ Once(pane2)' = Once(pane2)
  BY DEF RowsKept, Files!rows, Once
<1>2. faded' \in BOOLEAN /\ (~faded => ~faded')
  <2>1. faded \in BOOLEAN /\ (faded' = faded \/ faded' = FALSE)
    BY DEF FilesInv, RowsKept, RowsOK
  <2>2. CASE faded' = faded
    BY <2>1, <2>2
  <2>3. CASE faded' = FALSE
    BY <2>1, <2>3
  <2> QED BY <2>1, <2>2, <2>3
<1>3. timers' = <<>> /\ Settled' => pane2' = files2' /\ ~faded'
  BY <1>2 DEF FilesInv, RowsKept, RowsOK
<1>4. Files!InfoNamesSelection'
  BY DEF FilesInv, RowsKept, RowsOK, Files!InfoNamesSelection
<1> QED BY <1>1, <1>2, <1>3, <1>4 DEF FilesInv, RowsKept, RowsOK

\* An error message takes the place of the rows.
LEMMA MessageOK ==
  ASSUME FilesInv, UNCHANGED <<info, timers>>, Files!EmptyPane, ~Settled'
  PROVE  RowsOK'
BY DEF FilesInv, RowsOK, Files!rows, Files!InfoNamesSelection, Files!EmptyPane

\* The list of a folder is shown: it is sorted at once, its rows come by a timer.
Shown(sel) ==
  /\ disk2' \in Folders(folders2) /\ dir2' \in Dirs /\ broken' = broken
  /\ folders2' = folders2 /\ slides' \in 0..MaxSlides
  /\ (adrift' = adrift \/ adrift' = FALSE)
  /\ order' \in {"name", "size"} /\ desc' \in BOOLEAN
  /\ sel \in SUBSET Files!Names /\ timers' = Append(timers, sel) /\ info' = {}
  /\ faded' \in BOOLEAN
  /\ \/ UNCHANGED <<pane2, selected>>
     \/ pane2' = Files!Message /\ selected' = {}
  /\ \E S \in SUBSET Files!Names :
       /\ files2' = Files!Sorted(S, order', desc')
       /\ Settled' => dir2' \in folders2 /\ S = disk2'[dir2']

LEMMA ShownOK ==
  ASSUME FilesInv, NEW sel, Shown(sel)
  PROVE  ListOK' /\ RowsOK'
<1>1. ListOK'
  <2>1. PICK S \in SUBSET Files!Names :
          /\ files2' = Files!Sorted(S, order', desc')
          /\ Settled' => dir2' \in folders2 /\ S = disk2'[dir2']
    BY DEF Shown
  <2>2. files2' \in Seq(Files!Names) /\ Once(files2')
    BY <2>1, SortedIs DEF Shown
  <2>3. adrift' \in BOOLEAN /\ broken' \in BOOLEAN
    <3>1. adrift \in BOOLEAN /\ broken \in BOOLEAN
      BY DEF FilesInv, ListOK
    <3>2. adrift' = adrift \/ adrift' = FALSE
      BY DEF Shown
    <3>3. broken' = broken
      BY DEF Shown
    <3>4. adrift' \in BOOLEAN
      BY <3>1, <3>2
    <3> QED BY <3>1, <3>3, <3>4
  <2>4. folders2' \subseteq Dirs /\ slides' \in 0..MaxSlides
    BY DEF Shown, FilesInv, ListOK
  <2>5. Settled' => dir2' \in folders2' /\ files2' = Files!Sorted(disk2'[dir2'], order', desc')
    BY <2>1 DEF Shown
  <2> QED BY <2>2, <2>3, <2>4, <2>5 DEF Shown, ListOK, Once
<1>2. timers' \in Seq(SUBSET Files!Names) /\ timers' # <<>>
  <2>1. timers \in Seq(SUBSET Files!Names) /\ timers' = Append(timers, sel)
        /\ sel \in SUBSET Files!Names
    BY DEF Shown, FilesInv, RowsOK
  <2> QED BY <2>1
<1>3. ASSUME UNCHANGED <<pane2, selected>> PROVE RowsOK'
  <2>1. Files!rows' = Files!rows /\ Once(pane2)' = Once(pane2)
    BY <1>3 DEF Files!rows, Once
  <2>2. Files!InfoNamesSelection'
    BY DEF Shown, Files!InfoNamesSelection
  <2> QED BY <1>2, <1>3, <2>1, <2>2 DEF Shown, FilesInv, RowsOK
<1>4. ASSUME pane2' = Files!Message, selected' = {} PROVE RowsOK'
  <2>1. Files!InfoNamesSelection' /\ Files!rows' = {}
    BY <1>4 DEF Shown, Files!InfoNamesSelection, Files!rows
  <2> QED BY <1>2, <1>4, <2>1 DEF Shown, FilesInv, RowsOK, Files!Message
<1> QED BY <1>1, <1>3, <1>4 DEF Shown

\* The rows' objects that are still entries.
SharedLess == shared' \subseteq shared /\ shared' \subseteq Files!ToSet(clipboard')

(* refresh, answered or not. *)
LEMMA RefreshFilesOK ==
  ASSUME FilesInv, NEW D \in Folders(folders2), disk2' = D, NEW sel \in SUBSET Files!Names,
         Files!Refresh(D, sel), UNCHANGED <<order, desc, folders2, slides>>
  PROVE  /\ ListOK' /\ RowsOK' /\ dir2' = dir2 /\ (broken' = broken \/ broken' = TRUE)
         /\ SharedLess
<1>1. dir2' = dir2
  BY DEF Files!Refresh
<1>2. CASE /\ dir2 \in folders2 /\ Files!OrderFiles(D[dir2], sel, order, desc)
           /\ adrift' = FALSE /\ Files!StillShared /\ UNCHANGED broken
  <2>1. D[dir2] \in SUBSET Files!Names
    BY DEF FilesInv, ListOK, Folders
  <2>2. SharedLess
    BY <1>2 DEF SharedLess, Files!StillShared
  <2>3. Shown(sel)
    BY <1>1, <1>2, <2>1 DEF FilesInv, ListOK, Shown, Files!OrderFiles
  <2> QED BY <1>1, <1>2, <2>2, <2>3, ShownOK
<1>3. CASE /\ dir2 \notin folders2 /\ faded' = FALSE /\ Files!StillShared
           /\ UNCHANGED <<files2, pane2, selected, info, timers, adrift, broken>>
  <2>1. ~Settled /\ (Settled' <=> Settled)
    BY <1>3 DEF FilesInv, ListOK, Settled
  <2>2. SharedLess
    BY <1>3 DEF SharedLess, Files!StillShared
  <2>3. ListKept /\ RowsKept
    BY <1>1, <1>3, <2>1 DEF ListKept, RowsKept, FilesInv, ListOK
  <2> QED BY <1>1, <1>3, <2>1, <2>2, <2>3, ListKeptOK, RowsKeptOK
<1>4. CASE /\ ~broken /\ broken' = TRUE
           /\ Files!EmptyPane /\ UNCHANGED <<files2, info, timers, adrift>>
  <2>1. ~Settled'
    BY <1>4, Unsettled
  <2>2. SharedLess
    BY <1>4 DEF SharedLess, Files!EmptyPane
  <2>3. ListKept
    BY <1>1, <1>4, <2>1 DEF ListKept, FilesInv, ListOK
  <2> QED BY <1>1, <1>4, <2>1, <2>2, <2>3, ListKeptOK, MessageOK
<1> QED BY <1>2, <1>3, <1>4 DEF Files!Refresh

-----------------------------------------------------------------------------
(* What the steps do to the clipboard.                                     *)

\* The entries stay or all go; those that stay are outdated no less than they were.
EntriesKept ==
  \/ clipboard' = <<>> /\ stale' = {}
  \/ clipboard' = clipboard /\ stale \subseteq stale' /\ stale' \subseteq Files!ToSet(clipboard)

\* And the files that they name stay.
ClipKept ==
  /\ EntriesKept
  /\ upload' = {} \/ \E f \in Named : upload' = {f}
  /\ (broken' = broken \/ broken' = TRUE)
  /\ ~broken' /\ clipboard' # <<>> =>
       \A f \in Files!ToSet(clipboard) \ stale' : There(f) => There(f)'

LEMMA NoEntries == Files!ToSet(<<>>) = {} /\ <<>> \in Seq(Files!File)
                   /\ \A S : OnceBut(<<>>, S)
BY DEF Files!ToSet, OnceBut

LEMMA ClipKeptOK ==
  ASSUME FilesInv, ClipKept
  PROVE  ClipOK'
<1>1. CASE clipboard' = <<>> /\ stale' = {}
  <2>1. Files!ToSet(clipboard') = {} /\ clipboard' \in Seq(Files!File)
    BY <1>1, NoEntries
  <2> QED BY <1>1, <2>1 DEF ClipKept, ClipOK, There
<1>2. CASE clipboard' = clipboard /\ clipboard' # <<>> /\ stale \subseteq stale'
           /\ stale' \subseteq Files!ToSet(clipboard)
  <2>1. Files!ToSet(clipboard)' = Files!ToSet(clipboard)
    BY <1>2 DEF Files!ToSet
  <2>2. upload' = {} \/ \E f \in Named : upload' = {f}
    BY DEF ClipKept
  <2>3. ASSUME ~broken', NEW f \in Files!ToSet(clipboard) \ stale' PROVE There(f)'
    <3>1. ~broken
      BY <2>3 DEF ClipKept
    <3>2. There(f)
      BY <1>2, <2>3, <3>1 DEF FilesInv, ClipOK
    <3> QED BY <1>2, <2>3, <3>2 DEF ClipKept
  <2> QED BY <1>2, <2>1, <2>2, <2>3 DEF FilesInv, ClipOK
<1>3. CASE clipboard' = <<>> /\ clipboard' = clipboard /\ stale' \subseteq Files!ToSet(clipboard)
  <2>1. stale' = {}
    BY <1>3, NoEntries
  <2> QED BY <1>1, <1>3, <2>1
<1> QED BY <1>1, <1>2, <1>3 DEF ClipKept, EntriesKept

\* Outdating entries.
LEMMA OutdatedKept ==
  ASSUME FilesInv, NEW S, Files!Outdated(S), clipboard' = <<>> \/ clipboard' = clipboard
  PROVE  /\ EntriesKept
         /\ clipboard' # <<>> => \A f \in Files!ToSet(clipboard) : f \in S => f \in stale'
<1>1. stale \subseteq Files!ToSet(clipboard)
  BY DEF FilesInv, ClipOK
<1>2. stale' = (stale \cup S) \cap Files!ToSet(clipboard')
  BY DEF Files!Outdated
<1>3. CASE clipboard' = <<>>
  <2>1. stale' = {}
    BY <1>2, <1>3, NoEntries
  <2> QED BY <1>3, <2>1 DEF EntriesKept
<1>4. CASE clipboard' = clipboard
  <2>1. Files!ToSet(clipboard') = Files!ToSet(clipboard)
    BY <1>4
  <2> QED BY <1>1, <1>2, <1>4, <2>1 DEF EntriesKept
<1> QED BY <1>3, <1>4

\* The rows' and the menu's objects stay, or are no longer those of entries.
AliasKept ==
  /\ clipboard' = <<>> \/ clipboard' = clipboard
  /\ SharedLess
  /\ KeptBy(menu') \subseteq shared \cup KeptBy(menu)
  /\ menu'.kind = "old" => shared' = {}
  /\ moved \subseteq moved' /\ moved' \subseteq Files!Names
  /\ dir2' = dir2 \/ \A f \in shared' \cup KeptBy(menu') : f.name \in moved'

LEMMA AliasKeptOK ==
  ASSUME FilesInv, AliasKept
  PROVE  AliasOK'
<1>1. OnceBut(clipboard', moved')
  <2>1. CASE clipboard' = <<>>
    BY <2>1, NoEntries
  <2>2. CASE clipboard' = clipboard
    BY <2>2 DEF FilesInv, AliasOK, AliasKept, OnceBut
  <2> QED BY <2>1, <2>2 DEF AliasKept
<1>2. ASSUME NEW f \in shared' \cup KeptBy(menu')
      PROVE  f.name \in Files!Names /\ (f.name \in moved' \/ f.dir = dir2')
  <2>1. f \in shared \cup KeptBy(menu)
    BY <1>2 DEF AliasKept, SharedLess
  <2>2. f.name \in Files!Names /\ (f.name \in moved \/ f.dir = dir2)
    BY <2>1 DEF FilesInv, AliasOK
  <2> QED BY <1>2, <2>2 DEF AliasKept
<1>3. moved' \subseteq Files!Names /\ shared' \subseteq Files!ToSet(clipboard')
  BY DEF AliasKept, SharedLess
<1>4. /\ OnceBut(clipboard, moved)' = OnceBut(clipboard', moved')
      /\ Files!ToSet(clipboard)' = Files!ToSet(clipboard')
      /\ KeptBy(menu)' = KeptBy(menu')
  BY DEF OnceBut, Files!ToSet, KeptBy
<1>5. menu'.kind = "old" => shared' = {}
  BY DEF AliasKept
<1> QED BY <1>1, <1>2, <1>3, <1>4, <1>5 DEF AliasOK

\* The menu is closed and no folder changed.
LEMMA ClosedAlias ==
  ASSUME FilesInv, clipboard' = <<>> \/ clipboard' = clipboard, SharedLess, menu' = Files!NoMenu,
         moved' = moved, dir2' = dir2
  PROVE  AliasOK'
<1>1. KeptBy(menu') = {} /\ menu'.kind # "old"
  BY DEF KeptBy, Files!NoMenu
<1>2. moved' \subseteq Files!Names
  BY DEF FilesInv, AliasOK
<1> QED BY <1>1, <1>2, AliasKeptOK DEF AliasKept

\* The objects and the entries stay as they are.
LEMMA SharedSame ==
  ASSUME FilesInv, UNCHANGED <<shared, clipboard>>
  PROVE  SharedLess
BY DEF SharedLess, FilesInv, AliasOK, Files!ToSet

LEMMA SharedNone ==
  ASSUME shared' = {}
  PROVE  SharedLess
BY DEF SharedLess

\* A menu is closed.
LEMMA MenuClosed ==
  ASSUME FilesInv, menu' = Files!NoMenu, opening' \in BOOLEAN, acts' \in {acts, acts + 1},
         acts' <= MaxActs
  PROVE  OpenOK'
<1>1. acts' \in 0..MaxActs
  BY FilesAssumption DEF FilesInv, OpenOK
<1>2. Files!NoMenu \in Menus /\ Once(Files!NoMenu.of)
  BY DEF Once, Kinds, Menus, Files!NoMenu
<1>3. menu' \in Menus /\ Once(menu'.of)
  BY <1>2
<1>4. Once(menu.of)' = Once(menu'.of)
  BY DEF Once
<1> QED BY <1>1, <1>3, <1>4 DEF OpenOK

\* A menu or a question about rows that are named once.
LEMMA MenuOpened ==
  ASSUME FilesInv, menu' \in Menus, Once(menu'.of), opening' \in BOOLEAN, acts' = acts
  PROVE  OpenOK'
<1>1. acts' \in 0..MaxActs
  BY DEF FilesInv, OpenOK
<1>2. Once(menu.of)' = Once(menu'.of)
  BY DEF Once
<1> QED BY <1>1, <1>2 DEF OpenOK

\* The menu is as it was, or has lost its rows.
LEMMA FilesMenuStays ==
  ASSUME FilesInv, UNCHANGED <<clipboard, opening, acts>>,
         menu' = menu \/ menu' = Files!RowsGo(menu)
  PROVE  OpenOK' /\ KeptBy(menu') \subseteq shared \cup KeptBy(menu)
<1> DEFINE held == {f \in shared : f.name = menu.of[1]}
<1>1. shared \subseteq Files!File
  BY ToSetIs DEF FilesInv, ClipOK, AliasOK
<1>2. CASE menu' = menu
  BY <1>2 DEF FilesInv, OpenOK, Once
<1>3. CASE menu' # menu /\ menu' = Files!RowsGo(menu)
  <2>1. CASE menu.kind = "file"
    <3>1. menu' = [menu EXCEPT !.kind = "old", !.held = held]
      BY <1>3, <2>1 DEF Files!RowsGo
    <3>2. menu \in Menus /\ Once(menu.of)
      BY <2>1 DEF FilesInv, OpenOK, Files!MenuOf
    <3>3. held \subseteq Files!File /\ held \subseteq shared
      BY <1>1
    <3> HIDE DEF held
    <3>4. menu' \in Menus /\ menu'.of = menu.of /\ KeptBy(menu') = held
      BY <3>1, <3>2, <3>3 DEF Menus, Kinds, KeptBy
    <3> QED BY <3>2, <3>3, <3>4, MenuOpened DEF FilesInv, OpenOK
  <2>2. CASE menu.kind = "files"
    <3>1. menu' = [menu EXCEPT !.kind = "gone"]
      BY <1>3, <2>2 DEF Files!RowsGo
    <3>2. menu \in Menus /\ Once(menu.of)
      BY <2>2 DEF FilesInv, OpenOK, Files!MenuOf
    <3>3. menu' \in Menus /\ menu'.of = menu.of /\ KeptBy(menu') = {}
      BY <3>1, <3>2 DEF Menus, Kinds, KeptBy
    <3> QED BY <3>2, <3>3, MenuOpened DEF FilesInv, OpenOK
  <2>3. CASE menu.kind \notin {"file", "files"}
    BY <1>3, <2>3 DEF Files!RowsGo
  <2> QED BY <2>1, <2>2, <2>3
<1> QED BY <1>2, <1>3

-----------------------------------------------------------------------------
(* One lemma for every kind of step.                                       *)

\* Nothing of the clipboard and the disk changes.
Browsing ==
  /\ UNCHANGED <<disk2, clipboard, upload, stale>>
  /\ (broken' = broken \/ broken' = TRUE)

LEMMA BrowsingClip ==
  ASSUME FilesInv, Browsing
  PROVE  ClipOK'
<1>1. /\ stale \subseteq Files!ToSet(clipboard)
      /\ upload = {} \/ \E f \in Named : upload = {f}
  BY DEF FilesInv, ClipOK
<1>2. ClipKept
  BY <1>1 DEF Browsing, ClipKept, EntriesKept, There
<1> QED BY <1>2, ClipKeptOK

TreeKept == UNCHANGED <<folders2, slides, moved>>
LEMMA TreeKeptIs == UNCHANGED Files!treeVars => TreeKept
BY DEF Files!treeVars, TreeKept

LEMMA PageKeptIs ==
  UNCHANGED Files!pageVars =>
    UNCHANGED <<dir2, files2, pane2, faded, selected, info, timers, shared, adrift>>
BY DEF Files!pageVars, Files!rowVars

\* The timer puts the rows of the list.
LEMMA RowsShownInv ==
  ASSUME FilesInv, Files!FilesShown, TreeKept
  PROVE  FilesInv'
<1>1. ListOK' /\ (Settled' <=> Settled)
  <2>1. ListStays
    BY DEF Files!FilesShown, ListStays, TreeKept
  <2> QED BY <2>1, ListStaysOK
<1>2. RowsOK'
  <2>1. timers \in Seq(SUBSET Files!Names) /\ timers # <<>>
    BY DEF Files!FilesShown, FilesInv, RowsOK
  <2>2. timers' \in Seq(SUBSET Files!Names)
    BY <2>1 DEF Files!FilesShown
  <2>3. files2 \in Seq(Files!Names) /\ Once(files2)
    BY DEF FilesInv, ListOK
  <2>4. files2 # Files!Message
    <3>1. Files!Message = <<0>> /\ Len(Files!Message) = 1 /\ Files!Message[1] = 0
      BY DEF Files!Message
    <3>2. ASSUME files2 = Files!Message PROVE FALSE
      <4>1. files2[1] \in Files!Names
        BY <2>3, <3>1, <3>2
      <4> QED BY <3>1, <3>2, <4>1, FileNames
    <3> QED BY <3>2
  <2>5. pane2' = files2 /\ Files!rows' = Files!ToSet(files2)
    BY <2>4 DEF Files!FilesShown, Files!rows, Files!ToSet
  <2>6. selected' \subseteq Files!rows'
    BY <2>5 DEF Files!FilesShown, Files!SelectedRows
  <2>7. info' = {} /\ faded' = FALSE /\ files2' = files2
    BY DEF Files!FilesShown, Files!InfoAfterTimer
  <2>8. Files!InfoNamesSelection'
    BY <2>7 DEF Files!InfoNamesSelection
  <2> QED BY <2>2, <2>3, <2>5, <2>6, <2>7, <2>8 DEF RowsOK, Once
<1>3. ClipOK'
  BY BrowsingClip DEF Files!FilesShown, Browsing
<1>4. UNCHANGED <<clipboard, opening, acts, dir2, moved>> /\ menu' = Files!RowsGo(menu)
      /\ shared' = {} /\ moved' \subseteq Files!Names
  BY DEF Files!FilesShown, TreeKept, FilesInv, AliasOK
<1>5. OpenOK' /\ KeptBy(menu') \subseteq shared \cup KeptBy(menu)
  BY <1>4, FilesMenuStays
<1>6. AliasOK'
  BY <1>4, <1>5, AliasKeptOK, SharedNone DEF AliasKept
<1> QED BY <1>1, <1>2, <1>3, <1>5, <1>6 DEF FilesInv

\* changeDir, whatever its answer: there are no rows that could be entries.
LEMMA OpenDirOK ==
  ASSUME FilesInv, NEW d \in Dirs, Files!OpenDir(d), UNCHANGED <<disk2, folders2, order, desc>>,
         slides' \in 0..MaxSlides
  PROVE  /\ ListOK' /\ RowsOK' /\ SharedLess /\ shared' = {}
         /\ (broken' = broken \/ broken' = TRUE)
<1>1. Files!EmptyPane /\ shared' = {}
  BY DEF Files!OpenDir, Files!EmptyPane
<1>2. SharedLess
  BY <1>1, SharedNone
<1>3. disk2 \in Folders(folders2) /\ disk2[d] \in SUBSET Files!Names /\ folders2 \subseteq Dirs
      /\ dir2 \in Dirs
  BY DEF FilesInv, ListOK, Folders
<1>4. CASE /\ d \in folders2 /\ dir2' = d /\ adrift' = FALSE /\ Len(timers) < MaxTimers
           /\ files2' = Files!Sorted(disk2[d], order, desc) /\ timers' = Append(timers, {})
           /\ info' = {} /\ UNCHANGED broken
  <2>1. Shown({})
    BY <1>1, <1>3, <1>4 DEF FilesInv, ListOK, Shown, Files!EmptyPane
  <2> QED BY <1>1, <1>2, <1>4, <2>1, ShownOK
<1>5. CASE /\ d \notin folders2 /\ adrift' = TRUE
           /\ UNCHANGED <<dir2, files2, info, timers, broken>>
  <2>1. ~Settled'
    BY <1>5, Unsettled
  <2>2. ListKept
    BY <1>3, <1>5, <2>1 DEF ListKept
  <2> QED BY <1>1, <1>2, <1>5, <2>1, <2>2, ListKeptOK, MessageOK
<1>6. CASE /\ ~broken /\ broken' = TRUE
           /\ UNCHANGED <<dir2, files2, info, timers, adrift>>
  <2>1. ~Settled'
    BY <1>6, Unsettled
  <2>2. ListKept
    BY <1>3, <1>6, <2>1 DEF ListKept
  <2> QED BY <1>1, <1>2, <1>6, <2>1, <2>2, ListKeptOK, MessageOK
<1> QED BY <1>4, <1>5, <1>6 DEF Files!OpenDir

LEMMA ChangeDirOK ==
  ASSUME FilesInv, NEW d \in Dirs, Files!ChangeDir(d), TreeKept
  PROVE  FilesInv'
<1>1. /\ Files!Click /\ Files!OpenDir(d)
      /\ UNCHANGED <<disk2, order, desc, clipboard, opening, upload, stale, acts>>
  BY DEF Files!ChangeDir
<1>2. OpenOK' /\ menu' = Files!NoMenu
  BY <1>1, MenuClosed, FilesAssumption DEF Files!Click, FilesInv, OpenOK
<1>3. slides' \in 0..MaxSlides /\ folders2' = folders2
  BY DEF TreeKept, FilesInv, ListOK
<1>4. ListOK' /\ RowsOK' /\ SharedLess /\ shared' = {} /\ (broken' = broken \/ broken' = TRUE)
  BY <1>1, <1>3, OpenDirOK
<1>5. KeptBy(menu') = {} /\ menu'.kind # "old" /\ moved' = moved /\ moved' \subseteq Files!Names
  BY <1>2 DEF KeptBy, Files!NoMenu, TreeKept, FilesInv, AliasOK
<1>6. AliasOK'
  BY <1>1, <1>4, <1>5, AliasKeptOK DEF AliasKept
<1> QED BY <1>1, <1>2, <1>4, <1>6, BrowsingClip DEF Browsing, FilesInv

LEMMA PressRefreshOK ==
  ASSUME FilesInv, Files!PressRefresh, TreeKept
  PROVE  FilesInv'
<1>1. /\ Files!Click /\ UNCHANGED clipboard /\ Files!Refresh(disk2, {})
      /\ UNCHANGED <<disk2, order, desc, opening, upload, stale, acts>>
  BY DEF Files!PressRefresh
<1>2. OpenOK' /\ menu' = Files!NoMenu
  BY <1>1, MenuClosed, FilesAssumption DEF Files!Click, FilesInv, OpenOK
<1>3. disk2 \in Folders(folders2) /\ moved' = moved /\ UNCHANGED <<folders2, slides>>
  BY DEF FilesInv, ListOK, TreeKept
<1>4. /\ ListOK' /\ RowsOK' /\ (broken' = broken \/ broken' = TRUE)
      /\ SharedLess /\ dir2' = dir2
  BY <1>1, <1>3, RefreshFilesOK
<1>5. AliasOK'
  BY <1>1, <1>2, <1>3, <1>4, ClosedAlias
<1> QED BY <1>1, <1>2, <1>4, <1>5, BrowsingClip DEF Browsing, FilesInv

LEMMA SetOrderOK ==
  ASSUME FilesInv, NEW o \in {"name", "size"}, NEW d \in BOOLEAN, Files!SetOrder(o, d), TreeKept
  PROVE  FilesInv'
<1>1. /\ Files!Click /\ Files!Acted /\ order' = o /\ desc' = d
      /\ Files!OrderFiles(Files!ToSet(files2), {}, o, d)
      /\ UNCHANGED <<disk2, dir2, shared, adrift, clipboard, opening, upload, broken, stale>>
  BY DEF Files!SetOrder
<1>2. OpenOK' /\ menu' = Files!NoMenu
  <2>1. acts' = acts + 1 /\ acts' <= MaxActs
    BY <1>1, FilesAssumption DEF Files!Acted, FilesInv, OpenOK
  <2> QED BY <1>1, <2>1, MenuClosed DEF Files!Click, FilesInv, OpenOK
<1>3. disk2[dir2] \in SUBSET Files!Names /\ Files!ToSet(files2) \in SUBSET Files!Names
  BY ToSetIs DEF FilesInv, ListOK, Folders
<1>4. Settled => Files!ToSet(files2) = disk2[dir2] /\ dir2 \in folders2
  BY <1>3, SortedIs DEF FilesInv, ListOK
<1>5. moved' = moved /\ folders2' = folders2 /\ slides' \in 0..MaxSlides
  BY DEF TreeKept, FilesInv, ListOK
<1>6. Settled' <=> Settled
  BY <1>1 DEF Settled
<1>7. Shown({})
  BY <1>1, <1>3, <1>4, <1>5, <1>6 DEF FilesInv, ListOK, Shown, Files!OrderFiles
<1>8. AliasOK'
  BY <1>1, <1>2, <1>5, ClosedAlias, SharedSame
<1> QED BY <1>1, <1>2, <1>7, <1>8, ShownOK, BrowsingClip DEF Browsing, FilesInv

\* The rows are those of files, as long as there is no message.
LEMMA RowsAreFiles ==
  ASSUME FilesInv
  PROVE  /\ Files!rows \subseteq Files!Names
         /\ Files!rows # {} => /\ pane2 \in Seq(Files!Names) /\ Once(pane2)
                               /\ pane2 # Files!Message /\ Files!rows = Files!ToSet(pane2)
<1>1. CASE pane2 = Files!Message
  BY <1>1 DEF Files!rows
<1>2. CASE pane2 # Files!Message
  <2>1. pane2 \in Seq(Files!Names) /\ Once(pane2)
    BY <1>2 DEF FilesInv, RowsOK
  <2> QED BY <1>2, <2>1, ToSetIs DEF Files!rows
<1> QED BY <1>1, <1>2

\* Other rows are selected, and the status line names them.
LEMMA SelectedOK ==
  ASSUME FilesInv, UNCHANGED <<files2, pane2, faded, timers, broken, adrift>>,
         selected' \subseteq Files!rows, info' = selected'
  PROVE  RowsOK'
<1>1. Files!rows' = Files!rows /\ Once(pane2)' = Once(pane2)
  BY DEF Files!rows, Once
<1>2. info' \subseteq Files!Names /\ Files!InfoNamesSelection'
  BY RowsAreFiles DEF Files!InfoNamesSelection
<1>3. Settled' <=> Settled
  BY DEF Settled
<1> QED BY <1>1, <1>2, <1>3 DEF FilesInv, RowsOK

LEMMA SelectFileOK ==
  ASSUME FilesInv, NEW n \in Files!Names, NEW key \in {"none", "ctrl", "shift"},
         Files!SelectFile(n, key), TreeKept
  PROVE  FilesInv'
<1>1. /\ Files!Click /\ n \in Files!rows /\ info' = selected'
      /\ UNCHANGED <<disk2, dir2, files2, pane2, faded, timers, shared, adrift, order, desc,
                     clipboard, opening, upload, broken, stale, acts>>
  BY DEF Files!SelectFile
<1>2. selected \subseteq Files!rows
  BY DEF FilesInv, RowsOK
<1>3. \A S \in SUBSET Files!rows : Files!Toggled(n, S) \subseteq Files!rows
  BY <1>1 DEF Files!Toggled
<1>4. Files!Upwards(n) \subseteq Files!rows
  <2>1. /\ pane2 \in Seq(Files!Names) /\ pane2 # Files!Message
        /\ Files!rows = {pane2[i] : i \in 1..Len(pane2)}
    BY <1>1, RowsAreFiles, ToSetIs
  <2>2. PICK i \in 1..Len(pane2) : pane2[i] = n
    BY <1>1, <2>1
  <2>3. Files!RowOf(n) \in 1..Len(pane2)
    BY <2>1, <2>2 DEF Files!RowOf
  <2>4. \A k \in 1..(Files!RowOf(n) - 1) : k \in 1..Len(pane2)
    BY <2>1, <2>3
  <2> QED BY <2>1, <2>4 DEF Files!Upwards
<1>5. selected' \subseteq Files!rows
  <2>1. CASE key = "none"
    BY <1>1, <2>1 DEF Files!SelectFile
  <2>2. CASE key = "ctrl"
    BY <1>2, <1>3, <2>2 DEF Files!SelectFile
  <2>3. CASE key = "shift"
    <3> DEFINE S == selected \cup IF n \in selected THEN {} ELSE Files!Upwards(n)
    <3>1. S \in SUBSET Files!rows
      BY <1>2, <1>4
    <3>2. selected' = Files!Toggled(n, S)
      BY <2>3 DEF Files!SelectFile
    <3> QED BY <1>3, <3>1, <3>2
  <2> QED BY <2>1, <2>2, <2>3
<1>6. RowsOK'
  BY <1>1, <1>5, SelectedOK
<1>7. OpenOK' /\ menu' = Files!NoMenu
  BY <1>1, MenuClosed, FilesAssumption DEF Files!Click, FilesInv, OpenOK
<1>8. ListOK'
  BY <1>1, ListStaysOK DEF ListStays, TreeKept
<1>9. AliasOK'
  BY <1>1, <1>7, ClosedAlias, SharedSame DEF TreeKept
<1> QED BY <1>1, <1>6, <1>7, <1>8, <1>9, BrowsingClip DEF Browsing, FilesInv

\* The menu is as it was, and no folder changed.
LEMMA SameAlias ==
  ASSUME FilesInv, UNCHANGED <<clipboard, shared, moved, dir2>>,
         (KeptBy(menu') = {} /\ menu'.kind # "old") \/ menu' = menu
  PROVE  AliasOK'
<1>1. moved' \subseteq Files!Names /\ (menu.kind = "old" => shared = {})
  BY DEF FilesInv, AliasOK
<1>2. KeptBy(menu') \subseteq KeptBy(menu) /\ (menu'.kind = "old" => shared' = {})
  BY <1>1
<1> QED BY <1>1, <1>2, SharedSame, AliasKeptOK DEF AliasKept

LEMMA SelectAllOK ==
  ASSUME FilesInv, Files!SelectAll, TreeKept
  PROVE  FilesInv'
<1>1. /\ selected' = Files!rows /\ info' = selected'
      /\ UNCHANGED <<disk2, dir2, files2, pane2, faded, timers, shared, adrift, order, desc,
                     clipboard, menu, opening, upload, broken, stale, acts>>
  BY DEF Files!SelectAll
<1>2. RowsOK'
  BY <1>1, SelectedOK
<1>3. ListOK'
  BY <1>1, ListStaysOK DEF ListStays, TreeKept
<1>4. OpenOK'
  BY <1>1, FilesMenuStays
<1>5. AliasOK'
  BY <1>1, SameAlias DEF TreeKept
<1> QED BY <1>1, <1>2, <1>3, <1>4, <1>5, BrowsingClip DEF Browsing, FilesInv

LEMMA MenuFileOK ==
  ASSUME FilesInv, NEW n \in Files!Names, Files!MenuFile(n), TreeKept
  PROVE  FilesInv'
<1>1. /\ n \in Files!rows
      /\ UNCHANGED <<disk2, dir2, files2, pane2, faded, timers, shared, adrift, order, desc,
                     clipboard, opening, upload, broken, stale, acts>>
  BY DEF Files!MenuFile
<1>2. opening' \in BOOLEAN
  BY <1>1 DEF FilesInv, OpenOK
<1>3. ListOK' /\ ClipOK' /\ (Settled' <=> Settled)
  BY <1>1, ListStaysOK, BrowsingClip DEF ListStays, Browsing, TreeKept
<1>4. pane2 \in Seq(Files!Names) /\ Once(pane2)
  BY <1>1, RowsAreFiles
<1>5. CASE menu' = Files!MenuOf("files", Files!InOrder(selected)) /\ UNCHANGED <<selected, info>>
  <2>1. Files!InOrder(selected) \in Seq(Files!Names) /\ Once(Files!InOrder(selected))
    BY <1>4, FilteredThere DEF Files!InOrder
  <2>2. menu' \in Menus /\ Once(menu'.of) /\ KeptBy(menu') = {} /\ menu'.kind # "old"
    BY <1>5, <2>1 DEF Kinds, Menus, Files!MenuOf, KeptBy
  <2>3. RowsOK'
    BY <1>1, <1>3, <1>5, RowsKeptOK DEF RowsKept
  <2> QED BY <1>1, <1>2, <1>3, <2>2, <2>3, MenuOpened, SameAlias DEF FilesInv, TreeKept
<1>6. CASE menu' = Files!MenuOf("file", <<n>>) /\ selected' = {n} /\ info' = {n}
  <2>1. <<n>> \in Seq(Files!Names) /\ Once(<<n>>)
    BY DEF Once
  <2>2. menu' \in Menus /\ Once(menu'.of) /\ KeptBy(menu') = {} /\ menu'.kind # "old"
    BY <1>6, <2>1 DEF Kinds, Menus, Files!MenuOf, KeptBy
  <2>3. RowsOK'
    BY <1>1, <1>6, SelectedOK
  <2> QED BY <1>1, <1>2, <1>3, <2>2, <2>3, MenuOpened, SameAlias DEF FilesInv, TreeKept
<1> QED BY <1>5, <1>6 DEF Files!MenuFile

\* Files of the open folder.
LEMMA OpenFiles ==
  ASSUME FilesInv, NEW s \in Seq(Files!Names)
  PROVE  {[name |-> n, dir |-> dir2] : n \in Files!ToSet(s)} \subseteq Files!File
<1>1. Files!ToSet(s) \subseteq Files!Names
  BY ToSetIs
<1>2. dir2 \in Dirs
  BY DEF FilesInv, ListOK
<1> QED BY <1>1, <1>2 DEF Files!File

LEMMA AskOK ==
  ASSUME FilesInv, NEW kind \in {"rename", "confirm", "confirmAll"}, Files!Ask(kind), TreeKept
  PROVE  FilesInv'
<1> DEFINE s == Files!Writable(menu.of)
           held == IF kind = "confirm" THEN {}
                   ELSE {[name |-> n, dir |-> dir2] : n \in Files!ToSet(s)}
<1>1. /\ menu.kind \in {"file", "old", "files"}
      /\ menu' = [Files!MenuOf(kind, s) EXCEPT !.held = held]
      /\ UNCHANGED <<disk2, dir2, files2, pane2, faded, selected, info, timers, shared, adrift,
                     order, desc, clipboard, opening, upload, broken, stale, acts>>
  BY PageKeptIs DEF Files!Ask
<1>2. menu.of \in Seq(Files!Names) /\ Once(menu.of)
  BY <1>1 DEF FilesInv, OpenOK, Menus, Files!MenuOf
<1>3. s \in Seq(Files!Names) /\ Once(s)
  BY <1>2, FilteredThere DEF Files!Writable
<1> HIDE DEF s
<1>4. held \subseteq Files!File
  BY <1>3, OpenFiles
<1> HIDE DEF held
<1>5. menu' \in Menus /\ Once(menu'.of) /\ KeptBy(menu') = {} /\ menu'.kind # "old"
  BY <1>1, <1>3, <1>4 DEF Kinds, Menus, Files!MenuOf, KeptBy
<1>6. OpenOK'
  BY <1>1, <1>5, MenuOpened DEF FilesInv, OpenOK
<1>7. ListOK' /\ ClipOK' /\ (Settled' <=> Settled)
  BY <1>1, ListStaysOK, BrowsingClip DEF ListStays, Browsing, TreeKept
<1>8. RowsOK'
  BY <1>1, <1>7, RowsKeptOK DEF RowsKept
<1>9. AliasOK'
  BY <1>1, <1>5, SameAlias DEF TreeKept
<1> QED BY <1>6, <1>7, <1>8, <1>9 DEF FilesInv

\* Nothing changes but the menus.
LEMMA MenusOnly ==
  ASSUME FilesInv, UNCHANGED <<disk2, Files!pageVars, order, desc, clipboard, upload, broken, stale>>,
         UNCHANGED <<folders2, slides, moved>>, OpenOK',
         (KeptBy(menu') = {} /\ menu'.kind # "old") \/ menu' = menu
  PROVE  FilesInv'
<1>1. UNCHANGED <<disk2, dir2, files2, pane2, faded, selected, info, timers, shared, adrift, order,
                  desc, clipboard, upload, broken, stale>>
  BY PageKeptIs
<1>2. ListOK' /\ ClipOK' /\ (Settled' <=> Settled)
  BY <1>1, ListStaysOK, BrowsingClip DEF ListStays, Browsing
<1>3. RowsOK'
  BY <1>1, <1>2, RowsKeptOK DEF RowsKept
<1>4. AliasOK'
  BY <1>1, SameAlias
<1> QED BY <1>2, <1>3, <1>4 DEF FilesInv

LEMMA MenuStepsOK ==
  ASSUME FilesInv, Files!Cancel \/ Files!OpenClipboard \/ Files!ClipboardOpens, TreeKept
  PROVE  FilesInv'
<1>1. /\ UNCHANGED <<disk2, Files!pageVars, order, desc, clipboard, upload, broken, stale>>
      /\ acts' = acts /\ opening' \in BOOLEAN
      /\ menu' = Files!NoMenu \/ menu' = Files!MenuOf("clip", clipboard)
  BY DEF Files!Cancel, Files!OpenClipboard, Files!ClipboardOpens, Files!Click, FilesInv, OpenOK
<1>2. KeptBy(menu') = {} /\ menu'.kind # "old"
  BY <1>1 DEF KeptBy, Files!NoMenu, Files!MenuOf
<1>3. OpenOK'
  <2>1. CASE menu' = Files!NoMenu
    BY <1>1, <2>1, MenuClosed, FilesAssumption DEF FilesInv, OpenOK
  <2>2. CASE menu' = Files!MenuOf("clip", clipboard)
    BY <1>1, <2>2 DEF OpenOK, FilesInv
  <2> QED BY <1>1, <2>1, <2>2
<1> QED BY <1>1, <1>2, <1>3, MenusOnly DEF TreeKept

(* "Add to Clipboard": only files that are not in it come in, once each; an *)
(* entry that is the same object is one whose folder has changed.          *)
LEMMA EntriesAre ==
  ASSUME FilesInv, menu.kind \in {"file", "old", "files", "gone"}
  PROVE  LET s == Files!Entries
         IN /\ s \in Seq(Files!File) /\ Once(s)
            /\ \A f \in Files!ToSet(s) :
                 f \in Files!File /\ f.dir = dir2 /\ (menu.kind # "gone" => f.name \in Files!Names)
<1>1. menu.of \in Seq(Files!Names) /\ Once(menu.of) /\ dir2 \in Dirs
  BY DEF FilesInv, OpenOK, Files!MenuOf, Menus, ListOK
<1>2. CASE menu.kind = "gone"
  <2> DEFINE f == [name |-> Files!NoName, dir |-> dir2]
  <2>1. Files!Entries = <<f>> /\ f \in Files!File /\ f.dir = dir2
    BY <1>1, <1>2 DEF Files!Entries, Files!File
  <2> HIDE DEF f
  <2>2. <<f>> \in Seq(Files!File) /\ Once(<<f>>) /\ Files!ToSet(<<f>>) = {f}
    BY <2>1 DEF Once, Files!ToSet
  <2> QED BY <1>2, <2>1, <2>2
<1>3. CASE menu.kind # "gone"
  <2> DEFINE s == [i \in DOMAIN menu.of |-> [name |-> menu.of[i], dir |-> dir2]]
  <2>1. /\ DOMAIN menu.of = 1..Len(menu.of) /\ Len(menu.of) \in Nat
        /\ \A i \in 1..Len(menu.of) : menu.of[i] \in Files!Names
    BY <1>1
  <2>2. s \in [1..Len(menu.of) -> Files!File]
    BY <1>1, <2>1 DEF Files!File
  <2>3. s \in Seq(Files!File) /\ Len(s) = Len(menu.of)
    BY <2>1, <2>2
  <2>4. \A i \in 1..Len(s) : s[i].name = menu.of[i] /\ s[i].dir = dir2 /\ s[i] \in Files!File
    BY <2>1, <2>2, <2>3
  <2>5. Files!Entries = s
    BY <1>3 DEF Files!Entries
  <2> HIDE DEF s
  <2>6. Once(s)
    BY <1>1, <2>3, <2>4 DEF Once
  <2>7. Files!ToSet(s) = {s[i] : i \in 1..Len(s)}
    BY <2>3, ToSetIs
  <2> QED BY <2>1, <2>3, <2>4, <2>5, <2>6, <2>7
<1> QED BY <1>2, <1>3

LEMMA SameFile ==
  ASSUME NEW f \in Files!File, NEW g \in Files!File, f.name = g.name, f.dir = g.dir
  PROVE  f = g
BY DEF Files!File

LEMMA Concatenated ==
  ASSUME NEW S, NEW s \in Seq(S), NEW t \in Seq(S)
  PROVE  /\ s \o t \in Seq(S) /\ Len(s \o t) = Len(s) + Len(t) /\ Len(t) \in Nat
         /\ \A i \in 1..Len(s \o t) :
              (s \o t)[i] = IF i <= Len(s) THEN s[i] ELSE t[i - Len(s)]
OBVIOUS

LEMMA AddToClipboardOK ==
  ASSUME FilesInv, Files!AddToClipboard, TreeKept
  PROVE  FilesInv'
<1> DEFINE new == Files!Added(Files!Entries)
           now == Files!NamesIn(Files!ToSet(new))
           mine == IF menu.kind = "old" THEN menu.held ELSE shared
           same == {f \in mine : f.name \in now}
           upd == [i \in DOMAIN clipboard |->
                     IF clipboard[i] \in same THEN [clipboard[i] EXCEPT !.dir = dir2]
                     ELSE clipboard[i]]
           L == Len(clipboard)
<1>1. /\ menu.kind \in {"file", "old", "files", "gone"} /\ menu' = Files!NoMenu
      /\ clipboard' = upd \o new
      /\ shared' = IF menu.kind \in {"file", "files"}
                   THEN {f \in shared : f.name \notin now} \cup Files!ToSet(new) ELSE shared
      /\ Files!Outdated({f \in Files!ToSet(new) : adrift \/ f.name \notin Files!ToSet(files2)})
      /\ UNCHANGED <<disk2, Files!rowVars, adrift, order, desc, opening, upload, broken, acts>>
  BY DEF Files!AddToClipboard
<1>2. /\ new \in Seq(Files!File) /\ Once(new)
      /\ \A i \in 1..Len(new) : /\ new[i] \in Files!File /\ new[i] \notin Files!ToSet(clipboard)
                                /\ new[i].dir = dir2
                                /\ menu.kind # "gone" => new[i].name \in Files!Names
  <2>1. Files!Entries \in Seq(Files!File) /\ Once(Files!Entries)
    BY <1>1, EntriesAre
  <2>2. \A f \in Files!ToSet(Files!Entries) :
          f \in Files!File /\ f.dir = dir2 /\ (menu.kind # "gone" => f.name \in Files!Names)
    BY <1>1, EntriesAre
  <2>3. /\ new \in Seq(Files!File) /\ Once(new)
        /\ \A i \in 1..Len(new) : new[i] \in Files!ToSet(Files!Entries)
                                  /\ new[i] \in Files!File \ Files!ToSet(clipboard)
    BY <2>1, FilteredThere DEF Files!Added
  <2> QED BY <2>2, <2>3
<1> HIDE DEF new
<1>3. /\ Files!ToSet(new) = {new[i] : i \in 1..Len(new)}
      /\ now = {new[i].name : i \in 1..Len(new)}
  BY <1>2, ToSetIs DEF Files!NamesIn
<1> HIDE DEF now
<1>4. clipboard \in Seq(Files!File) /\ OnceBut(clipboard, moved) /\ L \in Nat
      /\ Files!ToSet(clipboard) = {clipboard[i] : i \in 1..L}
      /\ DOMAIN clipboard = 1..L /\ \A i \in 1..L : clipboard[i] \in Files!File
  BY ToSetIs DEF FilesInv, ClipOK, AliasOK
\* An entry that is the same object is of a row that was shown while its folder changed.
<1>5. ASSUME NEW i \in 1..L, clipboard[i] \in same
      PROVE  clipboard[i].name \in moved /\ clipboard[i].name \in now
  <2> DEFINE f == clipboard[i]
  <2>1. f \in shared \cup KeptBy(menu) /\ f.name \in now
    BY <1>5 DEF KeptBy
  <2>2. f.name \in moved \/ f.dir = dir2
    BY <2>1 DEF FilesInv, AliasOK
  <2>3. PICK j \in 1..Len(new) : new[j].name = f.name
    BY <1>3, <2>1
  <2>4. f \in Files!File /\ f \in Files!ToSet(clipboard)
    BY <1>4
  <2> HIDE DEF f
  <2>5. f.dir # dir2
    <3>1. ASSUME f.dir = dir2 PROVE FALSE
      <4>1. new[j] = f
        BY <1>2, <2>3, <2>4, <3>1, SameFile
      <4> QED BY <1>2, <2>4, <4>1
    <3> QED BY <3>1
  <2> QED BY <2>1, <2>2, <2>5 DEF f
<1>6. ASSUME NEW i \in 1..L
      PROVE  /\ upd[i] \in Files!File /\ upd[i].name = clipboard[i].name
             /\ upd[i] = clipboard[i] \/ (upd[i].dir = dir2 /\ clipboard[i] \in same)
             /\ clipboard[i] \notin same => upd[i] = clipboard[i]
  <2>1. clipboard[i] \in Files!File /\ dir2 \in Dirs
    BY <1>4 DEF FilesInv, ListOK
  <2>2. CASE clipboard[i] \in same
    <3>1. upd[i] = [clipboard[i] EXCEPT !.dir = dir2]
      BY <1>4, <2>2
    <3> HIDE DEF same, upd
    <3> QED BY <2>1, <2>2, <3>1 DEF Files!File
  <2>3. CASE clipboard[i] \notin same
    <3>1. upd[i] = clipboard[i]
      BY <1>4, <2>3
    <3> QED BY <2>1, <2>3, <3>1
  <2> QED BY <2>2, <2>3
<1>7. upd \in Seq(Files!File) /\ Len(upd) = L
  <2>1. upd \in [1..L -> Files!File]
    BY <1>4, <1>6
  <2> QED BY <1>4, <2>1
<1> HIDE DEF upd
<1>8. /\ clipboard' \in Seq(Files!File) /\ Len(clipboard') = L + Len(new) /\ Len(new) \in Nat
      /\ \A i \in 1..Len(clipboard') : clipboard'[i] = IF i <= L THEN upd[i] ELSE new[i - L]
  <2>1. \A s, t \in Seq(Files!File) :
          /\ s \o t \in Seq(Files!File) /\ Len(s \o t) = Len(s) + Len(t) /\ Len(t) \in Nat
          /\ \A i \in 1..Len(s \o t) :
               (s \o t)[i] = IF i <= Len(s) THEN s[i] ELSE t[i - Len(s)]
    BY Concatenated
  <2>2. clipboard' = upd \o new /\ upd \in Seq(Files!File) /\ new \in Seq(Files!File)
    BY <1>1, <1>2, <1>7
  <2>3. /\ upd \o new \in Seq(Files!File) /\ Len(upd \o new) = Len(upd) + Len(new)
        /\ Len(new) \in Nat
        /\ \A i \in 1..Len(upd \o new) :
             (upd \o new)[i] = IF i <= Len(upd) THEN upd[i] ELSE new[i - Len(upd)]
    BY <2>1, <2>2
  <2> QED BY ONLY <1>7, <2>2, <2>3
<1>9. \A i \in 1..Len(clipboard') : i \in 1..L \/ (i > L /\ i - L \in 1..Len(new))
  BY <1>4, <1>8
<1> DEFINE clip == clipboard'
<1>10. OnceBut(clip, moved)
  <2> SUFFICES ASSUME NEW i \in 1..Len(clip), NEW j \in 1..Len(clip), clip[i] = clip[j],
                      clip[i].name \notin moved
               PROVE  i = j
    BY DEF OnceBut
  <2> DEFINE n == clip[i].name
  \* Entries of that name are as they were.
  <2>1. ASSUME NEW a \in 1..Len(clip), a <= L, clip[a].name \notin moved
        PROVE  a \in 1..L /\ clip[a] = clipboard[a] /\ clipboard[a].name \notin moved
    <3>1. a \in 1..L /\ clip[a] = upd[a]
      BY <1>4, <1>8, <1>9, <2>1
    <3>2. clipboard[a].name \notin moved
      BY <1>6, <2>1, <3>1
    <3> QED BY <1>5, <1>6, <3>1, <3>2
  <2>2. ASSUME NEW a \in 1..Len(clip), a > L
        PROVE  a - L \in 1..Len(new) /\ clip[a] = new[a - L]
    BY <1>4, <1>8, <1>9, <2>2
  <2>3. CASE i <= L /\ j <= L
    <3>1. i \in 1..L /\ j \in 1..L /\ clipboard[i] = clipboard[j] /\ clipboard[i].name \notin moved
      BY <2>1, <2>3
    <3> QED BY <1>4, <3>1 DEF OnceBut
  <2>4. CASE i > L /\ j > L
    <3>1. i - L = j - L
      BY <1>2, <2>2, <2>4 DEF Once
    <3> QED BY <1>4, <1>8, <3>1
  <2>5. ASSUME NEW a \in 1..Len(clip), NEW b \in 1..Len(clip), a <= L, b > L, clip[a] = clip[b],
               clip[a].name \notin moved
        PROVE  FALSE
    <3>1. clip[a] \in Files!ToSet(clipboard)
      BY <1>4, <2>1, <2>5
    <3>2. clip[b] \notin Files!ToSet(clipboard)
      BY <1>2, <2>2, <2>5
    <3> QED BY <2>5, <3>1, <3>2
  <2>6. i <= L \/ i > L
    BY <1>4, <1>8
  <2>7. j <= L \/ j > L
    BY <1>4, <1>8
  <2> QED BY <2>3, <2>4, <2>5, <2>6, <2>7
<1>11. Files!ToSet(clip) = {clip[i] : i \in 1..Len(clip)}
  BY <1>8, ToSetIs
<1>12. \A i \in 1..L : upd[i] \in Files!ToSet(clip)
  <2> SUFFICES ASSUME NEW i \in 1..L PROVE upd[i] \in Files!ToSet(clip)
    OBVIOUS
  <2>1. i \in 1..Len(clip) /\ clip[i] = upd[i]
    BY <1>4, <1>8
  <2> QED BY <1>11, <2>1
<1>13. \A i \in 1..Len(new) : new[i] \in Files!ToSet(clip)
  <2> SUFFICES ASSUME NEW i \in 1..Len(new) PROVE new[i] \in Files!ToSet(clip)
    OBVIOUS
  <2>1. L + i \in 1..Len(clip) /\ ~(L + i <= L) /\ (L + i) - L = i
    BY <1>4, <1>8
  <2>2. clip[L + i] = new[i]
    BY <1>8, <2>1
  <2> QED BY <1>11, <2>1, <2>2
<1>14. moved' = moved /\ dir2' = dir2
  BY <1>1 DEF TreeKept, Files!rowVars
<1>15. shared' \subseteq Files!ToSet(clip)
  <2>1. ASSUME NEW f \in shared, f.name \notin now \/ menu.kind \in {"gone", "old"}
        PROVE  f \in Files!ToSet(clip)
    <3>1. f \in Files!ToSet(clipboard) /\ f.name \in Files!Names /\ menu.kind # "old"
      BY <2>1 DEF FilesInv, AliasOK
    <3>2. PICK i \in 1..L : clipboard[i] = f
      BY <1>4, <3>1
    <3>3. f.name \notin now
      <4>1. CASE menu.kind = "gone"
        <5>1. Files!ToSet(Files!Entries) = {[name |-> Files!NoName, dir |-> dir2]}
          BY <4>1 DEF Files!Entries, Files!ToSet
        <5>2. \A k \in 1..Len(new) : new[k] \in Files!ToSet(Files!Entries)
          BY <1>1, EntriesAre, FilteredThere DEF new, Files!Added
        <5>3. \A k \in 1..Len(new) : new[k].name = Files!NoName
          BY <5>1, <5>2
        <5>4. f.name # Files!NoName
          BY <3>1, FileNames DEF Files!NoName
        <5> QED BY <1>3, <5>3, <5>4
      <4> QED BY <2>1, <3>1, <4>1
    <3>4. clipboard[i] \notin same
      BY <3>2, <3>3
    <3> QED BY <1>6, <1>12, <3>2, <3>4
  <2>2. \A f \in Files!ToSet(new) : f \in Files!ToSet(clip)
    BY <1>3, <1>13
  <2>3. CASE menu.kind \in {"file", "files"}
    BY <1>1, <2>1, <2>2, <2>3
  <2>4. CASE menu.kind \in {"gone", "old"}
    BY <1>1, <2>1, <2>4
  <2> QED BY <1>1, <2>3, <2>4
<1>16. \A f \in shared' : f.name \in Files!Names /\ (f.name \in moved \/ f.dir = dir2)
  <2>1. \A f \in shared : f.name \in Files!Names /\ (f.name \in moved \/ f.dir = dir2)
    BY DEF FilesInv, AliasOK
  <2>2. menu.kind # "gone" =>
          \A f \in Files!ToSet(new) : f.name \in Files!Names /\ f.dir = dir2
    BY <1>2, <1>3
  <2>3. CASE menu.kind \in {"file", "files"}
    BY <1>1, <2>1, <2>2, <2>3
  <2>4. CASE menu.kind \in {"gone", "old"}
    BY <1>1, <2>1, <2>4
  <2> QED BY <1>1, <2>3, <2>4
<1>17. AliasOK'
  <2>1. KeptBy(menu') = {} /\ menu'.kind # "old"
    BY <1>1 DEF KeptBy, Files!NoMenu
  <2>2. moved \subseteq Files!Names
    BY DEF FilesInv, AliasOK
  <2>3. /\ OnceBut(clipboard, moved)' = OnceBut(clip, moved)
        /\ Files!ToSet(clipboard)' = Files!ToSet(clip)
        /\ KeptBy(menu)' = KeptBy(menu')
    BY <1>14 DEF OnceBut, Files!ToSet, KeptBy
  <2> QED BY <1>10, <1>14, <1>15, <1>16, <2>1, <2>2, <2>3 DEF AliasOK
<1>18. stale' = (stale \cup {f \in Files!ToSet(new) : adrift \/ f.name \notin Files!ToSet(files2)})
                  \cap Files!ToSet(clip)
  BY <1>1 DEF Files!Outdated
<1>19. ASSUME ~broken, NEW f \in Files!ToSet(clip) \ stale' PROVE There(f)
  <2>1. PICK i \in 1..Len(clip) : clip[i] = f
    BY <1>11
  <2>2. ASSUME f \in Files!ToSet(new) PROVE There(f)
    <3>1. ~adrift /\ f.name \in Files!ToSet(files2) /\ f.dir = dir2
      BY <1>2, <1>3, <1>18, <1>19, <2>2
    <3>2. Files!ToSet(files2) = disk2[dir2]
      <4>1. disk2[dir2] \in SUBSET Files!Names /\ files2 = Files!Sorted(disk2[dir2], order, desc)
            /\ order \in {"name", "size"} /\ desc \in BOOLEAN
        BY <1>19, <3>1 DEF FilesInv, ListOK, Folders, Settled
      <4> QED BY <4>1, SortedIs
    <3> QED BY <3>1, <3>2 DEF There
  <2>3. CASE i <= L
    <3>1. i \in 1..L /\ f = upd[i]
      BY <1>4, <1>8, <1>9, <2>1, <2>3
    <3>2. CASE clipboard[i] \in same
      <4>1. f.name \in now /\ f \in Files!File
        BY <1>5, <1>6, <3>1, <3>2
      <4>2. PICK j \in 1..Len(new) : new[j].name = f.name
        BY <1>3, <4>1
      <4>3. CASE f.dir = dir2
        <5>1. new[j] = f
          BY <1>2, <4>1, <4>2, <4>3, SameFile
        <5> QED BY <1>3, <2>2, <5>1
      <4>4. CASE f = clipboard[i]
        <5>1. f \in Files!ToSet(clipboard) /\ f \notin stale
          BY <1>4, <1>18, <1>19, <3>1, <4>4
        <5> QED BY <1>19, <5>1 DEF FilesInv, ClipOK
      <4> QED BY <1>6, <3>1, <4>3, <4>4
    <3>3. CASE f = clipboard[i]
      <4>1. f \in Files!ToSet(clipboard) /\ f \notin stale
        BY <1>4, <1>18, <1>19, <3>1, <3>3
      <4> QED BY <1>19, <4>1 DEF FilesInv, ClipOK
    <3> QED BY <1>6, <3>1, <3>2, <3>3
  <2>4. CASE i > L
    <3>1. i - L \in 1..Len(new) /\ f = new[i - L]
      BY <1>4, <1>8, <1>9, <2>1, <2>4
    <3> QED BY <1>3, <2>2, <3>1
  <2>5. i <= L \/ i > L
    BY <1>4, <1>8
  <2> QED BY <2>3, <2>4, <2>5
<1>20. ClipOK'
  <2>1. Files!ToSet(clipboard)' = Files!ToSet(clip) /\ stale' \subseteq Files!ToSet(clip)
    BY <1>18 DEF Files!ToSet
  <2>2. UNCHANGED <<broken, disk2, upload>>
    BY <1>1
  <2>3. ~broken' => \A f \in Files!ToSet(clipboard)' \ stale' : There(f)'
    BY <1>19, <2>1, <2>2 DEF There
  <2>4. upload' = {} \/ \E f \in Named : upload' = {f}
    BY <2>2 DEF FilesInv, ClipOK
  <2> QED BY <1>8, <2>1, <2>3, <2>4 DEF ClipOK
<1>21. UNCHANGED <<disk2, dir2, files2, pane2, faded, selected, info, timers, order, desc, broken,
                   adrift>>
  BY <1>1 DEF Files!rowVars
<1>22. ListOK' /\ RowsOK'
  BY <1>21, ListStaysOK, RowsKeptOK DEF ListStays, RowsKept, TreeKept
<1>23. OpenOK'
  BY <1>1, MenuClosed, FilesAssumption DEF FilesInv, OpenOK
<1> QED BY <1>17, <1>20, <1>22, <1>23 DEF FilesInv

-----------------------------------------------------------------------------
(* The operations that change the files of the folders.                    *)

\* There is room for one more.
LEMMA ActedOK ==
  ASSUME FilesInv, Files!Acted
  PROVE  acts' = acts + 1 /\ acts' <= MaxActs /\ acts' \in 0..MaxActs
BY FilesAssumption DEF Files!Acted, FilesInv, OpenOK

\* The operation closed the menu, and was one more.
LEMMA ActedClosed ==
  ASSUME FilesInv, Files!Acted, menu' = Files!NoMenu, opening' = opening
  PROVE  OpenOK'
<1>1. opening' \in BOOLEAN
  BY DEF FilesInv, OpenOK
<1> QED BY <1>1, ActedOK, MenuClosed

\* Of the folders D, only the files S are gone.
Gone(D, S) ==
  \A d \in Dirs, n \in Files!Names :
    n \in disk2[d] => n \in D[d] \/ [name |-> n, dir |-> d] \in S
Lost(D, S) == D \in Folders(folders2) /\ Gone(D, S)

\* Those that are gone are outdated, or the clipboard has been emptied.
LEMMA LostOK ==
  ASSUME FilesInv, NEW D, NEW S, Gone(D, S), disk2' = D, EntriesKept,
         clipboard' # <<>> => \A f \in Files!ToSet(clipboard) : f \in S => f \in stale',
         upload' = {} \/ \E f \in Named : upload' = {f},
         broken' = broken \/ broken' = TRUE
  PROVE  ClipOK'
<1>1. ASSUME ~broken', clipboard' # <<>>, NEW f \in Files!ToSet(clipboard) \ stale', There(f)
      PROVE  There(f)'
  <2>1. f \in Files!File /\ ~broken
    BY <1>1, ToSetIs DEF FilesInv, ClipOK
  <2>2. f.name \in Files!Names
    <3>1. f.name \in disk2[f.dir] /\ f.dir \in Dirs /\ disk2 \in Folders(folders2)
      BY <1>1, <2>1 DEF There, FilesInv, ListOK, Files!File
    <3> QED BY <3>1 DEF Folders
  <2>3. f.dir \in Dirs /\ f = [name |-> f.name, dir |-> f.dir]
    BY <2>1 DEF Files!File
  <2>4. f.name \in D[f.dir] \/ f \in S
    BY <1>1, <2>2, <2>3 DEF There, Gone
  <2> QED BY <1>1, <2>4 DEF There
<1>2. ClipKept
  BY <1>1 DEF ClipKept
<1> QED BY <1>2, ClipKeptOK

\* There is no telling.
LEMMA UnansweredClip ==
  ASSUME FilesInv, broken' = TRUE, EntriesKept,
         upload' = {} \/ \E f \in Named : upload' = {f}
  PROVE  ClipOK'
BY ClipKeptOK DEF ClipKept

\* A request that is not answered, and may have been carried out or not.
LEMMA NotAnsweredOK ==
  ASSUME FilesInv, NEW D \in Folders(folders2), Files!NoAnswer(D) \/ Files!ListNoAnswer(D),
         UNCHANGED <<order, desc, folders2, slides>>
  PROVE  /\ ListOK' /\ RowsOK' /\ broken' = TRUE
         /\ UNCHANGED <<clipboard, dir2, shared>>
<1>1. /\ broken' = TRUE /\ disk2' \in {disk2, D}
      /\ UNCHANGED <<clipboard, dir2, shared, files2, pane2, selected, info, timers, adrift>>
      /\ faded' = faded \/ faded' = FALSE
  BY PageKeptIs DEF Files!NoAnswer, Files!ListNoAnswer
<1>2. ~Settled' /\ (Settled' => Settled)
  BY <1>1, Unsettled
<1>3. disk2' \in Folders(folders2)
  BY <1>1 DEF FilesInv, ListOK
<1>4. ListKept /\ RowsKept
  BY <1>1, <1>2, <1>3 DEF ListKept, RowsKept, FilesInv, ListOK
<1> QED BY <1>1, <1>2, <1>4, ListKeptOK, RowsKeptOK

\* A handler that ends by a refresh, or without an answer.
LEMMA ChangedOK ==
  ASSUME FilesInv, NEW D, NEW E, NEW S, NEW T, Lost(D, S), E \in Folders(folders2),
         \/ disk2' = D /\ Files!Refresh(D, {}) /\ (clipboard' = <<>> \/ clipboard' = clipboard)
         \/ Files!NoAnswer(E) \/ Files!ListNoAnswer(E),
         Files!Outdated(T), S \subseteq T \/ clipboard' = <<>> \/ broken' = TRUE,
         upload' = upload, UNCHANGED <<order, desc>>, TreeKept
  PROVE  /\ ListOK' /\ RowsOK' /\ ClipOK' /\ SharedLess /\ dir2' = dir2
         /\ clipboard' = <<>> \/ clipboard' = clipboard
<1>1. /\ upload' = {} \/ \E f \in Named : upload' = {f}
      /\ UNCHANGED <<folders2, slides>>
  BY DEF FilesInv, ClipOK, TreeKept
<1>2. CASE disk2' = D /\ Files!Refresh(D, {}) /\ (clipboard' = <<>> \/ clipboard' = clipboard)
  <2>1. /\ ListOK' /\ RowsOK' /\ (broken' = broken \/ broken' = TRUE)
        /\ SharedLess /\ dir2' = dir2
    BY <1>1, <1>2, RefreshFilesOK DEF Lost
  <2>2. /\ EntriesKept
        /\ clipboard' # <<>> => \A f \in Files!ToSet(clipboard) : f \in T => f \in stale'
    BY <1>2, OutdatedKept
  <2>3. CASE broken' = TRUE
    BY <1>1, <1>2, <2>1, <2>2, <2>3, UnansweredClip
  <2>4. CASE S \subseteq T \/ clipboard' = <<>>
    <3>1. clipboard' # <<>> => \A f \in Files!ToSet(clipboard) : f \in S => f \in stale'
      BY <2>2, <2>4
    <3> QED BY <1>1, <1>2, <2>1, <2>2, <3>1, LostOK DEF Lost
  <2> QED BY <1>2, <2>1, <2>3, <2>4
<1>3. CASE Files!NoAnswer(E) \/ Files!ListNoAnswer(E)
  <2>1. ListOK' /\ RowsOK' /\ broken' = TRUE /\ UNCHANGED <<clipboard, dir2, shared>>
    BY <1>1, <1>3, NotAnsweredOK
  <2>2. EntriesKept
    BY <2>1, OutdatedKept
  <2> QED BY <1>1, <2>1, <2>2, UnansweredClip, SharedSame
<1> QED BY <1>2, <1>3

\* And has closed its menu or question.
LEMMA ChangedClosed ==
  ASSUME FilesInv, NEW D, NEW E, NEW S, NEW T, Lost(D, S), E \in Folders(folders2),
         \/ disk2' = D /\ Files!Refresh(D, {}) /\ (clipboard' = <<>> \/ clipboard' = clipboard)
         \/ Files!NoAnswer(E) \/ Files!ListNoAnswer(E),
         Files!Outdated(T), S \subseteq T \/ clipboard' = <<>> \/ broken' = TRUE,
         UNCHANGED <<order, desc, opening, upload>>, TreeKept,
         Files!Acted, menu' = Files!NoMenu
  PROVE  FilesInv'
<1>1. /\ ListOK' /\ RowsOK' /\ ClipOK' /\ SharedLess /\ dir2' = dir2
      /\ clipboard' = <<>> \/ clipboard' = clipboard
  BY ChangedOK
<1>2. AliasOK'
  BY <1>1, ClosedAlias DEF TreeKept
<1>3. OpenOK'
  BY ActedClosed
<1> QED BY <1>1, <1>2, <1>3 DEF FilesInv

\* Files that are taken off the disk are the only ones that are gone.
LEMMA WithoutLost ==
  ASSUME FilesInv, NEW S \in SUBSET Files!File
  PROVE  Lost(Files!Without(S), S)
<1>1. Files!Without(S) \in Folders(folders2)
  BY DEF FilesInv, ListOK, Folders, Files!Without
<1>2. ASSUME NEW d \in Dirs, NEW n \in Files!Names, n \in disk2[d], n \notin Files!Without(S)[d]
      PROVE  [name |-> n, dir |-> d] \in S
  <2>1. PICK f \in S : f.dir = d /\ f.name = n
    BY <1>2 DEF Files!Without
  <2>2. f = [name |-> n, dir |-> d]
    BY <2>1 DEF Files!File
  <2> QED BY <2>1, <2>2
<1> QED BY <1>1, <1>2 DEF Lost, Gone

\* What is put into a folder takes nothing away.
LEMMA PutLost ==
  ASSUME NEW S, NEW D, Lost(D, S), NEW to \in Dirs, NEW N \in SUBSET Files!Names,
         to \in folders2 \/ N = {}
  PROVE  Lost([D EXCEPT ![to] = @ \cup N], S)
BY DEF Lost, Gone, Folders

LEMMA RenameOK ==
  ASSUME FilesInv, NEW new \in Files!Names, Files!Rename(new), TreeKept
  PROVE  FilesInv'
<1>1. menu.kind = "rename" /\ Files!Acted /\ UNCHANGED <<order, desc, opening, upload>>
  BY DEF Files!Rename
<1>2. PICK f \in menu.held :
        LET D == [disk2 EXCEPT ![f.dir] = (@ \ {f.name}) \cup {new}]
        IN /\ f.name \in disk2[f.dir] /\ Files!Outdated({f})
           /\ \/ menu' = Files!NoMenu /\ disk2' = D /\ UNCHANGED clipboard /\ Files!Refresh(D, {})
              \/ Files!NoAnswer(D) /\ UNCHANGED menu
  BY DEF Files!Rename
<1> DEFINE D == [disk2 EXCEPT ![f.dir] = (@ \ {f.name}) \cup {new}]
<1>3. f \in Files!File /\ disk2 \in Folders(folders2)
  BY <1>1 DEF FilesInv, OpenOK, Files!MenuOf, Menus, ListOK
<1>4. f.dir \in Dirs /\ f.dir \in folders2 /\ f = [name |-> f.name, dir |-> f.dir]
  BY <1>2, <1>3 DEF Files!File, Folders
<1>5. Lost(D, {f})
  <2>1. D \in Folders(folders2)
    BY <1>3, <1>4 DEF Folders
  <2>2. ASSUME NEW d \in Dirs, NEW n \in Files!Names, n \in disk2[d], n \notin D[d]
        PROVE  d = f.dir /\ n = f.name
    BY <1>3, <2>2 DEF Folders
  <2> QED BY <1>4, <2>1, <2>2 DEF Lost, Gone
<1>6. D \in Folders(folders2)
  BY <1>5 DEF Lost
<1>7. Files!Outdated({f}) /\ \/ menu' = Files!NoMenu /\ disk2' = D /\ UNCHANGED clipboard
                                /\ Files!Refresh(D, {})
                             \/ Files!NoAnswer(D) /\ UNCHANGED menu
  BY <1>2
<1> HIDE DEF D
<1>8. CASE menu' = Files!NoMenu /\ disk2' = D /\ UNCHANGED clipboard /\ Files!Refresh(D, {})
  BY <1>1, <1>5, <1>6, <1>7, <1>8, ChangedClosed
<1>9. CASE Files!NoAnswer(D) /\ UNCHANGED menu
  <2>1. ListOK' /\ RowsOK' /\ ClipOK' /\ SharedLess /\ dir2' = dir2
    BY <1>1, <1>5, <1>6, <1>7, <1>9, ChangedOK
  <2>2. broken' = TRUE /\ UNCHANGED <<clipboard, shared, menu>>
    BY <1>9, PageKeptIs DEF Files!NoAnswer
  <2>3. OpenOK'
    BY <1>1, <2>2, ActedOK DEF FilesInv, OpenOK, Once
  <2>4. AliasOK'
    BY <2>1, <2>2, SameAlias DEF TreeKept
  <2> QED BY <2>1, <2>3, <2>4 DEF FilesInv
<1> QED BY <1>7, <1>8, <1>9

LEMMA DeleteFileOK ==
  ASSUME FilesInv, Files!DeleteFile, TreeKept
  PROVE  FilesInv'
<1> DEFINE D == [disk2 EXCEPT ![dir2] = @ \ {menu.of[1]}]
<1>1. /\ menu' = Files!NoMenu /\ Files!Acted /\ UNCHANGED <<order, desc, opening, upload>>
      /\ Files!Outdated({})
      /\ \/ disk2' = D /\ clipboard' = <<>> /\ Files!Refresh(D, {})
         \/ clipboard' = <<>> /\ Files!StillShared
            /\ UNCHANGED <<disk2, Files!rowVars, adrift, broken>>
         \/ Files!NoAnswer(D)
  BY DEF Files!DeleteFile, Files!Cleared
<1>2. D \in Folders(folders2)
  BY DEF FilesInv, ListOK, Folders
<1>3. Lost(D, Files!File)
  BY <1>2 DEF Lost, Gone, Files!File
<1> HIDE DEF D
<1>4. CASE disk2' = D /\ clipboard' = <<>> /\ Files!Refresh(D, {})
  BY <1>1, <1>2, <1>3, <1>4, ChangedClosed
<1>5. CASE Files!NoAnswer(D)
  <2>1. broken' = TRUE
    BY <1>5 DEF Files!NoAnswer
  <2> QED BY <1>1, <1>2, <1>3, <1>5, <2>1, ChangedClosed
<1>6. CASE clipboard' = <<>> /\ Files!StillShared
           /\ UNCHANGED <<disk2, Files!rowVars, adrift, broken>>
  <2>1. UNCHANGED <<disk2, dir2, files2, pane2, faded, selected, info, timers, adrift, broken>>
    BY <1>6 DEF Files!rowVars
  <2>2. ListOK' /\ RowsOK'
    BY <1>1, <2>1, ListStaysOK, RowsKeptOK DEF ListStays, RowsKept, TreeKept
  <2>3. EntriesKept
    BY <1>1, <1>6, OutdatedKept
  <2>4. ClipOK'
    BY <1>1, <1>6, <2>1, <2>3, ClipKeptOK DEF ClipKept, FilesInv, ClipOK
  <2>5. SharedLess
    BY <1>6 DEF SharedLess, Files!StillShared
  <2>6. AliasOK'
    BY <1>1, <1>6, <2>1, <2>5, ClosedAlias DEF TreeKept
  <2> QED BY <1>1, <2>2, <2>4, <2>6, ActedClosed DEF FilesInv
<1> QED BY <1>1, <1>4, <1>5, <1>6

LEMMA DeleteFilesOK ==
  ASSUME FilesInv, Files!DeleteFiles, TreeKept
  PROVE  FilesInv'
<1> DEFINE S == menu.held
<1>1. /\ menu.kind = "confirmAll" /\ menu' = Files!NoMenu /\ Files!Acted
      /\ Files!Outdated(S) /\ UNCHANGED <<order, desc, opening, upload>>
      /\ \/ \E done \in SUBSET S : disk2' = Files!Without(done) /\ UNCHANGED clipboard
                                   /\ Files!Refresh(disk2', {})
         \/ Files!ListNoAnswer(Files!Without(S))
  BY DEF Files!DeleteFiles
<1>2. S \subseteq Files!File
  BY <1>1 DEF FilesInv, OpenOK, Files!MenuOf, Menus
<1> HIDE DEF S
<1>3. \A done \in SUBSET S :
        Lost(Files!Without(done), done) /\ Files!Without(done) \in Folders(folders2)
  BY <1>2, WithoutLost DEF Lost
<1>4. CASE \E done \in SUBSET S : disk2' = Files!Without(done) /\ UNCHANGED clipboard
                                  /\ Files!Refresh(disk2', {})
  <2>1. PICK done \in SUBSET S : disk2' = Files!Without(done) /\ UNCHANGED clipboard
                                 /\ Files!Refresh(disk2', {})
    BY <1>4
  <2>2. Files!Refresh(Files!Without(done), {})
    BY <2>1
  <2>3. Lost(Files!Without(done), done) /\ Files!Without(done) \in Folders(folders2)
    BY <1>3
  <2> QED BY <1>1, <2>1, <2>2, <2>3, ChangedClosed
<1>5. CASE Files!ListNoAnswer(Files!Without(S))
  <2>1. broken' = TRUE
    BY <1>5 DEF Files!ListNoAnswer
  <2>2. Lost(Files!Without(S), S) /\ Files!Without(S) \in Folders(folders2)
    BY <1>3
  <2> QED BY <1>1, <1>5, <2>1, <2>2, ChangedClosed
<1> QED BY <1>1, <1>4, <1>5

LEMMA TakenIs ==
  ASSUME FilesInv, NEW S \in SUBSET Files!Clip, NEW to
  PROVE  /\ Files!Taken(S, to) \subseteq Files!File
         /\ {f.name : f \in Files!Taken(S, to)} \in SUBSET Files!Names
         /\ to \in folders2 \/ {f.name : f \in Files!Taken(S, to)} = {}
<1>1. Files!Clip \subseteq Files!File
  BY ToSetIs DEF Files!Clip, FilesInv, ClipOK
<1>2. disk2 \in Folders(folders2)
  BY DEF FilesInv, ListOK
<1>3. ASSUME NEW f \in Files!Taken(S, to)
      PROVE  f \in Files!File /\ f.name \in Files!Names /\ to \in folders2
  <2>1. f \in Files!File /\ f.name \in disk2[f.dir] /\ to \in folders2
    BY <1>1, <1>3 DEF Files!Taken, Files!OnDisk
  <2> QED BY <1>2, <2>1 DEF Folders, Files!File
<1> QED BY <1>3

LEMMA CopyClipboardOK ==
  ASSUME FilesInv, NEW to \in Dirs, Files!CopyClipboard(to), TreeKept
  PROVE  FilesInv'
<1> DEFINE N == {f.name : f \in Files!Taken(Files!Clip, to)}
           D == [disk2 EXCEPT ![to] = @ \cup N]
<1>1. /\ menu' = Files!NoMenu /\ Files!Acted /\ UNCHANGED <<order, desc, opening, upload>>
      /\ Files!Outdated({})
      /\ \/ /\ disk2' = D /\ clipboard' = <<>>
            /\ IF to = dir2 THEN Files!Refresh(D, {})
               ELSE Files!StillShared /\ UNCHANGED <<Files!rowVars, adrift, broken>>
         \/ Files!ListNoAnswer(D)
  BY DEF Files!CopyClipboard
<1>2. N \in SUBSET Files!Names /\ (to \in folders2 \/ N = {})
  BY TakenIs
<1> HIDE DEF N
<1>3. Lost(disk2, {})
  BY DEF Lost, Gone, FilesInv, ListOK
<1>4. Lost(D, {}) /\ D \in Folders(folders2) /\ (to # dir2 => D[dir2] = disk2[dir2])
  <2>1. Lost(D, {})
    BY <1>2, <1>3, PutLost
  <2> QED BY <2>1 DEF Lost, Folders, FilesInv, ListOK
<1> HIDE DEF D
<1>5. CASE disk2' = D /\ clipboard' = <<>> /\ to = dir2 /\ Files!Refresh(D, {})
  BY <1>1, <1>4, <1>5, ChangedClosed
<1>6. CASE disk2' = D /\ clipboard' = <<>> /\ to # dir2 /\ Files!StillShared
           /\ UNCHANGED <<Files!rowVars, adrift, broken>>
  <2>1. UNCHANGED <<dir2, files2, pane2, faded, selected, info, timers, adrift, broken>>
    BY <1>6 DEF Files!rowVars
  <2>2. /\ UNCHANGED <<folders2, moved>> /\ slides' \in 0..MaxSlides /\ folders2' \subseteq Dirs
        /\ dir2' \in Dirs /\ (Settled' => Settled) /\ (Settled => dir2 \in folders2)
    BY <2>1 DEF TreeKept, FilesInv, ListOK, Settled
  <2>3. ListKept /\ RowsKept
    BY <1>1, <1>4, <1>6, <2>1, <2>2 DEF ListKept, RowsKept
  <2>4. EntriesKept
    BY <1>1, <1>6, OutdatedKept
  <2>5. ClipOK'
    BY <1>1, <1>6, <2>1, <2>4, ClipKeptOK DEF ClipKept, FilesInv, ClipOK
  <2>6. SharedLess
    BY <1>6 DEF SharedLess, Files!StillShared
  <2>7. AliasOK'
    BY <1>1, <1>6, <2>1, <2>2, <2>6, ClosedAlias
  <2> QED BY <1>1, <2>2, <2>3, <2>5, <2>7, ListKeptOK, RowsKeptOK, ActedClosed DEF FilesInv
<1>7. CASE Files!ListNoAnswer(D)
  BY <1>1, <1>4, <1>7, ChangedClosed
<1> QED BY <1>1, <1>5, <1>6, <1>7

LEMMA MoveClipboardOK ==
  ASSUME FilesInv, NEW to \in Dirs, Files!MoveClipboard(to), TreeKept
  PROVE  FilesInv'
<1> DEFINE taken == Files!Taken(Files!Movable, to)
           N == {f.name : f \in taken}
           D == [Files!Without(taken) EXCEPT ![to] = @ \cup N]
<1>1. /\ menu' = Files!NoMenu /\ Files!Acted /\ UNCHANGED <<order, desc, opening, upload>>
      /\ Files!Outdated({})
      /\ \/ disk2' = D /\ clipboard' = <<>> /\ Files!Refresh(D, {})
         \/ Files!ListNoAnswer(D)
  BY DEF Files!MoveClipboard
<1>2. taken \in SUBSET Files!File /\ N \in SUBSET Files!Names /\ (to \in folders2 \/ N = {})
  <2>1. Files!Movable \in SUBSET Files!Clip
    BY DEF Files!Movable, Files!Readable
  <2> QED BY <2>1, TakenIs
<1> HIDE DEF taken, N
<1>3. Lost(D, taken) /\ D \in Folders(folders2)
  BY <1>2, WithoutLost, PutLost DEF Lost
<1> HIDE DEF D
<1>4. CASE disk2' = D /\ clipboard' = <<>> /\ Files!Refresh(D, {})
  BY <1>1, <1>3, <1>4, ChangedClosed
<1>5. CASE Files!ListNoAnswer(D)
  <2>1. broken' = TRUE
    BY <1>5 DEF Files!ListNoAnswer
  <2> QED BY <1>1, <1>3, <1>5, <2>1, ChangedClosed
<1> QED BY <1>1, <1>4, <1>5

LEMMA DeleteClipboardOK ==
  ASSUME FilesInv, Files!DeleteClipboard, TreeKept
  PROVE  FilesInv'
<1> DEFINE D == Files!Without(Files!Movable)
<1>1. /\ menu' = Files!NoMenu /\ Files!Acted /\ UNCHANGED <<order, desc, opening, upload>>
      /\ Files!Outdated({})
      /\ \/ disk2' = D /\ clipboard' = <<>> /\ Files!Refresh(D, {})
         \/ Files!ListNoAnswer(D)
  BY DEF Files!DeleteClipboard
<1>2. Files!Movable \in SUBSET Files!File
  BY ToSetIs DEF Files!Movable, Files!Readable, Files!Clip, FilesInv, ClipOK
<1>3. Lost(D, Files!Movable) /\ D \in Folders(folders2)
  BY <1>2, WithoutLost DEF Lost
<1> HIDE DEF D
<1>4. CASE disk2' = D /\ clipboard' = <<>> /\ Files!Refresh(D, {})
  BY <1>1, <1>3, <1>4, ChangedClosed
<1>5. CASE Files!ListNoAnswer(D)
  <2>1. broken' = TRUE
    BY <1>5 DEF Files!ListNoAnswer
  <2> QED BY <1>1, <1>3, <1>5, <2>1, ChangedClosed
<1> QED BY <1>1, <1>4, <1>5

-----------------------------------------------------------------------------
(* An entry of the clipboard's menu is clicked, or all are removed.         *)

LEMMA RemovedOnce ==
  ASSUME NEW A, NEW s \in Seq(A), NEW M, OnceBut(s, M), NEW i \in 1..Len(s)
  PROVE  LET t == Files!RemoveAt(s, i)
         IN t \in Seq(A) /\ OnceBut(t, M) /\ Files!ToSet(t) \subseteq Files!ToSet(s)
<1> DEFINE t == Files!RemoveAt(s, i)
           From(j) == IF j < i THEN j ELSE j + 1
<1>1. Len(s) \in Nat /\ i \in Nat
  OBVIOUS
<1>2. t = SubSeq(s, 1, i - 1) \o SubSeq(s, i + 1, Len(s))
  BY DEF Files!RemoveAt
<1>3. SubSeq(s, 1, i - 1) \in Seq(A) /\ Len(SubSeq(s, 1, i - 1)) = i - 1
      /\ \A j \in 1..(i - 1) : SubSeq(s, 1, i - 1)[j] = s[j]
  BY <1>1, SubSeqProperties
<1>4. SubSeq(s, i + 1, Len(s)) \in Seq(A) /\ Len(SubSeq(s, i + 1, Len(s))) = Len(s) - i
      /\ \A j \in 1..(Len(s) - i) : SubSeq(s, i + 1, Len(s))[j] = s[i + j]
  BY <1>1, SubSeqProperties
<1>5. /\ t \in Seq(A) /\ Len(t) = Len(s) - 1
      /\ \A j \in 1..Len(t) : t[j] = s[From(j)] /\ From(j) \in 1..Len(s)
  <2> DEFINE a == SubSeq(s, 1, i - 1)
             b == SubSeq(s, i + 1, Len(s))
  <2>1. /\ a \in Seq(A) /\ b \in Seq(A) /\ Len(a) = i - 1 /\ Len(b) = Len(s) - i /\ t = a \o b
        /\ \A j \in 1..(i - 1) : a[j] = s[j]
        /\ \A j \in 1..(Len(s) - i) : b[j] = s[i + j]
    BY <1>2, <1>3, <1>4
  <2> HIDE DEF a, b, t
  <2>2. t \in Seq(A) /\ Len(t) = Len(s) - 1
    <3>1. t \in Seq(A) /\ Len(t) = Len(a) + Len(b)
      BY <2>1, ConcatProperties
    <3> QED BY <1>1, <2>1, <3>1
  <2>3. ASSUME NEW j \in 1..Len(t) PROVE t[j] = s[From(j)] /\ From(j) \in 1..Len(s)
    <3>1. t[j] = IF j <= Len(a) THEN a[j] ELSE b[j - Len(a)]
      BY <2>1, <2>2
    <3>2. CASE j < i
      BY <1>1, <2>1, <2>2, <3>1, <3>2
    <3>3. CASE j >= i
      <4>1. j - (i - 1) \in 1..(Len(s) - i) /\ i + (j - (i - 1)) = j + 1 /\ ~(j <= i - 1)
        BY <1>1, <2>2, <3>3
      <4>2. t[j] = b[j - (i - 1)] /\ b[j - (i - 1)] = s[i + (j - (i - 1))]
        BY <2>1, <3>1, <4>1
      <4> QED BY <1>1, <2>2, <3>3, <4>1, <4>2
    <3> QED BY <1>1, <2>2, <3>2, <3>3
  <2> QED BY <2>2, <2>3
<1> HIDE DEF t
<1>6. \A j, k \in 1..Len(t) : From(j) = From(k) => j = k
  BY <1>1, <1>5
<1> HIDE DEF From
<1>7. OnceBut(t, M)
  BY <1>5, <1>6 DEF OnceBut
<1>8. Files!ToSet(t) \subseteq Files!ToSet(s)
  BY <1>5, ToSetIs
<1> QED BY <1>5, <1>7, <1>8 DEF t

LEMMA FromMenuOK ==
  ASSUME FilesInv, NEW i, Files!RemoveFromClipboard(i) \/ Files!ClearClipboard, TreeKept
  PROVE  FilesInv'
<1>1. /\ menu' = Files!NoMenu /\ opening' \in BOOLEAN
      /\ UNCHANGED <<disk2, Files!rowVars, adrift, order, desc, upload, broken, acts>>
      /\ Files!StillShared /\ Files!Outdated({})
      /\ \/ clipboard' = <<>>
         \/ i \in DOMAIN clipboard /\ clipboard' = Files!RemoveAt(clipboard, i)
  BY DEF Files!RemoveFromClipboard, Files!ClearClipboard, Files!MenuAfterRemoval, FilesInv, OpenOK
<1>2. UNCHANGED <<disk2, dir2, files2, pane2, faded, selected, info, timers, adrift, broken>>
  BY <1>1 DEF Files!rowVars
<1>3. ListOK' /\ RowsOK'
  BY <1>1, <1>2, ListStaysOK, RowsKeptOK DEF ListStays, RowsKept, TreeKept
<1>4. OpenOK'
  BY <1>1, MenuClosed, FilesAssumption DEF FilesInv, OpenOK
<1>5. /\ clipboard \in Seq(Files!File) /\ OnceBut(clipboard, moved)
      /\ DOMAIN clipboard = 1..Len(clipboard)
  BY DEF FilesInv, ClipOK, AliasOK
<1> DEFINE clip == clipboard'
<1>6. /\ clip \in Seq(Files!File) /\ OnceBut(clip, moved)
      /\ Files!ToSet(clip) \subseteq Files!ToSet(clipboard)
  <2>1. CASE clip = <<>>
    BY <2>1, NoEntries
  <2>2. CASE i \in DOMAIN clipboard /\ clip = Files!RemoveAt(clipboard, i)
    BY <1>5, <2>2, RemovedOnce
  <2> QED BY <1>1, <2>1, <2>2
<1>7. stale' = stale \cap Files!ToSet(clip)
  BY <1>1 DEF Files!Outdated
<1>8. ClipOK'
  <2>1. Files!ToSet(clipboard)' = Files!ToSet(clip) /\ stale' \subseteq Files!ToSet(clip)
    BY <1>7 DEF Files!ToSet
  <2>2. ~broken' => \A f \in Files!ToSet(clipboard)' \ stale' : There(f)'
    BY <1>2, <1>6, <1>7, <2>1 DEF FilesInv, ClipOK, There
  <2> QED BY <1>1, <1>6, <2>1, <2>2 DEF FilesInv, ClipOK
<1>9. AliasOK'
  <2>1. shared' = shared \cap Files!ToSet(clip)
    BY <1>1 DEF Files!StillShared
  <2>2. moved' = moved /\ KeptBy(menu)' = {} /\ menu'.kind # "old"
    BY <1>1 DEF TreeKept, KeptBy, Files!NoMenu
  <2>3. OnceBut(clipboard, moved)' = OnceBut(clip, moved)
        /\ Files!ToSet(clipboard)' = Files!ToSet(clip)
    BY <2>2 DEF OnceBut, Files!ToSet
  <2> QED BY <1>2, <1>6, <2>1, <2>2, <2>3 DEF FilesInv, AliasOK
<1> QED BY <1>3, <1>4, <1>8, <1>9 DEF FilesInv

-----------------------------------------------------------------------------
(* The upload of a form.                                                   *)

LEMMA UploadFileOK ==
  ASSUME FilesInv, NEW n \in Files!Names, Files!UploadFile(n), TreeKept
  PROVE  FilesInv'
<1>1. /\ menu' = Files!NoMenu /\ Files!Acted /\ upload' = {[name |-> n, dir |-> dir2]}
      /\ UNCHANGED <<disk2, Files!pageVars, order, desc, clipboard, opening, broken, stale>>
  BY DEF Files!UploadFile, Files!Click
<1>2. UNCHANGED <<disk2, dir2, files2, pane2, faded, selected, info, timers, shared, adrift,
                  broken>>
  BY <1>1, PageKeptIs
<1>3. ListOK' /\ RowsOK'
  BY <1>1, <1>2, ListStaysOK, RowsKeptOK DEF ListStays, RowsKept, TreeKept
<1>4. [name |-> n, dir |-> dir2] \in Named
  BY DEF FilesInv, ListOK, Files!File, Named
<1>5. stale \subseteq Files!ToSet(clipboard)
  BY DEF FilesInv, ClipOK
<1>6. ClipKept
  BY <1>1, <1>2, <1>4, <1>5 DEF ClipKept, EntriesKept, There
<1>7. AliasOK'
  BY <1>1, <1>2, ClosedAlias, SharedSame DEF TreeKept
<1> QED BY <1>1, <1>3, <1>6, <1>7, ClipKeptOK, ActedClosed DEF FilesInv

LEMMA UploadDoneOK ==
  ASSUME FilesInv, NEW f \in upload, NEW ok \in BOOLEAN, Files!UploadDone(f, ok), TreeKept
  PROVE  FilesInv'
<1> DEFINE D == IF ok THEN [disk2 EXCEPT ![f.dir] = @ \cup {f.name}] ELSE disk2
           sel == IF ok THEN {f.name} ELSE {}
<1>1. /\ upload' = {} /\ disk2' = D /\ Files!Refresh(disk2', sel) /\ (ok => f.dir \in folders2)
      /\ UNCHANGED <<order, desc, clipboard, opening, stale, acts>>
      /\ menu' = IF UNCHANGED pane2 THEN menu ELSE Files!RowsGo(menu)
  BY DEF Files!UploadDone, Files!NoUpload
<1>2. f \in Files!File /\ f.dir \in Dirs
  BY DEF FilesInv, ClipOK, Files!File, Named
<1>3. Lost(disk2, {})
  BY DEF Lost, Gone, FilesInv, ListOK
<1>4. f.name \in Files!Names
  BY DEF FilesInv, ClipOK, Named
<1>5. sel \in SUBSET Files!Names /\ {f.name} \in SUBSET Files!Names
  BY <1>4
<1>6. Lost(D, {}) /\ D \in Folders(folders2)
  <2>1. CASE ok
    <3>1. Lost([disk2 EXCEPT ![f.dir] = @ \cup {f.name}], {})
      BY <1>1, <1>2, <1>3, <1>5, <2>1, PutLost
    <3> QED BY <2>1, <3>1 DEF Lost
  <2>2. CASE ~ok
    BY <1>3, <2>2 DEF Lost
  <2> QED BY <2>1, <2>2
<1> HIDE DEF D, sel
<1>7. Files!Refresh(D, sel) /\ UNCHANGED <<folders2, slides, moved>>
  BY <1>1 DEF TreeKept
<1>8. /\ ListOK' /\ RowsOK' /\ (broken' = broken \/ broken' = TRUE)
      /\ SharedLess /\ dir2' = dir2
  BY <1>1, <1>5, <1>6, <1>7, RefreshFilesOK
<1>9. EntriesKept
  BY <1>1 DEF EntriesKept, FilesInv, ClipOK
<1>10. ClipOK'
  BY <1>1, <1>6, <1>8, <1>9, LostOK DEF Lost
<1>11. OpenOK' /\ KeptBy(menu') \subseteq shared \cup KeptBy(menu)
  BY <1>1, FilesMenuStays
<1>12. menu'.kind = "old" => shared' = {}
  <2>1. CASE menu' = menu
    BY <1>8, <2>1 DEF FilesInv, AliasOK, SharedLess
  <2>2. CASE pane2' # pane2
    <3>1. Files!EmptyPane
      BY <1>7, <2>2 DEF Files!Refresh, Files!OrderFiles
    <3> QED BY <3>1 DEF Files!EmptyPane
  <2> QED BY <1>1, <2>1, <2>2
<1>13. AliasOK'
  BY <1>1, <1>7, <1>8, <1>11, <1>12, AliasKeptOK DEF AliasKept, FilesInv, AliasOK
<1> QED BY <1>8, <1>10, <1>11, <1>13 DEF FilesInv

-----------------------------------------------------------------------------
(* The tree's operations on folders.                                       *)

\* There is no list of a folder that has changed, or its path has followed.
LEMMA BecameIs ==
  ASSUME FilesInv, NEW d \in folders2, NEW e \in Dirs \ folders2
  PROVE  /\ Files!Became(d, e) \in Folders((folders2 \ {d}) \cup {e})
         /\ (folders2 \ {d}) \cup {e} \subseteq Dirs
         /\ Gone(Files!Became(d, e), Files!FilesOf(d))
         /\ Files!Became(d, e)[e] = disk2[d]
         /\ \A x \in folders2 \ {d} : Files!Became(d, e)[x] = disk2[x]
<1>1. disk2 \in Folders(folders2) /\ folders2 \subseteq Dirs
  BY DEF FilesInv, ListOK
<1> QED BY <1>1 DEF Folders, Gone, Files!Became, Files!FilesOf

\* The rows stay, and their objects with them.
LEMMA RenameDirOK ==
  ASSUME FilesInv, NEW d \in Dirs, NEW e \in Dirs, NEW itself \in BOOLEAN,
         Files!RenameDir(d, e, itself)
  PROVE  FilesInv'
<1> DEFINE D == Files!Became(d, e)
           F == (folders2 \ {d}) \cup {e}
<1>1. /\ Files!Click /\ Files!Acted /\ d \in folders2 /\ e \in Dirs \ folders2
      /\ UNCHANGED <<files2, pane2, faded, selected, info, timers, shared, order, desc, clipboard,
                     opening, slides>>
      /\ Files!Outdated(Files!FilesOf(d))
  BY DEF Files!RenameDir
<1>2. \/ /\ folders2' = F /\ disk2' = D
         /\ upload' \in {upload, {IF f.dir = d THEN Files!At(e, f) ELSE f : f \in upload}}
         /\ Files!Follows(d, e, itself) /\ UNCHANGED broken
      \/ /\ broken' = TRUE
         /\ \/ UNCHANGED <<folders2, disk2>>
            \/ folders2' = F /\ disk2' = D
         /\ UNCHANGED <<dir2, adrift, moved, upload>>
  BY DEF Files!RenameDir
<1>3. /\ D \in Folders(F) /\ F \subseteq Dirs /\ Gone(D, Files!FilesOf(d)) /\ D[e] = disk2[d]
      /\ \A x \in folders2 \ {d} : D[x] = disk2[x]
  BY <1>1, BecameIs
<1> HIDE DEF D
<1>4. /\ EntriesKept
      /\ clipboard' # <<>> =>
           \A f \in Files!ToSet(clipboard) : f \in Files!FilesOf(d) => f \in stale'
  BY <1>1, OutdatedKept
<1>5. OpenOK' /\ menu' = Files!NoMenu /\ KeptBy(menu') = {} /\ menu'.kind # "old"
  BY <1>1, ActedClosed DEF Files!Click, KeptBy, Files!NoMenu
<1>6. /\ disk2 \in Folders(folders2) /\ folders2 \subseteq Dirs /\ slides' \in 0..MaxSlides
      /\ dir2 \in Dirs /\ adrift \in BOOLEAN /\ broken \in BOOLEAN
      /\ (Settled => dir2 \in folders2)
  BY <1>1 DEF FilesInv, ListOK
<1>7. CASE /\ folders2' = F /\ disk2' = D
           /\ upload' \in {upload, {IF f.dir = d THEN Files!At(e, f) ELSE f : f \in upload}}
           /\ Files!Follows(d, e, itself) /\ UNCHANGED broken
  <2>1. upload' = {} \/ \E f \in Named : upload' = {f}
    <3>1. CASE upload = {}
      BY <1>7, <3>1
    <3>2. CASE \E f \in Named : upload = {f}
      <4>1. PICK f \in Named : upload = {f}
        BY <3>2
      <4>2. Files!At(e, f) \in Named
        BY DEF Files!At, Files!File, Named
      <4> QED BY <1>7, <4>1, <4>2
    <3> QED BY <3>1, <3>2 DEF FilesInv, ClipOK
  <2>2. ClipOK'
    BY <1>3, <1>4, <1>7, <2>1, LostOK
  <2>3. CASE itself /\ d = dir2
    <3>1. dir2' = e /\ moved' = moved \cup Files!NamesIn(shared) /\ UNCHANGED adrift
      BY <1>7, <2>3 DEF Files!Follows
    <3>2. Settled' => Settled
      BY <1>7, <3>1 DEF Settled
    <3>3. ListKept /\ RowsKept
      BY <1>1, <1>3, <1>6, <1>7, <2>3, <3>1, <3>2 DEF ListKept, RowsKept
    <3>4. moved \subseteq Files!Names /\ \A f \in shared : f.name \in Files!Names
      BY DEF FilesInv, AliasOK
    <3>5. moved' \subseteq Files!Names /\ \A f \in shared : f.name \in moved'
      BY <3>1, <3>4 DEF Files!NamesIn
    <3>6. AliasOK'
      BY <1>1, <1>5, <3>1, <3>5, SharedSame, AliasKeptOK DEF AliasKept
    <3> QED BY <1>5, <2>2, <3>2, <3>3, <3>6, ListKeptOK, RowsKeptOK DEF FilesInv
  <2>4. CASE ~(itself /\ d = dir2)
    <3>1. UNCHANGED <<dir2, moved>> /\ adrift' = (adrift \/ d = dir2)
      BY <1>7, <2>4 DEF Files!Follows
    <3>2. AliasOK'
      BY <1>1, <1>5, <3>1, ClosedAlias, SharedSame
    <3>3. CASE d = dir2
      <4>1. adrift' = TRUE
        BY <3>1, <3>3
      <4>2. ~Settled' /\ (Settled' => Settled)
        BY <1>7, <4>1, Unsettled
      <4>3. ListKept /\ RowsKept
        BY <1>1, <1>3, <1>6, <1>7, <3>1, <4>1, <4>2 DEF ListKept, RowsKept
      <4> QED BY <1>5, <2>2, <3>2, <4>2, <4>3, ListKeptOK, RowsKeptOK DEF FilesInv
    <3>4. CASE d # dir2
      <4>1. adrift' = adrift
        BY <1>6, <3>1, <3>4
      <4>2. Settled' => Settled
        BY <1>7, <4>1 DEF Settled
      <4>3. ListKept /\ RowsKept
        BY <1>1, <1>3, <1>6, <1>7, <3>1, <3>4, <4>1, <4>2 DEF ListKept, RowsKept
      <4> QED BY <1>5, <2>2, <3>2, <4>2, <4>3, ListKeptOK, RowsKeptOK DEF FilesInv
    <3> QED BY <3>3, <3>4
  <2> QED BY <2>3, <2>4
<1>8. CASE /\ broken' = TRUE
           /\ \/ UNCHANGED <<folders2, disk2>>
              \/ folders2' = F /\ disk2' = D
           /\ UNCHANGED <<dir2, adrift, moved, upload>>
  <2>1. ~Settled' /\ (Settled' => Settled)
    BY <1>8, Unsettled
  <2>2. ListKept /\ RowsKept
    BY <1>1, <1>3, <1>6, <1>8, <2>1 DEF ListKept, RowsKept
  <2>3. ClipOK'
    BY <1>4, <1>8, UnansweredClip DEF FilesInv, ClipOK
  <2>4. AliasOK'
    BY <1>1, <1>5, <1>8, ClosedAlias, SharedSame
  <2> QED BY <1>5, <2>1, <2>2, <2>3, <2>4, ListKeptOK, RowsKeptOK DEF FilesInv
<1> QED BY <1>2, <1>7, <1>8

LEMMA DeleteDirOK ==
  ASSUME FilesInv, NEW d \in Dirs, Files!DeleteDir(d)
  PROVE  FilesInv'
<1> DEFINE D == [disk2 EXCEPT ![d] = {}]
           F == folders2 \ {d}
<1>1. /\ Files!Click /\ Files!Acted /\ slides < MaxSlides
      /\ UNCHANGED <<dir2, files2, pane2, faded, selected, info, timers, shared, order, desc,
                     clipboard, opening, upload, moved>>
      /\ Files!Outdated(Files!FilesOf(d))
  BY DEF Files!DeleteDir, Files!rowVars
<1>2. \/ folders2' = F /\ disk2' = D /\ slides' = slides + 1
         /\ adrift' = (adrift \/ d = dir2) /\ UNCHANGED broken
      \/ /\ broken' = TRUE
         /\ \/ UNCHANGED <<folders2, disk2>>
            \/ folders2' = F /\ disk2' = D
         /\ UNCHANGED <<adrift, slides>>
  BY DEF Files!DeleteDir
<1>3. /\ disk2 \in Folders(folders2) /\ folders2 \subseteq Dirs /\ slides \in 0..MaxSlides
      /\ dir2 \in Dirs /\ adrift \in BOOLEAN /\ broken \in BOOLEAN
      /\ (Settled => dir2 \in folders2)
  BY DEF FilesInv, ListOK
<1>4. /\ D \in Folders(F) /\ F \subseteq Dirs /\ Gone(D, Files!FilesOf(d))
      /\ \A x \in Dirs \ {d} : D[x] = disk2[x]
  BY <1>3 DEF Folders, Gone, Files!FilesOf
<1>5. slides' \in 0..MaxSlides
  BY <1>1, <1>2, <1>3, FilesAssumption
<1> HIDE DEF D
<1>6. /\ EntriesKept
      /\ clipboard' # <<>> =>
           \A f \in Files!ToSet(clipboard) : f \in Files!FilesOf(d) => f \in stale'
  BY <1>1, OutdatedKept
<1>7. OpenOK' /\ AliasOK'
  BY <1>1, ActedClosed, ClosedAlias, SharedSame DEF Files!Click
<1>8. upload' = {} \/ \E f \in Named : upload' = {f}
  BY <1>1 DEF FilesInv, ClipOK
<1>9. CASE folders2' = F /\ disk2' = D /\ slides' = slides + 1
           /\ adrift' = (adrift \/ d = dir2) /\ UNCHANGED broken
  <2>1. ClipOK'
    BY <1>4, <1>6, <1>8, <1>9, LostOK
  <2>2. CASE d = dir2
    <3>1. adrift' = TRUE
      BY <1>9, <2>2
    <3>2. ~Settled' /\ (Settled' => Settled)
      BY <1>9, <3>1, Unsettled
    <3>3. ListKept /\ RowsKept
      BY <1>1, <1>3, <1>4, <1>5, <1>9, <3>1, <3>2 DEF ListKept, RowsKept
    <3> QED BY <1>7, <2>1, <3>2, <3>3, ListKeptOK, RowsKeptOK DEF FilesInv
  <2>3. CASE d # dir2
    <3>1. adrift' = adrift
      BY <1>3, <1>9, <2>3
    <3>2. Settled' => Settled
      BY <1>9, <3>1 DEF Settled
    <3>3. ListKept /\ RowsKept
      BY <1>1, <1>3, <1>4, <1>5, <1>9, <2>3, <3>1, <3>2 DEF ListKept, RowsKept
    <3> QED BY <1>7, <2>1, <3>2, <3>3, ListKeptOK, RowsKeptOK DEF FilesInv
  <2> QED BY <2>2, <2>3
<1>10. CASE /\ broken' = TRUE
            /\ \/ UNCHANGED <<folders2, disk2>>
               \/ folders2' = F /\ disk2' = D
            /\ UNCHANGED <<adrift, slides>>
  <2>1. ~Settled' /\ (Settled' => Settled)
    BY <1>10, Unsettled
  <2>2. ListKept /\ RowsKept
    BY <1>1, <1>3, <1>4, <1>5, <1>10, <2>1 DEF ListKept, RowsKept
  <2>3. ClipOK'
    BY <1>6, <1>8, <1>10, UnansweredClip
  <2> QED BY <1>7, <2>1, <2>2, <2>3, ListKeptOK, RowsKeptOK DEF FilesInv
<1> QED BY <1>2, <1>9, <1>10

LEMMA NewDirOK ==
  ASSUME FilesInv, NEW d \in Dirs, Files!NewDir(d)
  PROVE  FilesInv'
<1>1. /\ Files!Click /\ Files!Acted /\ folders2' = folders2 \cup {d}
      /\ UNCHANGED <<disk2, dir2, files2, pane2, faded, selected, info, timers, shared, adrift,
                     order, desc, clipboard, opening, upload, broken, stale, slides, moved>>
  BY PageKeptIs DEF Files!NewDir
<1>2. disk2' \in Folders(folders2') /\ folders2' \subseteq Dirs /\ (Settled' <=> Settled)
  BY <1>1 DEF FilesInv, ListOK, Folders, Settled
<1>3. ListKept /\ RowsKept
  BY <1>1, <1>2 DEF ListKept, RowsKept, FilesInv, ListOK
<1>4. OpenOK' /\ AliasOK'
  BY <1>1, ActedClosed, ClosedAlias, SharedSame DEF Files!Click
<1> QED BY <1>1, <1>2, <1>3, <1>4, ListKeptOK, RowsKeptOK, BrowsingClip DEF Browsing, FilesInv

LEMMA SlideOK ==
  ASSUME FilesInv, Files!Slide
  PROVE  FilesInv'
<1>1. /\ Files!Click /\ slides < MaxSlides /\ slides' = slides + 1
      /\ UNCHANGED <<disk2, dir2, files2, pane2, faded, selected, info, timers, shared, adrift,
                     order, desc, clipboard, opening, upload, broken, stale, acts, folders2, moved>>
  BY PageKeptIs DEF Files!Slide
<1>2. slides' \in 0..MaxSlides /\ (Settled' <=> Settled)
  BY <1>1, FilesAssumption DEF FilesInv, ListOK, Settled
<1>3. ListKept /\ RowsKept
  BY <1>1, <1>2 DEF ListKept, RowsKept, FilesInv, ListOK
<1>4. OpenOK' /\ AliasOK'
  BY <1>1, MenuClosed, ClosedAlias, SharedSame, FilesAssumption
     DEF Files!Click, FilesInv, OpenOK
<1> QED BY <1>1, <1>2, <1>3, <1>4, ListKeptOK, RowsKeptOK, BrowsingClip DEF Browsing, FilesInv

LEMMA SlideEndOK ==
  ASSUME FilesInv, Files!SlideEnd
  PROVE  FilesInv'
<1>1. /\ slides > 0 /\ slides' = slides - 1
      /\ UNCHANGED <<disk2, folders2, order, desc, clipboard, opening, upload, stale, acts>>
  BY DEF Files!SlideEnd
<1>2. slides' \in 0..MaxSlides
  BY <1>1, FilesAssumption DEF FilesInv, ListOK
<1>3. CASE UNCHANGED <<Files!pageVars, menu, moved, broken>>
  <2>1. UNCHANGED <<dir2, files2, pane2, faded, selected, info, timers, shared, adrift, broken>>
    BY <1>3, PageKeptIs
  <2>2. Settled' <=> Settled
    BY <2>1 DEF Settled
  <2>3. ListKept /\ RowsKept
    BY <1>1, <1>2, <1>3, <2>1, <2>2 DEF ListKept, RowsKept, FilesInv, ListOK
  <2>4. OpenOK' /\ AliasOK'
    BY <1>1, <1>3, <2>1, FilesMenuStays, SameAlias
  <2> QED BY <1>1, <2>1, <2>2, <2>3, <2>4, ListKeptOK, RowsKeptOK, BrowsingClip
          DEF Browsing, FilesInv
<1>4. CASE /\ \E d \in Dirs : Files!OpenDir(d)
           /\ menu' = Files!RowsGo(menu)
           /\ moved' = moved \cup IF menu'.kind = "old" /\ dir2' # dir2
                                 THEN Files!NamesIn(menu'.held) ELSE {}
  <2>1. /\ ListOK' /\ RowsOK' /\ SharedLess /\ shared' = {}
        /\ (broken' = broken \/ broken' = TRUE)
    BY <1>1, <1>2, <1>4, OpenDirOK
  <2>2. OpenOK' /\ KeptBy(menu') \subseteq shared \cup KeptBy(menu)
    BY <1>1, <1>4, FilesMenuStays
  <2>3. \A f \in KeptBy(menu') : f.name \in Files!Names
    BY <2>2 DEF FilesInv, AliasOK
  <2>4. /\ moved \subseteq moved' /\ moved' \subseteq Files!Names
        /\ dir2' = dir2 \/ \A f \in KeptBy(menu') : f.name \in moved'
    <3>1. moved \subseteq Files!Names
      BY DEF FilesInv, AliasOK
    <3>2. CASE menu'.kind = "old" /\ dir2' # dir2
      <4>1. moved' = moved \cup {f.name : f \in KeptBy(menu')}
        BY <1>4, <3>2 DEF KeptBy, Files!NamesIn
      <4> QED BY <2>3, <3>1, <4>1
    <3>3. CASE ~(menu'.kind = "old" /\ dir2' # dir2)
      BY <1>4, <3>1, <3>3 DEF KeptBy
    <3> QED BY <3>2, <3>3
  <2>5. AliasOK'
    BY <1>1, <2>1, <2>2, <2>4, AliasKeptOK DEF AliasKept
  <2> QED BY <1>1, <2>1, <2>2, <2>5, BrowsingClip DEF Browsing, FilesInv
<1> QED BY <1>3, <1>4 DEF Files!SlideEnd

-----------------------------------------------------------------------------
LEMMA InitFilesInv == MCInit => FilesInv
<1> SUFFICES ASSUME Files!Init PROVE FilesInv
  BY DEF MCInit
<1>0. PICK c \in Contents :
        folders2 = DOMAIN c /\ disk2 = [d \in Dirs |-> IF d \in folders2 THEN c[d] ELSE {}]
  BY DEF Files!Init
<1>1. /\ dir2 \in folders2 /\ adrift = FALSE
      /\ files2 = Files!Sorted(disk2[dir2], "name", FALSE) /\ pane2 = Files!Message
      /\ faded = FALSE /\ selected = {} /\ info = {} /\ timers = <<{}>>
      /\ order = "name" /\ desc = FALSE /\ clipboard = <<>> /\ menu = Files!NoMenu
      /\ shared = {} /\ slides = 0 /\ moved = {}
      /\ opening = FALSE /\ upload = {} /\ broken = FALSE /\ stale = {} /\ acts = 0
  BY DEF Files!Init, Files!NoUpload
<1>2. disk2 \in Folders(folders2) /\ dir2 \in Dirs /\ folders2 \subseteq Dirs
      /\ disk2[dir2] \in SUBSET Files!Names
  BY <1>0, <1>1, FilesAssumption DEF Folders, Files!Names
<1>3. files2 \in Seq(Files!Names) /\ Once(files2)
  BY <1>1, <1>2, SortedIs
<1>4. slides \in 0..MaxSlides /\ acts \in 0..MaxActs
  BY <1>1, FilesAssumption
<1>5. ListOK
  BY <1>1, <1>2, <1>3, <1>4 DEF ListOK
<1>6. RowsOK
  <2>1. timers \in Seq(SUBSET Files!Names) /\ timers # <<>>
    BY <1>1
  <2> QED BY <1>1, <2>1 DEF RowsOK, Files!InfoNamesSelection
<1>7. OpenOK
  <2>1. menu = Files!MenuOf("none", <<>>)
    BY <1>1 DEF Files!NoMenu, Files!MenuOf
  <2>2. <<>> \in Seq(Files!Names) /\ Once(<<>>) /\ "none" \in Kinds
    BY DEF Once, Kinds
  <2>3. opening \in BOOLEAN
    BY <1>1
  <2> QED BY <1>4, <2>1, <2>2, <2>3 DEF OpenOK, Files!MenuOf, Menus
<1>8. ClipOK
  BY <1>1, NoEntries DEF ClipOK
<1>9. AliasOK
  BY <1>1, NoEntries DEF AliasOK, KeptBy, Files!NoMenu
<1> QED BY <1>5, <1>6, <1>7, <1>8, <1>9 DEF FilesInv

LEMMA FilesInvStep ==
  ASSUME FilesInv, [MCNext]_<<vars, filesVars, part>>
  PROVE  FilesInv'
<1>1. CASE Files!FilesNext /\ UNCHANGED Files!treeVars
  <2>0. TreeKept
    BY <1>1, TreeKeptIs
  <2>1. CASE Files!FilesShown \/ Files!PressRefresh \/ Files!SelectAll
    BY <2>0, <2>1, RowsShownInv, PressRefreshOK, SelectAllOK
  <2>2. CASE \E n \in Files!Names :
               \/ Files!MenuFile(n) \/ Files!Rename(n) \/ Files!UploadFile(n)
               \/ \E key \in {"none", "ctrl", "shift"} : Files!SelectFile(n, key)
    BY <2>0, <2>2, MenuFileOK, RenameOK, UploadFileOK, SelectFileOK
  <2>3. CASE \E d \in Dirs :
               Files!ChangeDir(d) \/ Files!CopyClipboard(d) \/ Files!MoveClipboard(d)
    BY <2>0, <2>3, ChangeDirOK, CopyClipboardOK, MoveClipboardOK
  <2>4. CASE \E o \in {"name", "size"}, d \in BOOLEAN : Files!SetOrder(o, d)
    BY <2>0, <2>4, SetOrderOK
  <2>5. CASE Files!AddToClipboard
    BY <2>0, <2>5, AddToClipboardOK
  <2>6. CASE \E kind \in {"rename", "confirm", "confirmAll"} : Files!Ask(kind)
    BY <2>0, <2>6, AskOK
  <2>7. CASE Files!Cancel \/ Files!OpenClipboard \/ Files!ClipboardOpens
    BY <2>0, <2>7, MenuStepsOK
  <2>8. CASE Files!DeleteFile \/ Files!DeleteFiles \/ Files!DeleteClipboard
    BY <2>0, <2>8, DeleteFileOK, DeleteFilesOK, DeleteClipboardOK
  <2>9. CASE Files!ClearClipboard
    BY <2>0, <2>9, FromMenuOK
  <2>10. CASE \E i \in 1..MaxClip : Files!RemoveFromClipboard(i)
    BY <2>0, <2>10, FromMenuOK
  <2>11. CASE \E f \in upload, ok \in BOOLEAN : Files!UploadDone(f, ok)
    BY <2>0, <2>11, UploadDoneOK
  <2> QED BY <1>1, <2>1, <2>2, <2>3, <2>4, <2>5, <2>6, <2>7, <2>8, <2>9, <2>10, <2>11
          DEF Files!FilesNext
<1>2. CASE \E d \in Dirs : Files!DeleteDir(d) \/ Files!NewDir(d)
  BY <1>2, DeleteDirOK, NewDirOK
<1>3. CASE \E d, e \in Dirs, itself \in BOOLEAN : Files!RenameDir(d, e, itself)
  BY <1>3, RenameDirOK
<1>4. CASE Files!Slide \/ Files!SlideEnd
  BY <1>4, SlideOK, SlideEndOK
<1>5. CASE UNCHANGED filesVars
  <2>1. /\ UNCHANGED <<disk2, Files!pageVars, order, desc, clipboard, upload, broken, stale>>
        /\ UNCHANGED <<menu, opening, acts, folders2, slides, moved>>
    BY <1>5 DEF filesVars, Files!pageVars, Files!rowVars
  <2>2. OpenOK'
    BY <2>1 DEF FilesInv, OpenOK, Once
  <2> QED BY <2>1, <2>2, MenusOnly
<1>6. Files!Next => FilesInv'
  BY <1>1, <1>2, <1>3, <1>4 DEF Files!Next
<1> QED BY <1>1, <1>5, <1>6 DEF MCNext, Files!treeVars

\* So it always holds.
LEMMA FilesInvAlways == MCSpec => []FilesInv
<1>1. FilesInv /\ [MCNext]_<<vars, filesVars, part>> => FilesInv'
  BY FilesInvStep
<1> QED BY <1>1, InitFilesInv, PTL DEF MCSpec

\* The list of files is the open folder's, in the order that was chosen, and its rows,
\* selection and status line agree, for any folders, files and sizes, and any number of
\* timers, slides and changes, until that folder goes or is renamed from above.
THEOREM FileListAlways == MCSpec => []FileListAgrees
BY FilesInvAlways, FilesInvSuffices, PTL

\* The clipboard names every file once, but for those whose row outlived its folder's
\* name, at the place its menu shows, and none that the page has deleted one by one,
\* whatever folders are made, renamed and deleted.
THEOREM ClipboardAlways == MCSpec => []ClipboardAgrees
BY FilesInvAlways, FilesInvSuffices, PTL
=============================================================================
