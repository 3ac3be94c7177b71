----------------------------- MODULE KcfFolders -----------------------------
(***************************************************************************)
(* The folder tree of the KCFinder file browser and the files pane that    *)
(* follows it.  Requests are synchronous (async: false), so a handler is   *)
(* one step with the server's answer in it; what interleaves is the rest:  *)
(* the 500 ms animations whose callbacks change the folder or remove a     *)
(* node, the 200 ms indicator before a folder's subfolders are requested,  *)
(* the 200 ms timer of showFiles, and a menu or a question the user leaves *)
(* open meanwhile.                                                         *)
(*                                                                         *)
(* A path is the sequence of the names below the type's root folder.  The  *)
(* code compares paths as strings, so "a" counts as a prefix of "ab".  A   *)
(* node of the tree is named by the path it was created for; the path in   *)
(* its data may be another one after a rename.                             *)
(***************************************************************************)
EXTENDS Naturals, Sequences, FiniteSets, SequencesExt, Functions, TLC

CONSTANTS
  Initial,     \* folders on the disk at first, closed under parents
  MaxChanges,  \* bound: folders made, renamed or deleted in one behaviour
  MaxAnims     \* bound: animations at a time

Names == {"a", "ab"}
Root == <<>>
Paths == UNION {[1..n -> Names] : n \in 0..2}
None == <<"none">>

ASSUME FoldersAssumption ==
  /\ Initial \subseteq Paths /\ Root \in Initial /\ {MaxChanges, MaxAnims} \subseteq Nat
  /\ \A p \in Initial \ {Root} : Front(p) \in Initial

VARIABLES
  disk,      \* folders the server has
  tree,      \* the nodes: data('path'), the class of the brace, data('hasDirs')
  mark,      \* the node with class "current", None when there is none
  dir,       \* _.dir
  pane,      \* folder whose files are listed, or None (a message instead)
  files,     \* folder that _.files was read from
  timer,     \* a timer of showFiles runs
  anims,     \* animations whose callback is to come
  loading,   \* the #loadingDirs element: the node it is in, its phase, and the
             \* path the node had when it was clicked
  acting,    \* open file menu or question: its phase, and the folder the file
             \* is in (None when a folder was being hidden at that moment)
  failed,    \* (history) whether the last request of changeDir failed
  strayed,   \* (history) whether the last changeDir was of a node outside the tree
  renamed,   \* (history) whether a node ever had the path of another folder
             \* than it was made for: "some", or two nodes one path: "twins"
  changes

vars == <<disk, tree, mark, dir, pane, files, timer, anims, loading, acting,
          failed, strayed, renamed, changes>>
paneVars == <<mark, dir, pane, files, timer, failed, strayed>>

Node == [path : Paths, brace : {"opened", "closed", "none"}, hasDirs : BOOLEAN]
nodes == DOMAIN tree
Children(S, p) == {q \in S : q # Root /\ Front(q) = p}
Within(S, p) == {q \in S : IsPrefix(p, q)}

StartsWith(m, n) == m = n \/ (m = "a" /\ n = "ab")
(* p == q.substr(0, p.length) on the strings. *)
StringPrefix(p, q) ==
  \/ p = Root
  \/ Len(p) <= Len(q) /\ IsPrefix(Front(p), q) /\ StartsWith(Last(p), q[Len(p)])

Idle == [node |-> None, phase |-> "none", path |-> Root]
NoMenu == [from |-> None, phase |-> "none"]

FoldersTypeOK ==
  /\ disk \subseteq Paths /\ nodes \subseteq Paths /\ tree \in [nodes -> Node]
  /\ mark \in nodes \cup {None} /\ dir \in Paths /\ files \in Paths
  /\ pane \in Paths \cup {None} /\ timer \in BOOLEAN
  /\ anims \subseteq [kind : {"collapse", "rmdir"}, node : nodes, path : Paths]
                     \cup [kind : {"stray"}, path : Paths, to : Paths]
  /\ loading \in [node : nodes \cup {None}, phase : {"show", "hide", "none"}, path : Paths]
  /\ acting \in [from : Paths \cup {None}, phase : {"menu", "confirm", "none"}]
  /\ failed \in {"never", "last", "earlier"} /\ renamed \in {"none", "some", "twins"}
  /\ strayed \in BOOLEAN /\ changes \in 0..MaxChanges

(* The data of a new node for the folder p of the disk (setTreeData). *)
NodeFor(p) ==
  LET has == Children(disk, p) # {}
  IN [path |-> p, brace |-> IF has THEN "closed" ELSE "none", hasDirs |-> has]

(* initContent: the root, opened, with its folders, and its files. *)
Init ==
  /\ disk = Initial
  /\ tree = [p \in {Root} \cup Children(Initial, Root) |->
               IF p = Root THEN [NodeFor(p) EXCEPT !.brace = "opened"] ELSE NodeFor(p)]
  /\ mark = Root /\ dir = Root /\ pane = None /\ files = Root /\ timer = TRUE
  /\ anims = {} /\ loading = Idle /\ acting = NoMenu
  /\ failed = "never" /\ strayed = FALSE /\ renamed = "none" /\ changes = 0

-----------------------------------------------------------------------------
(* What changeDir asks for and shows: _.dir and _.files follow only when   *)
(* the request for the folder p succeeds.                                  *)
PaneWhileLoading == None
OpenFolder(p, ok) ==
  LET done == ok /\ p \in disk
  IN /\ pane' = PaneWhileLoading
     /\ failed' = IF ~done THEN "last"
                  ELSE IF failed = "never" THEN "never" ELSE "earlier"
     /\ IF done THEN dir' = p /\ files' = p /\ timer' = TRUE
        ELSE UNCHANGED <<dir, files, timer>>

(* changeDir on node h, when the tree keeps the nodes N: h is marked       *)
(* before the request.                                                     *)
Marked(h, N) == IF h \in N THEN h ELSE None
ChangeTo(h, N, ok) ==
  /\ mark' = Marked(h, N)
  /\ IF h = mark THEN UNCHANGED <<dir, pane, files, timer, failed, strayed>>
     ELSE strayed' = FALSE /\ OpenFolder(tree[h].path, ok)

(* The same, if the string of the path p begins the one of _.dir. *)
ChangeIfInMutant(p, h, N, ok) ==
  IF StringPrefix(dir, p) THEN ChangeTo(h, N, ok)
  ELSE mark' = Marked(mark, N) /\ UNCHANGED <<dir, pane, files, timer, failed, strayed>>
ChangeIfIn(p, h, N, ok) ==
  IF StringPrefix(p, dir) THEN ChangeTo(h, N, ok)
  ELSE mark' = Marked(mark, N) /\ UNCHANGED <<dir, pane, files, timer, failed, strayed>>

(* refresh of the files of _.dir *)
RefreshPane(ok) ==
  /\ UNCHANGED <<mark, dir, failed, strayed>>
  /\ IF ok /\ dir \in disk THEN files' = dir /\ timer' = TRUE /\ UNCHANGED pane
     ELSE /\ pane' \in {pane, None}
          /\ UNCHANGED <<files, timer>>

(* The nodes D leave the document; an indicator in them is not found       *)
(* again.  detach() stops no animation: a callback that opens a node of D  *)
(* will open it, if its class was not "current" then; one that deletes a   *)
(* node of D whose parent stays finds no parent, and fails.                *)
Target(a) == IF a.kind = "collapse" THEN a.node ELSE Front(a.node)
Stray(a) == [kind |-> "stray", to |-> tree[Target(a)].path,
             path |-> IF a.kind = "collapse" THEN a.path ELSE tree[Target(a)].path]
AnimsWithout(A, D) ==
  LET left == {a \in A : a.kind # "stray" /\ a.node \in D}
  IN (A \ left) \cup {Stray(a) : a \in {b \in left : Target(b) \in D \ {mark}}}
LoadingWithout(D) == IF loading.node \in D THEN Idle ELSE loading

(* The user sees a node unless subfolders it is among are hidden. *)
Collapsing(p) == \E a \in anims : a.kind = "collapse" /\ a.node = p
Visible(h) ==
  \A p \in nodes : IsPrefix(p, h) /\ p # h => tree[p].brace # "closed" \/ Collapsing(p)

(* A click outside a menu closes it; a question is modal. *)
Free == acting.phase # "confirm"
ClickedMutant == Free /\ UNCHANGED acting
Clicked == Free /\ acting' = NoMenu

(* A click on the brace: hide the subfolders, show them again, or ask for  *)
(* them unless another request for folders is being shown.                 *)
ExpandDir(h) ==
  /\ Clicked /\ Visible(h)
  /\ \/ /\ tree[h].brace = "opened" /\ Cardinality(anims) < MaxAnims
        /\ anims' = anims \cup {[kind |-> "collapse", node |-> h, path |-> tree[h].path]}
        /\ tree' = [tree EXCEPT ![h].brace = "closed"]
        /\ UNCHANGED loading
     \/ /\ tree[h].brace = "closed" /\ Children(nodes, h) # {}
        /\ tree' = [tree EXCEPT ![h].brace = "opened"]
        /\ UNCHANGED <<anims, loading>>
     \/ /\ tree[h].brace = "closed" /\ Children(nodes, h) = {} /\ loading = Idle
        /\ loading' = [node |-> h, phase |-> "show", path |-> tree[h].path]
        /\ UNCHANGED <<anims, tree>>
  /\ UNCHANGED <<disk, paneVars, changes>>

(* The callback of the hidden subfolders: the open folder may be in them. *)
CollapseEnd(a, ok) ==
  /\ a.kind = "collapse"
  /\ anims' = anims \ {a}
  /\ ChangeIfIn(a.path, a.node, nodes, ok)
  /\ UNCHANGED <<disk, tree, loading, acting, changes>>

(* The indicator is shown: the request for the subfolders of that path. *)
LoadDirs(ok) ==
  LET h == loading.node
      p == loading.path
      new == {h \o <<Last(q)>> : q \in Children(disk, p)}
  IN /\ loading.phase = "show"
     /\ loading' = IF ok THEN [loading EXCEPT !.phase = "hide"] ELSE Idle
     /\ tree' = IF ~ok \/ p \notin disk THEN tree
                ELSE [q \in nodes \cup new |->
                        IF q \in new THEN NodeFor(p \o <<Last(q)>>)
                        ELSE IF q = h
                        THEN [tree[h] EXCEPT !.brace = IF new = {} THEN "none" ELSE "opened"]
                        ELSE tree[q]]
     /\ UNCHANGED <<disk, paneVars, anims, acting, changes>>

LoadingGone ==
  /\ loading.phase = "hide" /\ loading' = Idle
  /\ UNCHANGED <<disk, tree, paneVars, anims, acting, changes>>

(* showFiles' timer fills the pane with _.files. *)
FilesShown ==
  /\ timer /\ timer' = FALSE
  /\ pane' = files
  /\ UNCHANGED <<disk, tree, mark, dir, files, failed, strayed, anims, loading, acting,
                 changes>>

ChangeDir(h, ok) ==
  /\ Clicked /\ Visible(h) /\ h # mark
  /\ ChangeTo(h, nodes, ok)
  /\ UNCHANGED <<disk, tree, anims, loading, changes>>

Refresh(ok) ==
  /\ Clicked
  /\ RefreshPane(ok)
  /\ UNCHANGED <<disk, tree, anims, loading, changes>>

(* refreshDir: forget the subfolders, open h if the open folder seems to   *)
(* be in it, ask for the subfolders anew.  The node becomes n.             *)
RefreshNode(h, n, ok) ==
  LET gone == Within(nodes, h) \ {h}
  IN /\ tree' = [Restrict(tree, nodes \ gone) EXCEPT ![h] = n]
     /\ anims' = AnimsWithout(anims, gone)
     /\ loading' = IF LoadingWithout(gone) = Idle
                   THEN [node |-> h, phase |-> "show", path |-> tree[h].path]
                   ELSE loading
     /\ ChangeIfIn(tree[h].path, h, nodes \ gone, ok)

Closed(n) == IF n.brace = "none" THEN n ELSE [n EXCEPT !.brace = "closed"]

RefreshDir(h, ok) ==
  /\ Clicked /\ Visible(h)
  /\ RefreshNode(h, Closed(tree[h]), ok)
  /\ UNCHANGED <<disk, changes>>

-----------------------------------------------------------------------------
Changed == changes < MaxChanges /\ changes' = changes + 1

(* "New Subfolder...": on success the folder is refreshed and, when it had *)
(* no subfolder, gets a brace.                                             *)
NewDir(h, n, ok) ==
  LET p == tree[h].path
  IN /\ Clicked /\ Changed /\ Visible(h)
     /\ Len(h) < 2 /\ Len(p) < 2 /\ p \in disk /\ p \o <<n>> \notin disk
     /\ disk' = disk \cup {p \o <<n>>}
     /\ RefreshNode(h, IF tree[h].hasDirs THEN Closed(tree[h])
                       ELSE [tree[h] EXCEPT !.brace = "closed", !.hasDirs = TRUE], ok)

RenamedMutant(q, old, new) == q
Renamed(q, old, new) == IF q = old /\ dir = old THEN new ELSE q

(* "Rename...": the server moves the folder; the node gets its new path,   *)
(* _.dir does when it is this very folder, the nodes below do not.         *)
RenameDir(h, n) ==
  LET old == tree[h].path
      new == Front(old) \o <<n>>
      Moved(q) == IF IsPrefix(old, q) THEN new \o SubSeq(q, Len(old) + 1, Len(q)) ELSE q
  IN /\ Clicked /\ Changed /\ h # Root /\ Visible(h)
     /\ old \in disk /\ new \notin disk
     /\ disk' = {Moved(q) : q \in disk}
     /\ tree' = [tree EXCEPT ![h].path = new]
     /\ dir' = Renamed(dir, old, new) /\ pane' = Renamed(pane, old, new)
     /\ files' = Renamed(files, old, new)
     /\ UNCHANGED <<mark, timer, failed, strayed, anims, loading>>

(* "Delete", after its question: the server removes the folder, the node   *)
(* is hidden.                                                              *)
DeleteDir(h) ==
  /\ Clicked /\ Changed /\ h # Root /\ Visible(h)
  /\ tree[h].path \in disk /\ Cardinality(anims) < MaxAnims
  /\ disk' = disk \ Within(disk, tree[h].path)
  /\ anims' = anims \cup {[kind |-> "rmdir", node |-> h, path |-> tree[h].path]}
  /\ UNCHANGED <<tree, paneVars, loading>>

(* The node is hidden: it goes, and its parent is opened if the open       *)
(* folder seems to be in the parent.                                       *)
DeleteDirEnd(a, ok) ==
  LET h == a.node
      gone == Within(nodes, h)
      kept == Restrict(tree, nodes \ gone)
  IN /\ a.kind = "rmdir"
     /\ tree' = IF Children(nodes, Front(h)) # {h} THEN kept
                ELSE [kept EXCEPT ![Front(h)].brace = "none",
                                  ![Front(h)].hasDirs = FALSE]
     /\ anims' = AnimsWithout(anims \ {a}, gone)
     /\ loading' = LoadingWithout(gone)
     /\ ChangeIfIn(tree[Front(h)].path, Front(h), nodes \ gone, ok)
     /\ UNCHANGED <<disk, acting, changes>>

(* The callback of a node that is no longer in the tree: changeDir takes    *)
(* the mark from every node and gives it to that one.  There may be more    *)
(* animations alike.                                                       *)
OrphanEnd(a, ok) ==
  /\ a.kind = "stray"
  /\ anims' \in {anims, anims \ {a}}
  /\ IF StringPrefix(a.path, dir)
     THEN mark' = None /\ strayed' = TRUE /\ OpenFolder(a.to, ok)
     ELSE UNCHANGED paneVars
  /\ UNCHANGED <<disk, tree, loading, acting, changes>>

-----------------------------------------------------------------------------
(* The context menu of a file of the pane, its "Delete" and the question.  *)
FileMenu ==
  /\ Free /\ pane # None
  /\ acting' = [from |-> IF anims = {} THEN pane ELSE None, phase |-> "menu"]
  /\ UNCHANGED <<disk, tree, paneVars, anims, loading, changes>>

Ask ==
  /\ acting.phase = "menu"
  /\ acting' = [acting EXCEPT !.phase = "confirm"]
  /\ UNCHANGED <<disk, tree, paneVars, anims, loading, changes>>

(* Yes: the file of that name in _.dir is deleted and the pane refreshed.  *)
(* No closes the question.                                                 *)
Answer(yes, ok) ==
  /\ acting.phase = "confirm" /\ acting' = NoMenu
  /\ IF yes THEN RefreshPane(ok) ELSE UNCHANGED paneVars
  /\ UNCHANGED <<disk, tree, anims, loading, changes>>

(* Bound: connections break until a change of folder failed, later requests *)
(* fail only when the server has no such folder.                           *)
Outcomes == IF failed = "never" THEN BOOLEAN ELSE {TRUE}

AnimEnd == \E a \in anims, ok \in Outcomes :
  CollapseEnd(a, ok) \/ DeleteDirEnd(a, ok) \/ OrphanEnd(a, ok)

Step ==
  \/ AnimEnd
  \/ LoadingGone
  \/ FilesShown
  \/ \E h \in nodes :
       \/ ExpandDir(h)
       \/ DeleteDir(h)
       \/ \E n \in Names : RenameDir(h, n)
       \/ \E ok \in Outcomes :
            \/ ChangeDir(h, ok) \/ RefreshDir(h, ok)
            \/ \E n \in Names : NewDir(h, n, ok)
  \/ \E ok \in Outcomes : Refresh(ok) \/ LoadDirs(ok)
  \/ FileMenu \/ Ask
  \/ \E yes \in BOOLEAN, ok \in Outcomes : Answer(yes, ok)

OwnPaths(t) == \A p \in DOMAIN t : t[p].path = p
Twins(t) == \E p, q \in DOMAIN t : p # q /\ t[p].path = t[q].path

Next ==
  /\ Step
  /\ renamed' = IF renamed = "twins" \/ Twins(tree') THEN "twins"
                ELSE IF renamed = "none" /\ OwnPaths(tree') THEN "none" ELSE "some"

Spec == Init /\ [][Next]_vars
-----------------------------------------------------------------------------
(* The files listed are those of _.dir, the folder every file operation    *)
(* names to the server: no answer, timer or animation shows the files of   *)
(* another folder.                                                         *)
PaneShowsDir == pane # None => pane = dir

(* The folder marked as the open one is _.dir, unless the request that     *)
(* followed the mark failed (the mark is set first and is not taken back): *)
(* a drop on the pane asks the mark whether it may write and sends the     *)
(* files to _.dir.  Two nodes can have one path, if a folder is renamed to *)
(* the name of one whose node is still being hidden; a rename of either    *)
(* then changes _.dir under the mark of the other.                         *)
MarkIsDir ==
  failed # "last" /\ renamed # "twins" /\ mark # None => tree[mark].path = dir

(* When nothing slides the open folder is in sight: it is marked and no    *)
(* folder above it is collapsed, whatever was collapsed, refreshed or      *)
(* deleted meanwhile.  Not so after a failed request, nor after a rename   *)
(* of a folder, whose subfolders keep their old paths; and without a mark, *)
(* though not out of sight, when the animation of a node that a refresh    *)
(* has replaced was the last to open it.                                   *)
OpenFolderInSight ==
  anims = {} /\ failed = "never" /\ renamed = "none" =>
    /\ mark = None => strayed
    /\ \A p \in nodes : IsPrefix(p, dir) /\ p # dir => tree[p].brace = "opened"

(* "Delete" of a file's menu acts in the folder the file was listed in,    *)
(* provided no folder was being hidden when the menu was opened: the       *)
(* handlers read _.dir only when the user answers, and the end of an       *)
(* animation changes it under an open menu or question.                    *)
FileActionsStay == acting.from # None => acting.from = dir
=============================================================================
