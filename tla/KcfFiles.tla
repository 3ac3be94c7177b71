------------------------------ MODULE KcfFiles ------------------------------
(***************************************************************************)
(* The files pane of the KCFinder file browser, its selection, its status  *)
(* line and the clipboard of files.  Requests of the handlers are          *)
(* synchronous; what interleaves with the user is the 200 ms timer of      *)
(* showFiles, the 1 ms timer that opens the menu of the clipboard, a menu  *)
(* or a question left open, a folder sliding in the tree, and the answer   *)
(* to a form upload.  A file is its name and the folder it is in; only     *)
(* this browser changes the folders.  An entry of the clipboard is the     *)
(* data object of a row, so it follows the row's next entry while the row  *)
(* is shown.                                                               *)
(***************************************************************************)
EXTENDS SequencesExt, Ordering

CONSTANTS
  Dirs,       \* paths of folders
  Initial,    \* what there may be at first: functions from the folders that are there
              \* to the names of their files
  ReadOnly,   \* names of files that are not writable
  Size,       \* size of the file of each name
  MaxTimers,  \* bound: timers of showFiles at a time
  MaxClip,    \* bound: files in the clipboard
  MaxSlides,  \* bound: slides of the tree at a time
  MaxActs     \* bound: operations that change the folders, and settings

Names == DOMAIN Size
NoName == 0  \* of an entry made from a row that is gone

VARIABLES
  disk,        \* names of the files the server has in each folder
  folders,     \* the folders the server has
  dir,         \* _.dir
  files,       \* _.files, in its order
  pane,        \* the rows of #files, or Message
  faded,       \* the rows are grey
  selected,    \* rows with the class "selected"
  info,        \* #fileinfo: names of the files selected, {} for the folder's total
  timers,      \* timers of showFiles: the names each will select
  order, desc, \* the cookies
  clipboard,   \* _.clipboard
  shared,      \* the entries of it that are data objects of the rows shown
  slides,      \* slides of folders in the tree that go on
  menu,        \* the open menu or question, and what its handlers captured
  opening,     \* the timer of openClipboard runs
  upload,      \* the form upload in flight: folder and name
  broken,      \* (history) a request got no answer
  stale,       \* (history) entries of files since renamed, deleted by the menu of
               \* several or gone with their folder, and of a row that was about
               \* to go or not the open folder's
  moved,       \* (history) names of entries whose row was shown while its folder
               \* became another
  adrift,      \* (history) the list is not one of the open folder: that folder
               \* went or the answer to a change was an error, and none was read since
  acts

rowVars == <<dir, files, pane, faded, selected, info, timers>>
pageVars == <<rowVars, shared, adrift>>
treeVars == <<folders, slides, moved>>
vars == <<disk, pageVars, treeVars, order, desc, clipboard, menu, opening, upload, broken,
          stale, acts>>

File == [name : Names \cup {NoName}, dir : Dirs]
Message == <<0>>
NoMenu == [kind |-> "none", of |-> <<>>, held |-> {}]
MenuOf(k, s) == [kind |-> k, of |-> s, held |-> {}]
NoUpload == {}
rows == IF pane = Message THEN {} ELSE ToSet(pane)

FilesTypeOK ==
  /\ disk \in [Dirs -> SUBSET Names] /\ dir \in Dirs /\ folders \subseteq Dirs
  /\ files \in Seq(Names) /\ pane \in Seq(Names) \cup {Message}
  /\ faded \in BOOLEAN /\ selected \subseteq rows /\ info \subseteq Names
  /\ timers \in Seq(SUBSET Names) /\ order \in {"name", "size"} /\ desc \in BOOLEAN
  /\ clipboard \in Seq(File) /\ opening \in BOOLEAN /\ broken \in BOOLEAN
  /\ menu.kind \in {"none", "file", "old", "files", "gone", "confirm", "confirmAll", "clip",
                    "rename"}
  /\ menu.held \subseteq File /\ shared \subseteq ToSet(clipboard) /\ moved \subseteq Names
  /\ adrift \in BOOLEAN /\ slides \in 0..MaxSlides
  /\ IF menu.kind = "clip" THEN menu.of \in Seq(File) ELSE menu.of \in Seq(Names)
  /\ upload \subseteq File /\ Cardinality(upload) \in 0..1 /\ stale \subseteq ToSet(clipboard)
  /\ acts \in 0..MaxActs

-----------------------------------------------------------------------------
(* orderFiles' comparison: files of equal size are in the order of their   *)
(* names, whatever the direction.                                          *)
Tie(m, n, d) == m < n
Before(m, n, o, d) ==
  LET a == IF o = "size" THEN Size[m] ELSE m
      b == IF o = "size" THEN Size[n] ELSE n
  IN IF a = b THEN Tie(m, n, d) ELSE IF d THEN a > b ELSE a < b
Sorted(S, o, d) == Listed(S, {p \in S \X S : Before(p[1], p[2], o, d)})

Init ==
  /\ \E content \in Initial :
       /\ folders = DOMAIN content
       /\ disk = [d \in Dirs |-> IF d \in folders THEN content[d] ELSE {}]
  /\ dir \in folders /\ adrift = FALSE
  /\ files = Sorted(disk[dir], "name", FALSE) /\ pane = Message /\ faded = FALSE
  /\ selected = {} /\ info = {} /\ timers = <<{}>>
  /\ order = "name" /\ desc = FALSE /\ clipboard = <<>> /\ menu = NoMenu
  /\ shared = {} /\ slides = 0 /\ moved = {}
  /\ opening = FALSE /\ upload = NoUpload /\ broken = FALSE /\ stale = {} /\ acts = 0

(* orderFiles(null, sel) of the names S: _.files is sorted, the rows are   *)
(* greyed until the timer, the status line is the folder's again.          *)
OrderFiles(S, sel, o, d) ==
  /\ Len(timers) < MaxTimers
  /\ files' = Sorted(S, o, d)
  /\ timers' = Append(timers, sel)
  /\ faded' = (pane # Message) /\ info' = {}
  /\ UNCHANGED <<pane, selected>>

(* A message takes the place of the rows. *)
EmptyPane == pane' = Message /\ faded' = FALSE /\ selected' = {} /\ shared' = {}

(* The entries for the files S are outdated. *)
Outdated(S) == stale' = (stale \cup S) \cap ToSet(clipboard')

(* The rows stay, some of their objects may have left the clipboard. *)
StillShared == shared' = shared \cap ToSet(clipboard')

(* refresh(sel) when the files have become D: the answer is the list of    *)
(* _.dir, or an error when there is no such folder, or there is none.      *)
Refresh(D, sel) ==
  /\ UNCHANGED dir
  /\ \/ /\ dir \in folders /\ OrderFiles(D[dir], sel, order, desc)
        /\ adrift' = FALSE /\ StillShared /\ UNCHANGED broken
     \/ /\ dir \notin folders /\ faded' = FALSE /\ StillShared
        /\ UNCHANGED <<files, pane, selected, info, timers, adrift, broken>>
     \/ /\ ~broken /\ broken' = TRUE
        /\ EmptyPane /\ UNCHANGED <<files, info, timers, adrift>>

(* What a menu of rows holds once they are gone: the data object of the    *)
(* one, which may be in the clipboard; of several, nothing.                *)
RowsGo(m) ==
  CASE m.kind = "file" ->
         [m EXCEPT !.kind = "old", !.held = {f \in shared : f.name = m.of[1]}]
    [] m.kind = "files" -> [m EXCEPT !.kind = "gone"]
    [] OTHER -> m

(* The timer of showFiles: new rows in the order of _.files. *)
SelectedRows(sel) == sel \cap ToSet(files)
InfoAfterTimerMutant == info
InfoAfterTimer == {}
FilesShown ==
  /\ timers # <<>>
  /\ pane' = files /\ faded' = FALSE
  /\ selected' = SelectedRows(Head(timers)) /\ info' = InfoAfterTimer
  /\ timers' = Tail(timers)
  /\ shared' = {} /\ menu' = RowsGo(menu)
  /\ UNCHANGED <<disk, dir, files, order, desc, clipboard, opening, upload, broken, stale,
                 adrift, acts>>

(* No question is open; a click closes the open menu. *)
Free == menu.kind \notin {"confirm", "confirmAll", "rename"}
Click == Free /\ menu' = NoMenu
Acted == acts < MaxActs /\ acts' = acts + 1

(* changeDir: the rows go, the list comes with the answer, unless that is  *)
(* an error, for a folder that is no more, or there is none.               *)
OpenDir(d) ==
  /\ EmptyPane
  /\ \/ /\ d \in folders /\ dir' = d /\ adrift' = FALSE /\ Len(timers) < MaxTimers
        /\ files' = Sorted(disk[d], order, desc) /\ timers' = Append(timers, {})
        /\ info' = {} /\ UNCHANGED broken
     \/ /\ d \notin folders /\ adrift' = TRUE
        /\ UNCHANGED <<dir, files, info, timers, broken>>
     \/ /\ ~broken /\ broken' = TRUE
        /\ UNCHANGED <<dir, files, info, timers, adrift>>

(* A click on a folder that is not marked (module KcfFolders). *)
ChangeDir(d) ==
  /\ Click /\ OpenDir(d)
  /\ UNCHANGED <<disk, order, desc, clipboard, opening, upload, stale, acts>>

PressRefresh ==
  /\ Click /\ UNCHANGED clipboard /\ Refresh(disk, {})
  /\ UNCHANGED <<disk, order, desc, opening, upload, stale, acts>>

(* The settings' order and direction: orderFiles without a request. *)
SetOrder(o, d) ==
  /\ Click /\ <<o, d>> # <<order, desc>> /\ Acted
  /\ order' = o /\ desc' = d
  /\ OrderFiles(ToSet(files), {}, o, d)
  /\ UNCHANGED <<disk, dir, shared, adrift, clipboard, opening, upload, broken, stale>>

-----------------------------------------------------------------------------
(* selectFile.  With shift, an unselected row selects the rows above it up *)
(* to the first selected one; then, as with ctrl, its class is toggled.    *)
RowOf(n) == CHOOSE i \in DOMAIN pane : pane[i] = n
Upwards(n) ==
  {pane[i] : i \in {k \in 1..(RowOf(n) - 1) :
                      \A j \in k..(RowOf(n) - 1) : pane[j] \notin selected}}
Toggled(n, S) == IF n \in S THEN S \ {n} ELSE S \cup {n}

SelectFile(n, key) ==
  /\ Click /\ n \in rows
  /\ selected' = CASE key = "none" -> {n}
                   [] key = "ctrl" -> Toggled(n, selected)
                   [] key = "shift" ->
                        Toggled(n, selected \cup IF n \in selected THEN {} ELSE Upwards(n))
  /\ info' = selected'
  /\ UNCHANGED <<disk, dir, files, pane, faded, timers, shared, adrift, order, desc, clipboard,
                 opening, upload, broken, stale, acts>>

(* Ctrl-A; the handler of the key leaves a menu or a question open. *)
SelectAll ==
  /\ rows # {}
  /\ selected' = rows /\ info' = rows
  /\ UNCHANGED <<disk, dir, files, pane, faded, timers, shared, adrift, order, desc, clipboard,
                 menu, opening, upload, broken, stale, acts>>

(* menuFile: the menu of all selected files when the row is one of         *)
(* several, the file's own menu, which selects it, otherwise.              *)
InOrder(S) == Filtered(pane, S)
MenuFile(n) ==
  /\ Free /\ n \in rows
  /\ IF n \in selected /\ Cardinality(selected) > 1
     THEN menu' = MenuOf("files", InOrder(selected)) /\ UNCHANGED <<selected, info>>
     ELSE menu' = MenuOf("file", <<n>>) /\ selected' = {n} /\ info' = {n}
  /\ UNCHANGED <<disk, dir, files, pane, faded, timers, shared, adrift, order, desc, clipboard,
                 opening, upload, broken, stale, acts>>

(* "Add to Clipboard": those of the menu's files that are not in it yet.   *)
(* Each entry is the row's data object, whose folder is set now: an entry  *)
(* of the same row says the new folder too.  Rows that are gone have lost  *)
(* their data, but for the one whose menu is open.                         *)
Entries ==
  IF menu.kind = "gone" THEN <<[name |-> NoName, dir |-> dir]>>
  ELSE [i \in DOMAIN menu.of |-> [name |-> menu.of[i], dir |-> dir]]
AddedMutant(s) == s
Added(s) == Filtered(s, File \ ToSet(clipboard))
NamesIn(S) == {f.name : f \in S}

AddToClipboard ==
  LET new == Added(Entries)
      now == NamesIn(ToSet(new))
      same == {f \in IF menu.kind = "old" THEN menu.held ELSE shared : f.name \in now}
  IN /\ menu.kind \in {"file", "old", "files", "gone"} /\ menu' = NoMenu
     /\ clipboard' = [i \in DOMAIN clipboard |->
                        IF clipboard[i] \in same THEN [clipboard[i] EXCEPT !.dir = dir]
                        ELSE clipboard[i]] \o new
     /\ shared' = IF menu.kind \in {"file", "files"}
                  THEN {f \in shared : f.name \notin now} \cup ToSet(new) ELSE shared
     /\ Outdated({f \in ToSet(new) : adrift \/ f.name \notin ToSet(files)})
     /\ Len(clipboard') <= MaxClip
     /\ UNCHANGED <<disk, rowVars, adrift, order, desc, opening, upload, broken, acts>>

(* "Rename..." and "Delete" open a dialog; what they would do to a file    *)
(* that is not writable is left out of the menu.  The menu of several asks *)
(* the clicked row only, then takes the writable ones.  The folder is the  *)
(* one open now, but for the deletion of one file.                         *)
Writable(s) == Filtered(s, Names \ ReadOnly)
Ask(kind) ==
  /\ \/ menu.kind \in {"file", "old"} /\ kind \in {"rename", "confirm"}
     \/ menu.kind = "files" /\ kind = "confirmAll"
  /\ Writable(menu.of) # <<>>
  /\ menu' = [MenuOf(kind, Writable(menu.of)) EXCEPT
                !.held = IF kind = "confirm" THEN {}
                         ELSE {[name |-> n, dir |-> dir] : n \in ToSet(Writable(menu.of))}]
  /\ UNCHANGED <<disk, pageVars, order, desc, clipboard, opening, upload, broken, stale, acts>>

Cancel ==
  /\ ~Free /\ menu' = NoMenu
  /\ UNCHANGED <<disk, pageVars, order, desc, clipboard, opening, upload, broken, stale, acts>>

(* The server does not answer, having acted (the folders become D) or not. *)
NoAnswer(D) ==
  /\ ~broken /\ broken' = TRUE /\ disk' \in {disk, D}
  /\ UNCHANGED <<pageVars, clipboard>>

(* fileNameDialog's submit: on success the pane is refreshed; the dialog   *)
(* stays when the server refuses (no step) or does not answer.             *)
Rename(new) ==
  /\ menu.kind = "rename" /\ Acted
  /\ \E f \in menu.held :
       LET D == [disk EXCEPT ![f.dir] = (@ \ {f.name}) \cup {new}]
       IN /\ f.name \in disk[f.dir] /\ new \in Names \ (disk[f.dir] \cup ReadOnly)
          /\ \/ menu' = NoMenu /\ disk' = D /\ UNCHANGED clipboard /\ Refresh(D, {})
             \/ NoAnswer(D) /\ UNCHANGED menu
          /\ Outdated({f})
  /\ UNCHANGED <<order, desc, opening, upload>>

(* "Delete" of one file.  An answer clears the clipboard, an error of the  *)
(* server too; only a success refreshes the pane.                          *)
ClearedMutant == clipboard
Cleared == <<>>
DeleteFile ==
  LET n == menu.of[1]
      D == [disk EXCEPT ![dir] = @ \ {n}]
  IN /\ menu.kind = "confirm" /\ menu' = NoMenu /\ Acted
     /\ \/ disk' = D /\ clipboard' = Cleared /\ Refresh(D, {})
        \/ clipboard' = Cleared /\ StillShared /\ UNCHANGED <<disk, rowVars, adrift, broken>>
        \/ NoAnswer(D)
     /\ Outdated({}) /\ UNCHANGED <<order, desc, opening, upload>>

(* A request about a list of files: those that the server could serve are  *)
(* served, the pane is refreshed whether there were errors or not.         *)
Without(S) == [d \in Dirs |-> disk[d] \ {f.name : f \in {e \in S : e.dir = d}}]
ListNoAnswer(D) ==
  /\ ~broken /\ broken' = TRUE /\ disk' \in {disk, D}
  /\ faded' = FALSE
  /\ UNCHANGED <<dir, files, pane, selected, info, timers, shared, adrift, clipboard>>

DeleteFiles ==
  /\ menu.kind = "confirmAll" /\ menu' = NoMenu /\ Acted
  /\ \/ \E done \in SUBSET menu.held :
          disk' = Without(done) /\ UNCHANGED clipboard /\ Refresh(disk', {})
     \/ ListNoAnswer(Without(menu.held))
  /\ Outdated(menu.held) /\ UNCHANGED <<order, desc, opening, upload>>

-----------------------------------------------------------------------------
(* openClipboard: closes the clipboard's menu if it is open, opens it by a *)
(* timer otherwise.  The click reaches the body as well, which closes any  *)
(* menu before the timer.                                                  *)
OpenClipboard ==
  /\ Click /\ clipboard # <<>>
  /\ opening' = (opening \/ menu.kind # "clip")
  /\ UNCHANGED <<disk, pageVars, order, desc, clipboard, upload, broken, stale, acts>>

ClipboardOpens ==
  /\ opening /\ opening' = FALSE /\ Free
  /\ menu' = MenuOf("clip", clipboard)
  /\ UNCHANGED <<disk, pageVars, order, desc, clipboard, upload, broken, stale, acts>>

(* A click on the i-th entry of the menu; the menu is rendered anew. *)
MenuAfterRemoval == NoMenu
RemoveFromClipboard(i) ==
  /\ menu.kind = "clip" /\ i \in DOMAIN menu.of /\ i \in DOMAIN clipboard
  /\ clipboard' = RemoveAt(clipboard, i)
  /\ menu' = MenuAfterRemoval /\ opening' = (opening \/ Len(clipboard) > 1)
  /\ StillShared /\ Outdated({})
  /\ UNCHANGED <<disk, rowVars, adrift, order, desc, upload, broken, acts>>

ClearClipboard ==
  /\ menu.kind = "clip" /\ menu' = NoMenu /\ clipboard' = <<>> /\ StillShared /\ Outdated({})
  /\ UNCHANGED <<disk, rowVars, adrift, order, desc, opening, upload, broken, acts>>

Clip == ToSet(clipboard)
Readable == {f \in Clip : f.name # NoName}
Movable == {f \in Readable : f.name \notin ReadOnly}
OnDisk(S) == {f \in S : f.name \in disk[f.dir]}

(* copyClipboard(to), from the clipboard's menu (to = _.dir) or a folder's. *)
(* The server refuses a file whose name the folder has, and any file when  *)
(* there is no such folder.                                                *)
Taken(S, to) == {f \in OnDisk(S) : to \in folders /\ f.name \notin disk[to]}
CopyClipboard(to) ==
  LET taken == Taken(Clip, to)
      D == [disk EXCEPT ![to] = @ \cup {f.name : f \in taken}]
  IN /\ Free /\ (menu.kind = "clip" \/ to # dir) /\ menu' = NoMenu /\ Acted
     /\ Readable # {}
     /\ \/ /\ disk' = D /\ clipboard' = <<>>
           /\ IF to = dir THEN Refresh(D, {})
              ELSE StillShared /\ UNCHANGED <<rowVars, adrift, broken>>
        \/ ListNoAnswer(D)
     /\ Outdated({}) /\ UNCHANGED <<order, desc, opening, upload>>

(* moveClipboard(to) and deleteClipboard, of the files that are movable,   *)
(* after a question when some are not.                                     *)
MoveClipboard(to) ==
  LET taken == Taken(Movable, to)
      D == [Without(taken) EXCEPT ![to] = @ \cup {f.name : f \in taken}]
  IN /\ Free /\ (menu.kind = "clip" \/ to # dir) /\ menu' = NoMenu /\ Acted
     /\ Movable # {}
     /\ \/ disk' = D /\ clipboard' = <<>> /\ Refresh(D, {})
        \/ ListNoAnswer(D)
     /\ Outdated({}) /\ UNCHANGED <<order, desc, opening, upload>>

DeleteClipboard ==
  /\ menu.kind = "clip" /\ menu' = NoMenu /\ Acted /\ Movable # {}
  /\ \/ disk' = Without(Movable) /\ clipboard' = <<>> /\ Refresh(disk', {})
     \/ ListNoAnswer(Without(Movable))
  /\ Outdated({}) /\ UNCHANGED <<order, desc, opening, upload>>

-----------------------------------------------------------------------------
(* uploadFile: the form is sent for _.dir; a new one is there only after   *)
(* the answer.  The server gives the file a name the folder has not.       *)
UploadFile(n) ==
  /\ Click /\ upload = NoUpload /\ n \in Names \ (disk[dir] \cup ReadOnly) /\ Acted
  /\ upload' = {[name |-> n, dir |-> dir]}
  /\ UNCHANGED <<disk, pageVars, order, desc, clipboard, opening, broken, stale>>

(* The frame has loaded: the uploaded names are selected in the folder     *)
(* that is open now; a refusal refreshes it too.                           *)
UploadDone(f, ok) ==
  /\ upload = {f} /\ upload' = NoUpload /\ (ok => f.dir \in folders)
  /\ disk' = IF ok THEN [disk EXCEPT ![f.dir] = @ \cup {f.name}] ELSE disk
  /\ UNCHANGED clipboard /\ Refresh(disk', IF ok THEN {f.name} ELSE {})
  /\ menu' = IF UNCHANGED pane THEN menu ELSE RowsGo(menu)
  /\ UNCHANGED <<order, desc, opening, stale, acts>>

-----------------------------------------------------------------------------
(* The tree's own operations on folders, as far as they reach the files.   *)

(* The files of folder d, in it or on their way, when it has become e. *)
At(e, f) == [f EXCEPT !.dir = e]
FilesOf(d) == {[name |-> n, dir |-> d] : n \in disk[d]}
Became(d, e) == [disk EXCEPT ![e] = disk[d], ![d] = {}]

(* "Rename..." of the node of folder d, or of one above it: _.dir follows  *)
(* the node's own path only, and the pane is left as it is.  A file being  *)
(* uploaded is already in the folder or comes too late.                    *)
FollowsMutant(d, e, itself) == UNCHANGED <<dir, moved, adrift>>
Follows(d, e, itself) ==
  IF itself /\ d = dir
  THEN dir' = e /\ moved' = moved \cup NamesIn(shared) /\ UNCHANGED adrift
  ELSE adrift' = (adrift \/ d = dir) /\ UNCHANGED <<dir, moved>>

RenameDir(d, e, itself) ==
  /\ Click /\ Acted /\ d \in folders /\ e \notin folders
  /\ \/ /\ folders' = (folders \ {d}) \cup {e} /\ disk' = Became(d, e)
        /\ upload' \in {upload, {IF f.dir = d THEN At(e, f) ELSE f : f \in upload}}
        /\ Follows(d, e, itself) /\ UNCHANGED broken
     \/ /\ ~broken /\ broken' = TRUE
        /\ \/ UNCHANGED <<folders, disk>>
           \/ folders' = (folders \ {d}) \cup {e} /\ disk' = Became(d, e)
        /\ UNCHANGED <<dir, adrift, moved, upload>>
  /\ UNCHANGED <<files, pane, faded, selected, info, timers, shared, order, desc, clipboard,
                 opening, slides>>
  /\ Outdated(FilesOf(d))

(* "Delete" of folder d, itself or from above: its node hides. *)
DeleteDir(d) ==
  /\ Click /\ Acted /\ d \in folders /\ slides < MaxSlides
  /\ \/ /\ folders' = folders \ {d} /\ disk' = [disk EXCEPT ![d] = {}]
        /\ slides' = slides + 1
        /\ adrift' = (adrift \/ d = dir) /\ UNCHANGED broken
     \/ /\ ~broken /\ broken' = TRUE
        /\ \/ UNCHANGED <<folders, disk>>
           \/ folders' = folders \ {d} /\ disk' = [disk EXCEPT ![d] = {}]
        /\ UNCHANGED <<adrift, slides>>
  /\ UNCHANGED <<rowVars, shared, order, desc, clipboard, opening, upload, moved>>
  /\ Outdated(FilesOf(d))

(* "New Subfolder...". *)
NewDir(d) ==
  /\ Click /\ Acted /\ d \notin folders /\ folders' = folders \cup {d}
  /\ UNCHANGED <<disk, pageVars, order, desc, clipboard, opening, upload, broken, stale, slides,
                 moved>>

(* A click collapses a folder. *)
Slide ==
  /\ Click /\ slides < MaxSlides /\ slides' = slides + 1
  /\ UNCHANGED <<disk, pageVars, order, desc, clipboard, opening, upload, broken, stale, acts,
                 folders, moved>>

(* The slide is over: the folder above may open (module KcfFolders says    *)
(* which), whatever menu or question is open.                              *)
SlideEnd ==
  /\ slides > 0 /\ slides' = slides - 1
  /\ \/ UNCHANGED <<pageVars, menu, moved, broken>>
     \/ /\ \E d \in Dirs : OpenDir(d)
        /\ menu' = RowsGo(menu)
        /\ moved' = moved \cup IF menu'.kind = "old" /\ dir' # dir THEN NamesIn(menu'.held)
                              ELSE {}
  /\ UNCHANGED <<disk, folders, order, desc, clipboard, opening, upload, stale, acts>>

FilesNext ==
  \/ FilesShown \/ PressRefresh \/ SelectAll
  \/ \E n \in Names :
       \/ MenuFile(n) \/ Rename(n) \/ UploadFile(n)
       \/ \E key \in {"none", "ctrl", "shift"} : SelectFile(n, key)
  \/ \E d \in Dirs : ChangeDir(d) \/ CopyClipboard(d) \/ MoveClipboard(d)
  \/ \E o \in {"name", "size"}, d \in BOOLEAN : SetOrder(o, d)
  \/ AddToClipboard
  \/ \E kind \in {"rename", "confirm", "confirmAll"} : Ask(kind)
  \/ Cancel \/ DeleteFile \/ DeleteFiles
  \/ OpenClipboard \/ ClipboardOpens \/ ClearClipboard \/ DeleteClipboard
  \/ \E i \in 1..MaxClip : RemoveFromClipboard(i)
  \/ \E f \in upload, ok \in BOOLEAN : UploadDone(f, ok)

Next ==
  \/ FilesNext /\ UNCHANGED treeVars
  \/ \E d \in Dirs : DeleteDir(d) \/ NewDir(d)
  \/ \E d, e \in Dirs, itself \in BOOLEAN : RenameDir(d, e, itself)
  \/ Slide \/ SlideEnd

Spec == Init /\ [][Next]_vars
-----------------------------------------------------------------------------
(* At rest the rows are the server's list of _.dir in the chosen order,    *)
(* not greyed: every operation that changes the open folder refreshes the  *)
(* pane, or _.dir follows its new name, in whatever order timers, answers, *)
(* slides and clicks come.  Not so once the folder itself is gone, or its  *)
(* path, for a change of a folder above it, until a list has come.         *)
PaneFresh ==
  timers = <<>> /\ ~broken /\ ~adrift =>
    /\ dir \in folders /\ pane = files /\ ~faded /\ ToSet(pane) = disk[dir]
    /\ \A i \in DOMAIN pane : \A j \in (i + 1)..Len(pane) :
         /\ order = "name" => (pane[i] > pane[j]) = desc
         /\ order = "size" => \/ (Size[pane[i]] > Size[pane[j]]) = desc
                                 /\ Size[pane[i]] # Size[pane[j]]
                              \/ Size[pane[i]] = Size[pane[j]] /\ pane[i] < pane[j]

(* A status line that names files names those selected, while the pane     *)
(* shows files.                                                            *)
InfoNamesSelection == info # {} /\ pane # Message => info = selected

(* An entry of the open clipboard menu removes, by its index, the file it  *)
(* shows.                                                                  *)
IndexIsEntry == menu.kind = "clip" => menu.of = clipboard

(* A file is in the clipboard once.                                        *)
ClipboardOnce == IsInjective(clipboard)

(* It is, unless the entry's row was still shown, or its menu open, when   *)
(* the open folder became another.                                         *)
EntriesOnce ==
  \A i, j \in DOMAIN clipboard :
    i # j /\ clipboard[i] = clipboard[j] => clipboard[i].name \in moved

(* The clipboard names files that exist: deleting one file empties it, and *)
(* so do its own moves.  Not so after a rename or the deletion of several  *)
(* files or of a folder, which leave it as it was, for a file added from a *)
(* row that is no longer in _.files or whose folder is gone, nor after a   *)
(* request without an answer.                                              *)
ClipboardExists == ~broken => OnDisk(Clip \ stale) = Clip \ stale
=============================================================================
