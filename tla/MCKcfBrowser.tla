---------------------------- MODULE MCKcfBrowser ----------------------------
(***************************************************************************)
(* The tree of folders, on a disk with two folders, one named by a prefix  *)
(* of the other's name, and subfolders in the first; or the list of files  *)
(* of two folders that stay as they are; or the one file of a folder,      *)
(* among folders that are made, renamed and deleted.  Each is by itself:   *)
(* module KcfFolders keeps of the files only which folder's they are,      *)
(* module KcfFiles of the folders their paths and that one of them may     *)
(* open when a slide is over.                                              *)
(***************************************************************************)
EXTENDS KcfFolders

CONSTANTS
  Dirs, Contents, ReadOnly, Size, MaxTimers, MaxClip, MaxSlides, MaxActs,  \* as in KcfFiles
  d1, d2   \* paths of folders

ASSUME FilesAssumption ==
  /\ Size \in Seq(Nat)
  /\ \A c \in Contents : DOMAIN c \subseteq Dirs /\ c \in [DOMAIN c -> SUBSET DOMAIN Size]
  /\ MaxSlides \in Nat /\ MaxActs \in Nat

VARIABLES
  part,  \* "folders", "files" or "paths"
  disk2, dir2, files2, pane2, faded, selected, info, timers, order, desc, clipboard, menu,
  opening, upload, broken, stale, acts, folders2, shared, slides, moved, adrift

filesVars == <<disk2, dir2, files2, pane2, faded, selected, info, timers, order, desc,
               clipboard, menu, opening, upload, broken, stale, acts, folders2, shared, slides,
               moved, adrift>>

MCInitial == {<<>>, <<"a">>, <<"a", "ab">>}
MCContents == {d1 :> {1, 2} @@ d2 :> {1}, d1 :> {1}}
MCSize == <<1, 1>>

Files == INSTANCE KcfFiles
           WITH Initial <- Contents, disk <- disk2, dir <- dir2, files <- files2,
                pane <- pane2, folders <- folders2

MCInit ==
  /\ part \in {"folders", "files", "paths"}
  /\ Init /\ Files!Init
  /\ part = "files" <=> folders2 # {d1}

\* Bound: the one file keeps its name, and no other is uploaded.
OneName == \A f \in UNION {disk2'[d] : d \in Dirs} \cup {u.name : u \in upload'} : f = 1

MCNext ==
  /\ UNCHANGED part
  /\ \/ part = "folders" /\ Next /\ UNCHANGED filesVars
     \/ /\ part = "files" /\ Files!FilesNext /\ ~adrift'
        /\ UNCHANGED <<vars, folders2, slides, moved>>
     \/ part = "paths" /\ Files!Next /\ OneName /\ UNCHANGED vars

MCSpec == MCInit /\ [][MCNext]_<<vars, filesVars, part>>

\* The pane and the mark of the tree are those of the open folder.
FolderShown == FoldersTypeOK /\ PaneShowsDir /\ MarkIsDir

\* The pane lists the folder's files in their order, with the selection it had.
FileListAgrees == Files!FilesTypeOK /\ Files!PaneFresh /\ Files!InfoNamesSelection

\* The clipboard has every file once, but for those whose row outlived its folder's
\* name, under the position its menu shows, and none that the page has deleted one by one.
ClipboardAgrees == Files!IndexIsEntry /\ Files!EntriesOnce /\ Files!ClipboardExists

\* The clipboard has every file once: a second entry is refused with "This file is
\* already added to the Clipboard."
ClipboardOnce == Files!ClipboardOnce
=============================================================================
