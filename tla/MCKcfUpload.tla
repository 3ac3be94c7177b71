---------------------------- MODULE MCKcfUpload ----------------------------
(***************************************************************************)
(* Drag-and-drop upload or the image viewer: the two parts of the page     *)
(* share no state, so that a behaviour is of one of them.                  *)
(***************************************************************************)
EXTENDS KcfUpload

CONSTANTS Listed, images, MaxViews

ASSUME ViewerAssumption ==
  /\ 0 \notin Listed /\ MaxViews \in Nat
  /\ images \in Seq(Listed) /\ images # <<>>

VARIABLES part, dlg, shownImg, currImg, lock, loads, cached, keys, ssImage, generation,
          timer, selected, astray

Viewer == INSTANCE KcfViewer WITH shown <- shownImg

MCListed == 1..4
MCImages == <<1, 3, 4>>

viewerVars == <<dlg, shownImg, currImg, lock, loads, cached, keys, ssImage, generation,
                timer, selected, astray>>

MCInit == Init /\ Viewer!Init /\ part \in {"upload", "viewer"}
MCNext ==
  /\ UNCHANGED part
  /\ \/ part = "upload" /\ Next /\ UNCHANGED viewerVars
     \/ part = "viewer" /\ Viewer!Next /\ UNCHANGED vars
MCSpec ==
  /\ MCInit /\ [][MCNext]_<<vars, viewerVars, part>>
  /\ Fairness /\ WF_viewerVars(Viewer!Answered)

\* At rest no file is left behind and the pane shows what the server keeps.
Settled == UploadTypeOK /\ NoStrandedFile /\ FreshAtRest

\* The image, the lock and the arrow keys belong to the viewer that is open.
ViewerAgrees ==
  /\ Viewer!ViewerTypeOK /\ Viewer!LockHasLoad
  /\ Viewer!ShownIsCurrent /\ Viewer!KeysOfOpenViewer

\* The viewer can always be used again, and selects the image it shows.
ViewerServes == Viewer!LockIsReleased /\ Viewer!SelectsShown
=============================================================================
