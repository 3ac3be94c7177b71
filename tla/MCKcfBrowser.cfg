CONSTANTS
  d1 = d1
  d2 = d2
  Initial <- MCInitial
  MaxChanges = 1
  MaxAnims = 2
  Dirs = {d1, d2, d3}
  Contents <- MCContents
  ReadOnly = {2}
  Size <- MCSize
  MaxTimers = 1
  MaxClip = 2
  MaxSlides = 1
  MaxActs = 2
SPECIFICATION MCSpec
INVARIANTS FolderShown OpenFolderInSight FileActionsStay FileListAgrees ClipboardAgrees
CHECK_DEADLOCK FALSE
