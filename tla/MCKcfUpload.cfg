CONSTANTS
  Dirs = {root, sub}
  Root = root
  MaxFiles = 3
  MaxInst = 2
  MaxUploads = 4
  Listed <- MCListed
  images <- MCImages
  MaxViews = 2
SPECIFICATION MCSpec
INVARIANTS StoredWhereDropped Settled ViewerAgrees
PROPERTIES LossNeedsARead ComesToRest ViewerServes
CHECK_DEADLOCK FALSE
