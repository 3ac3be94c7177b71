SPECIFICATION Spec
CONSTANTS
  Courses = {c, d}
  Lectures = {l}
  Null = Null
  Tries = TRUE
INVARIANT SavedMeansStored
CHECK_DEADLOCK FALSE
