SPECIFICATION Spec
CONSTANTS
  Courses = {c, d}
  Lectures = {l}
  Null = Null
  Tries = FALSE
INVARIANTS RowsAgree SavedMeansStored KeepsCourseObject CommitsAll
PROPERTY SaveReturns
CHECK_DEADLOCK FALSE
