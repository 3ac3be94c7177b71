CONSTANTS
  Ids = {i1, i2, i3, i4, i5}
  Names = {a, b}
  NoParent = NoParent
  NoName = NoName
  Slash = Slash
  MaxBound = 10
  MaxLength = 11
SYMMETRY IdSymmetry
SPECIFICATION MCSpec
INVARIANTS TypeOK Nested ParentsAgree AnswersAgree MPAgrees
PROPERTIES MovesOneSubtree ImplementsOrderedTree ImplementsTree MPImplementsTree
