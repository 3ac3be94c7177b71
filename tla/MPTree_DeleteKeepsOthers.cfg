CONSTANTS
  Ids = {i1, i2, i3}
  Names = {a, b}
  NoParent = NoParent
  NoName = NoName
  Slash = Slash
  MaxLength = 9
SPECIFICATION InterruptedSpec
PROPERTY
  DeleteKeepsOthers
