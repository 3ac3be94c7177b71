CONSTANTS
  Tab1 = Tab1
  Tab2 = Tab2
  Text1 = Text1
  Text2 = Text2
  Tabs = {Tab1, Tab2}
  Plain = {"list"}
  Query = {"list?page=2"}
  MaxNames = 3
  N = 4
  Targets = {Text1, Text2}
  MaxLoads = 2
  Given = 2
  start_index = 0
  MaxIndex = 4
  Options <- MCOptions
  Depth = 4
  MaxCalls = 6
SPECIFICATION MCSpec
INVARIANTS PanelAgrees WidgetsAgree
PROPERTIES OnlyAskedMoves WidgetsServe
CHECK_DEADLOCK FALSE
