CONSTANTS
  W = 4
  H = 2
  Windows <- TwoWindows
  UintRange = 64
  Reports <- SomeReports
  TextReports <- FewReports
  Columns = 2
  Rows = 2
  CharRange = 8
  Texts <- SomeTexts
  Received <- SomeData
  Keys = {1, 2, 28, 130}
  UnknownKeyText = 3

SPECIFICATION Spec

INVARIANT DragFollowsPointer
INVARIANT DrawnWhereClicked
INVARIANT CursorComesBack
INVARIANT OnePointer
