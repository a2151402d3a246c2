CONSTANTS
  NULL = NULL
  Selections <- ScreenSelections
  Rows = 2
  MaxLine = 4
  MaxSearch = 2
  Letters = {"a", "b"}
  MaxPressed = 4
CHECK_DEADLOCK FALSE
SPECIFICATION ScreenSpec
INVARIANTS
  HistoryWhole
  CompletionKeepsRest
  RowIsLine
  ViewerReadsRight
  ScreenShowsList
  MarkedInOrder
