CONSTANTS
  NULL = NULL
  KeySets <- DocKeySets
  Text = {"a", "b", " ", "."}
  White = {" "}
  Punct = {"."}
  MaxLine = 8
  MaxKeys = 7
  HistorySize = 12
  HistMin = 0
  HistDups = 2
  HistCopy = FALSE
  HistMove = FALSE
  HistWrap = TRUE
  Aliases <- MCAliases
  Lines <- DocLines
  DirHistory <- MCDirHistory
  Files <- MCFiles
  Completion <- MCCompletion
CHECK_DEADLOCK FALSE
SPECIFICATION Spec
PROPERTIES
  HistoryMakesRoom
