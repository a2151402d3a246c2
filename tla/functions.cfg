CONSTANTS
  NULL = NULL
  Sessions <- DocSessions
  Start <- DocStart
  Room <- DocRoom
  Names = {"a", "b"}
  EnvSize = 17
  AliasSize = 16
  Places = {"p", "q"}
  Chars = {"c", "d"}
  Nest = 2
  Finds <- DocFinds
  Below <- MCTree
  Lines <- MCLines
  HiddenDirs <- MCHidden
  Files = {"a", "b"}
  Rooted = {"b"}
  Breaks = 1
CHECK_DEADLOCK FALSE
SPECIFICATION SessionSpec
INVARIANTS
  FunctionsFit
