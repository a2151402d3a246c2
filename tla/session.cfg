CONSTANTS
  NULL = NULL
  Sessions <- MCSessions
  Start <- MCStart
  Names = {"a", "b", "ab", "a*b"}
  Room <- MCRoom
  EnvSize = 17
  AliasSize = 16
  Places = {"p", "q"}
  Chars = {"c", "d"}
  Nest = 2
  Finds <- MCFinds
  Below <- MCTree
  Lines <- MCLines
  HiddenDirs <- MCHidden
  Files = {"a", "b"}
  Rooted = {"b"}
  Breaks = 1
CHECK_DEADLOCK FALSE
SPECIFICATION SessionSpec
INVARIANTS
  PlacesFollow
  PrefixesReturn
  ListsWhole
  OptionsFollow
PROPERTIES
  EndlocalRestores
  CommandsEnd
