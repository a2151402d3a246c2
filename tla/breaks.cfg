CONSTANTS
  A = A
  B = B
  NULL = NULL
  Files = {A, B}
  BTM = {B}
  Lines <- AllLines
  Scripts <- BreakScripts
  FlagMod = 16
  MAXBATCH = 3
  GosubArgs = 0
  INT_MAX = 3
  StackLimit = 5
  LoadFails = TRUE
  Breaks = 2
SPECIFICATION Spec
INVARIANTS
  HandlerDefined
PROPERTIES
  QuitIsFinal
