CONSTANTS
  A = A
  B = B
  NULL = NULL
  Files = {A, B}
  BTM = {}
  Lines <- AllLines
  Scripts <- ReturnAfterGoto
  FlagMod = 16
  MAXBATCH = 3
  GosubArgs = 2
  INT_MAX = 3
  StackLimit = 5
  LoadFails = FALSE
  Breaks = 0
SPECIFICATION Spec
PROPERTIES
  ReturnEndsSubroutine
