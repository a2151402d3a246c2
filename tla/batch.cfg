CONSTANTS
  A = A
  B = B
  NULL = NULL
  Files = {A, B}
  BTM = {}
  Lines <- AllLines
  Scripts <- AllScripts
  FlagMod = 4
  MAXBATCH = 3
  GosubArgs = 2
  INT_MAX = 3
  StackLimit = 5
  LoadFails = FALSE
  Breaks = 0
SPECIFICATION FairSpec
INVARIANTS
  TypeOK
  FrameBalance
  EndDoHasLoop
  LineAgrees
  NoVariablesLeft
PROPERTIES
  QuitIsFinal
  CallerIsSuspended
  CancelEnds
