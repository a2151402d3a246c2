CONSTANTS
  P = P
  Q = Q
  R = R
  NULL = NULL
  Lines <- PipeLines
  Groups <- InnerLines
  MaxFD = 11
  Pipes <- PipeFiles
  Breaks = 1
SYMMETRY Symmetry
SPECIFICATION Spec
INVARIANTS
  HandlesRestored
  PipesFlow
