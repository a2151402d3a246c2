CONSTANTS
  P = P
  Q = Q
  R = R
  NULL = NULL
  Lines <- IffLines
  Groups <- InnerLines
  MaxFD = 11
  Pipes <- PipeFiles
  Breaks = 0
SPECIFICATION Spec
INVARIANTS
  OutputReverts
