CONSTANTS
  NULL = NULL
  Commands <- MCCommands
  NoXor = 255
  Loops <- MCLoops
  Letters = 4
  Breaks = 1
CHECK_DEADLOCK FALSE
SPECIFICATION ControlSpec
INVARIANTS
  RunsChosen
  NothingLeft
  SeesEach
  ExpandsAll
  EvaluatesRight
  WholeOrRefused
PROPERTIES
  ScannedLeftToRight
  Ends
