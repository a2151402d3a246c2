SPECIFICATION Spec
CONSTANTS
    Texts <- MCTail
    Half = 4
    HexRow = 3
    Columns = 3
    MaxLine = 9
    NumberWidth = 1
    TabSizes = {2, 3}
    ScreenRows = 3
    Patterns <- MCPatterns
    Gotos <- MCGotos
    RowBound = 6
INVARIANTS
    EndIsMarked
