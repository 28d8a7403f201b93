CONSTANTS
    Blank = Blank
    a = a
    Texts <- MCTexts
    Cells <- MCCells
    XIn <- MCXIn
    YIn <- MCYIn
    Widths = {1, 2}
    Heights = {1, 2, 3}
    InitWidth = 2
    InitHeight = 2
    Shifts <- MCShifts
SPECIFICATION Spec
PROPERTY GridRefinement
