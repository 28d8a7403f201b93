SPECIFICATION Spec
CONSTANTS
    Buffers <- MCBuffers
    ColsSet <- MCCols
    RowsSet <- MCRows
    TabWidths = {2}
    CursorTypes = {0}
    Selected = {TRUE}
INVARIANT
    CursorPlacement
CHECK_DEADLOCK FALSE
