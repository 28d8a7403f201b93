CONSTANTS
    Parts = {"layout", "modes", "automode", "text", "grid"}
    ColsSet = {0, 1, 2, 3}
    RowsSet = {1, 2}
    TabWidths = {2}
    CursorTypes = {0}
    Selected = {TRUE}
    fund = fund
    m1 = m1
    m2 = m2
    n1 = n1
    b1 = b1
    v1 = v1
    g1 = g1
    Majors <- MCMajors
    Fundamental = fund
    Minors = {n1}
    ModeBuffers = {b1}
    Vars = {v1}
    Groups = {g1}
    NoMode = NoMode
    Hangs = Hangs
    Patterns <- MCPatterns
    FileNames <- MCFileNames
    MaxAuto = 3
    Percents = {0, 50, 100}
    Blank = Blank
    a = a
SPECIFICATION USpec
\* layout_window runs to completion: its walk ends in "done".
CHECK_DEADLOCK FALSE
INVARIANTS
    LayoutTypeOK
    RowGlyphsContiguous
    AtMostOneCursor
    GlyphRowsInsideWindow
    WindowEndCoversGlyphs
    ModesTypeOK
    DerivedModeCorrect
    FontLockFromNearest
    ActiveModesExact
    AutoModeFirstMatch
    ModeLineMatchesRender
    EngineDecodesValidUtf8
    GapCopyIsText
    LispTagsDecode
    WindowCountExact
    PositionsAgree
    WidthAccounting
    PrintableExact
    GridTypeOK
PROPERTIES
    GridChangedRowsDirty
    GridStepsRefine
