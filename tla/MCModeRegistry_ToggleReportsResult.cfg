CONSTANTS
    fund = fund
    m1 = m1
    m2 = m2
    n1 = n1
    b1 = b1
    v1 = v1
    g1 = g1
    Majors <- MCMajors
    Fundamental = fund
    Minors = {n1}
    Buffers = {b1}
    Vars = {v1}
    Groups = {g1}
    NoMode = NoMode
    Hangs = Hangs
    Patterns <- MCPatterns
    FileNames <- MCFileNames
    MaxAuto = 1
    Percents = {0}
SPECIFICATION Spec
PROPERTY
    ToggleReportsResult
