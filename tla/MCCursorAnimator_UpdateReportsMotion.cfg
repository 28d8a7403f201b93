CONSTANTS
    Modes <- MCModes
    XTargets = {0, 3, 4}
    YTargets = {0}
    WTargets = {32, 34}
    HTargets = {64}
    Speeds = {200}
    Counts = {0, 150}
    RailgunLife <- MCRailgunLife
    TickMs = 100
SPECIFICATION CSpec
PROPERTIES
    UpdateReportsMotion
