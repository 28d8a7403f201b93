CONSTANTS
    Parts = {"transition", "video", "view", "dmabuf"}
    TEffects <- MCTEffects
    Directions <- MCDirections
    Durations = {0, 200}
    Sizes = {800}
    Hashes = {0, 7, 9}
    TTickMs = 50
    MediaLen = 1
    SeekTargets = {0, 1}
    LoopCounts <- MCLoopCounts
    MaxLoads = 2
    MaxCalls = 6
    MaxFrames = 3
    Widths = {1, 2}
    MaxWCalls = 6
    FdNums = {3, 4, 5}
    PlaneCounts = {0, 1, 2, 5}
    MaxExports = 3
SPECIFICATION USpec
INVARIANTS
    VTypeOK
    UNewestFrameReachesScreen
    DTypeOK
    FdsOwnedExactly
    UPixelCopyMatches
PROPERTIES
    UTransitionEnds
    UProgressAdvances
    ULoopedPlaybackEnds
