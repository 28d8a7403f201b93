CONSTANTS
    Parts = {"video"}
    TEffects <- MCTEffects
    Directions <- MCDirections
    Durations = {0, 200}
    Sizes = {800}
    Hashes = {0, 7, 9}
    TTickMs = 100
    MediaLen = 1
    SeekTargets = {0, 1}
    LoopCounts <- MCLoopCounts
    MaxLoads = 2
    MaxCalls = 6
    MaxFrames = 3
    Widths = {1, 2}
    MaxWCalls = 6
    FdNums = {3, 4, 5}
    PlaneCounts = {0, 1, 2, 5}
    MaxExports = 3
SPECIFICATION USpec
INVARIANTS
    UFlowsOnlyWhenPlaying
