\* Two ranks, four trajectories one by one, saved after every batch, two attempts, adaptive and resuming.
CONSTANTS
    Count = 4
    World = 2
    Batch = 1
    Interval = 1
    MinTrajectories = 2
    MaxLimit = 1
    Options <- AdaptiveOptions
    NoFile = NoFile
    NoResult = NoResult
    MaxAttempts = 2
SPECIFICATION Spec
INVARIANT CollectivesMatch
CHECK_DEADLOCK FALSE
