\* Two ranks, four trajectories one by one, saved every second batch, three attempts.
CONSTANTS
    Count = 4
    World = 2
    Batch = 1
    Interval = 2
    MinTrajectories = 2
    MaxLimit = 1
    Options <- SoundOptions
    NoFile = NoFile
    NoResult = NoResult
    MaxAttempts = 3
SPECIFICATION FairSpec
INVARIANTS
    TypeOK
    CountsEachOnce
    AccountsForAll
    SavesAreValid
    CollectivesMatch
    CountsMatch
    ResultIsSaved
PROPERTIES
    ProgressSurvives
    AttemptEnds
CHECK_DEADLOCK FALSE
