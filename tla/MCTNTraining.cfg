\* Two ranks, a target of three steps, a save after every step, two attempts.
CONSTANTS
    r0 = r0
    r1 = r1
    Ranks <- MCRanks
    Interval = 1
    Steps = 3
    NoFile = NoFile
    Torn = Torn
    MaxAttempts = 2
SPECIFICATION Spec
INVARIANT CheckpointsWereTrained
CHECK_DEADLOCK FALSE
