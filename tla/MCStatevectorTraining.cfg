\* Two ranks, two circuits, saves after steps 2 and 4, targets 3 and 4, three attempts, one power loss.
CONSTANTS
    r0 = r0
    r1 = r1
    ansatz = ansatz
    other = other
    Ranks <- MCRanks
    Circuits <- MCCircuits
    Interval = 2
    Targets <- MCTargets
    MaxStep = 4
    NoFile = NoFile
    MaxAttempts = 3
    MaxLosses = 1
SPECIFICATION FairSpec
INVARIANTS
    TypeOK
    TrainsOneState
    GenerationConfirmed
    RefusesOnlyBroken
    RefusedTogether
PROPERTY AttemptEnds
CHECK_DEADLOCK FALSE
