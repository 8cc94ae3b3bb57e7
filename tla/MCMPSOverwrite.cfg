\* Overwriting attempts: two ranks, two steps, three attempts, one power loss.
CONSTANTS
    r0 = r0
    r1 = r1
    Ranks = {r0, r1}
    Leader = r0
    Steps = 2
    Interval = 1
    Keep = 1
    AllowOverwrite = {FALSE, TRUE}
    NoManifest = NoManifest
    MaxAttempts = 3
    MaxLosses = 1
SPECIFICATION FairSpec
INVARIANTS
    NoMixedResume
    OneAttemptPerGeneration
PROPERTIES
    AttemptEnds
