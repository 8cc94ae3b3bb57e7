\* Two ranks, three steps, three attempts (fresh or resumed, never overwriting),
\* one retained generation, one power loss.
CONSTANTS
    r0 = r0
    r1 = r1
    Ranks = {r0, r1}
    Leader = r0
    Steps = 3
    Interval = 1
    Keep = 1
    AllowOverwrite = {FALSE}
    NoManifest = NoManifest
    MaxAttempts = 3
    MaxLosses = 1
SPECIFICATION Spec
INVARIANTS
    TypeOK
    CommittedGenerationIntact
    ConfirmedGenerationSurvives
    RetentionBoundsShards
PROPERTIES
    ImplementsRegister
