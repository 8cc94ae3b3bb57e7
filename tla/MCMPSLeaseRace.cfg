\* Two jobs may break the stale lease of a third.
CONSTANTS
    j1 = j1
    j2 = j2
    j3 = j3
    Jobs = {j1, j2, j3}
    HostOf <- MCHostOf
    Contract <- MCContract
    Breakers = {j2, j3}
    Steps = 2
    Stale = 2
    Punctual = {j1, j2, j3}
    MaxTime = 3
    None = None
SPECIFICATION Spec
INVARIANT
    LeaseExclusive
