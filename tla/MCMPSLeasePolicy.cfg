\* Two fresh jobs started together, none of which may break a lease.
CONSTANTS
    j1 = j1
    j2 = j2
    j3 = j3
    Jobs = {j1, j2}
    HostOf <- MCHostOf
    Contract <- MCContract
    Breakers = {}
    Steps = 2
    Stale = 2
    Punctual = {j1, j2}
    MaxTime = 3
    None = None
SPECIFICATION Spec
PROPERTY
    FreshStartNeverOverwrites
