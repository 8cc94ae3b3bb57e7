\* Three jobs of one experiment. j3 may break a stale lease; j1, on its host, is slow.
CONSTANTS
    j1 = j1
    j2 = j2
    j3 = j3
    Jobs = {j1, j2, j3}
    HostOf <- MCHostOf
    Contract <- MCContract
    Breakers = {j3}
    Steps = 2
    Stale = 2
    Punctual = {j2, j3}
    MaxTime = 3
    None = None
SPECIFICATION Spec
INVARIANTS
    TypeOK
    LeaseExclusive
    HolderOwnsLease
PROPERTIES
    ResumedCommitsExtend
