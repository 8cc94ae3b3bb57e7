\* Two savers, one loader, two ranks, one operator.
CONSTANTS
    r0 = r0
    r1 = r1
    s1 = s1
    s2 = s2
    l1 = l1
    o1 = o1
    o2 = o2
    Ranks = {r0, r1}
    Leader = r0
    Savers = {s1, s2}
    Loaders = {l1}
    Index <- MCIndex
    Operators = {o1}
    None = None
SPECIFICATION Spec
INVARIANTS
    TypeOK
    OneWriter
    LoadsAgree
    FinishedSavesLoadable
PROPERTIES
    ClearsAuditedLock
CHECK_DEADLOCK FALSE
