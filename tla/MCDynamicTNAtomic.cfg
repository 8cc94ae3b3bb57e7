\* A second save may die after a first has returned.
CONSTANTS
    r0 = r0
    r1 = r1
    s1 = s1
    s2 = s2
    l1 = l1
    o1 = o1
    o2 = o2
    Ranks = {r0, r1}
    Leader = r0
    Savers = {s1, s2}
    Loaders = {}
    Index <- MCIndex
    Operators = {}
    None = None
SPECIFICATION Spec
INVARIANT
    AtomicSave
CHECK_DEADLOCK FALSE
