CONSTANTS
    Thread = {t1, t2, t3}
    Node = {n1, n2, n3}
    HEAD = HEAD
    NONE = NONE
    Cpus = 1
SPECIFICATION Spec
CHECK_DEADLOCK FALSE
INVARIANTS
    NothingLost
PROPERTIES
    ImplementsAtomicInserts
