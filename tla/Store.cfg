CONSTANTS
    t1 = t1
    t2 = t2
    k3 = k3
    k1 = k1
    k2 = k2
    Txns = {t1, t2}
    Records = {k1, k2, k3}
    Missing = Missing
    Unread = Unread
    MaxWrites = 2
SPECIFICATION Spec
SYMMETRY Symmetry
INVARIANTS CacheIsCurrent
PROPERTIES ImplementsAtomicStore
CHECK_DEADLOCK FALSE
