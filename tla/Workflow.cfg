CONSTANTS
    Calls = {q1, q2, q3, q4}
    None = None
    MaxOperations = 3
    MaxRevisions = 2
    MaxFaults = 1
SPECIFICATION Spec
SYMMETRY Symmetry
INVARIANTS NoLostWakeup TokensAreKept
CHECK_DEADLOCK FALSE
