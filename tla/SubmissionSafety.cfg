CONSTANTS
    a1 = a1
    a2 = a2
    r1 = r1
    w1 = w1
    w2 = w2
    Attempts = {a1, a2}
    Lookups = {r1}
    Workers = {w1, w2}
    NoAttempt = NoAttempt
    NoJob = NoJob
    MaxDrafts = 2
    MaxClaims = 2
    MaintenancePossible = FALSE
    LeaseCoversRun = TRUE
SPECIFICATION Spec
SYMMETRY Symmetry
INVARIANTS SentStaysReserved ClosedMeansUnsent ReservationConsistent ConfirmedIsOwn
PROPERTIES ClickIsApproved ImplementsReport
CHECK_DEADLOCK FALSE
