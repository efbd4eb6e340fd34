CONSTANTS
    a1 = a1
    a2 = a2
    r1 = r1
    w1 = w1
    Attempts = {a1, a2}
    Lookups = {r1}
    Workers = {w1}
    NoAttempt = NoAttempt
    NoJob = NoJob
    MaxDrafts = 2
    MaxClaims = 2
    MaintenancePossible = FALSE
    LeaseCoversRun = TRUE
SPECIFICATION Spec
PROPERTIES ReconciliationConfirms
CHECK_DEADLOCK FALSE
