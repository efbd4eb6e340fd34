CONSTANTS
    a1 = a1
    r1 = r1
    w1 = w1
    Attempts = {a1}
    Lookups = {r1}
    Workers = {w1}
    NoAttempt = NoAttempt
    NoJob = NoJob
    MaxDrafts = 2
    MaxClaims = 3
    MaintenancePossible = FALSE
    LeaseCoversRun = TRUE
SPECIFICATION FairSpec
PROPERTIES JobsSettle NothingStaysInFlight
CHECK_DEADLOCK FALSE
