CONSTANTS
    a1 = a1
    r1 = r1
    w1 = w1
    w2 = w2
    Attempts = {a1}
    Lookups = {r1}
    Workers = {w1, w2}
    NoAttempt = NoAttempt
    NoJob = NoJob
    MaxDrafts = 2
    MaxClaims = 2
    MaintenancePossible = TRUE
    LeaseCoversRun = FALSE
SPECIFICATION Spec
SYMMETRY Symmetry
INVARIANTS ClickOnce TicketIsIssued
CHECK_DEADLOCK FALSE
