CONSTANTS
    r1 = r1
    r2 = r2
    k1 = k1
    k2 = k2
    Residents = {r1, r2}
    Workspace = Workspace
    Keys = {k1, k2}
    Owner <- MCOwner
    Calls = {c1, c2, c3}
    None = None
    Limit <- MCLimit
    ReportLimit <- MCReportLimit
    Days = {1, 2}
SPECIFICATION Spec
SYMMETRY Symmetry
INVARIANTS QuotaCountsRequests ReportsAreCharged AnswersAgree
PROPERTIES ImplementsLedger
CHECK_DEADLOCK FALSE
