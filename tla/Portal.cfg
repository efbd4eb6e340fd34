CONSTANTS
    a1 = a1
    a2 = a2
    k1 = k1
    p1 = p1
    p2 = p2
    f1 = f1
    f2 = f2
    x1 = x1
    x2 = x2
    Attempts = {a1, a2}
    Keys = {k1}
    ReceiptKey <- MCReceiptKey
    Payloads = {p1, p2}
    Forms = {f1, f2}
    FormOf <- MCFormOf
    Photos = {x1, x2}
    PhotosOf <- MCPhotosOf
    Grants = {g1, g2}
    Requests = {r1, r2}
    Clerks = {c1, c2}
    None = None
SPECIFICATION Spec
SYMMETRY Symmetry
INVARIANTS AnswersOpen EvidenceIsRetained AcceptedIsFound StatusIsLastEntry
PROPERTIES TicketsAreFixed ImplementsAgency
CHECK_DEADLOCK FALSE
