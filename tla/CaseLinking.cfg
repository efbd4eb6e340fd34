CONSTANTS
    r1 = r1
    r2 = r2
    a = a
    b = b
    b2 = b2
    Residents = {r1, r2}
    Observations = {a, b, b2}
    Author <- MCAuthor
    Share <- MCShare
    Vague <- MCVague
    Near <- MCNear
    Supported = {a}
    None = None
    Runners = {w1, w2}
    MaxFollowers = 1
    PageSize = 2
    MaxRevision = 2
    MaxLive = 2
    MaxFaults = 1
SPECIFICATION Spec
SYMMETRY Sym
INVARIANTS LinksAgree MineIsMine ReviewedAsWritten PhotosAreAgreed
CHECK_DEADLOCK FALSE
CONSTRAINTS FirstIsTried Latecomer
PROPERTIES ImplementsCaseBook
