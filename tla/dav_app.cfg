SPECIFICATION Spec
CONSTANTS
    a = a
    b = b
    u1 = u1
    u2 = u2
    raw = raw
    hashed = hashed
    digest = digest
    star = star
    bound = bound
    Task = {p, q}
    Segment <- MCSegment
    Path <- MCPath
    UserName <- MCUserName
    Password = {"x", "y"}
    Fallback = star
    NoName = NoName
    Configs <- MCConfigs
    Headers <- MCHeaders
    Entry = {u1, u2}
    CheckTime = 1
    Part = "part"
VIEW AppView
SYMMETRY TaskSymmetry
INVARIANTS
    AuthTypeOK
    UserIsOneself
PROPERTIES
    AcceptedIsRecent
    ChangesOnlyOwn
    SuccessIsDone
    ErrorOnlyClears
    MoveKeepsSource
