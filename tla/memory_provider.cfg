SPECIFICATION SpecProvider
CONSTANTS
    a = a
    b = b
    x0 = x0
    x1 = x1
    t1 = t1
    Segment <- MCSegment
    Path <- MCPath
    Content <- MCContent
    Empty <- MCEmpty
    Extra = {x0}
    NoExtra = x0
    MaxNodes = 9
    Orderly = FALSE
    Token = {t1}
    TimeoutMaxValue = 1
    TimeoutHeader <- MCTimeoutHeader
    NoToken = NoToken
    BadToken = BadToken
    MaxTime = 1
    Task = {p, q}
    Requests <- MCRequests
    MaxParts = 1
VIEW ProviderView
INVARIANTS
    ProviderTypeOK
    PutStillStands
PROPERTIES
    ActsInSequence
    OnlyLaterLocksIgnored
