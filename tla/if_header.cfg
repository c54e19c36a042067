SPECIFICATION SpecCheck
CONSTANTS
    Segment <- MCSegment
    Path <- MCPath
    Token = {t1, t2}
    t1 = t1
    t2 = t2
    e1 = e1
    TimeoutMaxValue = 2
    TimeoutHeader <- MCTimeoutHeader
    NoToken = NoToken
    BadToken = BadToken
    MaxTime = 1
    Etag = {e1}
    NoEtag = NoEtag
    RequestIfs <- MCRequestIfs
    ResPaths <- MCResPaths
VIEW WithoutReply
INVARIANTS
    PassedHoldsAllLocks
    VerdictIsWhatHeaderSays
