SPECIFICATION Spec
CONSTANTS
    Segment <- MCSegment
    Path <- MCPath
    Token = {t1, t2}
    TimeoutMaxValue = 2
    TimeoutHeader <- MCSeconds
    NoToken = NoToken
    BadToken = BadToken
    MaxTime = 2
PROPERTY
    RefusedByALiveLock
