SPECIFICATION FairSpecProvider
CONSTANTS
    a = a
    b = b
    x0 = x0
    x1 = x1
    t1 = t1
    Segment <- MCSegment
    Path <- OnePath
    Content <- MCContent
    Empty <- MCEmpty
    Extra = {x0}
    NoExtra = x0
    MaxNodes = 9
    Orderly = FALSE
    Token = {}
    TimeoutMaxValue = 1
    TimeoutHeader <- MCTimeoutHeader
    NoToken = NoToken
    BadToken = BadToken
    MaxTime = 0
    Task = {p, q, r}
    Requests <- OneRequests
    MaxParts = 2
PROPERTY
    EveryRequestIsAnswered
