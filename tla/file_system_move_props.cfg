SPECIFICATION SpecFS
CONSTANTS
    a = a
    b = b
    k1 = k1
    v1 = v1
    none = none
    Segment <- MCSegment
    Path <- MCPath
    Key = {k1}
    Value = {v1, none}
    NoValue = none
    Task = {p}
    Requests <- MCRequests
    MaxParts = 1
PROPERTY
    OverwrittenIsDeleted
