SPECIFICATION SpecFS
CONSTANTS
    a = a
    b = b
    k1 = k1
    v1 = v1
    none = none
    Segment <- MCSegment
    Path <- MCPath
    Key = {k1}
    Value = {v1, none}
    NoValue = none
    Task = {p, q}
    Requests <- MCRequests
    MaxParts = 2
VIEW FSView
SYMMETRY TaskSymmetry
INVARIANTS
    FilesTypeOK
    MoveLosesNothing
PROPERTIES
    EachActsAlone
    GetSendsTheFile
    RefusedHasNotWritten
