SPECIFICATION SpecTree
CONSTANTS
    a = a
    b = b
    Segment <- MCSegment
    Path <- MCPath
    Content = {c0, c1}
    Empty = c0
    Extra = {x0, x1}
    NoExtra = x0
    MaxNodes = 6
    Orderly = TRUE
PROPERTY
    MoveIsWhole
