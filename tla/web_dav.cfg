SPECIFICATION Spec
CONSTANTS
    a = a
    b = b
    Segment <- MCSegment
    Path <- MCPath
    Exchanges <- MCExchanges
    Home <- MCHome
    BlockSize = 2
    CompressionMinimum = 3
    PageSize = 4
INVARIANTS
    SendsTheSlice
    OnlyLastMessageEnds
    LengthIsKept
    PartIsNamed
    SentByOwner
    ListsWhatIsThere
\* The model is one exchange: it stops when the response has been sent.
CHECK_DEADLOCK FALSE
