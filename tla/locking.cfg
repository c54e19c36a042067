SPECIFICATION Spec
CONSTANTS
    a = a
    b = b
    c = c
    Segment <- MCSegment
    Path <- MCPath
    Token = {t1, t2, t3}
    TimeoutMaxValue = 2
    TimeoutHeader <- MCTimeoutHeader
    NoToken = NoToken
    BadToken = BadToken
    MaxTime = 2
SYMMETRY LockSymmetry
INVARIANTS
    TypeOK
    IndexesAgree
    ScopeOfSet
    LocksCompatible
    WhatIsHeldStands
    RefreshLeavesLive
PROPERTIES
    OnlyUnlockEndsLiveLock
    ImplementsService
