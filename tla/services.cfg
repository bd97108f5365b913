SPECIFICATION ServicesSpec
CONSTANTS
    h1 = h1
    h2 = h2
    w1 = w1
    u1 = u1
    JobId <- MCJobs
    Created <- MCCreated
    User <- MCUsers
    NoUser = NoUser
    Admin <- MCUsers
    Handler <- MCHandlers
    Worker <- MCWorkers
    PoolSize = 2
    NoJob = 0
    Timed = {1}
    Stuck = 2
    Hour = 3
    Retention = 2
    MaxAge = 8
    Tap = {1, 2}
    Picked = {"q1080", "best"}
    Proc = {1, 2}
INVARIANTS
    TypeOK
    PositionHonoured
    AckMissesNobody
    OnlyListingsStarve
    HkTypeOK
    ReapedInTime
    ForgottenInTime
    LiveJobKeepsRow
    LmTypeOK
    ModeHonoured
    
    ServingIsComplete
PROPERTIES
    QueuedRowsMoveOn
    StartDecidedByRelease
    StartsSucceed
