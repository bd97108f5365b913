SPECIFICATION Spec
CONSTANTS
    w1 = w1
    w2 = w2
    u1 = u1
    u2 = u2
    h1 = h1
    JobId <- MCJobs
    Created <- MCLevel
    User <- MCUsers
    Admin = {}
    NoUser = NoUser
    Worker <- MCWorkers
    Handler <- MCHandlers
    NoWorker = NoWorker
    NoJob = 0
    MaxRetries = 1
SYMMETRY MCSymmetry
INVARIANTS
    TypeOK
    ExclusiveClaim
    AtMostOnceDelivery
    VerdictsAreTrue
    RegistryExact
    TimestampsMatchStatus
    ProgressMatchesStatus
PROPERTIES
    VerdictStands
    KeepsPromise
    RowsMoveOn
    SignalWindsDown
