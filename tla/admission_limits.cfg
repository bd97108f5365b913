SPECIFICATION Spec
CONSTANTS
    h1 = h1
    h2 = h2
    u1 = u1
    JobId <- MCJobs
    User <- MCUsers
    NoUser = NoUser
    Admin = {}
    Handler <- MCHandlers
    MaxQueued = 1
    MaxConcurrent = 1
    Quota = 2
    RetentionHours = 72
    MaxUrls = 2
SYMMETRY MCSymmetry
INVARIANTS
    TypeOK
    QueueOvershootBounded
    QuotaOvershootBounded
    BanBlocksLaterMessages
    OneMessagePerCooldown
