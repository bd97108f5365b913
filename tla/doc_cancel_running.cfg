SPECIFICATION Spec
CONSTANTS
    w1 = w1
    w2 = w2
    u1 = u1
    u2 = u2
    h1 = h1
    JobId <- MCOneJob
    Created <- MCOneCreated
    User <- MCOneUser
    Admin = {}
    NoUser = NoUser
    Worker <- MCOneWorker
    Handler <- MCHandlers
    NoWorker = NoWorker
    NoJob = 0
    MaxRetries = 1
PROPERTY CancelReachesRunningJob
