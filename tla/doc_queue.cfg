SPECIFICATION FairSpec
CONSTANTS
    h1 = h1
    h2 = h2
    w1 = w1
    u1 = u1
    JobId <- MCJobs
    Created <- MCCreated
    User <- MCUsers
    NoUser = NoUser
    Admin <- MCUsers
    Handler <- MCHandlers
    Worker <- MCWorkers
    PoolSize = 2
    NoJob = 0
PROPERTY QueueCommandAnswers
CHECK_DEADLOCK FALSE
