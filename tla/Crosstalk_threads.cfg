SPECIFICATION MCSpec
CONSTANTS
    Users      <- MCUsers
    Recipients <- MCRecipients
    Admins     <- MCAdmins
    Queueing   <- MCQueueing
    Threads    <- MCThreads
    Ops        <- MCOps
    Drains     <- MCDrains
    DrainedFor <- MCDrainedFor
    Calls      <- MCCalls
    MaxAttempts = 2
    PageSize    = 1
    MaxCrashes  = 1
INVARIANTS
    NothingForgotten
    AuthorTakesPart
PROPERTIES
    OnlyShownIsRead
    QueueDrains
\* Bounded: the system stops when the last operation is settled.
CHECK_DEADLOCK FALSE
