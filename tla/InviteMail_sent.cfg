SPECIFICATION MailSpec
CONSTANTS
    InviteIds = {i1, i2}
    Window = 2
    MaxSeconds = 3
INVARIANT SentMeansSent
\* Invites and the clock are bounded.
CHECK_DEADLOCK FALSE
