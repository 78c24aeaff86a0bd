SPECIFICATION MCSpec
CONSTANTS
    L2s = {s, a, b}
    Seed = s
    MaxRestarts = 1
    MaxLost = 1
    Offers = {o1, o2}
    Announces = TRUE
    MaxAttempts = 2
    MaxFailures = 1
    MaxStarts = 1
    Phases = 2
    MaxPolls = 4
    Fetches = {f1}
    FanOut = 1
    Stale = 2
    TopologyTtl = 1
    MaxTime = 0
    MaxOutages = 2
PROPERTIES
    GossipConverges
    WithdrawalLands
    StreamAlwaysCloses
    KeyAlwaysComesBack
\* A stream closes and a key is found: those two parts stop.
CHECK_DEADLOCK FALSE
