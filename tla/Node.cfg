SPECIFICATION MCSpec
SYMMETRY MCSymmetry
CONSTANTS
    Users = {f, u}
    Founder = f
    Invites = {i1, i2}
    Jobs = {x, y}
    Authenticators = {a1, a2}
    CredJobs = {x, y}
    MaxChallenges = 3
    MaxKeys = 1
    Grants = {g}
    Scopes = {s1, s2}
    Pendings = {p1, p2}
    ConsentJobs = {x, y}
    TargetKeys = {t1, t2}
    MaxBoots = 3
    Members = {x, y, z}
    Ttl = 2
    MaxRoots = 2
    MaxClock = 4
    Fetches = {x, y}
    FanOut = 1
    Stale = 2
    TopologyTtl = 1
    MaxTime = 4
    MaxOutages = 0
    Beats = {x, y}
    Tenants <- MCTenants
    Window = 1
    MaxMinute = 2
    Queries = {q}
    Signatures = {x, y}
    ConsentIds = {k1, k2}
    Enterprises = {"acme", "zeta"}
    OwnEnterprise = "acme"
    Groups = {"g1", "g2"}
    OwnGroup = "g1"
    Units <- MCUnits
    MaxResults = 2
    Kus = {u1, u2}
    Own = {u2}
    Siblings = {t1, t2}
    SiblingRows <- MCSiblingRows
    MaxHits = 1
    Floor = 1
    Events = {x, y, z}
    Personas = {x, y}
    Tags = {1, 2, 3}
    PageLimit = 1
    MaxStamp = 2
    Submits = {x, y, z}
    Contexts = {t1, t2}
    DedupWindow = 1
    RateWindow = 2
    MaxHour = 4
    Clients = {x, y}
    Proposals = {d1, d2}
    MaxPosts = 2
    Leaves = {d1, d2, d3, d4}
    MaxLeaves = 6
INVARIANTS
    InvitesSettle
    ChallengeSingleUse
    OneBootstrapAdmin
    RotationLands
    ViewsAreTrue
    QueriesHoldUp
    PagesAreWhole
    LimitMissedOnlyAtOnce
    KeptIsSomewhere
    RootBinds
PROPERTIES
    DisabledStaysOut
    RatifiedIsCurrent
    RevokedForGood
\* Requests, clocks and ceremonies are bounded, so each part stops.
CHECK_DEADLOCK FALSE
