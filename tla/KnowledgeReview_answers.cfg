\* Liveness: every request is answered; two units, and admins of two L2s that
\* PER_L2_ISOLATION keeps apart.
SPECIFICATION Spec
CONSTANTS
    u1 = u1
    u2 = u2
    r1 = r1
    r2 = r2
    r3 = r3
    ann = ann
    bob = bob
    Units <- MCUnits
    Requests <- MCTwoRequests
    Users <- MCUsers
    Enterprise <- MCEnterprise
    Group <- MCGroup
    PerL2Isolation = TRUE
    AutoApprove = TRUE
    ChainMayFail = TRUE
    ServerMayCrash = TRUE
    Kinds <- MCAllKinds
    InitialRows <- MCOpenRows
PROPERTIES
    EveryRequestAnswered
