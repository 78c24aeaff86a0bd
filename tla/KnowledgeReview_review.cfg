\* Every operation the server offers, three requests on one unit.
SPECIFICATION Spec
CONSTANTS
    u1 = u1
    u2 = u2
    r1 = r1
    r2 = r2
    r3 = r3
    ann = ann
    bob = bob
    Units <- MCOneUnit
    Requests <- MCRequests
    Users <- MCUsers
    Enterprise <- MCEnterprise
    Group <- MCGroup
    PerL2Isolation = FALSE
    AutoApprove = TRUE
    ChainMayFail = TRUE
    ServerMayCrash = TRUE
    Kinds <- MCServedKinds
    InitialRows <- MCAllRows
SYMMETRY RequestSymmetry
INVARIANTS
    TypeOK
    NoPhantomEvidence
    OneDecision
    EventMatchesRow
    NoFalseConflict
PROPERTIES
    ImplementsLifecycle
